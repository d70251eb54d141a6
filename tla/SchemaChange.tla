---------------------------- MODULE SchemaChange ----------------------------
(***************************************************************************)
(* on_schema_change (on_schema_change.sql, impl.py, struct_utils.py): the  *)
(* table a model just built is compared with its target, and the target is *)
(* brought in line by statements that each read its schema and write it    *)
(* back, while an owner may alter it in between and any of them may fail.  *)
(*                                                                         *)
(* A schema gives every column a type: a kind, and the types of its fields *)
(* if the kind is "struct".  Kind and field type "none" stand for absence. *)
(***************************************************************************)
EXTENDS FiniteSets

CONSTANTS
  Columns,
  Fields,      \* of the struct columns
  Schemas,     \* the schemas that models build and owners give their tables
  OwnerActs    \* whether an owner alters the target meanwhile

FieldTypes == {"none", "int", "string"}
NoFields   == [f \in Fields |-> "none"]
Type       == [kind : {"none", "int", "string"}, fields : {NoFields}]
              \cup [kind : {"struct"}, fields : [Fields -> FieldTypes]]

ASSUME SchemaChangeAssumption ==
  /\ Schemas \subseteq [Columns -> Type]
  /\ OwnerActs \in BOOLEAN

VARIABLES
  policy,  \* on_schema_change: "ignore", "fail", "append" or "sync"
  source,  \* BigQuery: the schema of the table just built, of no columns if there is none
  target,  \* BigQuery: the schema of the target
  stage,   \* where process_schema_changes is
  diff,    \* schema_changes_dict: columns to add, to drop and to retype
  seen,    \* the target's schema as last fetched
  fresh,   \* its etag is still the target's
  altered  \* history: an owner altered the target

schemaVars == <<policy, source, target, stage, diff, seen, fresh, altered>>

Policies == {"ignore", "fail", "append", "sync"}
NoDiff   == [add |-> {}, drop |-> {}, retype |-> {}]
NoType   == [kind |-> "none", fields |-> NoFields]
Missing  == [c \in Columns |-> NoType]

SchemaInit ==
  /\ policy \in Policies
  /\ source = Missing /\ target \in Schemas
  /\ stage = "idle" /\ diff = NoDiff
  /\ seen = target /\ fresh = TRUE /\ altered = FALSE

-----------------------------------------------------------------------------
(* Schemas *)

Has(schema, c)       == schema[c].kind # "none"
HasField(schema, c, f) == schema[c].fields[f] # "none"
IsStruct(schema, c)  == schema[c].kind = "struct"
Named(schema)        == {c \in Columns : Has(schema, c)}

\* check_for_schema_changes looks at columns, and at the fields as part of their types.
Differences ==
  [add    |-> Named(source) \ Named(target),
   drop   |-> Named(target) \ Named(source),
   retype |-> {c \in Named(source) \cap Named(target) : source[c] # target[c]}]

\* Definitions of one schema put into another.
Replace(schema, cols, from) == [c \in Columns |-> IF c \in cols THEN from[c] ELSE schema[c]]
Without(schema, cols)       == [c \in Columns |-> IF c \in cols THEN NoType ELSE schema[c]]

\* BigQuery takes a schema that has everything the table has, and more.
Accepts(old, new) ==
  \A c \in Named(old) :
    /\ new[c].kind = old[c].kind
    /\ \A f \in Fields : HasField(old, c, f) => new[c].fields[f] = old[c].fields[f]

\* BigQuery can cast between scalars, as far as the values allow it.
Casts(from, to) == ~(from.kind = "struct" \/ to.kind = "struct")

-----------------------------------------------------------------------------
(* process_schema_changes *)

To(next) == stage' = next

\* The model is run, perhaps again on what an earlier run left, and perhaps changed since.
Build(schema) ==
  /\ stage \in {"idle", "done", "failed"}
  /\ source' = schema
  /\ To("compare") /\ diff' = NoDiff
  /\ UNCHANGED <<policy, target, seen, fresh, altered>>

Compare ==
  /\ stage = "compare"
  /\ IF policy = "ignore" THEN UNCHANGED diff /\ To("done")
     ELSE /\ diff' = Differences
          /\ IF Differences = NoDiff THEN To("done") ELSE policy # "fail" /\ To("fetch")
  /\ UNCHANGED <<policy, source, target, seen, fresh, altered>>

\* sync_struct_columns gets both tables.
Fetch ==
  /\ stage = "fetch"
  /\ seen' = target /\ fresh' = TRUE
  /\ To("structs")
  /\ UNCHANGED <<policy, source, target, diff, altered>>

\* Fields the fetched target lacks, and structs whose signature differs.
StructsToUpdate ==
  {c \in Columns : IsStruct(source, c) /\
     (c \in diff.retype \/ \E f \in Fields : HasField(source, c, f) /\ ~HasField(seen, c, f))}

\* Mutant of Handled: also structs the target does not have at all.
AllStructs == StructsToUpdate
Handled    == StructsToUpdate \cap Named(seen)

\* The whole struct is replaced by the source's, by an update that carries the etag.
UpdateStructs ==
  /\ stage = "structs"
  /\ IF Handled = {} THEN UNCHANGED <<target, diff>>
     ELSE /\ fresh
          /\ LET new == Replace(seen, Handled \cap Named(seen), source) IN
               Accepts(target, new) /\ target' = new
          /\ diff' = [diff EXCEPT !.add = @ \ Handled, !.retype = @ \ Handled]
  /\ To("alter")
  /\ UNCHANGED <<policy, source, seen, fresh, altered>>

\* sync_all_columns also removes and retypes columns.
Drops == IF policy = "sync" THEN diff.drop ELSE {}

\* Mutant of Retypes: types are changed in either mode.
RetypesAny == diff.retype
Retypes    == IF policy = "sync" THEN diff.retype ELSE {}

\* alter_table_add_remove_columns gets the table.
Alter ==
  /\ stage = "alter"
  /\ IF diff.add \cup Drops = {} THEN To("retype") /\ UNCHANGED <<seen, fresh>>
     ELSE /\ To(IF Drops = {} THEN "add" ELSE "drop")
          /\ seen' = target /\ fresh' = TRUE
  /\ UNCHANGED <<policy, source, target, diff, altered>>

\* ALTER TABLE ... DROP COLUMN, but a table keeps at least one.
Drop ==
  /\ stage = "drop" /\ Drops \subseteq Named(target) /\ Named(target) # Drops
  /\ target' = Without(target, Drops)
  /\ To("refetch")
  /\ UNCHANGED <<policy, source, diff, seen, fresh, altered>>

\* alter_table_add_remove_columns gets the table again after the drops.
Refetch ==
  /\ stage = "refetch"
  /\ seen' = target /\ fresh' = TRUE
  /\ To("add")
  /\ UNCHANGED <<policy, source, target, diff, altered>>

\* merge_nested_fields, written by an update that carries no etag.
Add ==
  /\ stage = "add"
  /\ IF diff.add = {} THEN UNCHANGED target
     ELSE LET new == Replace(seen, diff.add, source) IN
            Accepts(target, new) /\ target' = new
  /\ To("retype")
  /\ UNCHANGED <<policy, source, diff, seen, fresh, altered>>

\* alter_column_type lists the columns of the target ...
Columnize ==
  /\ stage = "retype" /\ Retypes # {}
  /\ seen' = target
  /\ To("rewrite")
  /\ UNCHANGED <<policy, source, target, diff, fresh, altered>>

\* ... and replaces the table by a query of just these.
Rewrite ==
  /\ stage = "rewrite" /\ Named(seen) \subseteq Named(target)
  /\ \E c \in Retypes :
       /\ c \in Named(seen) => Casts(target[c], source[c])
       /\ target' = Without(Replace(target, {c}, source), Columns \ Named(seen))
       /\ diff' = [diff EXCEPT !.retype = @ \ {c}]
  /\ To("retype")
  /\ UNCHANGED <<policy, source, seen, fresh, altered>>

Aligned ==
  /\ stage = "retype" /\ Retypes = {}
  /\ To("done")
  /\ UNCHANGED <<policy, source, target, diff, seen, fresh, altered>>

\* An update is refused, a statement or request fails, or the policy is "fail".
Fail ==
  /\ stage \notin {"idle", "done", "failed"}
  /\ To("failed")
  /\ UNCHANGED <<policy, source, target, diff, seen, fresh, altered>>

\* While the changes are processed; what an owner does between runs is a target to start with.
OwnerAlters ==
  /\ OwnerActs /\ ~altered /\ stage \notin {"idle", "done", "failed"}
  /\ target' \in Schemas
  /\ fresh' = FALSE /\ altered' = TRUE
  /\ UNCHANGED <<policy, source, stage, diff, seen>>

SchemaStep ==
  \/ Compare \/ Fetch \/ UpdateStructs \/ Alter \/ Drop \/ Refetch \/ Add
  \/ Columnize \/ Rewrite \/ Aligned \/ Fail

SchemaNext ==
  \/ \E schema \in Schemas \cup {Missing} : Build(schema)
  \/ SchemaStep
  \/ OwnerAlters

SchemaSpec == SchemaInit /\ [][SchemaNext]_schemaVars

-----------------------------------------------------------------------------
(* Correctness *)

SchemaTypeOK ==
  /\ policy \in Policies
  /\ {source, target, seen} \subseteq [Columns -> Type]
  /\ stage \in {"idle", "compare", "fetch", "structs", "alter", "drop", "refetch", "add", "retype",
                "rewrite", "done", "failed"}
  /\ diff \in [add : SUBSET Columns, drop : SUBSET Columns, retype : SUBSET Columns]
  /\ fresh \in BOOLEAN /\ altered \in BOOLEAN

\* append_new_columns never takes a column or field away or changes its type, neither one the
\* run compared nor one that appeared since, at any step of a run that may fail at the next.
AppendOnlyAdds ==
  [][policy = "append" /\ altered' = altered => Accepts(target, target')]_schemaVars

\* When the change is reported done and no owner interfered, a target to be synchronised is
\* the source, and one to be appended to has every column and field of the source, also after
\* runs that failed between two of the statements.
DoneMeansAligned ==
  stage = "done" /\ ~altered =>
    /\ policy \in {"fail", "sync"} => target = source
    /\ policy = "append" => \A c \in Named(source) :
         /\ Has(target, c)
         /\ IsStruct(source, c) /\ IsStruct(target, c) =>
              \A f \in Fields : HasField(source, c, f) => HasField(target, c, f)
=============================================================================
