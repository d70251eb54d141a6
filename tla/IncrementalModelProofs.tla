---------------------- MODULE IncrementalModelProofs -----------------------
(***************************************************************************)
(* Proofs about on_schema_change (SchemaChange), the incremental           *)
(* materialization (IncrementalModel) and the Python submissions it makes  *)
(* (PythonJobs), for any columns, fields, policies, projects and methods:  *)
(* a schema change aligns the columns, the composition implements it, a    *)
(* submission that is done ran its own code, and a run merges the rows of  *)
(* its own code.                                                           *)
(*                                                                         *)
(* DoneMeansAligned follows from what each stage leaves to be done: a      *)
(* column that is not in the part of diff that is still to come is as it   *)
(* shall be.                                                               *)
(***************************************************************************)
EXTENDS IncrementalModel, TLAPS

-----------------------------------------------------------------------------
(* on_schema_change by itself (SchemaChange): types *)

LEMMA NoTypes == NoType \in Type /\ Missing \in [Columns -> Type]
BY DEF NoType, Type, NoFields, FieldTypes, Missing

LEMMA AbsentIsNoType ==
  ASSUME NEW schema \in [Columns -> Type], NEW c \in Columns, ~Has(schema, c)
  PROVE  schema[c] = NoType
<1>1. schema[c] \in Type
  OBVIOUS
<1> QED
  BY <1>1 DEF Has, NoType, Type

LEMMA SchemasChanged ==
  ASSUME NEW schema \in [Columns -> Type], NEW from \in [Columns -> Type], NEW cols
  PROVE  /\ Replace(schema, cols, from) \in [Columns -> Type]
         /\ Without(schema, cols) \in [Columns -> Type]
BY NoTypes DEF Replace, Without

Diffs == [add : SUBSET Columns, drop : SUBSET Columns, retype : SUBSET Columns]

LEMMA DiffShrinks ==
  ASSUME NEW d \in Diffs, NEW cols, NEW e,
         \/ e = [d EXCEPT !.add = @ \ cols, !.retype = @ \ cols]
         \/ e = [d EXCEPT !.retype = @ \ cols]
  PROVE  /\ e \in Diffs
         /\ e.add \subseteq d.add /\ e.retype \subseteq d.retype /\ e.drop = d.drop
BY DEF Diffs

LEMMA DiffSteps ==
  ASSUME SchemaTypeOK, UpdateStructs \/ Rewrite
  PROVE  /\ diff \in Diffs /\ diff' \in Diffs
         /\ diff'.add \subseteq diff.add /\ diff'.retype \subseteq diff.retype
         /\ diff'.drop = diff.drop
<1>0. diff \in Diffs
  BY DEF SchemaTypeOK, Diffs
<1>1. CASE diff' = diff
  BY <1>0, <1>1
<1>2. ASSUME UpdateStructs, diff' # diff PROVE \E cols :
        diff' = [diff EXCEPT !.add = @ \ cols, !.retype = @ \ cols]
  BY <1>2 DEF UpdateStructs
<1>3. ASSUME Rewrite PROVE \E cols : diff' = [diff EXCEPT !.retype = @ \ cols]
  BY <1>3 DEF Rewrite
<1> QED
  BY <1>0, <1>1, <1>2, <1>3, DiffShrinks

\* Every state of a schema change is well-typed.
THEOREM SchemaTypeCorrect == SchemaSpec => []SchemaTypeOK
<1>1. SchemaInit => SchemaTypeOK
  <2> SUFFICES ASSUME SchemaInit PROVE SchemaTypeOK
    OBVIOUS
  <2>1. source \in [Columns -> Type] /\ target \in [Columns -> Type] /\ seen = target
    BY SchemaChangeAssumption, NoTypes DEF SchemaInit
  <2> QED
    BY <2>1 DEF SchemaInit, SchemaTypeOK, NoDiff
<1>2. SchemaTypeOK /\ [SchemaNext]_schemaVars => SchemaTypeOK'
  <2> SUFFICES ASSUME SchemaTypeOK, SchemaNext PROVE SchemaTypeOK'
    BY DEF SchemaTypeOK, schemaVars, Named, Has
  <2> USE DEF SchemaTypeOK, To
  <2>0. /\ source \in [Columns -> Type] /\ target \in [Columns -> Type]
        /\ seen \in [Columns -> Type] /\ diff \in Diffs
    BY DEF Diffs
  <2>1. ASSUME NEW schema \in Schemas \cup {Missing}, Build(schema) PROVE SchemaTypeOK'
    <3>1. schema \in [Columns -> Type]
      BY SchemaChangeAssumption, NoTypes
    <3> QED
      BY <2>1, <3>1 DEF Build, NoDiff
  <2>2. CASE Compare
    BY <2>2 DEF Compare, Differences, Named
  <2>3. CASE Fetch \/ Columnize
    BY <2>3 DEF Fetch, Columnize
  <2>4. CASE UpdateStructs
    <3>1. target' \in [Columns -> Type]
      BY <2>4, <2>0, SchemasChanged DEF UpdateStructs
    <3>2. diff' \in Diffs
      BY <2>4, DiffSteps
    <3> QED
      BY <2>4, <3>1, <3>2 DEF UpdateStructs, Diffs
  <2>5. CASE Alter \/ Refetch
    BY <2>5 DEF Alter, Refetch
  <2>6. CASE Drop
    BY <2>6, <2>0, SchemasChanged DEF Drop
  <2>7. CASE Add
    BY <2>7, <2>0, SchemasChanged DEF Add
  <2>8. CASE Rewrite
    <3>1. target' \in [Columns -> Type]
      <4>1. PICK c : target' = Without(Replace(target, {c}, source), Columns \ Named(seen))
        BY <2>8 DEF Rewrite
      <4>2. Replace(target, {c}, source) \in [Columns -> Type]
        BY <2>0, SchemasChanged
      <4> QED
        BY <2>0, <4>1, <4>2, SchemasChanged
    <3>2. diff' \in Diffs
      BY <2>8, DiffSteps
    <3> QED
      BY <2>8, <3>1, <3>2 DEF Rewrite, Diffs
  <2>9. CASE Aligned \/ Fail
    BY <2>9 DEF Aligned, Fail
  <2>10. CASE OwnerAlters
    BY <2>10, SchemaChangeAssumption DEF OwnerAlters
  <2> QED
    BY <2>1, <2>2, <2>3, <2>4, <2>5, <2>6, <2>7, <2>8, <2>9, <2>10 DEF SchemaNext, SchemaStep
<1> QED
  BY <1>1, <1>2, PTL DEF SchemaSpec

-----------------------------------------------------------------------------
(* Nothing is taken away in append mode *)

LEMMA AcceptsItself ==
  ASSUME NEW old, NEW new, \A c \in Columns : new[c] = old[c]
  PROVE  Accepts(old, new)
BY DEF Accepts, Named, Has, HasField

\* In append mode no step of the run takes a column or a field from the target or changes its
\* type, also if an owner has altered the target before: no step but the owner's.
THEOREM AppendsOnlyAdd == SchemaSpec => AppendOnlyAdds
<1>1. SchemaTypeOK /\ [SchemaNext]_schemaVars =>
        [policy = "append" /\ altered' = altered => Accepts(target, target')]_schemaVars
  <2> SUFFICES ASSUME SchemaTypeOK, SchemaNext, policy = "append", altered' = altered
               PROVE  Accepts(target, target')
    OBVIOUS
  <2>1. CASE UNCHANGED target
    BY <2>1, AcceptsItself
  <2>2. CASE UpdateStructs \/ Add
    BY <2>1, <2>2 DEF UpdateStructs, Add
  <2>3. CASE Drop
    <3>1. \A c \in Columns : target'[c] = target[c]
      BY <2>3 DEF Drop, Drops, Without
    <3> QED
      BY <3>1, AcceptsItself
  <2>4. ~Rewrite
    BY DEF Rewrite, Retypes
  <2>5. ~OwnerAlters
    BY DEF OwnerAlters
  <2> QED
    BY <2>1, <2>2, <2>3, <2>4, <2>5
    DEF SchemaNext, SchemaStep, Build, Compare, Fetch, Alter, Refetch, Columnize, Aligned, Fail
<1> QED
  BY <1>1, SchemaTypeCorrect, PTL DEF SchemaSpec, AppendOnlyAdds

-----------------------------------------------------------------------------
(* A change that is done is complete *)

Working == {"fetch", "structs", "alter", "drop", "refetch", "add", "retype", "rewrite"}

\* What a change consists of, whatever an owner does.
DiffInv ==
  stage \in Working =>
    /\ policy \in {"append", "sync"}
    /\ diff.add \subseteq Named(source)
    /\ diff.drop \cap Named(source) = {}
    /\ diff.retype \subseteq Named(source)

\* Between the fetch of a schema and the statement that relies on it nobody changes it.
SeenInv == stage \in {"structs", "add", "rewrite"} => seen = target

\* What is still to come of a change when all of its columns are to be synchronised.
ToCome ==
  CASE stage \in {"fetch", "structs", "alter", "drop"} -> diff.add \cup diff.drop \cup diff.retype
    [] stage \in {"refetch", "add"}                    -> diff.add \cup diff.retype
    [] stage \in {"retype", "rewrite"}                 -> diff.retype
    [] OTHER                                           -> {}

SyncInv ==
  policy = "sync" /\ stage \in Working =>
    /\ diff.retype \subseteq Named(target)
    /\ \A c \in Columns \ ToCome : target[c] = source[c]

\* The target has the column with all fields of the source's.
Covered(c) ==
  /\ Has(target, c)
  /\ IsStruct(source, c) /\ IsStruct(target, c) =>
       \A f \in Fields : HasField(source, c, f) => HasField(target, c, f)

AppendInv ==
  policy = "append" /\ stage \in Working => \A c \in Named(source) :
    \/ Has(target, c) /\ stage \in {"fetch", "structs"}
    \/ c \in diff.add /\ stage \notin {"retype", "rewrite"}
    \/ Covered(c)

AlignInv == ~altered => SeenInv /\ SyncInv /\ AppendInv /\ DoneMeansAligned

LEMMA NoDifference ==
  ASSUME SchemaTypeOK
  PROVE  /\ \A c \in Columns \ (Differences.add \cup Differences.drop \cup Differences.retype) :
              target[c] = source[c]
         /\ Differences = NoDiff => target = source
<1>0. target \in [Columns -> Type] /\ source \in [Columns -> Type]
  BY DEF SchemaTypeOK
<1>1. ASSUME NEW c \in Columns,
             c \notin Differences.add \cup Differences.drop \cup Differences.retype
      PROVE  target[c] = source[c]
  <2>1. CASE c \in Named(source) \cap Named(target)
    BY <1>1, <2>1 DEF Differences
  <2>2. CASE c \notin Named(source) /\ c \notin Named(target)
    BY <1>0, <2>2, AbsentIsNoType DEF Named
  <2> QED
    BY <1>1, <2>1, <2>2 DEF Differences
<1>2. ASSUME Differences = NoDiff PROVE target = source
  <2>1. \A c \in Columns : target[c] = source[c]
    BY <1>1, <1>2 DEF NoDiff
  <2> QED
    BY <1>0, <2>1
<1> QED
  BY <1>1, <1>2

LEMMA DiffStep ==
  ASSUME SchemaTypeOK, SchemaNext, DiffInv PROVE DiffInv'
<1> USE DEF DiffInv, Working, To, Named, Has
<1>1. CASE \E schema \in Schemas \cup {Missing} : Build(schema)
  BY <1>1 DEF Build
<1>2. CASE Compare
  BY <1>2 DEF Compare, Differences, SchemaTypeOK, Policies
<1>3. CASE UpdateStructs
  BY <1>3, DiffSteps DEF UpdateStructs
<1>4. CASE Rewrite
  BY <1>4, DiffSteps DEF Rewrite
<1>5. CASE Fetch \/ Alter \/ Drop \/ Refetch \/ Add \/ Columnize \/ Aligned \/ Fail \/ OwnerAlters
  BY <1>5 DEF Fetch, Alter, Drop, Refetch, Add, Columnize, Aligned, Fail, OwnerAlters
<1> QED
  BY <1>1, <1>2, <1>3, <1>4, <1>5 DEF SchemaNext, SchemaStep

LEMMA AlignStep ==
  ASSUME SchemaTypeOK, SchemaTypeOK', SchemaNext, DiffInv, AlignInv PROVE AlignInv'
<1> SUFFICES ASSUME ~altered, ~altered'
             PROVE  (SeenInv /\ SyncInv /\ AppendInv /\ DoneMeansAligned)'
  BY DEF AlignInv, SchemaNext, SchemaStep, Build, Compare, Fetch, UpdateStructs, Alter, Drop,
         Refetch, Add, Columnize, Rewrite, Aligned, Fail, OwnerAlters
<1>0. /\ SeenInv /\ SyncInv /\ AppendInv /\ DoneMeansAligned
      /\ target \in [Columns -> Type] /\ source \in [Columns -> Type] /\ seen \in [Columns -> Type]
      /\ policy \in Policies
  BY DEF AlignInv, SchemaTypeOK
<1> USE DEF To
<1>1. ASSUME NEW schema \in Schemas \cup {Missing}, Build(schema)
      PROVE  (SeenInv /\ SyncInv /\ AppendInv /\ DoneMeansAligned)'
  BY <1>1 DEF Build, SeenInv, SyncInv, AppendInv, DoneMeansAligned, Working
<1>2. CASE Compare
  <2>1. SeenInv'
    BY <1>2 DEF Compare, SeenInv
  <2>2. SyncInv'
    <3>1. CASE stage' = "done"
      BY <3>1 DEF SyncInv, Working
    <3>2. CASE stage' = "fetch"
      <4>1. diff' = Differences /\ target' = target /\ source' = source
        BY <1>2, <3>2 DEF Compare
      <4>2. ToCome' = Differences.add \cup Differences.drop \cup Differences.retype
        BY <3>2, <4>1 DEF ToCome
      <4>3. Differences.retype \subseteq Named(target)
        BY DEF Differences
      <4> QED
        BY <4>1, <4>2, <4>3, NoDifference DEF SyncInv, Named, Has
    <3> QED
      BY <1>2, <3>1, <3>2 DEF Compare
  <2>3. AppendInv'
    BY <1>2 DEF Compare, AppendInv, Differences, Named, Has, Working, Covered, IsStruct, HasField
  <2>4. DoneMeansAligned'
    <3> SUFFICES ASSUME stage' = "done", policy # "ignore" PROVE DoneMeansAligned'
      BY <1>2 DEF Compare, DoneMeansAligned
    <3>1. target = source /\ target' = target /\ source' = source
      BY <1>2, NoDifference DEF Compare
    <3> QED
      BY <3>1 DEF DoneMeansAligned, Named, Has, IsStruct, HasField
  <2> QED
    BY <2>1, <2>2, <2>3, <2>4
<1>3. CASE Fetch
  BY <1>0, <1>3 DEF Fetch, SeenInv, SyncInv, AppendInv, DoneMeansAligned, Working, ToCome, Named,
                    Has, Covered, IsStruct, HasField
<1>4. CASE UpdateStructs
  <2>1. /\ stage = "structs" /\ stage' = "alter" /\ seen = target
        /\ source' = source /\ policy' = policy
    BY <1>0, <1>4 DEF UpdateStructs, SeenInv
  <2>2. /\ \A c \in Columns : target'[c] = IF c \in Handled THEN source[c] ELSE target[c]
        /\ diff'.add = diff.add \ Handled /\ diff'.retype = diff.retype \ Handled
        /\ diff'.drop = diff.drop
    <3>1. CASE Handled = {}
      BY <1>4, <3>1 DEF UpdateStructs
    <3>2. CASE Handled # {}
      BY <1>4, <3>2, <2>1 DEF UpdateStructs, Replace, Handled, SchemaTypeOK
    <3> QED
      BY <3>1, <3>2
  <2>3. SyncInv'
    <3> SUFFICES ASSUME policy = "sync" PROVE SyncInv'
      BY <2>1 DEF SyncInv
    <3>0. /\ ToCome = diff.add \cup diff.drop \cup diff.retype
          /\ ToCome' = diff'.add \cup diff'.drop \cup diff'.retype
          /\ diff.retype \subseteq Named(source) /\ diff.retype \subseteq Named(target)
          /\ \A c \in Columns \ ToCome : target[c] = source[c]
      BY <1>0, <2>1 DEF SyncInv, DiffInv, Working, ToCome
    <3>1. (diff.retype \subseteq Named(target))'
      BY <2>1, <2>2, <3>0 DEF Named, Has
    <3>2. ASSUME NEW c \in Columns, c \notin ToCome' PROVE target'[c] = source'[c]
      <4>1. CASE c \in Handled
        BY <2>1, <2>2, <4>1
      <4>2. CASE c \notin Handled
        <5>1. c \notin ToCome
          BY <2>2, <3>0, <3>2, <4>2
        <5> QED
          BY <2>1, <2>2, <3>0, <4>2, <5>1
      <4> QED
        BY <4>1, <4>2
    <3> QED
      BY <3>1, <3>2 DEF SyncInv
  <2>4. AppendInv'
    <3> SUFFICES ASSUME policy = "append", NEW c \in Named(source)
                 PROVE  c \in diff'.add \/ Covered(c)'
      BY <2>1 DEF AppendInv, Working, Named, Has
    <3>0. c \in Columns /\ Has(source, c)
      BY DEF Named
    <3>1. CASE c \in Handled
      <4>1. target'[c] = source[c]
        BY <2>2, <3>0, <3>1
      <4> QED
        BY <2>1, <3>0, <4>1 DEF Covered, Has, IsStruct, HasField
    <3>2. CASE c \notin Handled /\ c \in diff.add
      BY <2>2, <3>2
    <3>3. CASE c \notin Handled /\ c \notin diff.add
      <4>1. target'[c] = target[c]
        BY <2>2, <3>0, <3>3
      <4>2. Has(target, c)
        BY <1>0, <2>1, <3>3 DEF AppendInv, Working, Covered
      <4>3. IsStruct(source, c) => c \notin StructsToUpdate
        BY <2>1, <3>0, <3>3, <4>2 DEF Handled, Named
      <4>4. IsStruct(source, c) => \A f \in Fields : HasField(source, c, f) => HasField(seen, c, f)
        BY <3>0, <4>3 DEF StructsToUpdate
      <4> QED
        BY <2>1, <4>1, <4>2, <4>4 DEF Covered, Has, IsStruct, HasField
    <3> QED
      BY <3>1, <3>2, <3>3
  <2> QED
    BY <2>1, <2>3, <2>4 DEF SeenInv, DoneMeansAligned
<1>5. CASE Alter
  <2>1. /\ stage = "alter" /\ stage' \in {"retype", "add", "drop"}
        /\ UNCHANGED <<policy, source, target, diff>>
        /\ stage' = "add" => seen' = target'
        /\ stage' \in {"retype", "add"} => Drops = {}
        /\ stage' = "retype" => diff.add = {}
    BY <1>5 DEF Alter
  <2>2. SyncInv'
    BY <1>0, <2>1 DEF SyncInv, ToCome, Working, Named, Has, Drops
  <2>3. AppendInv'
    BY <1>0, <2>1 DEF AppendInv, Working, Named, Has, Covered, IsStruct, HasField
  <2> QED
    BY <2>1, <2>2, <2>3 DEF SeenInv, DoneMeansAligned
<1>6. CASE Drop
  <2>1. /\ stage = "drop" /\ stage' = "refetch" /\ UNCHANGED <<policy, source, diff, seen>>
        /\ \A c \in Columns : target'[c] = IF c \in Drops THEN NoType ELSE target[c]
    BY <1>6 DEF Drop, Without
  <2>2. diff.drop \cap Named(source) = {} /\ diff.retype \subseteq Named(source)
    BY <2>1 DEF DiffInv, Working
  <2>3. SyncInv'
    <3> SUFFICES ASSUME policy = "sync" PROVE SyncInv'
      BY <2>1 DEF SyncInv
    <3>0. /\ Drops = diff.drop
          /\ ToCome = diff.add \cup diff.drop \cup diff.retype
          /\ ToCome' = diff.add \cup diff.retype
          /\ diff.retype \subseteq Named(target)
          /\ \A c \in Columns \ ToCome : target[c] = source[c]
      BY <1>0, <2>1 DEF SyncInv, Working, ToCome, Drops
    <3>1. (diff.retype \subseteq Named(target))'
      BY <2>1, <2>2, <3>0 DEF Named, Has
    <3>2. ASSUME NEW c \in Columns, c \in diff.drop PROVE source[c] = NoType
      BY <1>0, <2>2, <3>2, AbsentIsNoType DEF Named
    <3>3. ASSUME NEW c \in Columns, c \notin ToCome' PROVE target'[c] = source'[c]
      BY <2>1, <3>0, <3>2, <3>3
    <3> QED
      BY <3>1, <3>3 DEF SyncInv
  <2>4. AppendInv'
    <3> SUFFICES ASSUME policy = "append" PROVE AppendInv'
      BY <2>1 DEF AppendInv
    <3>1. \A c \in Columns : target'[c] = target[c]
      BY <2>1 DEF Drops
    <3> QED
      BY <1>0, <2>1, <3>1 DEF AppendInv, Working, Named, Has, Covered, IsStruct, HasField
  <2> QED
    BY <2>1, <2>3, <2>4 DEF SeenInv, DoneMeansAligned
<1>7. CASE Refetch
  <2>1. stage = "refetch" /\ stage' = "add" /\ seen' = target' /\ UNCHANGED <<policy, source, target, diff>>
    BY <1>7 DEF Refetch
  <2>2. SyncInv'
    BY <1>0, <2>1 DEF SyncInv, ToCome, Working, Named, Has
  <2>3. AppendInv'
    BY <1>0, <2>1 DEF AppendInv, Working, Named, Has, Covered, IsStruct, HasField
  <2> QED
    BY <2>1, <2>2, <2>3 DEF SeenInv, DoneMeansAligned
<1>8. CASE Add
  <2>1. /\ stage = "add" /\ stage' = "retype" /\ seen = target
        /\ UNCHANGED <<policy, source, diff>>
    BY <1>0, <1>8 DEF Add, SeenInv
  <2>2. \A c \in Columns : target'[c] = IF c \in diff.add THEN source[c] ELSE target[c]
    <3>1. CASE diff.add = {}
      BY <1>8, <3>1 DEF Add
    <3>2. CASE diff.add # {}
      BY <1>8, <2>1, <3>2 DEF Add, Replace
    <3> QED
      BY <3>1, <3>2
  <2>3. diff.add \subseteq Named(source) /\ diff.retype \subseteq Named(source)
    BY <2>1 DEF DiffInv, Working
  <2>4. SyncInv'
    <3> SUFFICES ASSUME policy = "sync" PROVE SyncInv'
      BY <2>1 DEF SyncInv
    <3>0. /\ ToCome = diff.add \cup diff.retype /\ ToCome' = diff.retype
          /\ diff.retype \subseteq Named(target)
          /\ \A c \in Columns \ ToCome : target[c] = source[c]
      BY <1>0, <2>1 DEF SyncInv, Working, ToCome
    <3>1. (diff.retype \subseteq Named(target))'
      BY <2>1, <2>2, <2>3, <3>0 DEF Named, Has
    <3>3. ASSUME NEW c \in Columns, c \notin ToCome' PROVE target'[c] = source'[c]
      BY <2>1, <2>2, <3>0, <3>3
    <3> QED
      BY <3>1, <3>3 DEF SyncInv
  <2>5. AppendInv'
    <3> SUFFICES ASSUME policy = "append", NEW c \in Named(source) PROVE Covered(c)'
      BY <2>1 DEF AppendInv, Working, Named, Has
    <3>0. c \in Columns /\ Has(source, c)
      BY DEF Named
    <3>1. CASE c \in diff.add
      BY <2>1, <2>2, <3>0, <3>1 DEF Covered, Has, IsStruct, HasField
    <3>2. CASE c \notin diff.add
      <4>1. Covered(c) /\ target'[c] = target[c]
        BY <1>0, <2>1, <2>2, <3>0, <3>2 DEF AppendInv, Working
      <4> QED
        BY <2>1, <4>1 DEF Covered, Has, IsStruct, HasField
    <3> QED
      BY <3>1, <3>2
  <2> QED
    BY <2>1, <2>4, <2>5 DEF SeenInv, DoneMeansAligned
<1>9. CASE Columnize
  <2>1. /\ stage = "retype" /\ stage' = "rewrite" /\ seen' = target'
        /\ UNCHANGED <<policy, source, target, diff>>
    BY <1>9 DEF Columnize
  <2>2. SyncInv'
    BY <1>0, <2>1 DEF SyncInv, ToCome, Working, Named, Has
  <2>3. AppendInv'
    BY <1>0, <2>1 DEF AppendInv, Working, Named, Has, Covered, IsStruct, HasField
  <2> QED
    BY <2>1, <2>2, <2>3 DEF SeenInv, DoneMeansAligned
<1>10. CASE Rewrite
  <2>1. /\ stage = "rewrite" /\ stage' = "retype" /\ seen = target /\ policy = "sync"
        /\ UNCHANGED <<policy, source, seen>>
    BY <1>0, <1>10 DEF Rewrite, SeenInv, Retypes
  <2>2. PICK c \in diff.retype :
          /\ target' = Without(Replace(target, {c}, source), Columns \ Named(seen))
          /\ diff'.retype = diff.retype \ {c}
    BY <1>10, <2>1 DEF Rewrite, Retypes, SchemaTypeOK
  <2>3. /\ c \in Columns /\ diff.retype \subseteq Named(source) /\ diff.retype \subseteq Named(target)
        /\ ToCome = diff.retype /\ ToCome' = diff.retype \ {c}
        /\ \A d \in Columns \ ToCome : target[d] = source[d]
    BY <1>0, <2>1, <2>2 DEF DiffInv, SyncInv, Working, ToCome, SchemaTypeOK
  <2>4. ASSUME NEW d \in Columns
        PROVE  target'[d] = IF d = c THEN source[d] ELSE target[d]
    <3>1. CASE d \in Named(target)
      BY <2>1, <2>2, <3>1 DEF Without, Replace
    <3>2. CASE d \notin Named(target)
      <4>1. target[d] = NoType
        BY <1>0, <3>2, AbsentIsNoType DEF Named
      <4>2. d # c
        BY <2>3, <3>2
      <4> QED
        BY <2>1, <2>2, <3>2, <4>1, <4>2 DEF Without
    <3> QED
      BY <3>1, <3>2
  <2>5. (diff.retype \subseteq Named(target))'
    BY <2>1, <2>2, <2>3, <2>4 DEF Named, Has
  <2>6. ASSUME NEW d \in Columns, d \notin ToCome' PROVE target'[d] = source'[d]
    BY <2>1, <2>3, <2>4, <2>6
  <2> QED
    BY <2>1, <2>5, <2>6 DEF SeenInv, SyncInv, AppendInv, DoneMeansAligned
<1>11. CASE Aligned
  <2>1. stage = "retype" /\ stage' = "done" /\ Retypes = {} /\ UNCHANGED <<policy, source, target>>
    BY <1>11 DEF Aligned
  <2>2. policy \in {"append", "sync"}
    BY <2>1 DEF DiffInv, Working
  <2>3. policy = "sync" => target = source
    <3> SUFFICES ASSUME policy = "sync" PROVE target = source
      OBVIOUS
    <3>1. \A c \in Columns : target[c] = source[c]
      BY <1>0, <2>1 DEF SyncInv, ToCome, Working, Retypes
    <3> QED
      BY <1>0, <3>1
  <2>4. policy = "append" => \A c \in Named(source) : Covered(c)
    BY <1>0, <2>1 DEF AppendInv, Working
  <2> QED
    BY <2>1, <2>2, <2>3, <2>4
    DEF SeenInv, SyncInv, AppendInv, DoneMeansAligned, Working, Covered, Named, Has, IsStruct,
        HasField
<1>12. CASE Fail
  BY <1>12 DEF Fail, SeenInv, SyncInv, AppendInv, DoneMeansAligned, Working
<1>13. ~OwnerAlters
  BY DEF OwnerAlters
<1> QED
  BY <1>1, <1>2, <1>3, <1>4, <1>5, <1>6, <1>7, <1>8, <1>9, <1>10, <1>11, <1>12, <1>13
  DEF SchemaNext, SchemaStep

\* When the change is reported done and no owner interfered, a target that is synchronised is
\* the source, and one that is appended to has all of the source, whichever runs failed before.
THEOREM DoneIsAligned == SchemaSpec => []DoneMeansAligned
<1>1. SchemaInit => DiffInv /\ AlignInv
  BY DEF SchemaInit, DiffInv, AlignInv, SeenInv, SyncInv, AppendInv, DoneMeansAligned, Working
<1>2. SchemaTypeOK /\ SchemaTypeOK' /\ DiffInv /\ AlignInv /\ [SchemaNext]_schemaVars
        => DiffInv' /\ AlignInv'
  <2> SUFFICES ASSUME SchemaTypeOK, SchemaTypeOK', DiffInv, AlignInv, [SchemaNext]_schemaVars
               PROVE  DiffInv' /\ AlignInv'
    OBVIOUS
  <2>1. CASE SchemaNext
    BY <2>1, DiffStep, AlignStep
  <2>2. CASE UNCHANGED schemaVars
    BY <2>2 DEF schemaVars, DiffInv, AlignInv, SeenInv, SyncInv, ToCome, AppendInv, Covered,
                DoneMeansAligned, Named, Has, IsStruct, HasField
  <2> QED
    BY <2>1, <2>2
<1>3. AlignInv => DoneMeansAligned
  BY DEF AlignInv, DoneMeansAligned
<1> QED
  BY <1>1, <1>2, <1>3, SchemaTypeCorrect, PTL DEF SchemaSpec

-----------------------------------------------------------------------------
(* The schema change in the materialization *)

Resting == {"idle", "done", "failed"}

\* One run at a time changes a schema, and process_schema_changes is at work while it does.
ChangesInv ==
  /\ node \in [Mine -> {"idle", "build", "changes", "merge", "drop"} \cup NodeEnded]
  /\ \A a \in Mine : node[a] = "changes" => stage \notin Resting
  /\ \A a, b \in Mine : node[a] = "changes" /\ node[b] = "changes" => a = b

LEMMA SchemaStepRests ==
  ASSUME SchemaStep PROVE stage \notin Resting /\ stage' # "idle"
BY DEF SchemaStep, Compare, Fetch, UpdateStructs, Alter, Drop, Refetch, Add, Columnize, Rewrite,
       Aligned, Fail, To, Resting

LEMMA ChangesStep ==
  ASSUME ChangesInv, [IMNext]_imVars PROVE ChangesInv' /\ [SchemaNext]_schemaVars
<1> USE DEF ChangesInv, NodeIs, NodeEnded
<1>1. CASE UNCHANGED imVars
  BY <1>1 DEF imVars, nodeVars, schemaVars
<1>2. CASE UNCHANGED <<schemaVars, node>>
  BY <1>2 DEF schemaVars
<1>3. ASSUME NEW a \in Mine, NEW to \in {"build", "merge", "drop", "done", "failed"},
             node' = [node EXCEPT ![a] = to], UNCHANGED schemaVars
      PROVE  ChangesInv' /\ [SchemaNext]_schemaVars
  BY <1>3 DEF schemaVars
<1>4. ASSUME NEW a \in Mine, NEW schema \in Schemas \cup {Missing}, Build(schema),
             NodeIs(a, "changes")
      PROVE  ChangesInv' /\ [SchemaNext]_schemaVars
  <2>1. stage \in Resting /\ stage' = "compare"
    BY <1>4 DEF Build, To, Resting
  <2>2. ChangesInv'
    BY <1>4, <2>1 DEF Resting
  <2> QED
    BY <1>4, <2>2 DEF SchemaNext
<1>5. ASSUME NEW a \in Mine, Changes(a) PROVE ChangesInv' /\ [SchemaNext]_schemaVars
  <2>1. SchemaStep /\ node[a] = "changes" /\ stage' # "idle"
    BY <1>5, SchemaStepRests DEF Changes
  <2>2. CASE stage' = "done"
    BY <1>5, <2>1, <2>2 DEF Changes, SchemaNext
  <2>3. CASE stage' = "failed"
    BY <1>5, <2>1, <2>3 DEF Changes, SchemaNext
  <2>4. CASE stage' \notin {"done", "failed"}
    BY <1>5, <2>1, <2>4 DEF Changes, SchemaNext, Resting
  <2> QED
    BY <2>2, <2>3, <2>4
<1>6. ASSUME NEW a \in Mine, NodeFails(a) PROVE ChangesInv' /\ [SchemaNext]_schemaVars
  <2>1. CASE node[a] = "changes"
    <3>1. Fail
      BY <1>6, <2>1 DEF NodeFails, Fail, To, Resting
    <3>2. ChangesInv'
      BY <1>6, <2>1 DEF NodeFails
    <3> QED
      BY <3>1, <3>2 DEF SchemaNext, SchemaStep
  <2>2. CASE node[a] # "changes"
    BY <1>6, <2>2 DEF NodeFails, schemaVars
  <2> QED
    BY <2>1, <2>2
<1>7. CASE OwnerAlters /\ UNCHANGED nodeVars
  BY <1>7 DEF OwnerAlters, nodeVars, SchemaNext
<1>8. ASSUME NEW a \in Mine, RunNode(a) \/ BuildFails(a) \/ Merge(a) \/ DropTmp(a)
      PROVE  ChangesInv' /\ [SchemaNext]_schemaVars
  <2>1. \E to \in {"build", "drop", "done", "failed"} : node' = [node EXCEPT ![a] = to]
    BY <1>8 DEF RunNode, BuildFails, Merge, DropTmp
  <2>2. UNCHANGED schemaVars
    BY <1>8 DEF RunNode, BuildFails, Merge, DropTmp
  <2> QED
    BY <1>3, <2>1, <2>2
<1>9. ASSUME NEW a \in Mine, BuildSql(a) \/ BuiltByPython(a)
      PROVE  ChangesInv' /\ [SchemaNext]_schemaVars
  <2>1. \/ \E from : Compares(a, from)
        \/ NodeIs(a, "failed") /\ UNCHANGED schemaVars
    BY <1>9 DEF BuildSql, BuiltByPython
  <2> QED
    BY <1>3, <1>4, <2>1 DEF Compares
<1>10. ASSUME NEW a \in Attempts, Submits(a) \/ JobWrites(a)
       PROVE  UNCHANGED <<schemaVars, node>>
  BY <1>10 DEF Submits, JobWrites, nodeVars
<1> QED
  BY <1>1, <1>2, <1>5, <1>6, <1>7, <1>8, <1>9, <1>10 DEF IMNext, NodeStep, nodeVars

\* The composition implements SchemaChange: whatever attempts, submissions and failures there
\* are around it, what happens to the target is a behaviour of process_schema_changes.
THEOREM ModelsChangeSchemas == IMSpec => SchemaSpec
<1>1. IMInit => SchemaInit /\ ChangesInv
  BY DEF IMInit, ChangesInv, NodeEnded
<1>2. ChangesInv /\ [IMNext]_imVars => ChangesInv' /\ [SchemaNext]_schemaVars
  BY ChangesStep
<1> QED
  BY <1>1, <1>2, PTL DEF IMSpec, SchemaSpec

\* So what is proved of SchemaChange holds in the materialization.
THEOREM ModelsAlign == IMSpec => []DoneMeansAligned /\ AppendOnlyAdds /\ []SchemaTypeOK
BY ModelsChangeSchemas, DoneIsAligned, AppendsOnlyAdd, SchemaTypeCorrect, PTL

-----------------------------------------------------------------------------
(* Types *)

\* PyTypeOK but for the schema, and the types of the materialization.
NodeTypeOK ==
  /\ language \in {"sql", "python"}
  /\ node \in [Mine -> {"idle", "build", "changes", "merge", "drop"} \cup NodeEnded]
  /\ tmp \in [{TmpOf(a) : a \in Attempts} -> Attempts \cup {None}]
  /\ merged \in [Mine -> Attempts \cup {None}]

Runs == [state : {"none", "pending", "running"} \cup JobEnded, code : Attempts \cup {None}]

LEMMA StateSet ==
  ASSUME PyTypeOK, NEW a \in Attempts, NEW s \in {"none", "pending", "running"} \cup JobEnded,
         run' = [run EXCEPT ![a].state = s]
  PROVE  /\ run' \in [Attempts -> Runs]
         /\ run'[a].state = s /\ run'[a].code = run[a].code
         /\ \A b \in Attempts \ {a} : run'[b] = run[b]
<1>1. run \in [Attempts -> Runs]
  BY DEF PyTypeOK, Runs
<1>2. run'[a] = [run[a] EXCEPT !.state = s] /\ \A b \in Attempts \ {a} : run'[b] = run[b]
  BY <1>1
<1>3. run' = [b \in Attempts |-> run'[b]]
  BY <1>1
<1>4. run[a] \in Runs
  BY <1>1
<1>5. run'[a] \in Runs /\ run'[a].state = s /\ run'[a].code = run[a].code
  BY <1>2, <1>4 DEF Runs
<1>6. \A b \in Attempts : run'[b] \in Runs
  BY <1>1, <1>2, <1>5
<1> QED
  BY <1>2, <1>3, <1>5, <1>6

LEMMA PollTypes ==
  ASSUME PyTypeOK, NEW a \in Attempts, Poll(a)
  PROVE  /\ elapsed' \in [Attempts -> 0..Deadline]
         /\ \/ \E to \in {"report", "failed"} : Gets(a, to)
            \/ UNCHANGED submit
<1>1. elapsed \in [Attempts -> 0..Deadline] /\ Deadline \in Nat
  BY PythonJobsAssumption DEF PyTypeOK
<1>2. elapsed[a] \in 0..Deadline
  BY <1>1
<1>3. \/ \E to \in {"report", "failed"} : Gets(a, to) /\ UNCHANGED elapsed
      \/ ~TimeUp(a) /\ elapsed' = [elapsed EXCEPT ![a] = Polled(a)] /\ UNCHANGED submit
  BY DEF Poll
<1>4. ~TimeUp(a) => Polled(a) \in 0..Deadline
  BY <1>1, <1>2 DEF TimeUp, Polled
<1> QED
  BY <1>1, <1>3, <1>4

LEMMA PyTypes ==
  ASSUME PyTypeOK, NEW a \in Attempts,
         Submission(a) \/ SubmitStep(a) \/ Stops(a) \/ JobStarts(a) \/ JobEnds(a)
  PROVE  PyTypeOK'
<1> USE DEF PyTypeOK, Gets, Over, JobEnded
<1>0. Deadline \in Nat /\ File(Model(a)) \in Files
  BY PythonJobsAssumption DEF Files
<1>1. CASE Submission(a)
  BY <1>1 DEF Submission
<1>2. CASE FindTemplate(a)
  BY <1>2 DEF FindTemplate
<1>3. CASE NewTemplate(a)
  BY <1>3 DEF NewTemplate
<1>4. CASE WriteCode(a)
  BY <1>0, <1>4 DEF WriteCode, Written
<1>5. CASE CreateJob(a)
  <2>1. run' = [run EXCEPT ![a].state = "pending"]
    BY <1>5 DEF CreateJob
  <2>2. run' \in [Attempts -> Runs]
    BY <2>1, StateSet
  <2> QED
    BY <1>5, <2>2 DEF CreateJob, Runs
<1>6. CASE Refused(a)
  BY <1>6 DEF Refused
<1>7. CASE Poll(a)
  BY <1>7, PollTypes DEF Poll
<1>8. CASE Report(a)
  BY <1>8 DEF Report
<1>9. CASE Stops(a)
  BY <1>9 DEF Stops
<1>10. CASE JobStarts(a)
  BY <1>0, <1>10 DEF JobStarts
<1>11. CASE JobEnds(a)
  <2>1. \E s \in JobEnded : run' = [run EXCEPT ![a].state = s]
    BY <1>11 DEF JobEnds
  <2>2. run' \in [Attempts -> Runs]
    BY <2>1, StateSet
  <2> QED
    BY <1>11, <2>2 DEF JobEnds, Runs
<1> QED
  BY <1>1, <1>2, <1>3, <1>4, <1>5, <1>6, <1>7, <1>8, <1>9, <1>10, <1>11 DEF SubmitStep

LEMMA NodeTypes ==
  ASSUME PyTypeOK, NodeTypeOK, [IMNext]_imVars PROVE PyTypeOK' /\ NodeTypeOK'
<1> USE DEF NodeTypeOK, NodeIs, NodeEnded
<1>1. CASE UNCHANGED <<pyVars, nodeVars>>
  BY <1>1 DEF pyVars, nodeVars, PyTypeOK
<1>2. ASSUME NEW a \in Attempts,
             Submission(a) \/ SubmitStep(a) \/ Stops(a) \/ JobStarts(a), UNCHANGED nodeVars
      PROVE  PyTypeOK' /\ NodeTypeOK'
  BY <1>2, PyTypes DEF nodeVars
<1>3. ASSUME NEW a \in Attempts, JobWrites(a) PROVE PyTypeOK' /\ NodeTypeOK'
  <2>1. PyTypeOK'
    BY <1>3, PyTypes DEF JobWrites
  <2> QED
    BY <1>3, <2>1 DEF JobWrites, PyTypeOK
<1>4. ASSUME NEW a \in Mine, NodeFails(a) PROVE PyTypeOK' /\ NodeTypeOK'
  BY <1>4 DEF NodeFails, Mine, PyTypeOK, Over
<1>5. ASSUME NEW a \in Mine, UNCHANGED <<pyVars, language>>,
             RunNode(a) \/ BuildSql(a) \/ BuiltByPython(a) \/ BuildFails(a) \/ Changes(a)
               \/ Merge(a) \/ DropTmp(a)
      PROVE  PyTypeOK' /\ NodeTypeOK'
  <2>1. PyTypeOK'
    BY <1>5 DEF pyVars, PyTypeOK
  <2>2. a \in Attempts
    BY DEF Mine
  <2>3. node' \in [Mine -> {"idle", "build", "changes", "merge", "drop"} \cup NodeEnded]
    BY <1>5 DEF RunNode, BuildSql, BuiltByPython, BuildFails, Changes, Merge, DropTmp, Compares
  <2>4. tmp' \in [{TmpOf(b) : b \in Attempts} -> Attempts \cup {None}]
    BY <1>5, <2>2 DEF RunNode, BuildSql, BuiltByPython, BuildFails, Changes, Merge, DropTmp
  <2>5. merged' \in [Mine -> Attempts \cup {None}]
    BY <1>5, <2>2 DEF RunNode, BuildSql, BuiltByPython, BuildFails, Changes, Merge, DropTmp, TmpOf
  <2> QED
    BY <1>5, <2>1, <2>3, <2>4, <2>5
<1>6. ASSUME NEW a \in Mine,
             RunNode(a) \/ BuildSql(a) \/ BuiltByPython(a) \/ BuildFails(a) \/ Changes(a)
               \/ Merge(a) \/ DropTmp(a)
      PROVE  UNCHANGED <<pyVars, language>>
  BY <1>6 DEF RunNode, BuildSql, BuiltByPython, BuildFails, Changes, Merge, DropTmp
<1> QED
  BY <1>1, <1>2, <1>3, <1>4, <1>5, <1>6 DEF IMNext, NodeStep, Submits, imVars

LEMMA NodeTypesHold == IMSpec => [](PyTypeOK /\ NodeTypeOK)
<1>1. IMInit => PyTypeOK /\ NodeTypeOK
  BY PythonJobsAssumption DEF IMInit, PyInit, PyTypeOK, NodeTypeOK, Over, NodeEnded, JobEnded
<1>2. PyTypeOK /\ NodeTypeOK /\ [IMNext]_imVars => PyTypeOK' /\ NodeTypeOK'
  BY NodeTypes
<1> QED
  BY <1>1, <1>2, PTL DEF IMSpec

\* Type correctness of the submissions, the schema change and the materialization.
THEOREM ModelsTypeCorrect == IMSpec => []IMTypeOK
<1>1. PyTypeOK /\ NodeTypeOK /\ SchemaTypeOK => IMTypeOK
  BY DEF IMTypeOK, NodeTypeOK
<1> QED
  BY <1>1, NodeTypesHold, ModelsAlign, PTL

-----------------------------------------------------------------------------
(* Rows *)

\* A temporary table has rows of one attempt's code or is not there.
RowsInv ==
  /\ \A a \in Attempts : tmp[TmpOf(a)] \in {None, a}
  /\ \A a \in Mine : merged[a] \in {None, a}
  /\ \A a \in Mine : node[a] \in {"drop", "done"} => merged[a] = a

LEMMA RowsStep ==
  ASSUME PyTypeOK, NodeTypeOK, RowsInv, [IMNext]_imVars PROVE RowsInv'
<1> USE DEF RowsInv, NodeTypeOK, NodeIs, TmpOf
<1>1. CASE UNCHANGED nodeVars
  BY <1>1 DEF nodeVars
<1>2. ASSUME NEW a \in Attempts, JobWrites(a) PROVE RowsInv'
  BY <1>2 DEF JobWrites
<1>3. ASSUME NEW a \in Mine, NEW to \in {"build", "changes", "merge", "failed"},
             NodeIs(a, to), UNCHANGED <<tmp, merged>>
      PROVE  RowsInv'
  BY <1>3
<1>4. ASSUME NEW a \in Mine, BuildSql(a) PROVE RowsInv'
  <2>1. \E to \in {"changes", "failed"} : NodeIs(a, to)
    BY <1>4 DEF BuildSql, Compares
  <2> QED
    BY <1>4, <2>1 DEF BuildSql, Mine
<1>5. ASSUME NEW a \in Mine, Changes(a) PROVE RowsInv'
  BY <1>5 DEF Changes
<1>6. ASSUME NEW a \in Mine, Merge(a) PROVE RowsInv'
  BY <1>6 DEF Merge, Mine
<1>7. ASSUME NEW a \in Mine, DropTmp(a) PROVE RowsInv'
  BY <1>7 DEF DropTmp, Mine
<1>8. ASSUME NEW a \in Mine, RunNode(a) \/ BuiltByPython(a) \/ BuildFails(a) \/ NodeFails(a)
      PROVE  RowsInv'
  <2>1. UNCHANGED <<tmp, merged>>
    BY <1>8 DEF RunNode, BuiltByPython, BuildFails, NodeFails
  <2>2. \E to \in {"build", "changes", "merge", "failed"} : NodeIs(a, to)
    BY <1>8 DEF RunNode, BuiltByPython, BuildFails, NodeFails, Compares
  <2> QED
    BY <1>3, <2>1, <2>2
<1> QED
  BY <1>1, <1>2, <1>4, <1>5, <1>6, <1>7, <1>8 DEF IMNext, NodeStep, Submits, imVars

\* Whatever jobs of earlier attempts are still at work, a run merges rows of its own code.
THEOREM MergesOwnRows == IMSpec => []MergesItsOwnRows
<1>1. IMInit => RowsInv
  BY DEF IMInit, RowsInv, TmpOf
<1>2. PyTypeOK /\ NodeTypeOK /\ RowsInv /\ [IMNext]_imVars => RowsInv'
  BY RowsStep
<1>3. RowsInv => MergesItsOwnRows
  BY DEF RowsInv, MergesItsOwnRows
<1> QED
  BY <1>1, <1>2, <1>3, NodeTypesHold, PTL DEF IMSpec

-----------------------------------------------------------------------------
(* Submissions *)

Active     == {"template", "new template", "write", "create", "poll", "report"}
Private(a) == \A b \in project : Model(b) # Model(a) => File(Model(b)) # File(Model(a))

\* Attempts of a model do not overlap.
TurnsInv ==
  \A a \in Attempts :
    submit[a] \in Active => a \in project /\ \A b \in Earlier(a) : submit[b] \in Over

\* What the file holds, the job runs and dbt believes, at each place of a submission.
CodeInv ==
  \A a \in Attempts :
    /\ submit[a] \in {"idle", "template", "new template", "write", "create"} => run[a].state = "none"
    /\ submit[a] \in {"report", "done"} => run[a].state = "succeeded"
    /\ Private(a) /\ submit[a] \in {"create", "poll"} => files[File(Model(a))] = a
    /\ Private(a) /\ submit[a] \in {"poll", "report", "done"} /\ run[a].state \in {"running", "succeeded"}
         => run[a].code = a

LEMMA Alone ==
  ASSUME TurnsInv, NEW a \in Attempts, NEW b \in Attempts, Private(a),
         submit[a] \in Active, submit[b] \in Active, File(Model(a)) = File(Model(b))
  PROVE  a = b
<1>1. a \in project /\ b \in project
  BY DEF TurnsInv
<1>2. Model(a) = Model(b)
  BY <1>1 DEF Private
<1>3. a \notin Earlier(b) /\ b \notin Earlier(a)
  BY DEF TurnsInv, Active, Over
<1>4. a[2] \in Nat /\ b[2] \in Nat
  BY PythonJobsAssumption DEF Attempts
<1>5. a[2] = b[2]
  BY <1>1, <1>2, <1>3, <1>4 DEF Earlier
<1> QED
  BY <1>2, <1>5, PythonJobsAssumption DEF Attempts, Model

LEMMA TurnsStep ==
  ASSUME PyTypeOK, TurnsInv, [IMNext]_imVars PROVE TurnsInv'
<1> USE DEF TurnsInv, Active, Over, Gets
<1>0. project \subseteq Attempts
  BY DEF PyTypeOK, Attempts
<1>1. CASE UNCHANGED <<project, submit>>
  BY <1>1 DEF Earlier
<1>2. ASSUME NEW a \in Attempts, Submission(a) PROVE TurnsInv'
  <2>1. /\ UNCHANGED project /\ a \in project
        /\ \E to \in {"template", "write"} : submit' = [submit EXCEPT ![a] = to]
        /\ submit[a] = "idle" /\ \A b \in Earlier(a) : submit[b] \in Over
    BY <1>2 DEF Submission
  <2> QED
    BY <1>0, <2>1 DEF Earlier, PyTypeOK
<1>3. ASSUME NEW a \in Attempts, UNCHANGED project, submit[a] \in Active,
             \E to \in Active \cup Over : submit' = [submit EXCEPT ![a] = to]
      PROVE  TurnsInv'
  BY <1>0, <1>3 DEF Earlier, PyTypeOK
<1>4. ASSUME NEW a \in Attempts, SubmitStep(a) \/ Stops(a) PROVE TurnsInv'
  <2>1. UNCHANGED project /\ submit[a] \in Active
    BY <1>4 DEF SubmitStep, FindTemplate, NewTemplate, WriteCode, CreateJob, Refused, Poll, Report,
                Stops, PyTypeOK
  <2>2. \/ \E to \in Active \cup Over : submit' = [submit EXCEPT ![a] = to]
        \/ UNCHANGED submit
    BY <1>4 DEF SubmitStep, FindTemplate, NewTemplate, WriteCode, CreateJob, Refused, Poll, Report,
                Stops
  <2> QED
    BY <1>1, <1>3, <2>1, <2>2
<1>5. ASSUME NEW a \in Mine, NodeFails(a) PROVE TurnsInv'
  BY <1>0, <1>5 DEF NodeFails, Earlier, PyTypeOK, Mine
<1>6. ASSUME NEW a \in Attempts, JobStarts(a) \/ JobEnds(a) PROVE UNCHANGED <<project, submit>>
  BY <1>6 DEF JobStarts, JobEnds
<1>7. ASSUME NEW a \in Mine,
             RunNode(a) \/ BuildSql(a) \/ BuiltByPython(a) \/ BuildFails(a) \/ Changes(a)
               \/ Merge(a) \/ DropTmp(a)
      PROVE  UNCHANGED <<project, submit>>
  BY <1>7 DEF RunNode, BuildSql, BuiltByPython, BuildFails, Changes, Merge, DropTmp, pyVars
<1> QED
  BY <1>1, <1>2, <1>4, <1>5, <1>6, <1>7 DEF IMNext, NodeStep, Submits, JobWrites, imVars, pyVars

LEMMA CodeStep ==
  ASSUME PyTypeOK, TurnsInv, CodeInv, [IMNext]_imVars PROVE CodeInv'
<1> USE DEF CodeInv, Over, Gets
<1>1. CASE UNCHANGED pyVars
  BY <1>1 DEF pyVars, Private
<1>2. ASSUME NEW a \in Attempts, UNCHANGED <<project, files, run>>,
             \E to \in {"failed"} : submit' = [submit EXCEPT ![a] = to]
      PROVE  CodeInv'
  BY <1>2 DEF Private, PyTypeOK
<1>3. ASSUME NEW a \in Attempts, Submission(a) \/ FindTemplate(a) \/ NewTemplate(a) PROVE CodeInv'
  <2>1. /\ UNCHANGED <<project, files, run>>
        /\ submit[a] \in {"idle", "template", "new template"}
        /\ \E to \in {"template", "new template", "write"} : submit' = [submit EXCEPT ![a] = to]
    BY <1>3 DEF Submission, FindTemplate, NewTemplate
  <2> QED
    BY <2>1 DEF Private, PyTypeOK
<1>4. ASSUME NEW a \in Attempts, WriteCode(a) PROVE CodeInv'
  <2>1. /\ submit[a] = "write" /\ submit' = [submit EXCEPT ![a] = "create"]
        /\ files' = [files EXCEPT ![File(Model(a))] = a] /\ UNCHANGED <<project, run>>
    BY <1>4 DEF WriteCode, Written
  <2>2. File(Model(a)) \in Files
    BY DEF Files
  <2>3. ASSUME NEW b \in Attempts \ {a}, Private(b), submit[b] \in {"create", "poll"}
        PROVE  files'[File(Model(b))] = b
    <3>1. File(Model(b)) # File(Model(a))
      BY <2>1, <2>3, Alone DEF Active
    <3> QED
      BY <2>1, <2>3, <3>1 DEF PyTypeOK, Files
  <2> QED
    BY <2>1, <2>2, <2>3 DEF Private, PyTypeOK
<1>5. ASSUME NEW a \in Attempts, CreateJob(a) PROVE CodeInv'
  <2>1. /\ run' = [run EXCEPT ![a].state = "pending"] /\ UNCHANGED <<project, files>>
        /\ submit[a] = "create"
        /\ \E to \in {"poll", "failed"} : submit' = [submit EXCEPT ![a] = to]
    BY <1>5 DEF CreateJob
  <2>2. run'[a].state = "pending" /\ \A b \in Attempts \ {a} : run'[b] = run[b]
    BY <2>1, StateSet
  <2> QED
    BY ZenonT(60), <2>1, <2>2 DEF Private, PyTypeOK
<1>6. ASSUME NEW a \in Attempts, Poll(a) PROVE CodeInv'
  <2>1. UNCHANGED <<project, files, run>> /\ submit[a] = "poll"
    BY <1>6 DEF Poll
  <2>2. \/ run[a].state = "succeeded" /\ submit' = [submit EXCEPT ![a] = "report"]
        \/ submit' = [submit EXCEPT ![a] = "failed"]
        \/ UNCHANGED submit
    BY <1>6 DEF Poll
  <2> QED
    BY <2>1, <2>2 DEF Private, PyTypeOK
<1>7. ASSUME NEW a \in Attempts, Report(a) PROVE CodeInv'
  BY <1>7 DEF Report, Private, PyTypeOK
<1>8. ASSUME NEW a \in Attempts, Refused(a) \/ Stops(a) PROVE CodeInv'
  BY <1>2, <1>8 DEF Refused, Stops
<1>9. ASSUME NEW a \in Mine, NodeFails(a) PROVE CodeInv'
  <2>1. /\ UNCHANGED <<project, files, run>> /\ a \in Attempts
        /\ \E to \in {"failed", "done"} : submit' = [submit EXCEPT ![a] = to]
        /\ submit'[a] = "done" => submit' = submit
    BY <1>9 DEF NodeFails, Mine, PyTypeOK
  <2> QED
    BY <2>1 DEF Private, PyTypeOK
<1>10. ASSUME NEW a \in Attempts, JobStarts(a) PROVE CodeInv'
  <2>1. /\ run[a].state = "pending" /\ UNCHANGED <<project, files, submit>>
        /\ run' = [run EXCEPT ![a] = [state |-> "running", code |-> files[File(Model(a))]]]
    BY <1>10 DEF JobStarts
  <2>2. submit[a] \in {"poll", "failed"}
    BY <2>1 DEF PyTypeOK
  <2> QED
    BY <2>1, <2>2 DEF Private, PyTypeOK
<1>11. ASSUME NEW a \in Attempts, JobEnds(a) PROVE CodeInv'
  <2>1. UNCHANGED <<project, files, submit>> /\ run[a].state \in {"pending", "running"}
    BY <1>11 DEF JobEnds
  <2>2. PICK s \in JobEnded :
          run' = [run EXCEPT ![a].state = s] /\ (run[a].state = "pending" => s = "failed")
    BY <1>11 DEF JobEnds, JobEnded
  <2>3. /\ run'[a].state = s /\ run'[a].code = run[a].code
        /\ \A b \in Attempts \ {a} : run'[b] = run[b]
    BY <2>2, StateSet
  <2>4. submit[a] \in {"poll", "failed"}
    BY <2>1 DEF PyTypeOK
  <2> QED
    BY ZenonT(60), <2>1, <2>2, <2>3, <2>4 DEF Private, PyTypeOK, JobEnded
<1>12. ASSUME NEW a \in Mine,
              RunNode(a) \/ BuildSql(a) \/ BuiltByPython(a) \/ BuildFails(a) \/ Changes(a)
                \/ Merge(a) \/ DropTmp(a)
       PROVE  UNCHANGED pyVars
  BY <1>12 DEF RunNode, BuildSql, BuiltByPython, BuildFails, Changes, Merge, DropTmp
<1> QED
  BY <1>1, <1>3, <1>4, <1>5, <1>6, <1>7, <1>8, <1>9, <1>10, <1>11, <1>12
  DEF IMNext, NodeStep, Submits, SubmitStep, JobWrites, imVars

\* Whatever jobs of earlier attempts wait to read the file, a submission that is done ran its
\* own code, unless its file is shared with another model.
THEOREM RanItsOwnCode == IMSpec => []SuccessRanItsCode
<1>1. IMInit => TurnsInv /\ CodeInv
  BY DEF IMInit, PyInit, TurnsInv, CodeInv, Active
<1>2. PyTypeOK /\ TurnsInv /\ CodeInv /\ [IMNext]_imVars => TurnsInv' /\ CodeInv'
  BY TurnsStep, CodeStep
<1>3. PyTypeOK /\ CodeInv => SuccessRanItsCode
  <2> SUFFICES ASSUME PyTypeOK, CodeInv, NEW a \in Attempts, submit[a] = "done", Private(a)
               PROVE  run[a] = [state |-> "succeeded", code |-> a]
    BY DEF SuccessRanItsCode, Private
  <2>1. run[a] \in Runs
    BY DEF PyTypeOK, Runs
  <2>2. run[a].state = "succeeded" /\ run[a].code = a
    BY DEF CodeInv
  <2> QED
    BY <2>1, <2>2 DEF Runs
<1> QED
  BY <1>1, <1>2, <1>3, NodeTypesHold, PTL DEF IMSpec
=============================================================================
