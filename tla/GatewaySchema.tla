--------------------------- MODULE GatewaySchema ----------------------------
(***************************************************************************)
(* ensure_schema and migrate: how service instances and dbt processes      *)
(* bring the gateway's Postgres database up to date at start-up, each in   *)
(* one transaction, under roles that may own different tables.  A call     *)
(* goes through one list of statements: a table to look up and to create   *)
(* if it is missing, for every table required, then an ALTER of the        *)
(* registry for every column added since.                                  *)
(*                                                                         *)
(* Postgres: CREATE TABLE of a table that an open transaction has created  *)
(* waits for the end of it; ALTER TABLE is refused to all but the owner    *)
(* before it waits for the table's lock; an error leaves the transaction   *)
(* good for nothing but a rollback.                                        *)
(***************************************************************************)
EXTENDS Integers, Sequences

CONSTANTS
  Calls,     \* calls of ensure_schema, over all processes
  Roles,     \* Postgres roles
  NoRole,    \* the owner of a registry that is not there
  Required,  \* REQUIRED_TABLES, in order
  Registry,  \* change_tracking_registry
  Upgrades,  \* the columns of MIGRATE_REGISTRY_COLUMNS_SQL, in order
  Migrating, \* the calls with auto_migrate
  Existing,  \* bound: the tables a database may start with
  Strangers  \* bound: a database that lacks tables may have somebody else's registry

NumTables == Len(Required)
Tables    == {Required[n] : n \in 1..NumTables}
Columns   == {Upgrades[n] : n \in 1..Len(Upgrades)}

ASSUME ConstantsAssumption ==
  /\ NoRole \notin Roles
  /\ \A m, n \in 1..NumTables : Required[m] = Required[n] => m = n
  /\ Len(Required) \in Nat /\ Len(Upgrades) \in Nat
  /\ Registry \in Tables
  /\ Migrating \subseteq Calls
  /\ Existing \subseteq SUBSET Tables
  /\ Strangers \in BOOLEAN

VARIABLES
  there,   \* the tables there are, to everybody
  owner,   \* who owns the registry
  columns, \* those of Columns that the registry has
  role,    \* per call: the IAM user it connects as
  at,      \* per call: "off", "next", "create", "recheck" or "done"
  pos,     \* per call: the statement it is at
  fresh,   \* per call: the tables its open transaction has created
  added    \* per call: the columns its open transaction has added, if they were missing

database == <<there, owner, columns>>
vars     == <<database, role, at, pos, fresh, added>>

-----------------------------------------------------------------------------
(* Helpers *)

Idle(i) == at[i] \in {"off", "done"}

\* Mutant of TableOf: the tables come out of a set, to each process in an order of its own.
TableOfSet(i) == IF i = CHOOSE j \in Calls : TRUE THEN Required[pos[i]]
                 ELSE Required[NumTables + 1 - pos[i]]
\* The table a call is at.
TableOf(i) == Required[pos[i]]

\* What a query of information_schema shows a call.
Sees(i, t) == t \in there \cup fresh[i]

\* The statements of a call.
Statements(i) == NumTables + (IF i \in Migrating THEN Len(Upgrades) ELSE 0)
Scanning(i)   == pos[i] \in 1..NumTables
Upgrading(i)  == pos[i] \in (NumTables + 1)..Statements(i)

OwnsRegistry(i) == Registry \in fresh[i] \/ (Registry \in there /\ role[i] = owner)

\* Nobody else's open transaction has what a call's statement needs.
TableFree(i)    == \A j \in Calls \ {i} : TableOf(i) \notin fresh[j]
RegistryFree(i) == \A j \in Calls \ {i} : added[j] = {}

Goto(i, label) == at' = [at EXCEPT ![i] = label]
GoOn(i)        == pos' = [pos EXCEPT ![i] = @ + 1]

\* Mutant of RolledBack: the connection is left open with its transaction.
LeftOpen(i)   == UNCHANGED <<fresh, added>>
\* The transaction is undone, and its locks are gone.
RolledBack(i) ==
  /\ fresh' = [fresh EXCEPT ![i] = {}]
  /\ added' = [added EXCEPT ![i] = {}]

\* What a database starts with that is not a stranger's: its registry belongs to whoever
\* migrates it, or no table is missing.
Upgradable ==
  Registry \in there => there = Tables \/ \A i \in Migrating : role[i] = owner

Init ==
  /\ there \in Existing
  /\ owner \in IF Registry \in there THEN Roles ELSE {NoRole}
  /\ columns \in IF Registry \in there THEN {{}, Columns} ELSE {{}}
  /\ role \in [Calls -> Roles]
  /\ ~Strangers => Upgradable
  /\ at    = [i \in Calls |-> "off"]
  /\ pos   = [i \in Calls |-> 1]
  /\ fresh = [i \in Calls |-> {}]
  /\ added = [i \in Calls |-> {}]

-----------------------------------------------------------------------------
(* ensure_schema *)

\* A process starts, or starts again, and connects.
Begin(i) ==
  /\ Idle(i)
  /\ Goto(i, "next")
  /\ pos' = [pos EXCEPT ![i] = 1]
  /\ UNCHANGED <<database, role, fresh, added>>

\* _table_exists: DDL is skipped for what is there.
Exists(i) ==
  /\ at[i] = "next" /\ Scanning(i)
  /\ Sees(i, TableOf(i))
  /\ GoOn(i)
  /\ UNCHANGED <<database, role, at, fresh, added>>

IsMissing(i) ==
  /\ at[i] = "next" /\ Scanning(i)
  /\ ~Sees(i, TableOf(i))
  /\ Goto(i, "create")
  /\ UNCHANGED <<database, role, pos, fresh, added>>

\* CREATE TABLE IF NOT EXISTS and its indexes: nothing to do if it has come up meanwhile.
Create(i) ==
  /\ at[i] = "create" /\ TableFree(i)
  /\ fresh' = [fresh EXCEPT ![i] = @ \cup ({TableOf(i)} \ there)]
  /\ GoOn(i)
  /\ Goto(i, "next")
  /\ UNCHANGED <<database, role, added>>

\* The DDL raises: no CREATE privilege, the table or its type came up while the statement
\* waited, an index of somebody else's table.
CreateFails(i) ==
  /\ at[i] = "create"
  /\ RolledBack(i)
  /\ Goto(i, "recheck")
  /\ UNCHANGED <<database, role, pos>>

\* Mutant of Recheck: the warning without the lookup before it.
RecheckNothing(i) ==
  /\ at[i] = "recheck"
  /\ Goto(i, "next") /\ GoOn(i)
  /\ UNCHANGED <<database, role, fresh, added>>

\* A failed CREATE is forgiven if the table exists; otherwise ensure_schema raises.
Recheck(i) ==
  /\ at[i] = "recheck"
  /\ IF Sees(i, TableOf(i))
     THEN Goto(i, "next") /\ GoOn(i)
     ELSE Goto(i, "off") /\ UNCHANGED pos
  /\ UNCHANGED <<database, role, fresh, added>>

-----------------------------------------------------------------------------
(* migrate *)

\* ALTER TABLE ... ADD COLUMN IF NOT EXISTS.
Alter(i) ==
  /\ at[i] = "next" /\ Upgrading(i)
  /\ OwnsRegistry(i) /\ RegistryFree(i)
  /\ added' = [added EXCEPT ![i] = @ \cup {Upgrades[pos[i] - NumTables]}]
  /\ GoOn(i)
  /\ UNCHANGED <<database, role, at, fresh>>

\* "must be owner": migrate rolls the connection back and goes on with the next statement.
AlterRefused(i) ==
  /\ at[i] = "next" /\ Upgrading(i)
  /\ Sees(i, Registry) /\ ~OwnsRegistry(i)
  /\ RolledBack(i)
  /\ GoOn(i)
  /\ UNCHANGED <<database, role, at>>

-----------------------------------------------------------------------------
(* The end of the transaction *)

\* What the registry has after a commit: a new one has all columns from the start.
ColumnsAfter(i) == IF Registry \in fresh[i] THEN Columns ELSE columns \cup added[i]

\* The context manager commits; the acknowledgement may be lost.
Commit(i) ==
  /\ at[i] = "next" /\ pos[i] = Statements(i) + 1
  /\ there'   = there \cup fresh[i]
  /\ owner'   = IF Registry \in fresh[i] THEN role[i] ELSE owner
  /\ columns' = ColumnsAfter(i)
  /\ fresh'   = [fresh EXCEPT ![i] = {}]
  /\ added'   = [added EXCEPT ![i] = {}]
  /\ Goto(i, "done") \/ Goto(i, "off")
  /\ UNCHANGED <<role, pos>>

\* Any other exception leaves through the context manager, which rolls back; or the
\* process dies.
Fails(i) ==
  /\ ~Idle(i)
  /\ RolledBack(i)
  /\ Goto(i, "off")
  /\ UNCHANGED <<database, role, pos>>

-----------------------------------------------------------------------------
(* Specification *)

\* What the code of a call does when its statements do not wait.
Step(i) == \/ Exists(i) \/ IsMissing(i) \/ Recheck(i)
           \/ Alter(i) \/ AlterRefused(i) \/ Commit(i)

Next == \E i \in Calls : Begin(i) \/ Step(i) \/ Create(i) \/ CreateFails(i) \/ Fails(i)

Spec == Init /\ [][Next]_vars

\* Statements end, and those that wait for a transaction get their turn.
FairSpec ==
  Spec /\ \A i \in Calls : WF_vars(Step(i)) /\ SF_vars(Create(i)) /\ SF_vars(Alter(i))

-----------------------------------------------------------------------------
(* Correctness *)

TypeOK ==
  /\ there \subseteq Tables
  /\ owner \in Roles \cup {NoRole}
  /\ columns \subseteq Columns
  /\ role \in [Calls -> Roles]
  /\ at \in [Calls -> {"off", "next", "create", "recheck", "done"}]
  /\ pos \in [Calls -> Nat]
  /\ fresh \in [Calls -> SUBSET Tables]
  /\ added \in [Calls -> SUBSET Columns]
  /\ \A i \in Calls : /\ pos[i] \in 1..(Statements(i) + 1)
                      /\ at[i] \in {"create", "recheck"} => Scanning(i)
                      /\ Idle(i) \/ at[i] = "recheck" => fresh[i] = {} /\ added[i] = {}

\* When ensure_schema returns, what it has reported as there is there, whatever other calls,
\* rollbacks and crashes came in between ("create missing metadata tables; skip objects that
\* already exist").
CreatesMissing == \A i \in Calls : at[i] = "done" => there = Tables

\* Moreover, the registry has the schedule columns if the caller migrates it and owns it.
DoneMeansReady ==
  /\ CreatesMissing
  /\ \A i \in Migrating : at[i] = "done" /\ role[i] = owner => columns = Columns

\* Nobody ever sees a part of the schema: a transaction that creates tables ends with all of
\* them, also after a failed CREATE or ALTER in its middle has undone those before it.
NeverHalfway == [][there' # there => there' = Tables]_vars

\* Whose transaction the statement of a call waits for.
WaitsFor(i, j) ==
  /\ i # j
  /\ \/ at[i] = "create" /\ TableOf(i) \in fresh[j]
     \/ at[i] = "next" /\ Upgrading(i) /\ OwnsRegistry(i) /\ added[j] # {}

\* Calls that start together never wait for one another in a circle: whoever is waited for is
\* further down the list (the one order of REQUIRED_TABLES, migrate at the end).
WaitersAreBehind == \A i, j \in Calls : WaitsFor(i, j) => pos[i] < pos[j]

\* Every call ends, however many start at once.
StartsEnd == \A i \in Calls : ~Idle(i) ~> Idle(i)

(* Why they hold: the invariants the proofs rest on *)

\* What is created twice is created by one transaction after the other.
TablesApart ==
  \A i \in Calls : /\ fresh[i] \cap there = {}
                   /\ \A j \in Calls \ {i} : fresh[i] \cap fresh[j] = {}

\* A call sees every table it has passed: no rollback on its way has taken one away.
SeesPassed ==
  \A i \in Calls : at[i] \in {"next", "create"} =>
    \A n \in 1..NumTables : n < pos[i] => Sees(i, Required[n])

\* A table that comes up after a call has missed it comes with all the others, because the
\* call that commits it had passed them all.
ComeTogether ==
  \A i \in Calls : /\ at[i] \in {"create", "recheck"} /\ TableOf(i) \in there => there = Tables
                   /\ at[i] = "done" => there = Tables

\* Only the registry of a stranger, with tables missing, breaks the three of them.
SchemaInv == TypeOK /\ TablesApart /\ (Upgradable => SeesPassed /\ ComeTogether)

\* Transactions hold what is behind them in the list, and one at a time the registry.
LocksInOrder ==
  /\ \A i \in Calls : \A t \in fresh[i] : \E n \in 1..NumTables : n < pos[i] /\ Required[n] = t
  /\ \A i \in Calls : added[i] # {} => pos[i] > NumTables + 1
  /\ \A i \in Calls : at[i] = "next" /\ pos[i] > NumTables + 1 /\ OwnsRegistry(i) => added[i] # {}
  /\ \A i, j \in Calls : added[i] # {} /\ added[j] # {} => i = j

\* The owner of a registry that was there has altered it as far as it has come.
ColumnsFollow ==
  \A i \in Migrating :
    /\ at[i] = "next" /\ Registry \notin fresh[i] /\ OwnsRegistry(i) =>
         \A n \in 1..Len(Upgrades) : NumTables + n < pos[i] => Upgrades[n] \in added[i]
    /\ at[i] = "done" /\ role[i] = owner => columns = Columns
=============================================================================
