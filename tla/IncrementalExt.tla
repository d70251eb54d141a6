--------------------------- MODULE IncrementalExt ---------------------------
(***************************************************************************)
(* The incremental_ext materialization (incremental_ext.sql): the serial   *)
(* statements of a run, the main statement run by execute_ext once per     *)
(* variable set, the post hook that records a checkpoint, and the scripts  *)
(* in BigQuery, which go on when their worker or the whole run is gone.    *)
(*                                                                         *)
(* A place is a partition bucket that insert_overwrite replaces, or what   *)
(* one set of a merge selects.  Of its rows a place shows only how many    *)
(* times it holds those that a run computed for it.                        *)
(***************************************************************************)
EXTENDS ExecuteExt

CONSTANTS
  Places,     \* buckets, or slices of a merge
  Old,        \* origin of the rows that were there before
  Models,     \* configurations: mode, granularity, workers, given and types
  Lists,      \* what a source of variable sets may hold: sets, and the columns of a query
  MaxRelists  \* bound: changes of the source

ASSUME IncrementalExtAssumption ==
  /\ Old \notin Runs
  /\ MaxRelists \in Nat
  /\ \A m \in Models : /\ m.mode \in {"consistency", "scalability", "merge"}
                       /\ m.granularity \in {"hour", "day"}
                       /\ m.workers \in Int
                       /\ m.given \subseteq {"values", "relation", "sql"}

\* Bound: no more than MaxSets sets, each with a parameter, and Places has all they select.
ASSUME ListsAssumption ==
  \A l \in Lists :
    /\ \E n \in 0..MaxSets : DOMAIN l.sets = 1..n
    /\ \A i \in DOMAIN l.sets :
         /\ DOMAIN l.sets[i] # {}
         /\ \A n \in DOMAIN l.sets[i] : l.sets[i][n].at \in Int /\ l.sets[i][n].offset \in Int
         /\ Sole(l.sets[i]).at \in Places
         /\ \A m \in Models : Bucket(Sole(l.sets[i]), m.granularity) \in Places

Origins == Runs \cup {Old}

VARIABLES
  model,       \* the model's configuration
  listed,      \* what its source of variable sets holds
  relists,     \* how often that changed
  node,        \* per run: where its materialization is
  refresh,     \* per run: --full-refresh
  plan,        \* per run: the list insert_overwrite resolved and validated
  table,       \* the target: "absent", "view" or "table"
  rows,        \* per place and origin: copies of that origin's rows
  checkpoints, \* the runs whose post hook recorded a checkpoint
  overlapped   \* history: a run began while a script of an earlier one was alive

tableVars == <<table, rows>>
extVars   == <<batchVars, tableVars, model, listed, relists, node, refresh, plan,
               checkpoints, overlapped>>

NoPlan  == [sets |-> <<>>, types |-> <<>>]
Nothing == [o \in Origins |-> 0]
Only(r) == [Nothing EXCEPT ![r] = 1]

Queries(m) == m.given \cap {"relation", "sql"} # {}

\* The kinds of values that a column holds; BigQuery's points in time are in UTC.
CellKinds(field) ==
  CASE field = "STRING"  -> {"timestring", "datestring"}
    [] field = "INTEGER" -> {"integer"}
    [] field = "DATE"    -> {"date"}
    [] field = "ARRAY"   -> {"list"}
    [] OTHER             -> {"datetime"}

\* What the source of a model may hold: anything explicit, or the rows of a query.
Holds(m) ==
  {l \in Lists : Queries(m) => \A i \in DOMAIN l.sets :
     /\ DOMAIN l.sets[i] = DOMAIN l.columns
     /\ \A n \in DOMAIN l.columns :
          /\ l.sets[i][n].kind \in CellKinds(l.columns[n]) \cup {"null"}
          /\ l.sets[i][n].offset = 0}

\* The sets with the types that go with them: those of the columns, or the configured ones.
Plan(m, l) ==
  [sets  |-> l.sets,
   types |-> IF Queries(m) THEN [n \in DOMAIN l.columns |-> ParamType(l.columns[n])]
                           ELSE m.types]

Overwrites == model.mode # "merge"
Place(set) == IF Overwrites THEN Bucket(Sole(set), model.granularity) ELSE Sole(set).at

ExtInit ==
  /\ BatchInit
  /\ model \in Models /\ listed \in Holds(model) /\ relists = 0
  /\ node    = [r \in Runs |-> "idle"]
  /\ refresh = [r \in Runs |-> FALSE]
  /\ plan    = [r \in Runs |-> NoPlan]
  /\ table \in {"absent", "view", "table"}
  /\ rows = [p \in Places |-> IF table = "table" THEN Only(Old) ELSE Nothing]
  /\ checkpoints = {} /\ overlapped = FALSE

-----------------------------------------------------------------------------
(* Around the main statement *)

Ended      == {"done", "failed"}
At(r, at)  == node[r] = at
Goes(r, to) == node' = [node EXCEPT ![r] = to]

\* bq_ext_resolve_variable_sets reads the source anew each time it is asked.
Resolvable ==
  /\ OneSource(model.given, model.types)
  /\ Queries(model) => FromRows(listed.sets, listed.columns)

Resolved == Plan(model, listed)

\* bq_ext_run_serial: the statement runs with the first set bound.
Serial == Resolvable /\ model.given # {} /\ listed.sets # <<>>
          /\ Buildable(listed.sets[1], Resolved.types)

\* Whoever feeds the relation or the tables that variable_set_sql reads, seen while a run may
\* still read them.
Relist ==
  /\ relists < MaxRelists /\ model.given # {"values"}
  /\ \E r \in Runs : node[r] \in {"resolve", "hooks", "drop", "create", "columns", "main"}
  /\ listed' \in Holds(model)
  /\ relists' = relists + 1
  /\ UNCHANGED <<batchVars, tableVars, model, node, refresh, plan, checkpoints, overlapped>>

\* dbt is started again once an earlier run is over, with or without --full-refresh.
Begin(r) ==
  /\ At(r, "idle")
  /\ \A q \in 1..(r - 1) : node[q] \in Ended
  /\ \E full \in BOOLEAN : refresh' = [refresh EXCEPT ![r] = full]
  /\ Goes(r, IF Overwrites THEN "resolve" ELSE "hooks")
  /\ overlapped' = (overlapped \/ \E q \in Runs : Alive(q) # {})
  /\ UNCHANGED <<batchVars, tableVars, model, listed, relists, plan, checkpoints>>

\* insert_overwrite resolves and validates its sets before anything else.
Resolve(r) ==
  /\ At(r, "resolve")
  /\ Resolvable /\ ValidOverwrite(Resolved.sets, Resolved.types, model.granularity)
  /\ plan' = [plan EXCEPT ![r] = Resolved]
  /\ Goes(r, "hooks")
  /\ UNCHANGED <<batchVars, tableVars, model, listed, relists, refresh, checkpoints, overlapped>>

PreHooks(r) ==
  /\ At(r, "hooks")
  /\ Goes(r, "drop")
  /\ UNCHANGED <<batchVars, tableVars, model, listed, relists, refresh, plan, checkpoints,
                 overlapped>>

\* drop_relation for a full refresh, or for what is not a table.
DropExisting(r) ==
  /\ At(r, "drop")
  /\ IF refresh[r] \/ table # "table"
     THEN table' = "absent" /\ rows' = [p \in Places |-> Nothing]
     ELSE UNCHANGED tableVars
  /\ refresh' = [refresh EXCEPT ![r] = FALSE]
  /\ Goes(r, "create")
  /\ UNCHANGED <<batchVars, model, listed, relists, plan, checkpoints, overlapped>>

\* CREATE TABLE IF NOT EXISTS ... WHERE FALSE; its sets are resolved once more.
Create(r) ==
  /\ At(r, "create") /\ Serial
  /\ table' = "table"
  /\ Goes(r, "columns")
  /\ UNCHANGED <<batchVars, rows, model, listed, relists, refresh, plan, checkpoints, overlapped>>

\* on_schema_change, if not ignored, with a probe table that resolves them yet again, and
\* the columns of the target.
Columns(r) ==
  /\ At(r, "columns")
  /\ Goes(r, "main")
  /\ UNCHANGED <<batchVars, tableVars, model, listed, relists, refresh, plan, checkpoints,
                 overlapped>>

\* Mutant of Workers: scripts with a transaction run side by side, too.
AsRequested == model.workers
\* A transaction per script leaves no room for a second worker.
Workers == IF model.mode = "consistency" THEN 1 ELSE model.workers

\* execute_ext: of the plan what survives, or of a merge all that is listed by now.
Main(r) ==
  /\ At(r, "main")
  /\ IF Overwrites
     THEN StartBatch(r, plan[r].sets, plan[r].types,
                     Survivors(plan[r].sets, model.granularity), Workers)
     ELSE /\ Resolvable
          /\ StartBatch(r, Resolved.sets, Resolved.types, DOMAIN Resolved.sets, Workers)
  /\ plan' = [plan EXCEPT ![r] = NoPlan]
  /\ Goes(r, "batch")
  /\ UNCHANGED <<tableVars, model, listed, relists, refresh, checkpoints, overlapped>>

Worker(r, i) ==
  /\ At(r, "batch") /\ WorkerStep(r, i)
  /\ UNCHANGED <<tableVars, model, listed, relists, node, refresh, plan, checkpoints, overlapped>>

\* execute_ext returns, or raises "partial runs are not rolled back".
EndMain(r) ==
  /\ At(r, "batch") /\ Drained(r)
  /\ Goes(r, IF NoErrors(r) THEN "post" ELSE "failed")
  /\ PoolGone(r)
  /\ UNCHANGED <<batch, job, tableVars, model, listed, relists, refresh, plan, checkpoints,
                 overlapped>>

\* A post hook records the checkpoint; that it did may not reach dbt.
PostHooks(r) ==
  /\ At(r, "post")
  /\ checkpoints' = checkpoints \cup {r}
  /\ \E to \in {"docs", "failed"} : Goes(r, to)
  /\ UNCHANGED <<batchVars, tableVars, model, listed, relists, refresh, plan, overlapped>>

PersistDocs(r) ==
  /\ At(r, "docs")
  /\ Goes(r, "done")
  /\ UNCHANGED <<batchVars, tableVars, model, listed, relists, refresh, plan, checkpoints,
                 overlapped>>

\* Any statement, hook, validation or request of a run may raise instead.
Fails(r) ==
  /\ node[r] \notin {"idle", "batch"} \cup Ended
  /\ Goes(r, "failed")
  /\ UNCHANGED <<batchVars, tableVars, model, listed, relists, refresh, plan, checkpoints,
                 overlapped>>

\* The process dies, its workers with it.
Kill(r) ==
  /\ node[r] \notin {"idle"} \cup Ended
  /\ Goes(r, "failed")
  /\ PoolGone(r)
  /\ UNCHANGED <<batch, job, tableVars, model, listed, relists, refresh, plan, checkpoints,
                 overlapped>>

-----------------------------------------------------------------------------
(* The scripts in BigQuery *)

Target(r, i) == Place(batch[r].sets[i])

\* Mutant of InTransaction: the script's statements take effect one by one.
NeverWrapped == FALSE
InTransaction == model.mode = "consistency"

\* Mutant of Emptied: the DELETE matches nothing.
Kept(p)    == rows[p]
Emptied(p) == Nothing

Script(r, i, from, to) ==
  /\ job[r][i] = from /\ table = "table"
  /\ JobGoes(r, i, to)
  /\ UNCHANGED <<batch, worker, table, model, listed, relists, node, refresh, plan, checkpoints,
                 overlapped>>

\* A MERGE on the unique key, or BEGIN TRANSACTION to COMMIT TRANSACTION.
Apply(r, i) ==
  /\ ~Overwrites \/ InTransaction
  /\ Script(r, i, "live", "done")
  /\ rows' = [rows EXCEPT ![Target(r, i)] = Only(r)]

Delete(r, i) ==
  /\ Overwrites /\ ~InTransaction
  /\ Script(r, i, "live", "emptied")
  /\ rows' = [rows EXCEPT ![Target(r, i)] = Emptied(Target(r, i))]

\* The MERGE of insert_overwrite matches no rows: it only inserts.
Insert(r, i) ==
  /\ Script(r, i, "emptied", "done")
  /\ rows' = [rows EXCEPT ![Target(r, i)][r] = @ + 1]

\* A statement fails, for want of a table or of a column, or in conflict with another script.
Break(r, i) ==
  /\ i \in Alive(r)
  /\ JobGoes(r, i, "dead")
  /\ UNCHANGED <<batch, worker, tableVars, model, listed, relists, node, refresh, plan,
                 checkpoints, overlapped>>

-----------------------------------------------------------------------------
(* Specification *)

\* What dbt does about a run it has begun.
RunStep(r) ==
  \/ Resolve(r) \/ PreHooks(r) \/ DropExisting(r) \/ Create(r) \/ Columns(r)
  \/ Main(r) \/ (\E i \in Slots : Worker(r, i)) \/ EndMain(r)
  \/ PostHooks(r) \/ PersistDocs(r) \/ Fails(r)

BigQuery == \E r \in Runs, i \in Slots :
  Apply(r, i) \/ Delete(r, i) \/ Insert(r, i) \/ Break(r, i)

ExtNext ==
  \/ \E r \in Runs : Begin(r) \/ RunStep(r) \/ Kill(r)
  \/ BigQuery
  \/ Relist

ExtSpec == ExtInit /\ [][ExtNext]_extVars

\* Threads keep running, and every statement ends (RetriesRunOut of QueryJobs).  BigQuery need
\* not ever finish a script.
ExtFair == \A r \in Runs : WF_extVars(RunStep(r))

-----------------------------------------------------------------------------
(* Correctness *)

Plans == {Plan(m, l) : m \in Models, l \in Lists}

\* A pool exceeds the limit only if it has a set for each of its workers, as -1 and a profile of
\* more threads than that allow.
ExtTypeOK ==
  /\ batch \in [Runs -> [sets : {p.sets : p \in Plans} \cup {<<>>},
                         types : {p.types : p \in Plans} \cup {<<>>},
                         todo : SUBSET Slots, size : Nat]]
  /\ \A r \in Runs : \/ batch[r].size <= MaxWorkerPoolSize
                     \/ batch[r].size <= Cardinality(batch[r].todo)
  /\ worker \in [Runs -> [Slots -> {"none", "queued", "busy", "ok", "error"}]]
  /\ job \in [Runs -> [Slots -> {"none", "live", "emptied", "done", "dead"}]]
  /\ model \in Models /\ listed \in Lists /\ relists \in 0..MaxRelists
  /\ node \in [Runs -> {"idle", "resolve", "hooks", "drop", "create", "columns", "main", "batch",
                        "post", "docs"} \cup Ended]
  /\ refresh \in [Runs -> BOOLEAN]
  /\ plan \in [Runs -> Plans \cup {NoPlan}]
  /\ table \in {"absent", "view", "table"}
  /\ rows \in [Places -> [Origins -> Nat]]
  /\ checkpoints \subseteq Runs /\ overlapped \in BOOLEAN

\* The sets of a run that overwrites name hours of UTC: the bucket key drops an offset that
\* the statement heeds, so that with offsets two keys may be one bucket and the reverse.
InUTC(r) == Overwrites => \A i \in DOMAIN batch[r].sets : Sole(batch[r].sets[i]).offset = 0

\* README.md: "Success means every variable set finished" and "deduped by partition bucket".
\* A run that records a checkpoint has applied, for every set it was given, a script of that
\* set's place: neither a worker's error nor the choice of survivors loses one.
CheckpointCoversSets ==
  \A r \in checkpoints : InUTC(r) => \A i \in DOMAIN batch[r].sets :
    \E j \in batch[r].todo : Target(r, j) = Target(r, i) /\ job[r][j] = "done"

\* README.md: sets are deduped "so duplicate days/hours do not race".  No two scripts of one
\* run are alive in the same bucket.
BucketsDoNotRace ==
  Overwrites => \A r \in Runs : InUTC(r) =>
    \A i, j \in Alive(r) : i # j => Target(r, i) # Target(r, j)

\* A bucket that has rows is never seen without, unless the mode is scalability or the table
\* is dropped: consistency replaces a bucket as a whole, whatever fails, is killed or repeated.
NeverEmptied ==
  [][model.mode # "scalability" /\ table' = table =>
       \A p \in Places : rows[p] # Nothing => rows'[p] # Nothing]_extVars

\* No place ever holds rows twice or of two runs, although the MERGE of insert_overwrite only
\* inserts.  In mode scalability it takes that no script of an earlier run is still alive
\* when a run begins.
RowsOnce ==
  /\ ~(overlapped /\ model.mode = "scalability")
  /\ \A r \in Runs : InUTC(r)
  => \A p \in Places : rows[p] \in {Nothing} \cup {Only(o) : o \in Origins}

\* When execute_ext has succeeded, the places of all its sets hold what this run computed and
\* nothing else, also after runs that failed or were killed half way, as long as none of
\* their scripts was left alive.
SuccessReplaces ==
  \A r \in Runs : At(r, "post") /\ ~overlapped /\ InUTC(r) =>
    \A i \in DOMAIN batch[r].sets : rows[Target(r, i)] = Only(r)

\* The pool never stands still while sets wait, whatever became of the sets before; and in mode
\* consistency, where "BigQuery rejects concurrent transactions", no two of its workers run a
\* script.
PoolGoesOn ==
  \A r \in Runs : At(r, "batch") =>
    /\ Drained(r) \/ InState(r, "busy") # {} \/ (InState(r, "queued") # {} /\ batch[r].size > 0)
    /\ Cardinality(InState(r, "busy")) <= IF InTransaction THEN 1 ELSE batch[r].size

\* Every run ends, though BigQuery may leave any script unfinished and sets were dropped before
\* their batch.
RunsSettle == \A r \in Runs : At(r, "resolve") \/ At(r, "hooks") ~> node[r] \in Ended
=============================================================================
