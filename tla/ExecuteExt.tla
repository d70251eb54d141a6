----------------------------- MODULE ExecuteExt -----------------------------
(***************************************************************************)
(* One batch of connections.py's execute_ext: a statement run once per     *)
(* variable set by a pool of workers.  A worker's raw_execute is what      *)
(* StatementEffects promises (QueryJobs shows it): the job does its work   *)
(* at most once, the worker reports success only of a job that is done,    *)
(* and a job whose worker gave up may go on.                               *)
(***************************************************************************)
EXTENDS VariableSets

CONSTANTS
  MaxRuns, \* bound: dbt invocations of one model
  MaxSets, \* bound: variable sets of a run
  Threads  \* profile.threads

ASSUME ExecuteExtAssumption == MaxRuns \in Nat /\ MaxSets \in Nat /\ Threads \in Nat

Runs  == 1..MaxRuns
Slots == 1..MaxSets

VARIABLES
  batch,  \* per run: the sets it was given, their types, the ones to run, the pool's size
  worker, \* per run and slot: "none", "queued", "busy", "ok" or "error"
  job     \* per run and slot, the script in BigQuery: "none", "live", "emptied", "done", "dead"

batchVars == <<batch, worker, job>>

NoBatch == [sets |-> <<>>, types |-> <<>>, todo |-> {}, size |-> 0]

BatchInit ==
  /\ batch  = [r \in Runs |-> NoBatch]
  /\ worker = [r \in Runs |-> [i \in Slots |-> "none"]]
  /\ job    = [r \in Runs |-> [i \in Slots |-> "none"]]

-----------------------------------------------------------------------------

InState(r, state) == {i \in Slots : worker[r][i] = state}
Alive(r)          == {i \in Slots : job[r][i] \in {"live", "emptied"}}

WorkerGoes(r, i, state) == worker' = [worker EXCEPT ![r][i] = state]
JobGoes(r, i, state)    == job' = [job EXCEPT ![r][i] = state]

\* execute_ext submits one task per set to a ThreadPoolExecutor, which refuses to have no
\* workers; a batch of no sets is done.
StartBatch(r, sets, types, todo, requested) ==
  LET size == IF todo = {} THEN 0 ELSE PoolSize(requested, Cardinality(todo), Threads) IN
  /\ todo = {} \/ (ValidPoolSize(requested) /\ size > 0)
  /\ batch' = [batch EXCEPT ![r] =
       [sets |-> sets, types |-> types, todo |-> todo, size |-> size]]
  /\ worker' = [worker EXCEPT ![r] = [i \in Slots |-> IF i \in todo THEN "queued" ELSE "none"]]
  /\ UNCHANGED job

\* A worker of the pool is free: _run_one.
Take(r, i) ==
  /\ worker[r][i] = "queued"
  /\ Cardinality(InState(r, "busy")) < batch[r].size
  /\ WorkerGoes(r, i, "busy")
  /\ UNCHANGED <<batch, job>>

\* build_query_parameters, and raw_execute gets a job through to BigQuery.
Submit(r, i) ==
  /\ worker[r][i] = "busy" /\ job[r][i] = "none"
  /\ Buildable(batch[r].sets[i], batch[r].types)
  /\ JobGoes(r, i, "live")
  /\ UNCHANGED <<batch, worker>>

\* Mutant of Finished: the job is taken to be done once it runs its last statement.
SoonDone(r, i) == job[r][i] \in {"done", "emptied"}
Finished(r, i) == job[r][i] = "done"

Succeeds(r, i) ==
  /\ worker[r][i] = "busy" /\ Finished(r, i)
  /\ WorkerGoes(r, i, "ok")
  /\ UNCHANGED <<batch, job>>

\* Parameters that cannot be built, a job that failed, a timeout while the job goes on, or an
\* error in reading the result of a job that is done: all of them are kept until the end.
Raises(r, i) ==
  /\ worker[r][i] = "busy"
  /\ WorkerGoes(r, i, "error")
  /\ UNCHANGED <<batch, job>>

\* Mutant of Drained: it waits for a future of every set, dropped or not.
AllSeen(r) == \A i \in DOMAIN batch[r].sets : worker[r][i] \in {"ok", "error"}
\* as_completed has seen every future, and leaving the pool waits for its threads.
Drained(r) == \A i \in batch[r].todo : worker[r][i] \in {"ok", "error"}

\* Mutant of NoErrors: a batch counts as failed only if all of it failed.
SomeResults(r) == batch[r].todo = {} \/ \E i \in batch[r].todo : worker[r][i] = "ok"
NoErrors(r)    == \A i \in batch[r].todo : worker[r][i] # "error"

\* The executor and its threads are no more.
PoolGone(r) == worker' = [worker EXCEPT ![r] = [i \in Slots |-> "none"]]

WorkerStep(r, i) == Take(r, i) \/ Submit(r, i) \/ Succeeds(r, i) \/ Raises(r, i)
=============================================================================
