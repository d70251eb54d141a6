---------------------------- MODULE ChangePooler ----------------------------
(***************************************************************************)
(* The change-metadata pooler: calls of ensure_affected_partitions         *)
(* (GET /v1/partitions) and pool_relations (POST /v1/pool, the scheduler)  *)
(* on several service instances, against one Cloud SQL gateway and         *)
(* BigQuery.  Each action is one round trip or one transaction of          *)
(* gateway/pooler_core.py and gateway/client.py, so that anything may      *)
(* happen between two of them.                                             *)
(*                                                                         *)
(* A call here pools one relation.  pool_relations runs _pool_one for      *)
(* every relation of a request in a thread of its own and reports their    *)
(* results after the last one: here those are calls whose Report comes     *)
(* arbitrarily late.                                                       *)
(***************************************************************************)
EXTENDS Integers, FiniteSets, Sequences, SequencesExt

CONSTANTS
  Tables,        \* BigQuery tables
  Calls,         \* request slots, over all service instances
  Partitions,    \* partitions the rows of a table fall in; may hold NullPartition
  NullPartition, \* the partition of rows whose partitioning column is NULL
  Everything,    \* SQL NULL in partition_ids: the entire table
  NoCall,        \* nobody holds the lock
  NoRequest,     \* the request of an idle slot
  Faults,        \* subset of {"session", "clock"}: what may go wrong below the code
  Owners,        \* bound: subset of {"schema", "registry"}: what table owners do meanwhile
  Kinds,         \* bound: what tables are: "missing", "plain", "partitioned"
  Ends,          \* bound: the end_ts that pool requests name themselves
  Questions,     \* bound: the intervals asked for, as [start, end, fresh] records
  MaxTime,       \* bound: the latest instant
  MaxWrites,     \* bound: recorded changes of a table
  MaxErrors,     \* bound: logged error rows of a table
  MaxCheckpoints \* bound: successful checkpoint rows of a table

ASSUME ConstantsAssumption ==
  /\ MaxTime \in Nat
  /\ MaxWrites \in Nat
  /\ MaxErrors \in Nat
  /\ MaxCheckpoints \in Nat
  /\ Faults \subseteq {"session", "clock"}
  /\ Owners \subseteq {"schema", "registry"}
  /\ Kinds \subseteq {"missing", "plain", "partitioned"}
  /\ Ends \subseteq 0..MaxTime
  /\ Questions \subseteq [start : 0..MaxTime, end : 0..MaxTime, fresh : BOOLEAN]
  /\ NoCall \notin Calls

VARIABLES
  now,         \* wall clock
  table,       \* BigQuery, per table: "missing", "plain" or "partitioned" (by time)
  tracked,     \* BigQuery, per table: option enable_change_history
  history,     \* BigQuery, per table: the changes CHANGES can report
  holder,      \* Postgres, per table: holder of the advisory lock
  checkpoints, \* Postgres, per table: delta_end_time of the successful
               \* dbt_model_log rows, in the order of node_finished_at
  log,         \* Postgres, per table: change_tracking_log
  registry,    \* Postgres, per table: "absent", "enabled" or "disabled"
  pc,          \* per call: what it does next
  req,         \* per call: its arguments
  base,        \* per call: delta_end_time of the checkpoint read under the lock
  rank,        \* per call: number of checkpoints there were at that read
  probe,       \* per call: meta.is_time_partitioned
  result       \* per call: status, partition ids and watermark to report

bigquery == <<table, tracked, history>>
gateway  == <<holder, checkpoints, log, registry>>
locals   == <<req, base, rank, probe, result>>
vars     == <<now, bigquery, gateway, pc, locals>>

-----------------------------------------------------------------------------
(* Types and helpers *)

Time   == 0..MaxTime
NoTime == -1                     \* Python None: before every time

Ids    == SUBSET (Partitions \ {NullPartition})
Change == [at : Time, part : Partitions]

\* Mutant of AdvanceStatuses: a window outside time travel leaves the checkpoint behind.
NarrowStatuses   == {"initial", "ok", "unpartitioned"}
AdvanceStatuses  == {"initial", "ok", "out_of_range", "unpartitioned"}
AffectedStatuses == {"ok", "initial", "out_of_range", "unpartitioned"}
LoggedStatuses   == AdvanceStatuses \cup {"error"}

Row     == [lo : Time, hi : Time, status : LoggedStatuses, ids : Ids \cup {Everything}]
Request == [query : BOOLEAN, table : Tables, start : Time, end : Time, fresh : BOOLEAN]
Result  == [status : LoggedStatuses \cup {"none", "skipped", "not_found"},
            ids : Ids \cup {Everything}, watermark : Time \cup {NoTime}]

NoResult == [status |-> "none", ids |-> {}, watermark |-> NoTime]
Labels   == {"idle", "lock", "locked", "meta", "history", "changes", "retry", "commit",
             "unlock", "report", "recheck", "answer", "answered", "rejected"}

\* Between reading the checkpoint and committing on top of it.
Pooling(c) == pc[c] \in {"meta", "history", "changes", "retry", "commit"}

\* From the return of pg_advisory_lock to the finally clause that unlocks.
Locked(c) == Pooling(c) \/ pc[c] \in {"locked", "unlock"}

Goto(c, label) == pc' = [pc EXCEPT ![c] = label]

\* The table a call is about.
Target(c) == req[c].table

\* get_checkpoint: the successful row with the latest node_finished_at.
Watermark(t) == IF checkpoints[t] = <<>> THEN NoTime ELSE Last(checkpoints[t])

\* The locals of _pool_one_locked go with its frame,
LeaveFrame(c) ==
  /\ base'  = [base EXCEPT ![c] = NoTime]
  /\ rank'  = [rank EXCEPT ![c] = 0]
  /\ probe' = [probe EXCEPT ![c] = FALSE]

\* and those of the handler with the response.
Forget(c) ==
  /\ LeaveFrame(c)
  /\ req'    = [req EXCEPT ![c] = NoRequest]
  /\ result' = [result EXCEPT ![c] = NoResult]

Init ==
  /\ now = 0
  /\ table \in [Tables -> Kinds]
  /\ tracked \in [Tables -> BOOLEAN]
  /\ \A t \in Tables : tracked[t] => table[t] # "missing"
  /\ history     = [t \in Tables |-> {}]
  /\ holder      = [t \in Tables |-> NoCall]
  /\ checkpoints = [t \in Tables |-> <<>>]
  /\ log         = [t \in Tables |-> {}]
  /\ registry    = [t \in Tables |-> "absent"]
  /\ pc          = [c \in Calls |-> "idle"]
  /\ req         = [c \in Calls |-> NoRequest]
  /\ base        = [c \in Calls |-> NoTime]
  /\ rank        = [c \in Calls |-> 0]
  /\ probe       = [c \in Calls |-> FALSE]
  /\ result      = [c \in Calls |-> NoResult]

-----------------------------------------------------------------------------
(* BigQuery and its users *)

Tick ==
  /\ now < MaxTime
  /\ now' = now + 1
  /\ UNCHANGED <<bigquery, gateway, pc, locals>>

\* DML on a table whose change history is on.
Write(t, p) ==
  /\ table[t] # "missing" /\ tracked[t]
  /\ Cardinality(history[t]) < MaxWrites
  /\ history' = [history EXCEPT ![t] = @ \cup {[at |-> now, part |-> p]}]
  /\ UNCHANGED <<now, table, tracked, gateway, pc, locals>>

Drop(t) ==
  /\ "schema" \in Owners
  /\ table[t] # "missing"
  /\ table'   = [table EXCEPT ![t] = "missing"]
  /\ tracked' = [tracked EXCEPT ![t] = FALSE]
  /\ history' = [history EXCEPT ![t] = {}]
  /\ UNCHANGED <<now, gateway, pc, locals>>

Create(t, kind, on) ==
  /\ "schema" \in Owners
  /\ table[t] = "missing"
  /\ table'   = [table EXCEPT ![t] = kind]
  /\ tracked' = [tracked EXCEPT ![t] = on]
  /\ UNCHANGED <<now, history, gateway, pc, locals>>

\* The changes of t in [lo, hi) at this moment, by partition id: ARRAY_AGG(... IGNORE NULLS).
ChangedIds(t, lo, hi) ==
  {w.part : w \in {x \in history[t] : lo <= x.at /\ x.at < hi}} \ {NullPartition}

-----------------------------------------------------------------------------
(* The registry handlers: /v1/tables/register, /v1/tables/unregister *)

Disable(t) == IF registry[t] = "absent" THEN registry
              ELSE [registry EXCEPT ![t] = "disabled"]

Register(t) ==
  /\ "registry" \in Owners
  /\ registry' = [registry EXCEPT ![t] = "enabled"]
  /\ UNCHANGED <<now, bigquery, holder, checkpoints, log, pc, locals>>

Unregister(t) ==
  /\ "registry" \in Owners
  /\ registry' = Disable(t)
  /\ UNCHANGED <<now, bigquery, holder, checkpoints, log, pc, locals>>

-----------------------------------------------------------------------------
(* Entry points *)

\* POST /v1/pool with relations and an end_ts: any table, registered or not.
PoolRelation(c, t, e) ==
  /\ pc[c] = "idle"
  /\ req' = [req EXCEPT ![c] = [query |-> FALSE, table |-> t, start |-> 0,
                                end |-> e, fresh |-> TRUE]]
  /\ Goto(c, "lock")
  /\ UNCHANGED <<now, bigquery, gateway, base, rank, probe, result>>

\* POST /v1/pool/scheduled: the tables the registry lists as enabled, up to the clock.
PoolScheduled(c, t) ==
  /\ registry[t] = "enabled"
  /\ PoolRelation(c, t, now)

\* GET /v1/partitions up to its first checkpoint read.
AskPartitions(c, t, s, e, f) ==
  /\ pc[c] = "idle"
  /\ req' = [req EXCEPT ![c] = [query |-> TRUE, table |-> t, start |-> s,
                                end |-> e, fresh |-> f]]
  /\ IF f /\ Watermark(t) < e
     THEN Goto(c, "lock") /\ UNCHANGED result
     ELSE Goto(c, "answer") /\ result' = [result EXCEPT ![c].watermark = Watermark(t)]
  /\ UNCHANGED <<now, bigquery, gateway, base, rank, probe>>

-----------------------------------------------------------------------------
(* _pool_one *)

\* Mutant of LockFree: pg_try_advisory_lock with its answer ignored.
LockTried(t) == TRUE
LockFree(t)  == holder[t] = NoCall

\* pg_advisory_lock returns.
AcquireLock(c) ==
  /\ pc[c] = "lock"
  /\ LockFree(Target(c))
  /\ holder' = [holder EXCEPT ![Target(c)] = c]
  /\ Goto(c, "locked")
  /\ UNCHANGED <<now, bigquery, checkpoints, log, registry, locals>>

\* No connection for the lock: the future of this relation holds an exception.
LockFails(c) ==
  /\ pc[c] = "lock"
  /\ result' = [result EXCEPT ![c].status = "error"]
  /\ Goto(c, "report")
  /\ UNCHANGED <<now, bigquery, gateway, req, base, rank, probe>>

\* Read the checkpoint; nothing to do when it has reached the end.
ReadCheckpoint(c) ==
  /\ pc[c] = "locked"
  /\ LET w == Watermark(Target(c))
         covered == w # NoTime /\ w >= req[c].end
     IN  /\ base' = [base EXCEPT ![c] = w]
         /\ rank' = [rank EXCEPT ![c] = Len(checkpoints[Target(c)])]
         /\ IF covered
            THEN /\ result' = [result EXCEPT ![c].status = "skipped"]
                 /\ Goto(c, "unlock")
            ELSE /\ Goto(c, "meta")
                 /\ UNCHANGED result
  /\ UNCHANGED <<now, bigquery, gateway, req, probe>>

\* bq.get_table: not_found is a result, not an exception.
GetTableMeta(c) ==
  /\ pc[c] = "meta"
  /\ IF table[Target(c)] = "missing"
     THEN /\ result' = [result EXCEPT ![c].status = "not_found"]
          /\ Goto(c, "unlock")
          /\ UNCHANGED probe
     ELSE /\ probe' = [probe EXCEPT ![c] = table[Target(c)] = "partitioned"]
          /\ Goto(c, "history")
          /\ UNCHANGED result
  /\ UNCHANGED <<now, bigquery, gateway, req, base, rank>>

\* ALTER TABLE ... SET OPTIONS(enable_change_history=TRUE), which may be refused.
AlterHistory(t) ==
  \/ tracked' = [tracked EXCEPT ![t] = table[t] # "missing"]
  \/ UNCHANGED tracked

\* _ensure_change_history, then the statuses that need no query.
EnsureHistory(c) ==
  /\ pc[c] = "history"
  /\ AlterHistory(Target(c))
  /\ LET status == IF base[c] = NoTime THEN "initial" ELSE "unpartitioned"
     IN  IF base[c] = NoTime \/ ~probe[c]
         THEN /\ result' = [result EXCEPT ![c].status = status, ![c].ids = Everything]
              /\ Goto(c, "commit")
         ELSE /\ Goto(c, "changes")
              /\ UNCHANGED result
  /\ UNCHANGED <<now, table, history, gateway, req, base, rank, probe>>

\* How CHANGES can end while [lo, hi) is asked of t, as _run_changes reports it.
\* BigQuery refuses an end that is not in the past, whence hi <= now.
ChangesOutcome(t, lo, hi, status, ids) ==
  \/ /\ table[t] = "partitioned" /\ tracked[t] /\ hi <= now
     /\ status = "ok" /\ ids = ChangedIds(t, lo, hi)
  \/ status = "out_of_range" /\ ids = Everything
  \/ /\ Cardinality({r \in log[t] : r.status = "error"}) < MaxErrors
     /\ status = "error" /\ ids = Everything

\* The CHANGES query, or its repetition after change history was switched on again.
RunChanges(c) ==
  /\ pc[c] \in {"changes", "retry"}
  /\ \E status \in {"ok", "out_of_range", "error"}, ids \in Ids \cup {Everything} :
       /\ ChangesOutcome(Target(c), base[c], req[c].end, status, ids)
       /\ result' = [result EXCEPT ![c].status = status, ![c].ids = ids]
  /\ Goto(c, "commit")
  /\ UNCHANGED <<now, bigquery, gateway, req, base, rank, probe>>

\* CHANGES says that change history is not enabled: switch it on, then ask once more.
EnableAndRetry(c) ==
  /\ pc[c] = "changes"
  /\ table[Target(c)] # "missing" /\ ~tracked[Target(c)]
  /\ AlterHistory(Target(c))
  /\ Goto(c, "retry")
  /\ UNCHANGED <<now, table, history, gateway, req, base, rank, probe, result>>

\* Mutants of WindowLo: every window is the empty one of a first pool; the first pool starts
\* from a checkpoint there is not.
WindowLoEmpty(c) == req[c].end
WindowLoBase(c)  == base[c]
\* The start of the window a call has pooled.
WindowLo(c) == IF base[c] = NoTime THEN req[c].end ELSE base[c]

PooledRow(c) == [lo |-> WindowLo(c), hi |-> req[c].end,
                 status |-> result[c].status, ids |-> result[c].ids]

\* Mutant of FinishPositions: node_finished_at taken before the lock, as pooled_at is.
StartPositions(c) == 1..(Len(checkpoints[Target(c)]) + 1)

\* Where the new checkpoint falls in the order of node_finished_at: after everything this
\* call had read, unless the instances' clocks disagree.
FinishPositions(c) ==
  LET n == Len(checkpoints[Target(c)])
  IN  {i \in 1..(n + 1) : "clock" \in Faults \/ i > rank[c]}

\* Mutant of AdvanceCheckpoint: every result that is logged moves the checkpoint.
AdvanceCheckpointAlways(c) ==
  \E i \in FinishPositions(c) :
    checkpoints' = [checkpoints EXCEPT ![Target(c)] = InsertAt(@, i, req[c].end)]

\* The checkpoint insert, for the statuses that advance it.
AdvanceCheckpoint(c) ==
  IF result[c].status \in AdvanceStatuses
  THEN /\ Len(checkpoints[Target(c)]) < MaxCheckpoints
       /\ \E i \in FinishPositions(c) :
            checkpoints' = [checkpoints EXCEPT ![Target(c)] = InsertAt(@, i, req[c].end)]
  ELSE UNCHANGED checkpoints

\* Mutant of Enrolled: the upsert used by /v1/tables/register.
EnrolledAgain(t) == [registry EXCEPT ![t] = "enabled"]

\* The registry upsert that goes with a result: a new row is enabled by its column default.
Enrolled(t) == IF registry[t] = "absent" THEN [registry EXCEPT ![t] = "enabled"]
               ELSE registry
\* commit_change_tracking_pool_result: log, registry and checkpoint in one transaction.
CommitResult(c) ==
  /\ log' = [log EXCEPT ![Target(c)] = @ \cup {PooledRow(c)}]
  /\ registry' = Enrolled(Target(c))
  /\ AdvanceCheckpoint(c)

Commit(c) ==
  /\ pc[c] = "commit"
  /\ CommitResult(c)
  /\ Goto(c, "unlock")
  /\ UNCHANGED <<now, bigquery, holder, locals>>

\* The transaction commits but its acknowledgement is lost.
CommitUnknown(c) ==
  /\ pc[c] = "commit"
  /\ CommitResult(c)
  /\ result' = [result EXCEPT ![c].status = "error", ![c].ids = Everything]
  /\ Goto(c, "unlock")
  /\ UNCHANGED <<now, bigquery, holder, req, base, rank, probe>>

\* Any other exception under the lock: nothing is logged, the lock is released.
PoolRaises(c) ==
  /\ pc[c] \in {"locked", "meta", "history", "changes", "commit"}
  /\ result' = [result EXCEPT ![c].status = "error", ![c].ids = Everything]
  /\ Goto(c, "unlock")
  /\ UNCHANGED <<now, bigquery, gateway, req, base, rank, probe>>

\* Mutant of Unlocked: no finally clause, so an exception leaves the session open.
UnlockedOnSuccess(c) == [t \in Tables |-> IF holder[t] = c /\ result[c].status # "error"
                                          THEN NoCall ELSE holder[t]]
\* The finally clause of pooler_table_lock, whatever the result.
Unlocked(c) == IF holder[Target(c)] = c THEN [holder EXCEPT ![Target(c)] = NoCall]
               ELSE holder

Unlock(c) ==
  /\ pc[c] = "unlock"
  /\ holder' = Unlocked(c)
  /\ LeaveFrame(c)
  /\ Goto(c, "report")
  /\ UNCHANGED <<now, bigquery, checkpoints, log, registry, req, result>>

-----------------------------------------------------------------------------
(* After the pool: events, the second checkpoint read, the answer *)

\* _emit_result_events: a missing table is soft-disabled, a failure of that is swallowed.
Report(c) ==
  /\ pc[c] = "report"
  /\ IF result[c].status = "not_found"
     THEN registry' = Disable(Target(c)) \/ UNCHANGED registry
     ELSE UNCHANGED registry
  /\ IF req[c].query
     THEN Goto(c, "recheck") /\ UNCHANGED locals
     ELSE Goto(c, "idle") /\ Forget(c)
  /\ UNCHANGED <<now, bigquery, holder, checkpoints, log>>

\* PoolerFreshnessError unless the watermark now reaches the end.
Recheck(c) ==
  /\ pc[c] = "recheck"
  /\ LET w == Watermark(Target(c))
     IN  /\ result' = [result EXCEPT ![c].watermark = w]
         /\ Goto(c, IF w < req[c].end THEN "rejected" ELSE "answer")
  /\ UNCHANGED <<now, bigquery, gateway, req, base, rank, probe>>

\* Mutant of AffectedRows: only the windows inside the interval asked for.
ContainedRows(t, s, e) ==
  {r \in log[t] : r.lo >= s /\ r.hi <= e /\ r.status \in AffectedStatuses}

\* The log rows get_affected_partitions selects.
AffectedRows(t, s, e) ==
  {r \in log[t] : r.lo < e /\ r.hi > s /\ r.status \in AffectedStatuses}

\* merge_affected_partition_ids: a NULL row stands for the whole table.
MergedIds(rows) == IF \E r \in rows : r.ids = Everything THEN Everything
                   ELSE UNION {r.ids : r \in rows}

GetAffectedPartitions(c) ==
  /\ pc[c] = "answer"
  /\ LET rows == AffectedRows(Target(c), req[c].start, req[c].end)
     IN  result' = [result EXCEPT ![c].ids = MergedIds(rows)]
  /\ Goto(c, "answered")
  /\ UNCHANGED <<now, bigquery, gateway, req, base, rank, probe>>

\* The response leaves: partition ids, or 409.
Respond(c) ==
  /\ pc[c] \in {"answered", "rejected"}
  /\ Goto(c, "idle")
  /\ Forget(c)
  /\ UNCHANGED <<now, bigquery, gateway>>

-----------------------------------------------------------------------------
(* Failures *)

\* The call dies with its instance, or with an exception outside _pool_one; Postgres
\* frees the session lock of a connection that is gone.
Crash(c) ==
  /\ pc[c] # "idle"
  /\ holder' = Unlocked(c)
  /\ Goto(c, "idle")
  /\ Forget(c)
  /\ UNCHANGED <<now, bigquery, checkpoints, log, registry>>

\* The idle connection that holds the lock is closed while CHANGES runs.
LoseSession(c) ==
  /\ "session" \in Faults
  /\ pc[c] # "idle" /\ holder[Target(c)] = c
  /\ holder' = [holder EXCEPT ![Target(c)] = NoCall]
  /\ UNCHANGED <<now, bigquery, checkpoints, log, registry, pc, locals>>

-----------------------------------------------------------------------------
(* Specification *)

Environment ==
  \/ Tick
  \/ \E t \in Tables : \/ \E p \in Partitions : Write(t, p)
                       \/ Drop(t)
                       \/ \E kind \in Kinds \ {"missing"}, on \in BOOLEAN : Create(t, kind, on)
                       \/ Register(t)
                       \/ Unregister(t)

Start(c) ==
  \E t \in Tables : \/ \E e \in Ends : PoolRelation(c, t, e)
                    \/ PoolScheduled(c, t)
                    \/ \E q \in Questions : AskPartitions(c, t, q.start, q.end, q.fresh)

\* What the code of a call does once it has the lock or needs none.
Progress(c) ==
  \/ ReadCheckpoint(c) \/ GetTableMeta(c) \/ EnsureHistory(c)
  \/ RunChanges(c) \/ EnableAndRetry(c)
  \/ Commit(c) \/ CommitUnknown(c) \/ PoolRaises(c) \/ Unlock(c)
  \/ Report(c) \/ Recheck(c) \/ GetAffectedPartitions(c) \/ Respond(c)

Next ==
  \/ Environment
  \/ \E c \in Calls : \/ Start(c) \/ AcquireLock(c) \/ LockFails(c) \/ Progress(c)
                      \/ Crash(c) \/ LoseSession(c)

Spec == Init /\ [][Next]_vars

\* Every query and transaction returns; Postgres grants a contended lock in arrival order.
FairSpec ==
  /\ Spec
  /\ \A c \in Calls : WF_vars(Progress(c)) /\ SF_vars(AcquireLock(c))

-----------------------------------------------------------------------------
(* Correctness *)

TypeOK ==
  /\ now \in Time
  /\ table \in [Tables -> {"missing", "plain", "partitioned"}]
  /\ tracked \in [Tables -> BOOLEAN]
  /\ history \in [Tables -> SUBSET Change]
  /\ holder \in [Tables -> Calls \cup {NoCall}]
  /\ checkpoints \in [Tables -> Seq(Time)]
  /\ log \in [Tables -> SUBSET Row]
  /\ registry \in [Tables -> {"absent", "enabled", "disabled"}]
  /\ pc \in [Calls -> Labels]
  /\ req \in [Calls -> Request \cup {NoRequest}]
  /\ \A c \in Calls : /\ pc[c] # "idle" => req[c] \in Request
                      /\ pc[c] = "commit" => result[c].status \in LoggedStatuses
  /\ base \in [Calls -> Time \cup {NoTime}]
  /\ rank \in [Calls -> Nat]
  /\ probe \in [Calls -> BOOLEAN]
  /\ result \in [Calls -> Result]

\* The rows of t that cover a window: all but the error rows.
Windows(t) == {r \in log[t] : r.status \in AffectedStatuses}
Baselines(t) == {r \in log[t] : r.status = "initial"}

\* With the lock sound, no call pools a table on top of a checkpoint another call is about to
\* replace: what it read under the lock is still the watermark when it commits
\* (pooler_table_lock around _pool_one_locked, across instances).
PoolsOnLatest ==
  \A c \in Calls :
    /\ Locked(c) => holder[Target(c)] = c
    /\ Pooling(c) => /\ base[c] = Watermark(Target(c))
                     /\ rank[c] = Len(checkpoints[Target(c)])
                     /\ base[c] < req[c].end

\* No lock outlives the pool it was taken for, whatever fails or dies in between: a call that
\* waits for the lock of a table waits for one that is at work on that table, and that the
\* finally clause of pooler_table_lock or the end of its session will make let go.
LocksInUse ==
  \A t \in Tables : holder[t] # NoCall => Locked(holder[t]) /\ Target(holder[t]) = t

\* The logged windows of a table follow one another from its first pool to its watermark: no
\* instant is in two of them, none in between is in none, and there is one initial row.
WindowsTile ==
  \A t \in Tables :
    /\ \A q, r \in Windows(t) : q = r \/ q.hi <= r.lo \/ r.hi <= q.lo
    /\ \A q, r \in Baselines(t) : q = r
    /\ Watermark(t) # NoTime =>
         \E b \in Baselines(t) : \A x \in Time :
           b.lo <= x /\ x < Watermark(t) => \E r \in Windows(t) : r.lo <= x /\ x < r.hi

\* A 409 means that this very request failed to pool: it is never the result of a watermark
\* that went backwards or of another call's work getting in between.
RejectedOnlyOnFailure ==
  \A c \in Calls : pc[c] = "rejected" => result[c].status \in {"error", "not_found"}

\* The heart of it: every recorded change of a real partition inside the interval asked for
\* and before the watermark returned with the answer is in the partition ids returned, for
\* intervals that end after pooling of the table began.  Survives lost locks and clock skew.
AnswerCoversChanges ==
  \A c \in Calls :
    LET t == Target(c)
        s == req[c].start
        e == req[c].end
    IN  pc[c] = "answered" /\ (\A b \in Baselines(t) : b.lo < e)
          => \/ result[c].ids = Everything
             \/ \A w \in history[t] :
                  /\ s <= w.at /\ w.at < e /\ w.at < result[c].watermark
                  /\ w.part # NullPartition
                  => w.part \in result[c].ids

\* Pooling never puts a table its owner took off the schedule back on it: only
\* /v1/tables/register does, even if the removal falls in the middle of a pool.
OnlyOwnerReenables ==
  [][\A t \in Tables : registry[t] = "disabled" /\ registry'[t] = "enabled" => Register(t)]_vars

\* Locks, claims and retries included, pooling is one atomic step of the coverage ledger.
Ledger == INSTANCE CoverageLedger WITH
  frontier <- [t \in Tables |-> Watermark(t)],
  windows  <- [t \in Tables |-> {[lo |-> r.lo, hi |-> r.hi] : r \in Windows(t)}]
RefinesLedger == Ledger!Spec

\* Every request ends: nobody waits for ever for a table's lock.
CallsEnd == \A c \in Calls : pc[c] # "idle" ~> pc[c] = "idle"

(* Why AnswerCoversChanges holds: the invariant its proof rests on *)

\* The ids of a window name every change recorded in it, and no later one can fall in it.
Faithful(t, lo, hi, ids) ==
  ids # Everything =>
    /\ hi <= now
    /\ \A w \in history[t] :
         lo <= w.at /\ w.at < hi /\ w.part # NullPartition => w.part \in ids

RowsFaithful ==
  \A t \in Tables : \A r \in Windows(t) :
    /\ Faithful(t, r.lo, r.hi, r.ids)
    /\ r.status = "initial" => r.lo = r.hi /\ r.ids = Everything

\* What is about to be committed is a row like the others, initial exactly on a first pool.
PendingFaithful ==
  \A c \in Calls :
    /\ pc[c] \in {"changes", "retry"} => base[c] # NoTime
    /\ pc[c] = "commit" =>
         /\ result[c].status = "initial" <=> base[c] = NoTime
         /\ result[c].status = "initial" => result[c].ids = Everything
         /\ Faithful(Target(c), base[c], req[c].end, result[c].ids)

\* From some first pool of t up to x, every instant lies in a logged window.
Anchored(t, x) ==
  \E b \in Baselines(t) : \A y \in Time :
    b.lo <= y /\ y < x => \E r \in Windows(t) : r.lo <= y /\ y < r.hi

\* Every watermark there was, may come back or is in somebody's hands is anchored.
WatermarksAnchored ==
  /\ \A t \in Tables : \A i \in DOMAIN checkpoints[t] : Anchored(t, checkpoints[t][i])
  /\ \A c \in Calls :
       /\ Pooling(c) /\ base[c] # NoTime => Anchored(Target(c), base[c])
       /\ pc[c] = "answer" /\ result[c].watermark # NoTime
            => Anchored(Target(c), result[c].watermark)

\* Nothing can still be recorded in the part of the interval an answer accounts for.
AnswersFinal ==
  \A c \in Calls :
    pc[c] = "answered" /\ (\A b \in Baselines(Target(c)) : b.lo < req[c].end)
                       /\ result[c].ids # Everything
      => \A y \in Time : req[c].start <= y /\ y < req[c].end /\ y < result[c].watermark
                           => y < now

CoverageInv == /\ RowsFaithful /\ PendingFaithful /\ WatermarksAnchored
               /\ AnswersFinal /\ AnswerCoversChanges

(* What the documentation says *)

\* README.md: "On first see: logs status=initial with partition_ids NULL (entire table)".
\* An interval before the first pool, all of it in the past, is not covered by any query: it
\* must not be answered with less than the entire table.
FirstSeeMeansEntireTable ==
  \A c \in Calls :
    pc[c] = "answered" /\ req[c].end <= now
                       /\ (\E b \in Baselines(Target(c)) : req[c].end <= b.lo)
      => result[c].ids = Everything

\* README.md: "{}: No changes in the window".
EmptyMeansNoChanges ==
  \A c \in Calls :
    LET t == Target(c)
    IN  pc[c] = "answered" /\ result[c].ids = {} /\ (\A b \in Baselines(t) : b.lo < req[c].end)
          => \A w \in history[t] :
               ~(req[c].start <= w.at /\ w.at < req[c].end /\ w.at < result[c].watermark)
=============================================================================
