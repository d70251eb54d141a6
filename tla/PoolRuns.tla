------------------------------ MODULE PoolRuns -------------------------------
(***************************************************************************)
(* The pooler service's run sessions: what a pool request leaves behind in *)
(* the run and event tables (main.py, run_session.py), with the worker     *)
(* threads of pool_relations that report events while they work.  What a   *)
(* worker does to checkpoints and the log is in ChangePooler.  A call to   *)
(* the gateway database or to BigQuery is one action; INFO events are not  *)
(* recorded here, but logging one may fail like any other event.           *)
(***************************************************************************)
EXTENDS Integers, FiniteSets

CONSTANTS
  Requests,   \* calls of /v1/pool and /v1/pool/scheduled; a request's run has its name
  Scheduled,  \* those of /v1/pool/scheduled
  Relations,
  Untracked,  \* bound: the relations that CHANGES may find without change history
  PoolSize    \* per request: what resolve_worker_pool_size makes of its worker_pool_size

ASSUME PoolSizeAssumption == PoolSize \in [Requests -> Nat \ {0}]
ASSUME RelationsAssumption == IsFiniteSet(Relations)
ASSUME ScheduledAssumption == Scheduled \subseteq Requests

VARIABLES
  enabled,   \* the registry: relations that are pooled on schedule
  body,      \* per request: the relations it lists
  asks,      \* per request: the relations its run is about, deduplicated
  main,      \* per request: where its handler is
  at,        \* per request and relation: where its worker is, and later its report
  result,    \* per request and relation
  seen,      \* per request and relation: num_warnings as on_event read it
  warnings,  \* per session: num_warnings
  run,       \* the run table: status and number of warnings
  events,    \* the event table: the warnings of each run
  lost       \* history: on_event calls that did not get their event stored

sessions == <<seen, warnings>>
tables   == <<run, events, lost>>
runsVars == <<enabled, body, asks, main, at, result, sessions, tables>>

-----------------------------------------------------------------------------
(* Helpers *)

\* A result with status error is "denied" when its text looks like missing access.
Errors   == {"denied", "error"}
Bad      == {"not_found", "out_of_range"} \cup Errors
Outcomes == {"ok"} \cup Bad
Finished == {"ok", "warning", "error"}

\* The stages of _ensure_change_history and of the CHANGES query after it; a query that is
\* refused for want of a history goes through all of them once more.
Once  == [check |-> "checking", miss |-> "missing", alter |-> "altering",
          refuse |-> "refused", note |-> "recording", read |-> "reading"]
Again == [check |-> "rechecking", miss |-> "missing again", alter |-> "altering again",
          refuse |-> "refused again", note |-> "recording again", read |-> "rereading"]
Rounds == {Once, Again}

\* The stages of a worker that are inside on_event.
Inside == {"missing", "refused", "missing again", "refused again"}

Holding ==
  Inside \cup {"checking", "altering", "recording", "reading",
              "rechecking", "altering again", "recording again", "rereading"}
\* Mutant of Locked: a worker keeps the lock when it is done.
LockedForGood == Holding \cup {"done", "told"}
\* Those that hold the table's advisory lock.
Locked == Holding

Event(r, what) == [rel |-> r, what |-> what]

Goto(q, label)   == main' = [main EXCEPT ![q] = label]
Move(q, r, stage) == at' = [at EXCEPT ![q][r] = stage]

Ends(q, r, how) ==
  /\ Move(q, r, "done")
  /\ result' = [result EXCEPT ![q][r] = how]

\* get_pooler makes a core for each request, so its on_event stays that request's own.
Session(q) == q

Counts(q, n) == warnings' = [warnings EXCEPT ![Session(q)] = n + 1]

Stores(q, e) == events' = [events EXCEPT ![Session(q)] = @ \cup {e}] /\ UNCHANGED lost

\* The insert fails, or it is committed and the answer is lost.
StoreFails(q, e) ==
  \/ Stores(q, e)
  \/ lost' = [lost EXCEPT ![Session(q)] = @ + 1] /\ UNCHANGED events

RunsInit ==
  /\ enabled \in SUBSET Relations
  /\ body \in [Requests -> SUBSET Relations] /\ \A q \in Scheduled : body[q] = {}
  /\ asks     = [q \in Requests |-> {}]
  /\ main     = [q \in Requests |-> "new"]
  /\ at       = [q \in Requests |-> [r \in Relations |-> "queued"]]
  /\ result   = [q \in Requests |-> [r \in Relations |-> "none"]]
  /\ seen     = [q \in Requests |-> [r \in Relations |-> 0]]
  /\ warnings = [q \in Requests |-> 0]
  /\ run      = [q \in Requests |-> [status |-> "absent", warnings |-> 0]]
  /\ events   = [q \in Requests |-> {}]
  /\ lost     = [q \in Requests |-> 0]

-----------------------------------------------------------------------------
(* The handler, until the workers run *)

Running == [status |-> "running", warnings |-> 0]

\* Without relations in its body a request is about every table that is enabled.
Targets(q) == IF body[q] = {} THEN enabled ELSE body[q]

\* PoolRunSession inserts the row; with no relations pool_relations returns at once.
OpenRun(q) ==
  /\ main[q] = "new"
  /\ asks' = [asks EXCEPT ![q] = Targets(q)]
  /\ run' = [run EXCEPT ![q] = Running]
  /\ Goto(q, IF Targets(q) = {} THEN "finishing" ELSE "opened")
  /\ UNCHANGED <<enabled, body, at, result, sessions, events, lost>>

\* A relation is not well-formed, the registry cannot be read, or the insert fails.
OpenFails(q) ==
  /\ main[q] = "new"
  /\ run' = [run EXCEPT ![q] = Running] \/ UNCHANGED run
  /\ Goto(q, "failed")
  /\ UNCHANGED <<enabled, body, asks, at, result, sessions, events, lost>>

\* "run started", then the executor is given every relation.
StartPooling(q) ==
  /\ main[q] = "opened"
  /\ Goto(q, "pooling")
  /\ UNCHANGED <<enabled, body, asks, at, result, sessions, tables>>

-----------------------------------------------------------------------------
(* The workers *)

Busy(q) == {r \in asks[q] : at[q][r] \notin {"queued", "done"}}

Take(q, r) ==
  /\ main[q] = "pooling" /\ r \in asks[q] /\ at[q][r] = "queued"
  /\ Cardinality(Busy(q)) < PoolSize[q]
  /\ Move(q, r, "locking")
  /\ UNCHANGED <<enabled, body, asks, main, result, sessions, tables>>

\* pooler_table_lock: other requests may be at the same table.
LockTable(q, r) ==
  /\ at[q][r] = "locking"
  /\ \A p \in Requests : at[p][r] \notin Locked
  /\ Move(q, r, "checking")
  /\ UNCHANGED <<enabled, body, asks, main, result, sessions, tables>>

LockFails(q, r) ==
  /\ at[q][r] = "locking"
  /\ \E how \in Errors : Ends(q, r, how)
  /\ UNCHANGED <<enabled, body, asks, main, sessions, tables>>

\* The table is covered already (skipped), does not exist or denies its metadata, or the
\* checkpoint cannot be read.
EndsEarly(q, r) ==
  /\ at[q][r] = "checking"
  /\ \E how \in {"ok", "not_found"} \cup Errors : Ends(q, r, how)
  /\ UNCHANGED <<enabled, body, asks, main, sessions, tables>>

HistoryIsOn(q, r) ==
  /\ \E round \in Rounds : at[q][r] = round.check /\ Move(q, r, round.read)
  /\ UNCHANGED <<enabled, body, asks, main, result, sessions, tables>>

\* Mutant of MayReport: _emit without its lock.
MayAlwaysReport(q) == TRUE
\* _event_lock: one worker of a core at a time is inside on_event.
MayReport(q) == \A r \in asks[q] : at[q][r] \notin Inside

Reports(q, r, what) ==
  /\ MayReport(q)
  /\ seen' = [seen EXCEPT ![q][r] = warnings[Session(q)]]
  /\ Move(q, r, what)
  /\ UNCHANGED <<enabled, body, asks, main, result, warnings, tables>>

\* "table is missing change history", or its state cannot be told.
HistoryIsOff(q, r) ==
  \E round \in Rounds : at[q][r] = round.check /\ Reports(q, r, round.miss)

Altered(q, r) ==
  /\ \E round \in Rounds : at[q][r] = round.alter /\ Move(q, r, round.read)
  /\ UNCHANGED <<enabled, body, asks, main, result, sessions, tables>>

\* "could not enable change history".
AlterFails(q, r) ==
  \E round \in Rounds : at[q][r] = round.alter /\ Reports(q, r, round.refuse)

Reported(q, r) ==
  /\ at[q][r] \in Inside
  /\ Counts(q, seen[q][r])
  /\ Stores(q, Event(r, at[q][r]))
  /\ \E round \in Rounds :
       \/ at[q][r] = round.miss /\ Move(q, r, round.alter)
       \/ at[q][r] = round.refuse /\ Move(q, r, round.note)
  /\ UNCHANGED <<enabled, body, asks, main, result, seen, run>>

\* on_event has counted when its insert raises: the exception ends this relation only.
ReportFails(q, r) ==
  /\ at[q][r] \in Inside
  /\ Counts(q, seen[q][r])
  /\ StoreFails(q, Event(r, at[q][r]))
  /\ \E how \in Errors : Ends(q, r, how)
  /\ UNCHANGED <<enabled, body, asks, main, seen, run>>

\* _record_permission_issue after a refused ALTER, which swallows its own errors.
RecordRefusal(q, r) ==
  /\ \E round \in Rounds : at[q][r] = round.note /\ Move(q, r, round.read)
  /\ UNCHANGED <<enabled, body, asks, main, result, sessions, tables>>

\* CHANGES says that the table has no change history: it is enabled anew.
HistoryLost(q, r) ==
  /\ r \in Untracked /\ at[q][r] = Once.read
  /\ Move(q, r, Again.check)
  /\ UNCHANGED <<enabled, body, asks, main, result, sessions, tables>>

\* The changes are read and committed (see ChangePooler), or something raises.
Pooled(q, r) ==
  /\ \E round \in Rounds : at[q][r] = round.read
  /\ \E how \in {"ok", "out_of_range"} \cup Errors : Ends(q, r, how)
  /\ UNCHANGED <<enabled, body, asks, main, sessions, tables>>

-----------------------------------------------------------------------------
(* The handler, when every worker is done *)

AllDone(q) ==
  /\ main[q] = "pooling" /\ \A r \in asks[q] : at[q][r] = "done"
  /\ Goto(q, "reporting")
  /\ UNCHANGED <<enabled, body, asks, at, result, sessions, tables>>

NothingToReport(q, r) ==
  /\ main[q] = "reporting" /\ r \in asks[q]
  /\ at[q][r] = "done" /\ result[q][r] = "ok"
  /\ Move(q, r, "told")
  /\ UNCHANGED <<enabled, body, asks, main, result, sessions, tables>>

\* _emit_result_events: a warning, and what goes with it for some results.
TellResult(q, r) ==
  /\ main[q] = "reporting" /\ r \in asks[q]
  /\ at[q][r] = "done" /\ result[q][r] \in Bad
  /\ Counts(q, warnings[Session(q)])
  /\ Stores(q, Event(r, result[q][r]))
  /\ Move(q, r, CASE result[q][r] = "denied"    -> "noting"
                  [] result[q][r] = "not_found" -> "retiring"
                  [] OTHER                      -> "told")
  /\ UNCHANGED <<enabled, body, asks, main, result, seen, run>>

RecordDenial(q, r) ==
  /\ main[q] = "reporting" /\ r \in asks[q] /\ at[q][r] = "noting"
  /\ Move(q, r, "told")
  /\ UNCHANGED <<enabled, body, asks, main, result, sessions, tables>>

Unregister(r) == enabled' = enabled \ {r}

\* The call raises: it failed, or it is committed and the answer is lost.
UnregisterFails(r) == Unregister(r) \/ UNCHANGED enabled

\* The table that is gone leaves the registry, or a warning says that it could not.
Retire(q, r) ==
  /\ main[q] = "reporting" /\ r \in asks[q] /\ at[q][r] = "retiring"
  /\ \/ Unregister(r) /\ UNCHANGED <<warnings, events, lost>>
     \/ UnregisterFails(r) /\ Counts(q, warnings[Session(q)]) /\ Stores(q, Event(r, "kept"))
  /\ Move(q, r, "told")
  /\ UNCHANGED <<body, asks, main, result, seen, run>>

\* "pooler completed".
Completed(q) ==
  /\ main[q] = "reporting" /\ \A r \in asks[q] : at[q][r] = "told"
  /\ Goto(q, "finishing")
  /\ UNCHANGED <<enabled, body, asks, at, result, sessions, tables>>

\* Any event the handler's own thread cannot log raises through pool_relations: the request
\* fails and nobody finishes the run.
HandlerFails(q) ==
  /\ \/ main[q] \in {"opened", "reporting"} /\ UNCHANGED <<enabled, warnings, events, lost>>
     \/ \E r \in asks[q] :
          /\ main[q] = "reporting"
          /\ Counts(q, warnings[Session(q)])
          /\ \/ at[q][r] = "done" /\ result[q][r] \in Bad
                /\ StoreFails(q, Event(r, result[q][r])) /\ UNCHANGED enabled
             \/ at[q][r] = "retiring" /\ UnregisterFails(r) /\ StoreFails(q, Event(r, "kept"))
  /\ Goto(q, "failed")
  /\ UNCHANGED <<body, asks, at, result, seen, run>>

\* Mutant of RunStatus: a word the table does not know.
StatusFailed(q) == IF \E r \in asks[q] : result[q][r] \in Errors THEN "failed" ELSE "ok"
RunStatus(q) ==
  IF \E r \in asks[q] : result[q][r] \in Errors THEN "error"
  ELSE IF warnings[q] > 0 THEN "warning" ELSE "ok"

FinishRow(q) ==
  run' = [run EXCEPT ![q] = [status |-> RunStatus(q), warnings |-> warnings[q]]]

Finish(q) ==
  /\ main[q] = "finishing"
  /\ FinishRow(q)
  /\ Goto(q, "answered")
  /\ UNCHANGED <<enabled, body, asks, at, result, sessions, events, lost>>

\* Mutant of FinishFails: the caller gets results although the row could not be updated.
FinishFailsQuietly(q) ==
  /\ main[q] = "finishing"
  /\ Goto(q, "answered")
  /\ UNCHANGED <<enabled, body, asks, at, result, sessions, tables>>
FinishFails(q) ==
  /\ main[q] = "finishing"
  /\ FinishRow(q) \/ UNCHANGED run
  /\ Goto(q, "failed")
  /\ UNCHANGED <<enabled, body, asks, at, result, sessions, events, lost>>

-----------------------------------------------------------------------------
(* The registry *)

\* register_change_tracking_table, for the register handlers.
Enroll(r) ==
  /\ enabled' = enabled \cup {r}
  /\ UNCHANGED <<body, asks, main, at, result, sessions, tables>>

-----------------------------------------------------------------------------
(* Specification *)

\* What goes on whatever access the service account has.
HandlerStep(q) ==
  \/ OpenRun(q) \/ OpenFails(q) \/ StartPooling(q)
  \/ AllDone(q) \/ Completed(q) \/ HandlerFails(q) \/ Finish(q) \/ FinishFails(q)
  \/ \E r \in Relations : NothingToReport(q, r) \/ TellResult(q, r) \/ Retire(q, r)

WorkerStep(q, r) ==
  \/ Take(q, r) \/ LockTable(q, r) \/ EndsEarly(q, r) \/ HistoryIsOn(q, r)
  \/ HistoryIsOff(q, r) \/ HistoryLost(q, r)
  \/ AlterFails(q, r) \/ Reported(q, r) \/ ReportFails(q, r)

\* What depends on access, or records that it is missing.
AccessStep(q, r) ==
  Altered(q, r) \/ Pooled(q, r) \/ RecordRefusal(q, r) \/ RecordDenial(q, r)

RunsNext ==
  \/ \E q \in Requests :
       \/ HandlerStep(q)
       \/ \E r \in Relations : WorkerStep(q, r) \/ LockFails(q, r) \/ AccessStep(q, r)
  \/ \E r \in Relations : Enroll(r)

RunsSpec == RunsInit /\ [][RunsNext]_runsVars

-----------------------------------------------------------------------------
(* Correctness *)

Stages == Locked \cup {"queued", "locking", "done", "noting", "retiring", "told"}

RunsTypeOK ==
  /\ enabled \subseteq Relations
  /\ body \in [Requests -> SUBSET Relations]
  /\ asks \in [Requests -> SUBSET Relations]
  /\ main \in [Requests -> {"new", "opened", "pooling", "reporting", "finishing",
                            "answered", "failed"}]
  /\ at \in [Requests -> [Relations -> Stages]]
  /\ result \in [Requests -> [Relations -> Outcomes \cup {"none"}]]
  /\ seen \in [Requests -> [Relations -> Nat]]
  /\ warnings \in [Requests -> Nat]
  /\ run \in [Requests -> [status : Finished \cup {"absent", "running"}, warnings : Nat]]
  /\ events \in [Requests -> SUBSET [rel : Relations, what : Inside \cup Bad \cup {"kept"}]]
  /\ lost \in [Requests -> Nat]

\* The counters of a session agree with its events in the table, however its workers' events
\* interleave and whichever inserts fail: _event_lock around on_event and finish.
WarningsAddUp ==
  \A q \in Requests : warnings[q] = Cardinality(events[q]) + lost[q]

\* A finished run tells what happened: its warnings are the events of its own relations, one
\* of them for every relation that was not pooled, and it is "ok" only if nothing at all was
\* wrong (PoolRunSession.finish, _emit_result_events).
RunTellsTheTruth ==
  \A q \in Requests : run[q].status \in Finished =>
    /\ run[q].warnings = Cardinality(events[q]) + lost[q]
    /\ \A e \in events[q] : e.rel \in asks[q]
    /\ \A r \in asks[q] : result[q][r] = "ok" \/ Event(r, result[q][r]) \in events[q]
    /\ run[q].status = "ok" => events[q] = {} /\ lost[q] = 0
    /\ run[q].status = "error" <=> \E r \in asks[q] : result[q][r] \in Errors
=============================================================================
