----------------------------- MODULE QueryJobs ------------------------------
(***************************************************************************)
(* How dbt threads run SQL statements and table copies as BigQuery jobs    *)
(* (connections.py, retry.py): predetermined job ids, submissions whose    *)
(* request or response is lost or late, attaching on 409, polling, retries *)
(* of what failed, timeouts, and cancel_open on the main thread when the   *)
(* run is interrupted.  Each action is one request to BigQuery with what   *)
(* the code does about its answer, so that threads interleave between any  *)
(* two requests.                                                           *)
(***************************************************************************)
EXTENDS Integers, Sequences, SequencesExt

CONSTANTS
  Threads,     \* worker threads, a connection each
  Statements,  \* what there is to run
  Copies,      \* the statements that are table copies
  JobIds,      \* uuid4 values
  NoWork,      \* what an idle thread does
  NoThread,    \* cancel_open is at no thread
  Retries,     \* job_retries
  CancelFaults \* whether a cancel request may fail on its way

ASSUME ConstantsAssumption ==
  /\ Retries \in Nat
  /\ CancelFaults \in BOOLEAN
  /\ Copies \subseteq Statements
  /\ NoThread \notin Threads

VARIABLES
  jobs,       \* BigQuery, per id: "absent", "sent", "running", "done", "failed" (for good),
              \* "crashed" (with a reason worth a retry) or "stopped" (cancelled)
  asked,      \* BigQuery, per id: cancellation was requested
  outcome,    \* per statement: "new", "open", "ok" or "raised"
  minted,     \* per statement: the job ids generated for it
  pc,         \* per thread: "idle", "submit", "poll" or "failing"
  work,       \* per thread: its statement, job id, count of errors and last failure
  conn,       \* per thread: connection state "open", "closed" or "failed"
  registered, \* per thread: jobs_by_thread
  phase,      \* cancel_open: "off", "running", "returned" or "aborted"
  pending,    \* cancel_open: threads it has not finished with
  visiting,   \* cancel_open: the thread whose jobs it cancels
  index       \* cancel_open: position in that thread's list

server    == <<jobs, asked>>
canceller == <<phase, pending, visiting, index>>
vars      == <<server, outcome, minted, pc, work, conn, registered, canceller>>

-----------------------------------------------------------------------------
(* Helpers *)

Ended    == {"done", "failed", "crashed", "stopped"}
Failures == {"retryable", "connection", "fatal"}

\* What jobs.insert and jobs.cancel can find.
Exists(j) == jobs[j] \in {"running"} \cup Ended

Goto(t, label) == pc' = [pc EXCEPT ![t] = label]

\* An attempt ends with an exception of kind f.
Fails(t, f) ==
  /\ Goto(t, "failing")
  /\ work' = [work EXCEPT ![t].failure = f]

\* The caller of raw_execute or copy_bq_table learns how it went.
Ends(t, how) ==
  /\ Goto(t, "idle")
  /\ work' = [work EXCEPT ![t] = NoWork]
  /\ outcome' = [outcome EXCEPT ![work[t].stmt] = how]

AskToStop(j) == asked' = [asked EXCEPT ![j] = jobs[j] = "running" \/ @]

Init ==
  /\ jobs       = [j \in JobIds |-> "absent"]
  /\ asked      = [j \in JobIds |-> FALSE]
  /\ outcome    = [s \in Statements |-> "new"]
  /\ minted     = [s \in Statements |-> {}]
  /\ pc         = [t \in Threads |-> "idle"]
  /\ work       = [t \in Threads |-> NoWork]
  /\ conn       = [t \in Threads |-> "open"]
  /\ registered = [t \in Threads |-> <<>>]
  /\ phase = "off" /\ pending = {} /\ visiting = NoThread /\ index = 0

-----------------------------------------------------------------------------
(* BigQuery *)

\* A request whose response nobody waits for any more arrives; a second one finds the job.
Arrive(j) ==
  /\ jobs[j] = "sent"
  /\ jobs' = [jobs EXCEPT ![j] = "running"]
  /\ UNCHANGED <<asked, outcome, minted, pc, work, conn, registered, canceller>>

\* The job ends, by its own means, its job_timeout_ms, or because it was asked to.
Finish(j, how) ==
  /\ jobs[j] = "running"
  /\ how = "stopped" => asked[j]
  /\ jobs' = [jobs EXCEPT ![j] = how]
  /\ UNCHANGED <<asked, outcome, minted, pc, work, conn, registered, canceller>>

-----------------------------------------------------------------------------
(* raw_execute and copy_bq_table *)

\* A node opens its connection anew, the next statement of a node uses the one there is;
\* generate_job_id registers the id before anything is sent.
Begin(t, s, j) ==
  /\ pc[t] = "idle" /\ outcome[s] = "new"
  /\ \A r \in Statements : j \notin minted[r]
  /\ \/ conn' = [conn EXCEPT ![t] = "open"]
     \/ conn[t] # "failed" /\ UNCHANGED conn
  /\ outcome'    = [outcome EXCEPT ![s] = "open"]
  /\ minted'     = [minted EXCEPT ![s] = {j}]
  /\ registered' = [registered EXCEPT ![t] = Append(@, j)]
  /\ work' = [work EXCEPT ![t] = [stmt |-> s, job |-> j, errors |-> 0, failure |-> "none"]]
  /\ Goto(t, "submit")
  /\ UNCHANGED <<server, canceller>>

\* The request leaves and no answer comes: the client library sends it again.
Send(t) ==
  /\ pc[t] = "submit" /\ jobs[work[t].job] = "absent"
  /\ jobs' = [jobs EXCEPT ![work[t].job] = "sent"]
  /\ UNCHANGED <<asked, outcome, minted, pc, work, conn, registered, canceller>>

Accepted(t) ==
  /\ pc[t] = "submit" /\ ~Exists(work[t].job)
  /\ jobs' = [jobs EXCEPT ![work[t].job] = "running"]
  /\ Goto(t, "poll")
  /\ UNCHANGED <<asked, outcome, minted, work, conn, registered, canceller>>

\* _submit_or_attach: 409 Conflict, so the job is looked up instead.
Attach(t) ==
  /\ pc[t] = "submit" /\ Exists(work[t].job)
  /\ Goto(t, "poll")
  /\ UNCHANGED <<server, outcome, minted, work, conn, registered, canceller>>

\* BigQuery refuses the job, or the last of the library's requests gets no answer, or the
\* lookup after a 409 fails.
SubmitFails(t) ==
  /\ pc[t] = "submit"
  /\ \E f \in Failures : Fails(t, f)
  /\ UNCHANGED <<server, outcome, minted, conn, registered, canceller>>

PollDone(t) ==
  /\ pc[t] = "poll" /\ jobs[work[t].job] = "done"
  /\ Ends(t, "ok")
  /\ UNCHANGED <<server, minted, conn, registered, canceller>>

\* Only a query is retried as a whole; the retry of a copy ends with its submission.
Repeatable(t, f) == IF work[t].stmt \in Copies THEN "fatal" ELSE f

\* _TerminalJobAwarePredicate: a job that is dead is not polled any longer.
PollDead(t) ==
  /\ pc[t] = "poll" /\ jobs[work[t].job] \in Ended \ {"done"}
  /\ Fails(t, IF jobs[work[t].job] = "crashed" THEN Repeatable(t, "retryable") ELSE "fatal")
  /\ UNCHANGED <<server, outcome, minted, conn, registered, canceller>>

\* A transient error with no retries, RetryError when the polling deadline has passed, or an
\* error that is not worth a retry.
PollFails(t) ==
  /\ pc[t] = "poll"
  /\ \E f \in {"retryable", "fatal"} : Fails(t, Repeatable(t, f))
  /\ UNCHANGED <<server, outcome, minted, conn, registered, canceller>>

\* The polling timeout: a query is asked to stop, as far as that request gets through.
PollTimeout(t) ==
  /\ pc[t] = "poll"
  /\ \/ work[t].stmt \notin Copies /\ AskToStop(work[t].job)
     \/ UNCHANGED asked
  /\ Fails(t, "fatal")
  /\ UNCHANGED <<jobs, outcome, minted, conn, registered, canceller>>

-----------------------------------------------------------------------------
(* create_reopen_with_deadline around an attempt *)

\* Mutant of MayRetry: one retry too many.
MayRetryOnce(t) == work[t].failure # "fatal" /\ work[t].errors <= Retries
\* _DeferredException: every error counts, only some are worth a retry.
MayRetry(t) == work[t].failure # "fatal" /\ work[t].errors < Retries

\* Mutant of Counted: every attempt gets a _DeferredException of its own.
Uncounted(t) == work[t].errors
Counted(t)   == work[t].errors + 1

\* Mutant of RetryIds: an id for every attempt, as generate_job_id announces.
MintedIds(t) == {j \in JobIds : \A s \in Statements : j \notin minted[s]}
\* The id of the next attempt: the closure keeps the one minted before it.
RetryIds(t) == {work[t].job}

\* The next attempt, after reopening a broken connection.
Resubmit(t) ==
  /\ pc[t] = "failing" /\ MayRetry(t)
  /\ \E j \in RetryIds(t) :
       /\ work' = [work EXCEPT ![t].job = j, ![t].errors = Counted(t), ![t].failure = "none"]
       /\ minted' = [minted EXCEPT ![work[t].stmt] = @ \cup {j}]
  /\ conn' = IF work[t].failure = "connection" THEN [conn EXCEPT ![t] = "open"] ELSE conn
  /\ Goto(t, "submit")
  /\ UNCHANGED <<server, outcome, registered, canceller>>

\* _create_reopen_on_error cannot connect.
ReopenFails(t) ==
  /\ pc[t] = "failing" /\ MayRetry(t) /\ work[t].failure = "connection"
  /\ conn' = [conn EXCEPT ![t] = "failed"]
  /\ Ends(t, "raised")
  /\ UNCHANGED <<server, minted, registered, canceller>>

\* Not worth a retry, too many errors, or past the deadline of the retries.
GiveUp(t) ==
  /\ pc[t] = "failing"
  /\ Ends(t, "raised")
  /\ UNCHANGED <<server, minted, conn, registered, canceller>>

-----------------------------------------------------------------------------
(* cancel_open *)

CancelOpen ==
  /\ phase = "off"
  /\ phase' = "running"
  /\ pending' = Threads
  /\ UNCHANGED <<server, outcome, minted, pc, work, conn, registered, visiting, index>>

\* Mutant of FirstIndex: only the job a thread is at.
LastIndex(t)  == Len(registered[t])
FirstIndex(t) == 1

\* Only connections that are open are looked at.
Visit(t) ==
  /\ phase = "running" /\ visiting = NoThread /\ t \in pending
  /\ IF conn[t] = "open"
     THEN visiting' = t /\ index' = FirstIndex(t) /\ UNCHANGED pending
     ELSE pending' = pending \ {t} /\ UNCHANGED <<visiting, index>>
  /\ UNCHANGED <<server, outcome, minted, pc, work, conn, registered, phase>>

\* The job under the cursor, while the list it is in may grow.
Cancelling(j) ==
  /\ phase = "running" /\ visiting # NoThread
  /\ index \in DOMAIN registered[visiting]
  /\ j = registered[visiting][index]

CancelJob(j) ==
  /\ Cancelling(j) /\ Exists(j)
  /\ AskToStop(j)
  /\ index' = index + 1
  /\ UNCHANGED <<jobs, outcome, minted, pc, work, conn, registered, phase, pending, visiting>>

\* BigQuery answers 404, and exception_handler raises out of the loops.
CancelNotFound(j) ==
  /\ Cancelling(j) /\ ~Exists(j)
  /\ phase' = "aborted"
  /\ UNCHANGED <<server, outcome, minted, pc, work, conn, registered, pending, visiting, index>>

\* The cancel request fails otherwise, perhaps because the connection cannot be reopened.
CancelFails(j) ==
  /\ CancelFaults /\ Cancelling(j)
  /\ phase' = "aborted"
  /\ conn' = [conn EXCEPT ![visiting] = "failed"] \/ UNCHANGED conn
  /\ UNCHANGED <<server, outcome, minted, pc, work, registered, pending, visiting, index>>

Close ==
  /\ phase = "running" /\ visiting # NoThread
  /\ index > Len(registered[visiting])
  /\ conn' = [conn EXCEPT ![visiting] = "closed"]
  /\ pending' = pending \ {visiting}
  /\ visiting' = NoThread
  /\ index' = 0
  /\ UNCHANGED <<server, outcome, minted, pc, work, registered, phase>>

CancelReturns ==
  /\ phase = "running" /\ visiting = NoThread /\ pending = {}
  /\ phase' = "returned"
  /\ UNCHANGED <<server, outcome, minted, pc, work, conn, registered, pending, visiting, index>>

-----------------------------------------------------------------------------
(* Specification *)

\* What a thread does about a statement it has begun.
Step(t) ==
  \/ Send(t) \/ Accepted(t) \/ Attach(t) \/ SubmitFails(t)
  \/ PollDone(t) \/ PollDead(t) \/ PollFails(t) \/ PollTimeout(t)
  \/ Resubmit(t) \/ ReopenFails(t) \/ GiveUp(t)

BigQuery == \E j \in JobIds : Arrive(j) \/ \E how \in Ended : Finish(j, how)

Cancel ==
  \/ CancelOpen \/ Close \/ CancelReturns
  \/ \E t \in Threads : Visit(t)
  \/ \E j \in JobIds : CancelJob(j) \/ CancelNotFound(j) \/ CancelFails(j)

Next ==
  \/ BigQuery
  \/ \E t \in Threads : Step(t) \/ \E s \in Statements, j \in JobIds : Begin(t, s, j)
  \/ Cancel

Spec == Init /\ [][Next]_vars

-----------------------------------------------------------------------------
(* Correctness *)

Work == [stmt : Statements, job : JobIds, errors : 0..Retries, failure : Failures \cup {"none"}]

TypeOK ==
  /\ jobs \in [JobIds -> {"absent", "sent", "running"} \cup Ended]
  /\ asked \in [JobIds -> BOOLEAN]
  /\ outcome \in [Statements -> {"new", "open", "ok", "raised"}]
  /\ minted \in [Statements -> SUBSET JobIds]
  /\ pc \in [Threads -> {"idle", "submit", "poll", "failing"}]
  /\ work \in [Threads -> Work \cup {NoWork}]
  /\ \A t \in Threads : pc[t] # "idle" => work[t] \in Work
  /\ conn \in [Threads -> {"open", "closed", "failed"}]
  /\ registered \in [Threads -> Seq(JobIds)]
  /\ phase \in {"off", "running", "returned", "aborted"}
  /\ pending \subseteq Threads
  /\ visiting \in Threads \cup {NoThread}
  /\ index \in Nat

\* A statement's work is done at most once and only "ok" when done, however submissions are
\* lost, late, repeated or attached to, and however jobs and polls fail
\* (.changes/1.12.0.md:14, _submit_or_attach, raw_execute).
Effects == INSTANCE StatementEffects WITH
  executed <- [s \in Statements |-> {j \in minted[s] : jobs[j] = "done"}]
ImplementsEffects == Effects!Spec

\* When cancel_open closes a connection, BigQuery has been asked to stop every job its thread
\* ever started that still runs: also those a timeout or a deadline left behind.
ClosedMeansAsked ==
  [][\A t \in Threads : conn[t] # "closed" /\ conn'[t] = "closed" =>
       \A i \in DOMAIN registered[t] :
         jobs[registered[t][i]] = "running" => asked[registered[t][i]]]_vars

\* Bound on the requests a thread still makes for its statement: four an attempt, and a retry.
StepsLeft(t) ==
  IF pc[t] = "idle" THEN 0
  ELSE 5 * (Retries - work[t].errors)
       + (CASE pc[t] = "submit"  -> IF jobs[work[t].job] = "absent" THEN 4 ELSE 3
            [] pc[t] = "poll"    -> 2
            [] pc[t] = "failing" -> 1)

\* Every statement ends, for a thread never goes back, over all the attempts of a statement
\* together: no answer of BigQuery, and nothing another thread or cancel_open does, gives it
\* more to do, and each step of its own leaves it less.
RetriesRunOut ==
  [][\A t \in Threads : pc[t] # "idle" =>
       /\ StepsLeft(t)' <= StepsLeft(t)
       /\ <<pc[t], work[t]>>' # <<pc[t], work[t]>> => StepsLeft(t)' < StepsLeft(t)]_vars

(* Why they hold: the invariants the proofs rest on *)

\* A statement keeps the id minted for it, and nobody else has that id.
KeepsItsId ==
  /\ \A r, s \in Statements : \A i \in minted[r], j \in minted[s] : r = s <=> i = j
  /\ \A s \in Statements : minted[s] = {} <=> outcome[s] = "new"
  /\ \A j \in JobIds : jobs[j] # "absent" => \E s \in Statements : j \in minted[s]

\* A thread is alone with the statement it runs, under the id minted for it.
RunsItsOwn ==
  \A t \in Threads : pc[t] # "idle" =>
    /\ outcome[work[t].stmt] = "open" /\ work[t].job \in minted[work[t].stmt]
    /\ \A u \in Threads : pc[u] # "idle" /\ work[u].stmt = work[t].stmt => u = t

\* What was reported as done is done.
OkIsDone ==
  \A s \in Statements : outcome[s] = "ok" => \A j \in minted[s] : jobs[j] = "done"

\* The jobs cancel_open has been through exist, and were asked to stop if they run.
AskedSoFar ==
  /\ phase = "off" => visiting = NoThread
  /\ phase = "running" /\ visiting # NoThread =>
       \A i \in 1..(index - 1) :
         /\ i \in DOMAIN registered[visiting] /\ Exists(registered[visiting][i])
         /\ jobs[registered[visiting][i]] = "running" => asked[registered[visiting][i]]

EffectsInv == KeepsItsId /\ RunsItsOwn /\ OkIsDone

(* What a comment says *)

\* connections.py: "the race condition only leads to attempting to cancel a job that doesn't
\* exist".  So it must not leave alone the job of a thread cancel_open has not come to.
CancelReachesOthers ==
  phase = "aborted" =>
    \A t \in pending \ {visiting} :
      ~(conn[t] = "open" /\ pc[t] = "poll" /\ jobs[work[t].job] = "running")
=============================================================================
