-------------------------- MODULE QueryJobsProofs --------------------------
(***************************************************************************)
(* Proofs about QueryJobs for every set of threads, statements and ids,    *)
(* and every number of retries.                                            *)
(***************************************************************************)
EXTENDS QueryJobs, SequenceTheorems, TLAPS

-----------------------------------------------------------------------------
(* Types *)

\* What a thread's steps do to the types of its work.
LEMMA FailsTypes ==
  ASSUME TypeOK, NEW t \in Threads, work[t] \in Work, NEW f \in Failures, Fails(t, f)
  PROVE  /\ pc' \in [Threads -> {"idle", "submit", "poll", "failing"}]
         /\ work' \in [Threads -> Work \cup {NoWork}]
         /\ \A u \in Threads : pc'[u] # "idle" => work'[u] \in Work
<1>1. [work[t] EXCEPT !.failure = f] \in Work
  BY DEF Work
<1> QED
  BY <1>1 DEF TypeOK, Fails, Goto

LEMMA EndsTypes ==
  ASSUME TypeOK, NEW t \in Threads, work[t] \in Work, NEW how \in {"ok", "raised"}, Ends(t, how)
  PROVE  /\ pc' \in [Threads -> {"idle", "submit", "poll", "failing"}]
         /\ work' \in [Threads -> Work \cup {NoWork}]
         /\ \A u \in Threads : pc'[u] # "idle" => work'[u] \in Work
         /\ outcome' \in [Statements -> {"new", "open", "ok", "raised"}]
BY DEF TypeOK, Ends, Goto, Work

\* A step of BigQuery, of a thread or of cancel_open keeps the types.
LEMMA TypeStep == TypeOK /\ [Next]_vars => TypeOK'
<1> SUFFICES ASSUME TypeOK, [Next]_vars PROVE TypeOK'
  OBVIOUS
<1> USE ConstantsAssumption
<1>1. ASSUME NEW j \in JobIds, Arrive(j) PROVE TypeOK'
  BY <1>1 DEF Arrive, TypeOK, canceller
<1>2. ASSUME NEW j \in JobIds, NEW how \in Ended, Finish(j, how) PROVE TypeOK'
  BY <1>2 DEF Finish, TypeOK, canceller, Ended
<1>3. ASSUME NEW t \in Threads, NEW s \in Statements, NEW j \in JobIds, Begin(t, s, j)
      PROVE TypeOK'
  <2>1. [stmt |-> s, job |-> j, errors |-> 0, failure |-> "none"] \in Work
    BY DEF Work
  <2>2. registered' \in [Threads -> Seq(JobIds)]
    BY <1>3 DEF Begin, TypeOK
  <2> QED
    BY <1>3, <2>1, <2>2 DEF Begin, Goto, TypeOK, server, canceller
<1>4. ASSUME NEW t \in Threads, Step(t) PROVE TypeOK'
  <2>0. work[t] \in Work
    BY <1>4 DEF Step, Send, Accepted, Attach, SubmitFails, PollDone, PollDead, PollFails,
                PollTimeout, Resubmit, ReopenFails, GiveUp, TypeOK
  <2>1. CASE Send(t) \/ Accepted(t) \/ Attach(t)
    BY <2>0, <2>1 DEF Send, Accepted, Attach, Goto, TypeOK, server, canceller
  <2>2. CASE SubmitFails(t)
    <3>1. PICK f \in Failures : Fails(t, f)
      BY <2>2 DEF SubmitFails
    <3> QED
      BY <2>0, <2>2, <3>1, FailsTypes DEF SubmitFails, TypeOK, server, canceller
  <2>3. CASE PollDone(t)
    <3>1. Ends(t, "ok")
      BY <2>3 DEF PollDone
    <3> QED
      BY <2>0, <2>3, <3>1, EndsTypes DEF PollDone, TypeOK, server, canceller
  <2>4. CASE PollDead(t) \/ PollFails(t)
    <3>1. PICK f \in Failures : Fails(t, f)
      BY <2>4 DEF PollDead, PollFails, Repeatable, Failures
    <3> QED
      BY <2>0, <2>4, <3>1, FailsTypes DEF PollDead, PollFails, TypeOK, server, canceller
  <2>5. CASE PollTimeout(t)
    <3>1. Fails(t, "fatal") /\ "fatal" \in Failures
      BY <2>5 DEF PollTimeout, Failures
    <3>2. asked' \in [JobIds -> BOOLEAN]
      BY <2>5 DEF PollTimeout, AskToStop, TypeOK
    <3> QED
      BY <2>0, <2>5, <3>1, <3>2, FailsTypes DEF PollTimeout, TypeOK, canceller
  <2>6. CASE Resubmit(t)
    <3>1. PICK j \in RetryIds(t) :
            /\ work' = [work EXCEPT ![t].job = j, ![t].errors = Counted(t), ![t].failure = "none"]
            /\ minted' = [minted EXCEPT ![work[t].stmt] = @ \cup {j}]
      BY <2>6 DEF Resubmit
    <3>2. j \in JobIds
      BY <2>0, <3>1 DEF RetryIds, Work
    <3>3. Counted(t) \in 0..Retries
      <4>1. work[t].errors \in 0..Retries /\ work[t].errors < Retries
        BY <2>0, <2>6 DEF Work, Resubmit, MayRetry
      <4> QED
        BY <4>1 DEF Counted
    <3>4. [work[t] EXCEPT !.job = j, !.errors = Counted(t), !.failure = "none"] \in Work
      BY <2>0, <3>2, <3>3 DEF Work
    <3>5. /\ work' \in [Threads -> Work \cup {NoWork}]
          /\ \A u \in Threads : u # t => work'[u] = work[u]
          /\ work'[t] \in Work
      BY <3>1, <3>4 DEF TypeOK
    <3>6. minted' \in [Statements -> SUBSET JobIds]
      BY <2>0, <3>1, <3>2 DEF TypeOK, Work
    <3>7. conn' \in [Threads -> {"open", "closed", "failed"}]
      BY <2>6 DEF Resubmit, TypeOK
    <3> QED
      BY <2>6, <3>5, <3>6, <3>7 DEF Resubmit, Goto, TypeOK, server, canceller
  <2>7. CASE ReopenFails(t) \/ GiveUp(t)
    <3>1. Ends(t, "raised")
      BY <2>7 DEF ReopenFails, GiveUp
    <3> QED
      BY <2>0, <2>7, <3>1, EndsTypes DEF ReopenFails, GiveUp, TypeOK, server, canceller
  <2> QED
    BY <1>4, <2>1, <2>2, <2>3, <2>4, <2>5, <2>6, <2>7 DEF Step
<1>5. CASE CancelOpen \/ CancelReturns \/ \E t \in Threads : Visit(t)
  BY <1>5 DEF CancelOpen, CancelReturns, Visit, FirstIndex, TypeOK, server
<1>6. CASE Close
  BY <1>6 DEF Close, TypeOK, server
<1>7. ASSUME NEW j \in JobIds, CancelJob(j) \/ CancelNotFound(j) \/ CancelFails(j) PROVE TypeOK'
  <2>1. CASE CancelJob(j)
    <3>1. asked' \in [JobIds -> BOOLEAN]
      BY <2>1 DEF CancelJob, AskToStop, TypeOK
    <3>2. index' \in Nat
      BY <2>1 DEF CancelJob, TypeOK
    <3> QED
      BY <2>1, <3>1, <3>2 DEF CancelJob, TypeOK
  <2>2. CASE CancelNotFound(j) \/ CancelFails(j)
    BY <2>2 DEF CancelNotFound, CancelFails, TypeOK, server
  <2> QED
    BY <1>7, <2>1, <2>2
<1>8. CASE UNCHANGED vars
  BY <1>8 DEF vars, server, canceller, TypeOK
<1> QED
  BY <1>1, <1>2, <1>3, <1>4, <1>5, <1>6, <1>7, <1>8 DEF Next, BigQuery, Cancel

\* Type correctness of the query path (connections.py, retry.py).
THEOREM TypeCorrect == Spec => []TypeOK
<1>1. Init => TypeOK
  BY ConstantsAssumption DEF Init, TypeOK
<1> QED
  BY <1>1, TypeStep, PTL DEF Spec

-----------------------------------------------------------------------------
(* Statements are executed at most once *)

\* A step of BigQuery or cancel_open touches no statement and no thread's work.
LEMMA OutsideSteps ==
  ASSUME BigQuery \/ Cancel
  PROVE  UNCHANGED <<outcome, minted, pc, work>>
BY DEF BigQuery, Arrive, Finish, Cancel, CancelOpen, Close, CancelReturns, Visit, CancelJob,
       CancelNotFound, CancelFails

\* A step of a thread keeps the ids, and its own statement until the end of it.
LEMMA ThreadSteps ==
  ASSUME TypeOK, EffectsInv, NEW t \in Threads, Step(t)
  PROVE  /\ minted' = minted
         /\ \A u \in Threads : u # t => pc'[u] = pc[u] /\ work'[u] = work[u]
         /\ pc[t] # "idle"
         /\ \/ /\ outcome' = outcome
               /\ pc'[t] # "idle"
               /\ work'[t].stmt = work[t].stmt /\ work'[t].job = work[t].job
            \/ /\ outcome' = [outcome EXCEPT ![work[t].stmt] = "raised"]
               /\ pc'[t] = "idle"
            \/ /\ outcome' = [outcome EXCEPT ![work[t].stmt] = "ok"]
               /\ pc'[t] = "idle"
               /\ jobs[work[t].job] = "done"
<1>0. pc[t] # "idle"
  BY DEF Step, Send, Accepted, Attach, SubmitFails, PollDone, PollDead, PollFails,
         PollTimeout, Resubmit, ReopenFails, GiveUp
<1>1. work[t] \in Work /\ work[t].job \in minted[work[t].stmt]
  BY <1>0 DEF TypeOK, EffectsInv, RunsItsOwn
<1>2. CASE Send(t) \/ Accepted(t) \/ Attach(t)
  BY <1>0, <1>2 DEF Send, Accepted, Attach, Goto, TypeOK
<1>3. CASE SubmitFails(t) \/ PollDead(t) \/ PollFails(t) \/ PollTimeout(t)
  <2>1. PICK f : Fails(t, f)
    BY <1>3 DEF SubmitFails, PollDead, PollFails, PollTimeout
  <2>2. minted' = minted /\ outcome' = outcome
    BY <1>3 DEF SubmitFails, PollDead, PollFails, PollTimeout
  <2> QED
    BY <1>0, <1>1, <2>1, <2>2 DEF Fails, Goto, TypeOK, Work
<1>4. CASE PollDone(t)
  BY <1>0, <1>1, <1>4 DEF PollDone, Ends, Goto, TypeOK
<1>5. CASE ReopenFails(t) \/ GiveUp(t)
  <2>1. Ends(t, "raised") /\ minted' = minted
    BY <1>5 DEF ReopenFails, GiveUp
  <2> QED
    BY <1>0, <2>1 DEF Ends, Goto, TypeOK
<1>6. CASE Resubmit(t)
  <2>1. minted' = [minted EXCEPT ![work[t].stmt] = @ \cup {work[t].job}]
    BY <1>6 DEF Resubmit, RetryIds
  <2>2. minted' = minted
    BY <1>1, <2>1 DEF TypeOK
  <2>3. work' = [work EXCEPT ![t].job = work[t].job, ![t].errors = Counted(t),
                             ![t].failure = "none"]
    BY <1>6 DEF Resubmit, RetryIds
  <2>4. work'[t].stmt = work[t].stmt /\ work'[t].job = work[t].job
    BY <1>1, <2>3 DEF TypeOK, Work
  <2> QED
    BY <1>0, <1>6, <2>2, <2>3, <2>4 DEF Resubmit, Goto, TypeOK
<1> QED
  BY <1>2, <1>3, <1>4, <1>5, <1>6 DEF Step

\* Jobs only move forward: from absent or sent to running, and from running to an end.
LEMMA JobsForward ==
  ASSUME TypeOK, [Next]_vars, NEW j \in JobIds
  PROVE  /\ jobs[j] \in Ended => jobs'[j] = jobs[j]
         /\ Exists(j) => jobs'[j] = jobs[j] \/ (jobs[j] = "running" /\ jobs'[j] \in Ended)
         /\ jobs'[j] = "done" => jobs[j] \in {"running", "done"}
         /\ jobs[j] # "absent" => jobs'[j] # "absent"
<1>1. ASSUME NEW i \in JobIds, Arrive(i) \/ \E how \in Ended : Finish(i, how)
      PROVE  \/ jobs'[j] = jobs[j]
             \/ jobs[j] = "sent" /\ jobs'[j] = "running"
             \/ jobs[j] = "running" /\ jobs'[j] \in Ended
  BY <1>1 DEF Arrive, Finish, TypeOK
<1>2. ASSUME NEW t \in Threads, Send(t) \/ Accepted(t)
      PROVE  \/ jobs'[j] = jobs[j]
             \/ ~Exists(j) /\ jobs'[j] \in {"sent", "running"}
  BY <1>2 DEF Send, Accepted, TypeOK, Exists, Ended
<1>3. ASSUME NEW t \in Threads, Step(t), ~Send(t), ~Accepted(t)
      PROVE  jobs' = jobs
  BY <1>3 DEF Step, Attach, SubmitFails, PollDone, PollDead, PollFails, PollTimeout, Resubmit,
              ReopenFails, GiveUp, server
<1>4. ASSUME \/ Cancel
             \/ \E t \in Threads, s \in Statements, i \in JobIds : Begin(t, s, i)
             \/ UNCHANGED vars
      PROVE  jobs' = jobs
  BY <1>4 DEF Cancel, CancelOpen, Close, CancelReturns, Visit, CancelJob, CancelNotFound,
              CancelFails, Begin, server, vars
<1> QED
  BY <1>1, <1>2, <1>3, <1>4 DEF Next, BigQuery, Exists, Ended

\* The invariant behind ImplementsEffects is kept.
LEMMA EffectsStep == TypeOK /\ EffectsInv /\ [Next]_vars => EffectsInv'
<1> SUFFICES ASSUME TypeOK, EffectsInv, [Next]_vars PROVE EffectsInv'
  OBVIOUS
<1>0. TypeOK'
  BY TypeStep
<1>1. CASE BigQuery \/ Cancel
  <2>1. UNCHANGED <<outcome, minted, pc, work>>
    BY <1>1, OutsideSteps
  <2>2. KeepsItsId'
    <3>1. \A j \in JobIds : jobs[j] = "absent" => jobs'[j] = "absent"
      BY <1>1 DEF BigQuery, Arrive, Finish, Cancel, CancelOpen, Close, CancelReturns, Visit,
                  CancelJob, CancelNotFound, CancelFails, server, TypeOK
    <3> QED
      BY <2>1, <3>1 DEF EffectsInv, KeepsItsId
  <2>3. RunsItsOwn'
    BY <2>1 DEF EffectsInv, RunsItsOwn
  <2>4. OkIsDone'
    BY <2>1, JobsForward DEF EffectsInv, OkIsDone, Ended, TypeOK
  <2> QED
    BY <2>2, <2>3, <2>4 DEF EffectsInv
<1>2. ASSUME NEW t \in Threads, NEW s \in Statements, NEW j \in JobIds, Begin(t, s, j)
      PROVE EffectsInv'
  <2>1. /\ outcome[s] = "new" /\ outcome' = [outcome EXCEPT ![s] = "open"]
        /\ \A r \in Statements : j \notin minted[r]
        /\ minted' = [minted EXCEPT ![s] = {j}]
        /\ jobs' = jobs
        /\ pc' = [pc EXCEPT ![t] = "submit"]
        /\ work' = [work EXCEPT ![t] = [stmt |-> s, job |-> j, errors |-> 0, failure |-> "none"]]
    BY <1>2 DEF Begin, Goto, server
  <2>2. KeepsItsId'
    BY <2>1 DEF EffectsInv, KeepsItsId, TypeOK
  <2>3. RunsItsOwn'
    <3>1. \A u \in Threads : u # t /\ pc[u] # "idle" => work[u].stmt # s /\ work[u].stmt \in Statements
      BY <2>1 DEF EffectsInv, RunsItsOwn, TypeOK, Work
    <3>2. \A u \in Threads : u # t => pc'[u] = pc[u] /\ work'[u] = work[u]
      BY <2>1 DEF TypeOK
    <3>3. work'[t].stmt = s /\ work'[t].job = j
      BY <2>1 DEF TypeOK
    <3>4. \A r \in Statements : r # s => outcome'[r] = outcome[r] /\ minted'[r] = minted[r]
      BY <2>1 DEF TypeOK
    <3>5. outcome'[s] = "open" /\ minted'[s] = {j}
      BY <2>1 DEF TypeOK
    <3> QED
      BY <3>1, <3>2, <3>3, <3>4, <3>5 DEF EffectsInv, RunsItsOwn
  <2>4. OkIsDone'
    BY <2>1 DEF EffectsInv, OkIsDone, TypeOK
  <2> QED
    BY <2>2, <2>3, <2>4 DEF EffectsInv
<1>3. ASSUME NEW t \in Threads, Step(t) PROVE EffectsInv'
  <2>1. /\ minted' = minted
        /\ \A u \in Threads : u # t => pc'[u] = pc[u] /\ work'[u] = work[u]
        /\ pc[t] # "idle"
        /\ \/ /\ outcome' = outcome
              /\ pc'[t] # "idle"
              /\ work'[t].stmt = work[t].stmt /\ work'[t].job = work[t].job
           \/ /\ outcome' = [outcome EXCEPT ![work[t].stmt] = "raised"]
              /\ pc'[t] = "idle"
           \/ /\ outcome' = [outcome EXCEPT ![work[t].stmt] = "ok"]
              /\ pc'[t] = "idle"
              /\ jobs[work[t].job] = "done"
    BY <1>3, ThreadSteps
  <2>2. /\ work[t] \in Work /\ work[t].stmt \in Statements /\ work[t].job \in JobIds
        /\ outcome[work[t].stmt] = "open"
        /\ work[t].job \in minted[work[t].stmt]
        /\ \A u \in Threads : pc[u] # "idle" /\ work[u].stmt = work[t].stmt => u = t
    BY <2>1 DEF EffectsInv, RunsItsOwn, TypeOK, Work
  <2>3. \A s \in Statements : s # work[t].stmt => outcome'[s] = outcome[s]
    BY <2>1, <2>2 DEF TypeOK
  <2>4. KeepsItsId'
    <3>1. \A s \in Statements : outcome'[s] = "new" <=> outcome[s] = "new"
      BY <2>1, <2>2, <2>3 DEF TypeOK
    <3>2. \A i \in JobIds : jobs'[i] # "absent" => jobs[i] # "absent" \/ i = work[t].job
      BY <1>3, <2>2 DEF Step, Send, Accepted, Attach, SubmitFails, PollDone, PollDead, PollFails,
                  PollTimeout, Resubmit, ReopenFails, GiveUp, server, TypeOK
    <3> QED
      BY <2>1, <2>2, <3>1, <3>2 DEF EffectsInv, KeepsItsId
  <2>5. RunsItsOwn'
    <3>1. ASSUME NEW u \in Threads, u # t, pc[u] # "idle"
          PROVE  /\ work[u].stmt # work[t].stmt /\ outcome'[work[u].stmt] = "open"
                 /\ work[u].job \in minted[work[u].stmt]
                 /\ \A v \in Threads : pc[v] # "idle" /\ work[v].stmt = work[u].stmt => v = u
      <4>1. work[u].stmt \in Statements
        BY <3>1 DEF TypeOK, Work
      <4> QED
        BY <2>2, <2>3, <3>1, <4>1 DEF EffectsInv, RunsItsOwn
    <3>2. ASSUME NEW u \in Threads, pc'[u] # "idle"
          PROVE  pc[u] # "idle" /\ work'[u].stmt = work[u].stmt /\ work'[u].job = work[u].job
      BY <2>1, <3>2
    <3>3. pc'[t] # "idle" => outcome' = outcome
      BY <2>1
    <3> QED
      BY <2>1, <2>2, <3>1, <3>2, <3>3 DEF RunsItsOwn
  <2>6. OkIsDone'
    <3>1. \A i \in JobIds : jobs[i] = "done" => jobs'[i] = "done"
      BY JobsForward DEF Ended
    <3>2. \A i \in minted[work[t].stmt] : i = work[t].job
      BY <2>2 DEF EffectsInv, KeepsItsId
    <3>3. minted \in [Statements -> SUBSET JobIds]
      BY DEF TypeOK
    <3>4. ASSUME outcome'[work[t].stmt] = "ok" PROVE jobs[work[t].job] = "done"
      BY <2>1, <2>2, <3>4 DEF TypeOK
    <3> QED
      BY <2>1, <2>2, <2>3, <3>1, <3>2, <3>3, <3>4 DEF EffectsInv, OkIsDone
  <2> QED
    BY <2>4, <2>5, <2>6 DEF EffectsInv
<1>4. CASE UNCHANGED vars
  BY <1>4 DEF vars, server, EffectsInv, KeepsItsId, RunsItsOwn, OkIsDone
<1> QED
  BY <1>1, <1>2, <1>3, <1>4 DEF Next

\* A statement keeps the one id minted for it, is run by one thread at a time, and is done when
\* it was reported done (_submit_or_attach, raw_execute).
THEOREM EffectsHold == Spec => []EffectsInv
<1>1. Init => EffectsInv
  BY DEF Init, EffectsInv, KeepsItsId, RunsItsOwn, OkIsDone
<1> QED
  BY <1>1, EffectsStep, TypeCorrect, PTL DEF Spec

\* Every step of the query path is a step of StatementEffects or none.
LEMMA EffectsRefined ==
  TypeOK /\ EffectsInv /\ EffectsInv' /\ [Next]_vars
    => [Effects!Next]_<<outcome, [s \in Statements |-> {j \in minted[s] : jobs[j] = "done"}]>>
<1> DEFINE executed == [s \in Statements |-> {j \in minted[s] : jobs[j] = "done"}]
<1> SUFFICES ASSUME TypeOK, EffectsInv, EffectsInv', [Next]_vars
             PROVE  [Effects!Next]_<<outcome, executed>>
  OBVIOUS
<1>0. /\ minted \in [Statements -> SUBSET JobIds]
      /\ outcome \in [Statements -> {"new", "open", "ok", "raised"}]
      /\ jobs \in [JobIds -> {"absent", "sent", "running"} \cup Ended]
  BY DEF TypeOK
<1>1. CASE BigQuery
  <2>1. outcome' = outcome /\ minted' = minted
    BY <1>1, OutsideSteps
  <2>2. CASE \A j \in JobIds : jobs'[j] = "done" => jobs[j] = "done"
    <3>1. \A j \in JobIds : jobs'[j] = "done" <=> jobs[j] = "done"
      BY <2>2, JobsForward DEF Ended
    <3>2. executed' = executed
      BY <1>0, <2>1, <3>1
    <3> QED
      BY <2>1, <3>2
  <2>3. ASSUME NEW j \in JobIds, jobs'[j] = "done", jobs[j] # "done"
        PROVE  Effects!Next
    <3>1. jobs[j] = "running" /\ jobs' = [jobs EXCEPT ![j] = "done"]
      BY <1>0, <1>1, <2>3 DEF BigQuery, Arrive, Finish
    <3>2. PICK s \in Statements : j \in minted[s]
      BY <3>1 DEF EffectsInv, KeepsItsId
    <3>3. minted[s] = {j} /\ \A r \in Statements : r # s => j \notin minted[r]
      BY <3>2 DEF EffectsInv, KeepsItsId
    <3>4. outcome[s] \in {"open", "raised"}
      BY <1>0, <3>1, <3>2, <3>3 DEF EffectsInv, KeepsItsId, OkIsDone
    <3>5. executed[s] = {} /\ executed'[s] = {j}
      BY <1>0, <2>1, <3>1, <3>3
    <3>6. \A r \in Statements : r # s => executed'[r] = executed[r]
      BY <1>0, <2>1, <3>1, <3>3
    <3>7. executed' = [executed EXCEPT ![s] = {j}]
      BY <3>5, <3>6
    <3>8. Effects!Execute(s, j)
      BY <2>1, <3>4, <3>5, <3>7 DEF Effects!Execute
    <3> QED
      BY <3>8 DEF Effects!Next
  <2> QED
    BY <2>2, <2>3
<1>2. CASE Cancel \/ UNCHANGED vars
  <2>1. outcome' = outcome /\ minted' = minted /\ jobs' = jobs
    BY <1>2, OutsideSteps DEF Cancel, CancelOpen, Close, CancelReturns, Visit, CancelJob,
                              CancelNotFound, CancelFails, server, vars
  <2> QED
    BY <2>1
<1>3. ASSUME NEW t \in Threads, NEW s \in Statements, NEW j \in JobIds, Begin(t, s, j)
      PROVE Effects!Next
  <2>1. /\ outcome[s] = "new" /\ outcome' = [outcome EXCEPT ![s] = "open"]
        /\ \A r \in Statements : j \notin minted[r]
        /\ minted' = [minted EXCEPT ![s] = {j}]
        /\ jobs' = jobs
    BY <1>3 DEF Begin, server
  <2>2. jobs[j] = "absent" /\ minted[s] = {}
    BY <2>1 DEF EffectsInv, KeepsItsId
  <2>3. \A r \in Statements : executed'[r] = executed[r]
    BY <1>0, <2>1, <2>2
  <2>4. executed' = executed
    BY <2>3
  <2>5. Effects!Call(s)
    BY <2>1, <2>4 DEF Effects!Call
  <2> QED
    BY <2>5 DEF Effects!Next
<1>4. ASSUME NEW t \in Threads, Step(t)
      PROVE Effects!Next \/ UNCHANGED <<outcome, executed>>
  <2>1. /\ minted' = minted
        /\ pc[t] # "idle"
        /\ \/ outcome' = outcome
           \/ outcome' = [outcome EXCEPT ![work[t].stmt] = "raised"]
           \/ /\ outcome' = [outcome EXCEPT ![work[t].stmt] = "ok"]
              /\ jobs[work[t].job] = "done"
    BY <1>4, ThreadSteps
  <2>2. /\ work[t].stmt \in Statements /\ work[t].job \in minted[work[t].stmt]
        /\ outcome[work[t].stmt] = "open"
    BY <2>1 DEF EffectsInv, RunsItsOwn, TypeOK, Work
  <2>3. \A j \in JobIds : jobs'[j] = "done" <=> jobs[j] = "done"
    BY <1>0, <1>4 DEF Step, Send, Accepted, Attach, SubmitFails, PollDone, PollDead, PollFails,
                PollTimeout, Resubmit, ReopenFails, GiveUp, server, Exists, Ended
  <2>4. executed' = executed
    BY <1>0, <2>1, <2>3
  <2>5. CASE outcome' = outcome
    BY <2>4, <2>5
  <2>6. CASE outcome' = [outcome EXCEPT ![work[t].stmt] = "raised"]
    BY <2>2, <2>4, <2>6 DEF Effects!Next, Effects!Raise
  <2>7. CASE outcome' = [outcome EXCEPT ![work[t].stmt] = "ok"] /\ jobs[work[t].job] = "done"
    <3>1. executed[work[t].stmt] # {}
      BY <2>2, <2>7
    <3> QED
      BY <2>2, <2>4, <2>7, <3>1 DEF Effects!Next, Effects!Return
  <2> QED
    BY <2>1, <2>5, <2>6, <2>7
<1> QED
  BY <1>1, <1>2, <1>3, <1>4 DEF Next

\* However submissions are lost, late, repeated or attached to, and however jobs, polls and
\* connections fail, a statement's work is done at most once, and done if it ends well.
THEOREM AtMostOnce == Spec => ImplementsEffects
<1>1. Init => Effects!Init
  BY DEF Init, Effects!Init
<1>2. TypeOK /\ EffectsInv /\ EffectsInv' /\ [Next]_vars
        => [Effects!Next]_<<outcome, [s \in Statements |-> {j \in minted[s] : jobs[j] = "done"}]>>
  BY EffectsRefined
<1> QED
  BY <1>1, <1>2, TypeCorrect, EffectsHold, PTL DEF Spec, ImplementsEffects, Effects!Spec

-----------------------------------------------------------------------------
(* cancel_open asks every job of a connection it closes to stop *)

\* What cancel_open has been through stays asked.
LEMMA AskedStep == TypeOK /\ AskedSoFar /\ [Next]_vars => AskedSoFar'
<1> DEFINE Done(i) == /\ i \in DOMAIN registered[visiting] /\ Exists(registered[visiting][i])
                      /\ jobs[registered[visiting][i]] = "running"
                           => asked[registered[visiting][i]]
<1> SUFFICES ASSUME TypeOK, AskedSoFar, [Next]_vars PROVE AskedSoFar'
  OBVIOUS
<1>1. \A j \in JobIds : Exists(j) => Exists(j)' /\ (jobs'[j] = "running" => jobs[j] = "running")
  BY JobsForward DEF Exists, Ended
<1>2. \A j \in JobIds : asked[j] => asked'[j]
  <2>1. CASE asked' = asked
    BY <2>1
  <2>2. ASSUME NEW k \in JobIds, AskToStop(k)
        PROVE  \A j \in JobIds : asked[j] => asked'[j]
    BY <2>2 DEF AskToStop, TypeOK
  <2>3. ASSUME NEW t \in Threads, Step(t)
        PROVE  asked' = asked \/ \E k \in JobIds : AskToStop(k)
    BY <2>3 DEF Step, Send, Accepted, Attach, SubmitFails, PollDone, PollDead, PollFails,
                PollTimeout, Resubmit, ReopenFails, GiveUp, server, TypeOK, Work
  <2>4. ASSUME \/ BigQuery \/ Cancel \/ UNCHANGED vars
               \/ \E t \in Threads, s \in Statements, j \in JobIds : Begin(t, s, j)
        PROVE  asked' = asked \/ \E k \in JobIds : AskToStop(k)
    BY <2>4 DEF BigQuery, Arrive, Finish, Cancel, CancelOpen, Close, CancelReturns, Visit,
                CancelJob, CancelNotFound, CancelFails, Begin, server, vars
  <2> QED
    BY <2>1, <2>2, <2>3, <2>4 DEF Next
<1>3. ASSUME visiting \in Threads, visiting' = visiting, NEW i, Done(i),
             \/ registered' = registered
             \/ \E j \in JobIds, t \in Threads :
                  registered' = [registered EXCEPT ![t] = Append(@, j)]
      PROVE  Done(i)'
  <2>1. registered \in [Threads -> Seq(JobIds)] /\ registered[visiting] \in Seq(JobIds)
    BY <1>3 DEF TypeOK
  <2>2. registered[visiting][i] \in JobIds
    BY <1>3, <2>1, ElementOfSeq
  <2>3. i \in DOMAIN registered'[visiting] /\ registered'[visiting][i] = registered[visiting][i]
    BY SMTT(30), <1>3, <2>1
  <2> QED
    BY <1>1, <1>2, <1>3, <2>2, <2>3 DEF Exists
<1>4. CASE \/ BigQuery
           \/ \E t \in Threads : \/ Step(t)
                                \/ \E s \in Statements, j \in JobIds : Begin(t, s, j)
           \/ UNCHANGED vars
  <2>1. UNCHANGED canceller
    BY <1>4 DEF BigQuery, Arrive, Finish, Step, Send, Accepted, Attach, SubmitFails, PollDone,
                PollDead, PollFails, PollTimeout, Resubmit, ReopenFails, GiveUp, Begin, vars
  <2>2. \/ registered' = registered
        \/ \E j \in JobIds, t \in Threads : registered' = [registered EXCEPT ![t] = Append(@, j)]
    BY ZenonT(60), <1>4 DEF BigQuery, Arrive, Finish, Step, Send, Accepted, Attach, SubmitFails, PollDone,
                PollDead, PollFails, PollTimeout, Resubmit, ReopenFails, GiveUp, Begin, vars
  <2>3. visiting # NoThread => visiting \in Threads
    BY DEF TypeOK
  <2> QED
    BY <1>3, <2>1, <2>2, <2>3 DEF AskedSoFar, canceller
<1>5. ASSUME NEW t \in Threads, Visit(t) PROVE AskedSoFar'
  BY <1>5 DEF Visit, FirstIndex, AskedSoFar
<1>6. ASSUME NEW j \in JobIds, CancelJob(j) PROVE AskedSoFar'
  <2>1. /\ phase' = phase /\ visiting' = visiting /\ registered' = registered
        /\ index' = index + 1 /\ index \in Nat /\ visiting \in Threads
        /\ index \in DOMAIN registered[visiting] /\ j = registered[visiting][index]
        /\ phase = "running"
    BY <1>6 DEF CancelJob, Cancelling, TypeOK
  <2> PICK k \in Nat : k = index
    BY <2>1
  <2>2. Done(k)'
    BY <1>6, <2>1 DEF CancelJob, AskToStop, Exists, TypeOK
  <2>3. ASSUME NEW i \in 1..(k - 1) PROVE Done(i)'
    <3>1. Done(i)
      BY <2>1, ConstantsAssumption DEF AskedSoFar, TypeOK
    <3> QED
      BY <1>3, <2>1, <3>1
  <2>4. \A i \in 1..(index' - 1) : Done(i)'
    <3>1. \A i \in 1..(index' - 1) : i = k \/ i \in 1..(k - 1)
      BY <2>1
    <3> HIDE DEF Done
    <3> QED
      BY <2>2, <2>3, <3>1
  <2> QED
    BY <2>1, <2>4 DEF AskedSoFar
<1>7. CASE \/ CancelOpen \/ Close \/ CancelReturns
           \/ \E j \in JobIds : CancelNotFound(j) \/ CancelFails(j)
  BY <1>7 DEF CancelOpen, Close, CancelReturns, CancelNotFound, CancelFails, AskedSoFar
<1> QED
  BY <1>4, <1>5, <1>6, <1>7 DEF Next, Cancel

\* Whatever threads and BigQuery do meanwhile, the jobs cancel_open has been through were asked
\* to stop if they run.
THEOREM AskedHolds == Spec => []AskedSoFar
<1>1. Init => AskedSoFar
  BY DEF Init, AskedSoFar
<1> QED
  BY <1>1, AskedStep, TypeCorrect, PTL DEF Spec

\* A connection that cancel_open closes has no running job that was not asked to stop.
THEOREM ClosedJobsAsked == Spec => ClosedMeansAsked
<1> DEFINE Closing == \A t \in Threads : conn[t] # "closed" /\ conn'[t] = "closed" =>
                        \A i \in DOMAIN registered[t] :
                          jobs[registered[t][i]] = "running" => asked[registered[t][i]]
<1>2. TypeOK /\ AskedSoFar /\ [Next]_vars => [Closing]_vars
  <2> SUFFICES ASSUME TypeOK, AskedSoFar, [Next]_vars, NEW t \in Threads,
                      conn[t] # "closed", conn'[t] = "closed",
                      NEW i \in DOMAIN registered[t], jobs[registered[t][i]] = "running"
               PROVE  asked[registered[t][i]]
    OBVIOUS
  <2>1. Close
    <3>0. conn \in [Threads -> {"open", "closed", "failed"}]
      BY DEF TypeOK
    <3>1. ASSUME NEW u \in Threads, Step(u) PROVE conn'[t] # "closed"
      <4>1. \/ conn' = conn
            \/ conn' = [conn EXCEPT ![u] = "open"] \/ conn' = [conn EXCEPT ![u] = "failed"]
        BY <3>1 DEF Step, Send, Accepted, Attach, SubmitFails, PollDone, PollDead, PollFails,
                    PollTimeout, Resubmit, ReopenFails, GiveUp
      <4> QED
        BY <3>0, <4>1
    <3>2. ASSUME NEW u \in Threads, NEW s \in Statements, NEW j \in JobIds, Begin(u, s, j)
          PROVE  conn'[t] # "closed"
      BY <3>0, <3>2 DEF Begin
    <3>3. ASSUME Cancel, ~Close PROVE conn'[t] # "closed"
      <4>1. conn' = conn \/ conn' = [conn EXCEPT ![visiting] = "failed"]
        BY <3>3 DEF Cancel, CancelOpen, CancelReturns, Visit, CancelJob, CancelNotFound, CancelFails
      <4> QED
        BY <3>0, <4>1
    <3>4. BigQuery \/ UNCHANGED vars => conn' = conn
      BY DEF BigQuery, Arrive, Finish, vars
    <3> QED
      BY <3>1, <3>2, <3>3, <3>4 DEF Next
  <2>2. t = visiting /\ index > Len(registered[t]) /\ phase = "running" /\ visiting # NoThread
    BY <2>1, ConstantsAssumption DEF Close, TypeOK
  <2>3. i \in 1..(index - 1)
    <3>1. registered[t] \in Seq(JobIds) /\ index \in Nat
      BY DEF TypeOK
    <3>2. DOMAIN registered[t] = 1..Len(registered[t]) /\ Len(registered[t]) \in Nat
      BY <3>1, LenProperties
    <3> QED
      BY <2>2, <3>1, <3>2
  <2> QED
    BY <2>2, <2>3 DEF AskedSoFar
<1> QED
  BY <1>2, AskedHolds, TypeCorrect, PTL DEF Spec, ClosedMeansAsked

-----------------------------------------------------------------------------
(* Why statements end *)

\* Another thread's steps, BigQuery's and those of cancel_open leave a thread where it is, and
\* no job becomes absent again.
LEMMA OthersLeaveAlone ==
  ASSUME TypeOK, EffectsInv, [Next]_vars, NEW t \in Threads, pc[t] # "idle", ~Step(t)
  PROVE  /\ pc'[t] = pc[t] /\ work'[t] = work[t]
         /\ jobs[work[t].job] # "absent" => jobs'[work[t].job] # "absent"
<1>1. work[t].job \in JobIds
  BY DEF TypeOK, Work
<1>2. \A j \in JobIds : jobs[j] # "absent" => jobs'[j] # "absent"
  BY JobsForward
<1>3. ASSUME NEW u \in Threads, NEW s \in Statements, NEW j \in JobIds, Begin(u, s, j)
      PROVE  pc'[t] = pc[t] /\ work'[t] = work[t]
  BY <1>3 DEF Begin, Goto, TypeOK
<1>4. ASSUME NEW u \in Threads, u # t, Step(u) PROVE pc'[t] = pc[t] /\ work'[t] = work[t]
  BY <1>4, ThreadSteps
<1>5. BigQuery \/ Cancel \/ UNCHANGED vars => pc' = pc /\ work' = work
  BY DEF BigQuery, Arrive, Finish, Cancel, CancelOpen, Visit, CancelJob, CancelNotFound,
         CancelFails, Close, CancelReturns, vars
<1> QED
  BY <1>1, <1>2, <1>3, <1>4, <1>5 DEF Next

\* A step of a thread's own leaves it less to do: within an attempt it goes from submitting to
\* polling to failing, and the next attempt has one error less to spend.
LEMMA OwnStepsCount ==
  ASSUME TypeOK, NEW t \in Threads, Step(t)
  PROVE  StepsLeft(t)' < StepsLeft(t)
<1> USE ConstantsAssumption
<1>0. pc[t] # "idle"
  BY DEF Step, Send, Accepted, Attach, SubmitFails, PollDone, PollDead, PollFails,
         PollTimeout, Resubmit, ReopenFails, GiveUp
<1>1. work[t] \in Work /\ work[t].errors \in 0..Retries /\ work[t].job \in JobIds
  BY <1>0 DEF TypeOK, Work
<1>2. CASE Send(t)
  <2>1. pc' = pc /\ work' = work /\ jobs'[work[t].job] = "sent"
    BY <1>1, <1>2 DEF Send, TypeOK
  <2> QED
    BY <1>1, <1>2, <2>1 DEF Send, StepsLeft
<1>3. CASE Accepted(t) \/ Attach(t)
  <2>1. pc[t] = "submit" /\ pc'[t] = "poll" /\ work' = work
    BY <1>3 DEF Accepted, Attach, Goto, TypeOK
  <2> QED
    BY <1>1, <2>1 DEF StepsLeft
<1>4. CASE SubmitFails(t) \/ PollDead(t) \/ PollFails(t) \/ PollTimeout(t)
  <2>1. PICK f : Fails(t, f)
    BY <1>4 DEF SubmitFails, PollDead, PollFails, PollTimeout
  <2>2. pc[t] \in {"submit", "poll"}
    BY <1>4 DEF SubmitFails, PollDead, PollFails, PollTimeout
  <2>3. pc'[t] = "failing" /\ work'[t].errors = work[t].errors
    BY <1>1, <2>1 DEF Fails, Goto, TypeOK, Work
  <2> QED
    BY <1>1, <2>2, <2>3 DEF StepsLeft
<1>5. CASE PollDone(t) \/ ReopenFails(t) \/ GiveUp(t)
  <2>1. pc'[t] = "idle" /\ pc[t] \in {"poll", "failing"}
    BY <1>5 DEF PollDone, ReopenFails, GiveUp, Ends, Goto, TypeOK
  <2> QED
    BY <1>1, <2>1 DEF StepsLeft
<1>6. CASE Resubmit(t)
  <2>1. work' = [work EXCEPT ![t].job = work[t].job, ![t].errors = work[t].errors + 1,
                             ![t].failure = "none"]
    BY <1>6 DEF Resubmit, RetryIds, Counted
  <2>2. work'[t].errors = work[t].errors + 1
    BY <1>1, <2>1 DEF TypeOK, Work
  <2>3. pc[t] = "failing" /\ pc'[t] = "submit" /\ work[t].errors < Retries
    BY <1>6 DEF Resubmit, MayRetry, Goto, TypeOK
  <2> QED
    BY <1>1, <2>2, <2>3 DEF StepsLeft
<1> QED
  BY <1>2, <1>3, <1>4, <1>5, <1>6 DEF Step

\* For any number of retries: a statement never takes more than five requests an attempt, since
\* nothing but a thread's own steps changes what it has left, and each of them takes from it.
THEOREM StatementsRunOut == Spec => RetriesRunOut
<1>1. TypeOK /\ EffectsInv /\ [Next]_vars =>
        [\A t \in Threads : pc[t] # "idle" =>
           /\ StepsLeft(t)' <= StepsLeft(t)
           /\ <<pc[t], work[t]>>' # <<pc[t], work[t]>> => StepsLeft(t)' < StepsLeft(t)]_vars
  <2> SUFFICES ASSUME TypeOK, EffectsInv, [Next]_vars, NEW t \in Threads, pc[t] # "idle"
               PROVE  /\ StepsLeft(t)' <= StepsLeft(t)
                      /\ <<pc[t], work[t]>>' # <<pc[t], work[t]>> =>
                           StepsLeft(t)' < StepsLeft(t)
    OBVIOUS
  <2>0. work[t].errors \in 0..Retries /\ work[t].job \in JobIds
    BY DEF TypeOK, Work
  <2>1. pc[t] \in {"submit", "poll", "failing"}
    BY DEF TypeOK
  <2>2. CASE Step(t)
    <3>1. StepsLeft(t) \in Int /\ StepsLeft(t)' \in Int
      <4>1. TypeOK'
        BY TypeStep
      <4>2. pc'[t] # "idle" => work'[t].errors \in 0..Retries
        BY <4>1 DEF TypeOK, Work
      <4>3. pc'[t] \in {"idle", "submit", "poll", "failing"}
        BY <4>1 DEF TypeOK
      <4> QED
        BY <2>0, <2>1, <4>2, <4>3, ConstantsAssumption DEF StepsLeft
    <3> QED
      BY <2>2, <3>1, OwnStepsCount
  <2>3. CASE ~Step(t)
    <3>1. /\ pc'[t] = pc[t] /\ work'[t] = work[t]
          /\ jobs[work[t].job] # "absent" => jobs'[work[t].job] # "absent"
      BY <2>3, OthersLeaveAlone
    <3> QED
      BY <2>0, <2>1, <3>1, ConstantsAssumption DEF StepsLeft
  <2> QED
    BY <2>2, <2>3
<1> QED
  BY <1>1, TypeCorrect, EffectsHold, PTL DEF Spec, RetriesRunOut

=============================================================================
