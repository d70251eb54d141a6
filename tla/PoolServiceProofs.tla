-------------------------- MODULE PoolServiceProofs ---------------------------
(***************************************************************************)
(* Proofs about PoolService.  Its steps are steps of PoolRuns and of       *)
(* AccessIssues, so what is proved about these holds when they run side by *)
(* side; what relates the two is proved here.                              *)
(***************************************************************************)
EXTENDS PoolService, PoolRunsProofs, AccessIssuesProofs

-----------------------------------------------------------------------------
(* The composition implements its components *)

LEMMA RunSteps == Next => [RunsNext]_runsVars
<1> SUFFICES ASSUME Next PROVE [RunsNext]_runsVars
  OBVIOUS
<1>1. CASE Permissions
  BY <1>1 DEF Permissions
<1>2. ASSUME NEW h \in Registrars, Registers(h) PROVE [RunsNext]_runsVars
  BY <1>2, TablesAssumption DEF Registers, RunsNext
<1>3. ASSUME NEW q \in Requests, RunStep(q) \/ Hears(q) PROVE [RunsNext]_runsVars
  BY <1>3 DEF RunStep, Hears, Alone, Works, Stumbles, Records, RunsNext, AccessStep
<1> QED
  BY <1>1, <1>2, <1>3 DEF Next

LEMMA AccessSteps == Next => [AccessNext]_accessVars
<1> SUFFICES ASSUME Next PROVE [AccessNext]_accessVars
  OBVIOUS
<1>1. CASE Permissions
  BY <1>1 DEF Permissions, AccessNext
<1>2. ASSUME NEW h \in Registrars, Registers(h) PROVE [AccessNext]_accessVars
  BY <1>2 DEF Registers, AccessNext
<1>3. ASSUME NEW q \in Requests, RunStep(q) PROVE [AccessNext]_accessVars
  <2>1. ASSUME NEW n \in Needs, Record(q, n) PROVE [AccessNext]_accessVars
    BY <2>1 DEF Record, AccessNext
  <2> QED
    BY <1>3, <2>1 DEF RunStep, Works, Stumbles, Records, Needs
<1>4. ASSUME NEW q \in Requests, Hears(q) PROVE [AccessNext]_accessVars
  BY <1>4 DEF Hears
<1> QED
  BY <1>1, <1>2, <1>3, <1>4 DEF Next

\* Whatever the service composes, pool requests and permission handlers behave as their own
\* modules say, with all that is proved there.
THEOREM ServiceComposes == Spec => RunsSpec /\ AccessSpec
<1>1. Init => RunsInit /\ AccessInit
  BY DEF Init
<1>2. [Next]_vars => [RunsNext]_runsVars /\ [AccessNext]_accessVars
  BY RunSteps, AccessSteps DEF vars
<1> QED
  BY <1>1, <1>2, PTL DEF Spec, RunsSpec, AccessSpec

-----------------------------------------------------------------------------
(* Answers *)

ClientInv ==
  /\ client \in [Requests -> {"waiting", "results", "error"}]
  /\ \A q \in Requests : client[q] = "results" => main[q] = "answered"

LEMMA ClientStep == RunsInv /\ ClientInv /\ [Next]_vars => ClientInv'
<1> SUFFICES ASSUME RunsInv, ClientInv, [Next]_vars PROVE ClientInv'
  OBVIOUS
<1>1. \A q \in Requests : main[q] = "answered" => main'[q] = "answered"
  <2> SUFFICES ASSUME NEW q \in Requests, main[q] = "answered" PROVE main'[q] = "answered"
    OBVIOUS
  <2>1. RunsTypeOK /\ RunInv(q) /\ StepOf(q)
    BY RunSteps, RunsStep DEF RunsInv, vars
  <2> QED
    BY <2>1 DEF StepOf, Stays, Opens, Turns, Closes, Walks, Enters, Leaves, Tells, Breaks
<1>2. CASE client' = client
  BY <1>1, <1>2 DEF ClientInv
<1>3. ASSUME NEW q \in Requests, Hears(q) PROVE ClientInv'
  BY <1>1, <1>3 DEF Hears, ClientInv
<1>4. client' = client \/ \E q \in Requests : Hears(q)
  BY DEF Next, vars, Permissions, Registers, RunStep, Works, Stumbles, Records, Record
<1> QED
  BY <1>2, <1>3, <1>4

\* Whenever a caller gets results, however late and whatever failed on the way, the run they
\* belong to is finished in the table (PoolRunSession.finish before the handler returns).
THEOREM ResultsComeLast == Spec => []ResultsMeanFinished
<1>1. Init => ClientInv
  BY DEF Init, ClientInv
<1>2. RunsInv /\ ClientInv => ResultsMeanFinished
  BY DEF RunsInv, RunInv, AnswerInv, ClientInv, ResultsMeanFinished
<1>3. Spec => []RunsInv
  BY ServiceComposes, RunsInvariant
<1> QED
  BY <1>1, <1>2, <1>3, ClientStep, PTL DEF Spec

-----------------------------------------------------------------------------
(* Types *)

\* What the composition adds to the state of its components.
OwnTypes ==
  /\ active \subseteq Requests \cup Granters \cup Registrars \cup {Owner}
  /\ unsaved \in [Requests -> SUBSET Needs]

LEMMA OwnTypesStep == OwnTypes /\ [Next]_vars => OwnTypes'
<1> SUFFICES ASSUME OwnTypes, [Next]_vars PROVE OwnTypes'
  OBVIOUS
<1>1. ASSUME NEW q \in Requests, NEW n \in Needs, Record(q, n) PROVE OwnTypes'
  BY <1>1 DEF Record, OwnTypes
<1>2. ASSUME NEW q \in Requests, RunStep(q) PROVE OwnTypes'
  <2>1. {"editor", "viewer"} \subseteq Needs
    BY DEF Needs
  <2>2. CASE \E r \in Relations : Records(q, r)
    BY <1>1, <2>1, <2>2 DEF Records
  <2>3. CASE UNCHANGED <<active, unsaved>>
    BY <2>3 DEF OwnTypes
  <2> QED
    BY <1>2, <2>2, <2>3 DEF RunStep, Works, Stumbles
<1>3. CASE \/ Permissions \/ UNCHANGED vars
           \/ \E h \in Registrars : Registers(h)
           \/ \E q \in Requests : Hears(q)
  BY <1>3 DEF Permissions, Registers, Hears, vars, OwnTypes
<1> QED
  BY <1>2, <1>3 DEF Next

\* Type correctness of the service: requests, permission handlers and callers together.
THEOREM ServiceTypeCorrect == Spec => []TypeOK
<1>1. Init => OwnTypes /\ ClientInv
  BY LoadsAssumption DEF Init, OwnTypes, ClientInv
<1>2. RunsTypeOK /\ AccessTypeOK /\ OwnTypes /\ ClientInv => TypeOK
  BY DEF OwnTypes, ClientInv, TypeOK
<1>3. Spec => []RunsInv
  BY ServiceComposes, RunsInvariant
<1>4. Spec => []RunsTypeOK /\ []AccessTypeOK
  BY ServiceComposes, RunsTypeCorrect, AccessTypeCorrect, PTL
<1> QED
  BY <1>1, <1>2, <1>3, <1>4, OwnTypesStep, ClientStep, PTL DEF Spec

-----------------------------------------------------------------------------
(* Denials *)

\* An issue may be resolved and opened anew but is never deleted.
LEMMA IssuesLast ==
  ASSUME AccessTypeOK, [AccessNext]_accessVars, NEW n \in Needs, issue[n] # "absent"
  PROVE  issue'[n] # "absent"
<1>1. ASSUME NEW needs, OpenIssues(needs) PROVE issue'[n] # "absent"
  BY <1>1 DEF OpenIssues
<1>2. ASSUME NEW h \in Handlers, Grant(h) PROVE issue'[n] # "absent"
  <2>1. CASE Resolve(h)
    BY <2>1 DEF Resolve, AccessTypeOK
  <2>2. CASE RetryFails(h)
    BY <2>2, <1>1 DEF RetryFails
  <2> QED
    BY <1>2, <2>1, <2>2 DEF Grant, BeginGrant, Probe, ProbeFails, AfterProbe, Retry
<1>3. ASSUME NEW h \in Registrars, RegisterOther(h) \/ \E t \in Tables : Upserts(h, t)
      PROVE  issue'[n] # "absent"
  BY <1>3, <1>1 DEF RegisterOther, Upserts, RegisterTable, RegisterUnheard, Preview, PreviewFails, Registered, RegisterFails
<1>4. ASSUME NEW m \in Needs, Denied(m) PROVE issue'[n] # "absent"
  BY <1>4, <1>1 DEF Denied
<1>5. CASE \/ UNCHANGED accessVars
           \/ \E e \in Entries : OwnerWrites(e)
           \/ \E t \in Threads : BeginThread(t)
           \/ \E p \in Granters : Access(p)
  BY <1>5 DEF accessVars, OwnerWrites, BeginThread, Access, ReadAcl, WriteAcl, WriteConflicts,
              GrantFails
<1> QED
  BY <1>2, <1>3, <1>4, <1>5 DEF AccessNext

LEMMA RecordedLasts ==
  ASSUME AccessTypeOK, OwnTypes, [Next]_vars, NEW q \in Requests, NEW n \in Needs,
         Recorded(q, n)
  PROVE  Recorded(q, n)'
<1>1. [AccessNext]_accessVars
  BY AccessSteps DEF vars
<1>2. unsaved[q] \subseteq unsaved'[q]
  BY DEF Next, vars, Permissions, Registers, RunStep, Works, Stumbles, Records, Record, Hears,
         OwnTypes
<1> QED
  BY <1>1, <1>2, IssuesLast DEF Recorded

\* Where a refusal or a denial is about to be recorded as an issue,
Noting == {"recording", "recording again", "noting"}

\* and nothing but recording it gets its worker or the handler out of there.
LEMMA OthersKeepNoting ==
  ASSUME RunsTypeOK, NEW p \in Requests, NEW q \in Requests, NEW r \in Relations,
         at[q][r] \in Noting,
         \/ HandlerStep(p)
         \/ \E s \in Relations : \/ WorkerStep(p, s) \/ LockFails(p, s)
                                 \/ Altered(p, s) \/ Pooled(p, s)
  PROVE  at'[q][r] = at[q][r]
<1> USE RoundFields DEF Noting, Rounds
<1>1. ASSUME NEW s \in Relations, NEW stage, Move(p, s, stage), at[p][s] \notin Noting
      PROVE  at'[q][r] = at[q][r]
  BY <1>1 DEF Move, RunsTypeOK
<1>2. CASE HandlerStep(p)
  <2>1. ASSUME NEW s \in Relations, NothingToReport(p, s) \/ TellResult(p, s) \/ Retire(p, s)
        PROVE  at'[q][r] = at[q][r]
    BY <1>1, <2>1 DEF NothingToReport, TellResult, Retire
  <2> QED
    BY <1>2, <2>1 DEF HandlerStep, OpenRun, OpenFails, StartPooling, AllDone, Completed,
                      HandlerFails, Finish, FinishFails
<1>3. ASSUME NEW s \in Relations, WorkerStep(p, s)
      PROVE  at'[q][r] = at[q][r]
  <2>1. CASE Take(p, s) \/ LockTable(p, s) \/ HistoryIsOn(p, s) \/ HistoryLost(p, s)
    BY <1>1, <2>1 DEF Take, LockTable, HistoryIsOn, HistoryLost
  <2>2. CASE EndsEarly(p, s) \/ ReportFails(p, s)
    BY <1>1, <2>2 DEF EndsEarly, ReportFails, Ends, Inside
  <2>3. CASE HistoryIsOff(p, s) \/ AlterFails(p, s)
    BY <1>1, <2>3 DEF HistoryIsOff, AlterFails, Reports
  <2>4. CASE Reported(p, s)
    <3>1. PICK stage : Move(p, s, stage)
      BY <2>4 DEF Reported
    <3>2. at[p][s] \notin Noting
      BY <2>4 DEF Reported, Inside
    <3> QED
      BY <1>1, <3>1, <3>2
  <2> QED
    BY <1>3, <2>1, <2>2, <2>3, <2>4 DEF WorkerStep
<1>4. ASSUME NEW s \in Relations, LockFails(p, s) \/ Altered(p, s) \/ Pooled(p, s)
      PROVE  at'[q][r] = at[q][r]
  BY ZenonT(60), <1>1, <1>4 DEF LockFails, Altered, Pooled, Ends
<1> QED
  BY <1>2, <1>3, <1>4

LEMMA NotingLeaves ==
  ASSUME RunsTypeOK, OwnTypes, [Next]_vars, NEW q \in Requests, NEW r \in Relations,
         at[q][r] \in Noting, at'[q][r] # at[q][r]
  PROVE  /\ at[q][r] = "noting" => Recorded(q, "viewer")'
         /\ at[q][r] # "noting" => Recorded(q, "editor")'
<1>0. ASSUME NEW n \in Needs, Record(q, n)
      PROVE  Recorded(q, n)'
  BY <1>0 DEF Record, Denied, Recorded, OwnTypes
<1>1. PICK p \in Requests, s \in Relations : Records(p, s)
  <2>1. ASSUME NEW p \in Requests, RunStep(p)
        PROVE  \E s \in Relations : Records(p, s)
    BY <2>1, OthersKeepNoting DEF RunStep, Alone, Works, Stumbles
  <2>2. Permissions \/ UNCHANGED vars \/ (\E p \in Requests : Hears(p)) => at' = at
    BY DEF Permissions, vars, runsVars, Hears
  <2>3. ASSUME NEW h \in Registrars, Registers(h) PROVE at' = at
    BY <2>3 DEF Registers, Enroll, runsVars
  <2> QED
    BY <2>1, <2>2, <2>3 DEF Next
<1>2. p = q /\ s = r
  <2>1. PICK stage : Move(p, s, stage)
    BY <1>1 DEF Records, RecordRefusal, RecordDenial
  <2> QED
    BY <2>1 DEF Move, RunsTypeOK
<1>3. \/ at[q][r] \in {"recording", "recording again"} /\ Record(q, "editor")
      \/ at[q][r] = "noting" /\ Record(q, "viewer")
  BY <1>1, <1>2, RoundFields DEF Records, RecordRefusal, RecordDenial, Rounds
<1>4. {"editor", "viewer"} \subseteq Needs
  BY DEF Needs
<1> QED
  BY <1>0, <1>3, <1>4

\* A worker that ended with an error after all: its refusal need not be on record.
Broke(q, r) == result[q][r] \in Errors /\ at[q][r] \in EndStages

\* A denial among the events is on record or is about to be, unless its run is never finished.
Followed(q, e) ==
  /\ e.what = "refused" =>
       at[q][e.rel] = "recording" \/ Recorded(q, "editor") \/ Broke(q, e.rel)
  /\ e.what = "refused again" =>
       at[q][e.rel] = "recording again" \/ Recorded(q, "editor") \/ Broke(q, e.rel)
  /\ e.what = "denied" =>
       \/ at[q][e.rel] = "noting" \/ Recorded(q, "viewer")
       \/ main[q] = "failed" /\ run[q].status \notin Finished

DenialInv == \A q \in Requests : \A e \in events[q] : Followed(q, e)

LEMMA BrokeLasts ==
  ASSUME RunsTypeOK, NEW q \in Requests, NEW r \in Relations, StepOf(q), Broke(q, r)
  PROVE  Broke(q, r)'
<1> USE DEF Broke, EndStages, SamePlan, SameWork
<1>0. at[q] \in [Relations -> Stages]
  BY DEF RunsTypeOK
<1>1. CASE Stays(q) \/ Opens(q) \/ Turns(q) \/ Closes(q)
  BY <1>1 DEF Stays, Opens, Turns, Closes
<1>2. ASSUME NEW s \in Relations, Walks(q, s) PROVE Broke(q, r)'
  <2>1. s # r
    BY <1>2 DEF Walks, Nexts
  <2> QED
    BY <1>0, <1>2, <2>1 DEF Walks, MovesTo
<1>3. ASSUME NEW s \in Relations, Enters(q, s) PROVE Broke(q, r)'
  BY <1>0, <1>3 DEF Enters, MovesTo
<1>4. ASSUME NEW s \in Relations, Leaves(q, s) PROVE Broke(q, r)'
  <2>1. s # r
    BY <1>4 DEF Leaves, Inside
  <2> QED
    BY <1>0, <1>4, <2>1 DEF Leaves, MovesTo
<1>5. ASSUME NEW s \in Relations, Tells(q, s) \/ Breaks(q, s) PROVE Broke(q, r)'
  BY <1>0, <1>5 DEF Tells, Breaks, MovesTo
<1> QED
  BY <1>1, <1>2, <1>3, <1>4, <1>5 DEF StepOf

\* An event goes into the table when its worker, or the handler, goes on to record the issue,
\* or fails over it.
LEMMA NewDenials ==
  ASSUME RunsInv, [RunsNext]_runsVars, NEW q \in Requests, NEW e \in events'[q], e \notin events[q]
  PROVE  Followed(q, e)'
<1> USE DEF sessions, tables
<1>0. RunsTypeOK /\ RunInv(q)
  BY DEF RunsInv
<1>1. ASSUME NEW p \in Requests, NEW f, Stores(p, f) \/ StoreFails(p, f)
      PROVE  p = q /\ e = f
  BY <1>0, <1>1 DEF Stores, StoreFails, Session, RunsTypeOK
<1>2. ASSUME NEW p \in Requests, HandlerStep(p) PROVE Followed(q, e)'
  <2>1. ASSUME NEW r \in Relations, TellResult(p, r) PROVE Followed(q, e)'
    <3>1. p = q /\ e.rel = r /\ e.what = result[q][r] /\ result[q][r] \in Bad
      BY <1>1, <2>1 DEF TellResult, Event
    <3>2. e.what = "denied" => at'[q][r] = "noting"
      BY <1>0, <2>1, <3>1 DEF TellResult, Move, RunsTypeOK
    <3> QED
      BY <3>1, <3>2 DEF Followed, Bad, Errors
  <2>2. ASSUME NEW r \in Relations, Retire(p, r) PROVE Followed(q, e)'
    <3>1. e.what = "kept"
      BY <1>1, <2>2 DEF Retire, Event
    <3> QED
      BY <3>1 DEF Followed
  <2>3. CASE HandlerFails(p)
    <3>1. PICK r \in asks[p] : \/ StoreFails(p, Event(r, result[p][r])) /\ result[p][r] \in Bad
                               \/ StoreFails(p, Event(r, "kept"))
      BY <2>3 DEF HandlerFails
    <3>2. p = q /\ e.what \in Bad \cup {"kept"}
      BY <1>1, <3>1 DEF Event
    <3>3. main'[q] = "failed" /\ run'[q] = run[q] /\ main[q] \notin {"answered", "failed"}
      BY <1>0, <2>3, <3>2 DEF HandlerFails, Goto, RunsTypeOK
    <3>4. run[q].status \notin Finished
      BY <1>0, <3>3 DEF RunInv, TruthInv
    <3> QED
      BY <3>2, <3>3, <3>4 DEF Followed, Bad, Errors
  <2> QED
    BY <1>2, <2>1, <2>2, <2>3
       DEF HandlerStep, OpenRun, OpenFails, StartPooling, AllDone, Completed, Finish, FinishFails,
           NothingToReport
<1>3. ASSUME NEW p \in Requests, NEW r \in Relations, Reported(p, r) PROVE Followed(q, e)'
  <2>1. p = q /\ e.rel = r /\ e.what = at[q][r] /\ at[q][r] \in Inside
    BY <1>1, <1>3 DEF Reported, Event
  <2>2. /\ e.what = "refused" => at'[q][r] = "recording"
        /\ e.what = "refused again" => at'[q][r] = "recording again"
    <3>1. e.what = "refused" => Move(q, r, "recording")
      BY <1>3, <2>1, RoundFields DEF Reported, Rounds
    <3>2. e.what = "refused again" => Move(q, r, "recording again")
      BY <1>3, <2>1, RoundFields DEF Reported, Rounds
    <3>3. ASSUME NEW stage, Move(q, r, stage) PROVE at'[q][r] = stage
      BY <1>0, <3>3 DEF Move, RunsTypeOK
    <3>4. e.what = "refused" => at'[q][r] = "recording"
      BY <3>1, <3>3
    <3>5. e.what = "refused again" => at'[q][r] = "recording again"
      BY <3>2, <3>3
    <3> QED
      BY <3>4, <3>5
  <2> QED
    BY <2>1, <2>2 DEF Followed, Inside
<1>4. ASSUME NEW p \in Requests, NEW r \in Relations, ReportFails(p, r) PROVE Followed(q, e)'
  <2>1. p = q /\ e.rel = r /\ e.what = at[q][r] /\ at[q][r] \in Inside
    BY <1>1, <1>4 DEF ReportFails, Event
  <2>2. at'[q][r] = "done" /\ result'[q][r] \in Errors
    BY <1>0, <1>4, <2>1 DEF ReportFails, Ends, Move, RunsTypeOK
  <2> QED
    BY <2>1, <2>2 DEF Followed, Broke, EndStages, Inside
<1>5. ASSUME \/ UNCHANGED runsVars
             \/ \E r \in Relations : Enroll(r)
             \/ \E p \in Requests, r \in Relations :
                  \/ LockFails(p, r) \/ AccessStep(p, r)
                  \/ WorkerStep(p, r) /\ ~Reported(p, r) /\ ~ReportFails(p, r)
      PROVE  events' = events
  BY <1>5 DEF runsVars, Enroll, LockFails, AccessStep, Altered, Pooled, RecordRefusal,
              RecordDenial, WorkerStep, Take, LockTable, EndsEarly, HistoryIsOn, HistoryIsOff,
              HistoryLost, AlterFails, Reports
<1> QED
  BY <1>2, <1>3, <1>4, <1>5 DEF RunsNext, WorkerStep

LEMMA DenialStep ==
  ASSUME RunsInv, AccessTypeOK, OwnTypes, DenialInv, [Next]_vars
  PROVE  DenialInv'
<1> SUFFICES ASSUME NEW q \in Requests, NEW e \in events'[q] PROVE Followed(q, e)'
  BY DEF DenialInv
<1>0. [RunsNext]_runsVars /\ RunsTypeOK /\ StepOf(q)
  BY RunSteps, RunsStep DEF vars, RunsInv
<1>1. CASE e \notin events[q]
  BY <1>0, <1>1, NewDenials
<1>2. CASE e \in events[q]
  <2>1. Followed(q, e) /\ e.rel \in Relations
    BY <1>0, <1>2 DEF DenialInv, RunsTypeOK
  <2>2. PICK r \in Relations : r = e.rel
    BY <2>1
  <2>3. {"editor", "viewer"} \subseteq Needs
    BY DEF Needs
  <2>4. /\ Recorded(q, "editor") => Recorded(q, "editor")'
        /\ Recorded(q, "viewer") => Recorded(q, "viewer")'
    BY <2>3, RecordedLasts
  <2>5. Broke(q, r) => Broke(q, r)'
    BY <1>0, BrokeLasts
  <2>6. /\ at[q][r] = "recording" => at'[q][r] = "recording" \/ Recorded(q, "editor")'
        /\ at[q][r] = "recording again" =>
             at'[q][r] = "recording again" \/ Recorded(q, "editor")'
        /\ at[q][r] = "noting" => at'[q][r] = "noting" \/ Recorded(q, "viewer")'
    BY <1>0, NotingLeaves DEF Noting
  <2>7. main[q] = "failed" => main'[q] = "failed" /\ run'[q] = run[q]
    BY <1>0 DEF StepOf, Stays, Opens, Turns, Closes, Walks, Enters, Leaves, Tells, Breaks, SamePlan
  <2> QED
    BY <2>1, <2>2, <2>4, <2>5, <2>6, <2>7 DEF Followed
<1> QED
  BY <1>1, <1>2

\* Whatever access changes hands meanwhile and whichever requests fail, each denial a finished
\* run tells of is on record as an issue, or its insert failed (_record_permission_issue).
THEOREM DenialsRecorded == Spec => []DenialsOnRecord
<1>1. Init => DenialInv
  BY DEF Init, RunsInit, DenialInv
<1>2. RunsInv /\ DenialInv => DenialsOnRecord
  <2> SUFFICES ASSUME RunsInv, DenialInv, NEW q \in Requests, run[q].status \in Finished,
                      NEW e \in events[q]
               PROVE  /\ e.what \in {"refused", "refused again"} /\ result[q][e.rel] \notin Errors =>
                           Recorded(q, "editor")
                      /\ e.what = "denied" => Recorded(q, "viewer")
    BY DEF DenialsOnRecord
  <2>1. e.rel \in asks[q] /\ at[q][e.rel] = "told"
    BY DEF RunsInv, RunInv, FreshInv, TruthInv
  <2>2. Followed(q, e)
    BY DEF DenialInv
  <2>3. ASSUME e.what \in {"refused", "refused again"}, result[q][e.rel] \notin Errors
        PROVE  Recorded(q, "editor")
    BY <2>1, <2>2, <2>3 DEF Followed, Broke
  <2>4. ASSUME e.what = "denied" PROVE Recorded(q, "viewer")
    BY <2>1, <2>2, <2>4 DEF Followed
  <2> QED
    BY <2>3, <2>4
<1>3. Spec => []RunsInv
  BY ServiceComposes, RunsInvariant
<1>4. Spec => []AccessTypeOK
  BY ServiceComposes, AccessTypeCorrect, PTL
<1>5. Init => OwnTypes
  BY LoadsAssumption DEF Init, OwnTypes
<1> QED
  BY <1>1, <1>2, <1>3, <1>4, <1>5, DenialStep, OwnTypesStep, PTL DEF Spec

-----------------------------------------------------------------------------
(* Registration *)

\* A run retires a table only when its result says that it is gone.
RetiringInv ==
  \A q \in Requests, r \in Relations : at[q][r] = "retiring" => result[q][r] = "not_found"

\* Whatever upsert is committed, its table stays in the registry until a run finds it gone.
EnrolledInv == \A h \in Registrars : registered[h] \subseteq enabled \cup Gone

LEMMA RetiringStep ==
  ASSUME RunsTypeOK, RetiringInv, NEW q \in Requests, StepOf(q), NEW r \in Relations
  PROVE  /\ at'[q][r] = "retiring" => result'[q][r] = "not_found"
         /\ at[q][r] \in {"retiring", "told"} =>
              at'[q][r] \in {"retiring", "told"} /\ result'[q][r] = result[q][r]
<1> USE DEF SamePlan, SameWork, RetiringInv
<1>0. at[q] \in [Relations -> Stages]
  BY DEF RunsTypeOK
<1>1. CASE Stays(q) \/ Opens(q) \/ Turns(q) \/ Closes(q)
  BY <1>1 DEF Stays, Opens, Turns, Closes
<1>2. ASSUME NEW s \in Relations, Walks(q, s)
      PROVE  /\ at'[q][r] = "retiring" => result'[q][r] = "not_found"
             /\ at[q][r] \in {"retiring", "told"} =>
                  at'[q][r] \in {"retiring", "told"} /\ result'[q][r] = result[q][r]
  BY <1>0, <1>2 DEF Walks, MovesTo, Nexts
<1>3. ASSUME NEW s \in Relations, Enters(q, s) \/ Tells(q, s) \/ Breaks(q, s)
      PROVE  /\ at'[q][r] = "retiring" => result'[q][r] = "not_found"
             /\ at[q][r] \in {"retiring", "told"} =>
                  at'[q][r] \in {"retiring", "told"} /\ result'[q][r] = result[q][r]
  BY <1>0, <1>3 DEF Enters, Tells, Breaks, MovesTo
<1>4. ASSUME NEW s \in Relations, Leaves(q, s)
      PROVE  /\ at'[q][r] = "retiring" => result'[q][r] = "not_found"
             /\ at[q][r] \in {"retiring", "told"} =>
                  at'[q][r] \in {"retiring", "told"} /\ result'[q][r] = result[q][r]
  BY <1>0, <1>4 DEF Leaves, MovesTo, Inside
<1> QED
  BY <1>1, <1>2, <1>3, <1>4 DEF StepOf

\* Only a run that is retiring a table takes it out of the registry.
LEMMA RegistryShrinks ==
  ASSUME [RunsNext]_runsVars, NEW r \in enabled, r \notin enabled'
  PROVE  \E q \in Requests : at[q][r] = "retiring"
<1>1. ASSUME NEW q \in Requests, HandlerStep(q)
      PROVE  \E p \in Requests : at[p][r] = "retiring"
  BY <1>1 DEF HandlerStep, OpenRun, OpenFails, StartPooling, AllDone, Completed, HandlerFails,
              Finish, FinishFails, NothingToReport, TellResult, Retire, UnregisterFails, Unregister
<1>2. ASSUME NEW q \in Requests, NEW s \in Relations,
             WorkerStep(q, s) \/ LockFails(q, s) \/ AccessStep(q, s)
      PROVE  enabled' = enabled
  BY <1>2 DEF WorkerStep, Take, LockTable, EndsEarly, HistoryIsOn, HistoryIsOff, HistoryLost,
              AlterFails, Reports, Reported, ReportFails, LockFails, AccessStep, Altered, Pooled,
              RecordRefusal, RecordDenial
<1>3. ASSUME NEW s \in Relations, Enroll(s) PROVE r \in enabled'
  BY <1>3 DEF Enroll
<1>4. CASE UNCHANGED runsVars
  BY <1>4 DEF runsVars
<1> QED
  BY <1>1, <1>2, <1>3, <1>4 DEF RunsNext

\* A table is registered together with its row in the registry.
LEMMA RegistryGrows ==
  ASSUME AccessTypeOK, [Next]_vars, NEW h \in Registrars
  PROVE  registered'[h] \subseteq registered[h] \cup enabled'
<1>1. ASSUME NEW g \in Registrars, NEW t \in Tables, Upserts(g, t), Enroll(t)
      PROVE  registered'[h] \subseteq registered[h] \cup enabled'
  BY <1>1 DEF Upserts, RegisterTable, RegisterUnheard, Enroll, AccessTypeOK
<1>2. ASSUME NEW g \in Registrars, RegisterOther(g) PROVE registered' = registered
  BY <1>2 DEF RegisterOther, Preview, PreviewFails, Registered, RegisterFails
<1>3. ASSUME NEW q \in Requests, RunStep(q) \/ Hears(q) PROVE registered' = registered
  BY <1>3 DEF RunStep, Works, Stumbles, Records, Record, Denied, Hears, accessVars, replies
<1>4. CASE Permissions
  BY <1>4 DEF Permissions, OwnerWrites, Grant, BeginGrant, Probe, ProbeFails, AfterProbe, Retry,
              RetryFails, Resolve, BeginThread, Access, ReadAcl, WriteAcl, WriteConflicts,
              GrantFails, replies
<1>5. CASE UNCHANGED vars
  BY <1>5 DEF vars, accessVars, replies
<1> QED
  BY <1>1, <1>2, <1>3, <1>4, <1>5 DEF Next, Registers

LEMMA EnrolledStep ==
  RunsInv /\ AccessTypeOK /\ RetiringInv /\ EnrolledInv /\ [Next]_vars =>
    RetiringInv' /\ EnrolledInv'
<1> SUFFICES ASSUME RunsInv, AccessTypeOK, RetiringInv, EnrolledInv, [Next]_vars
             PROVE  RetiringInv' /\ EnrolledInv'
  OBVIOUS
<1>1. /\ [RunsNext]_runsVars /\ RunsTypeOK
      /\ \A q \in Requests : StepOf(q)
  BY RunSteps, RunsStep DEF vars, RunsInv
<1>2. Gone \subseteq Gone'
  BY <1>1, RetiringStep DEF Gone
<1>3. RetiringInv'
  BY <1>1, RetiringStep DEF RetiringInv
<1>4. ASSUME NEW h \in Registrars, NEW t \in registered'[h], t \notin enabled'
      PROVE  t \in Gone'
  <2>1. t \in enabled \cup Gone
    BY <1>4, RegistryGrows DEF EnrolledInv
  <2>2. ASSUME t \in enabled
        PROVE  t \in Gone
    <3>1. PICK q \in Requests : at[q][t] = "retiring"
      BY <1>1, <1>4, <2>2, RegistryShrinks
    <3>2. t \in Relations
      BY <1>1, <2>2 DEF RunsTypeOK
    <3> QED
      BY <3>1, <3>2 DEF Gone, RetiringInv
  <2> QED
    BY <1>2, <2>1, <2>2
<1> QED
  BY <1>3, <1>4 DEF EnrolledInv

\* Whatever fails, whichever answers of the registry are lost and whatever pool runs do
\* meanwhile, a table that /v1/register does not report as failed is in the registry, until
\* a run finds it gone; and what it does not confirm it has either not registered or reported.
THEOREM RegisterIsHonest == Spec => []RegisterTellsAll
<1>1. Init => RetiringInv /\ EnrolledInv
  BY DEF Init, RunsInit, AccessInit, RetiringInv, EnrolledInv
<1>2. RepliesInv /\ EnrolledInv => RegisterTellsAll
  BY DEF RepliesInv, EnrolledInv, RegisterTellsAll
<1>3. Spec => []RunsInv
  BY ServiceComposes, RunsInvariant
<1>4. Spec => []AccessTypeOK /\ []RepliesInv
  BY ServiceComposes, AccessTypeCorrect, RepliesInvariant, PTL
<1> QED
  BY <1>1, <1>2, <1>3, <1>4, EnrolledStep, PTL DEF Spec
=============================================================================
