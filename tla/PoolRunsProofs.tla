---------------------------- MODULE PoolRunsProofs ----------------------------
(***************************************************************************)
(* Proofs about PoolRuns for any requests, relations and size of the pool. *)
(***************************************************************************)
EXTENDS PoolRuns, FiniteSetTheorems, TLAPS

-----------------------------------------------------------------------------
(* Types *)

Tags == Inside \cup Bad \cup {"kept"}

LEMMA EventTypes ==
  \A r \in Relations, what \in Tags : Event(r, what) \in [rel : Relations, what : Tags]
BY DEF Event

LEMMA CountsTypes ==
  ASSUME RunsTypeOK, NEW q \in Requests, NEW n \in Nat, Counts(q, n)
  PROVE  warnings' \in [Requests -> Nat]
BY DEF Counts, Session, RunsTypeOK

LEMMA StoresTypes ==
  ASSUME RunsTypeOK, NEW q \in Requests, NEW r \in Relations, NEW what \in Tags,
         Stores(q, Event(r, what)) \/ StoreFails(q, Event(r, what))
  PROVE  /\ events' \in [Requests -> SUBSET [rel : Relations, what : Tags]]
         /\ lost' \in [Requests -> Nat]
BY EventTypes DEF Stores, StoreFails, Session, RunsTypeOK, Tags

LEMMA MoveTypes ==
  ASSUME RunsTypeOK, NEW q \in Requests, NEW r \in Relations, NEW stage \in Stages,
         Move(q, r, stage)
  PROVE  at' \in [Requests -> [Relations -> Stages]]
BY DEF Move, RunsTypeOK

LEMMA EndsTypes ==
  ASSUME RunsTypeOK, NEW q \in Requests, NEW r \in Relations, NEW how \in Outcomes,
         Ends(q, r, how)
  PROVE  /\ at' \in [Requests -> [Relations -> Stages]]
         /\ result' \in [Requests -> [Relations -> Outcomes \cup {"none"}]]
<1>1. "done" \in Stages
  BY DEF Stages
<1> QED
  BY <1>1, MoveTypes DEF Ends, RunsTypeOK

RunRows == [status : Finished \cup {"absent", "running"}, warnings : Nat]

LEMMA RowTypes ==
  RunsTypeOK => \A q \in Requests : [status |-> RunStatus(q), warnings |-> warnings[q]] \in RunRows
<1> SUFFICES ASSUME RunsTypeOK, NEW q \in Requests
             PROVE  [status |-> RunStatus(q), warnings |-> warnings[q]] \in RunRows
  OBVIOUS
<1>1. RunStatus(q) \in Finished /\ warnings[q] \in Nat
  BY DEF RunStatus, Finished, RunsTypeOK
<1> QED
  BY <1>1 DEF RunRows

LEMMA RunningType == Running \in RunRows
BY DEF Running, RunRows

LEMMA StageTypes == Locked \cup {"queued", "locking", "done", "noting", "retiring", "told"} \subseteq Stages
BY DEF Stages

LEMMA RoundFields ==
  /\ Once.check = "checking" /\ Once.miss = "missing" /\ Once.alter = "altering"
  /\ Once.refuse = "refused" /\ Once.note = "recording" /\ Once.read = "reading"
  /\ Again.check = "rechecking" /\ Again.miss = "missing again" /\ Again.alter = "altering again"
  /\ Again.refuse = "refused again" /\ Again.note = "recording again" /\ Again.read = "rereading"
BY DEF Once, Again

LEMMA RoundTypes ==
  \A round \in Rounds :
    /\ {round.check, round.miss, round.alter, round.refuse, round.note, round.read} \subseteq Locked
    /\ {round.miss, round.refuse} \subseteq Inside
<1>1. /\ {Once.check, Once.miss, Once.alter, Once.refuse, Once.note, Once.read} \subseteq Locked
      /\ {Once.miss, Once.refuse} \subseteq Inside
  BY RoundFields DEF Locked, Holding, Inside
<1>2. /\ {Again.check, Again.miss, Again.alter, Again.refuse, Again.note, Again.read}
           \subseteq Locked
      /\ {Again.miss, Again.refuse} \subseteq Inside
  BY RoundFields DEF Locked, Holding, Inside
<1> QED
  BY <1>1, <1>2 DEF Rounds

LEMMA RunsTypeStep == RunsTypeOK /\ [RunsNext]_runsVars => RunsTypeOK'
<1> SUFFICES ASSUME RunsTypeOK, [RunsNext]_runsVars PROVE RunsTypeOK'
  OBVIOUS
<1> USE DEF sessions, tables
<1>1. ASSUME NEW q \in Requests, HandlerStep(q) PROVE RunsTypeOK'
  <2>1. CASE OpenRun(q)
    <3>1. run' \in [Requests -> RunRows]
      BY <2>1, RunningType DEF OpenRun, RunsTypeOK, RunRows
    <3>2. asks' \in [Requests -> SUBSET Relations]
      BY <2>1 DEF OpenRun, Targets, RunsTypeOK
    <3> QED
      BY <2>1, <3>1, <3>2 DEF OpenRun, Goto, RunsTypeOK, RunRows
  <2>2. CASE OpenFails(q)
    <3>1. run' \in [Requests -> RunRows]
      BY <2>2, RunningType DEF OpenFails, RunsTypeOK, RunRows
    <3> QED
      BY <2>2, <3>1 DEF OpenFails, Goto, RunsTypeOK, RunRows
  <2>3. CASE StartPooling(q) \/ AllDone(q) \/ Completed(q)
    BY <2>3 DEF StartPooling, AllDone, Completed, Goto, RunsTypeOK
  <2>4. CASE HandlerFails(q)
    <3>1. warnings' \in [Requests -> Nat]
      BY <2>4, CountsTypes DEF HandlerFails, RunsTypeOK, Session
    <3>2. /\ events' \in [Requests -> SUBSET [rel : Relations, what : Tags]]
          /\ lost' \in [Requests -> Nat]
      <4>1. asks[q] \subseteq Relations /\ Bad \subseteq Tags /\ "kept" \in Tags
        BY DEF RunsTypeOK, Tags
      <4>2. CASE UNCHANGED <<warnings, events, lost>>
        BY <4>2 DEF RunsTypeOK, Tags
      <4>3. ASSUME NEW r \in asks[q], NEW what \in Tags, StoreFails(q, Event(r, what))
            PROVE  /\ events' \in [Requests -> SUBSET [rel : Relations, what : Tags]]
                   /\ lost' \in [Requests -> Nat]
        BY <4>1, <4>3, StoresTypes
      <4> QED
        BY <2>4, <4>1, <4>2, <4>3 DEF HandlerFails
    <3>3. enabled' \subseteq Relations
      BY <2>4 DEF HandlerFails, UnregisterFails, Unregister, RunsTypeOK
    <3> QED
      BY <2>4, <3>1, <3>2, <3>3 DEF HandlerFails, Goto, RunsTypeOK, Tags
  <2>5. CASE Finish(q) \/ FinishFails(q)
    <3>1. run' \in [Requests -> RunRows]
      <4>1. ASSUME NEW row \in RunRows, run' = [run EXCEPT ![q] = row]
            PROVE  run' \in [Requests -> RunRows]
        BY <4>1 DEF RunsTypeOK, RunRows
      <4>2. CASE FinishRow(q)
        BY <4>1, <4>2, RowTypes, Zenon DEF FinishRow
      <4>3. CASE UNCHANGED run
        BY <4>3 DEF RunsTypeOK, RunRows
      <4> QED
        BY <2>5, <4>2, <4>3 DEF Finish, FinishFails
    <3> QED
      BY <2>5, <3>1 DEF Finish, FinishFails, Goto, RunsTypeOK, RunRows
  <2>6. ASSUME NEW r \in Relations, NothingToReport(q, r) PROVE RunsTypeOK'
    BY <2>6, MoveTypes, StageTypes DEF NothingToReport, RunsTypeOK
  <2>7. ASSUME NEW r \in Relations, TellResult(q, r) PROVE RunsTypeOK'
    <3>1. warnings' \in [Requests -> Nat]
      BY <2>7, CountsTypes DEF TellResult, RunsTypeOK, Session
    <3>2. /\ events' \in [Requests -> SUBSET [rel : Relations, what : Tags]]
          /\ lost' \in [Requests -> Nat]
      BY <2>7, StoresTypes DEF TellResult, Tags
    <3>3. at' \in [Requests -> [Relations -> Stages]]
      BY <2>7, MoveTypes, StageTypes DEF TellResult
    <3> QED
      BY <2>7, <3>1, <3>2, <3>3 DEF TellResult, RunsTypeOK, Tags
  <2>8. ASSUME NEW r \in Relations, Retire(q, r) PROVE RunsTypeOK'
    <3>1. warnings' \in [Requests -> Nat]
      BY <2>8, CountsTypes DEF Retire, RunsTypeOK, Session
    <3>2. /\ events' \in [Requests -> SUBSET [rel : Relations, what : Tags]]
          /\ lost' \in [Requests -> Nat]
      BY <2>8, StoresTypes DEF Retire, Tags, RunsTypeOK
    <3>3. at' \in [Requests -> [Relations -> Stages]]
      BY <2>8, MoveTypes, StageTypes DEF Retire
    <3>4. enabled' \subseteq Relations
      BY <2>8 DEF Retire, UnregisterFails, Unregister, RunsTypeOK
    <3> QED
      BY <2>8, <3>1, <3>2, <3>3, <3>4 DEF Retire, RunsTypeOK, Tags
  <2> QED
    BY <1>1, <2>1, <2>2, <2>3, <2>4, <2>5, <2>6, <2>7, <2>8 DEF HandlerStep
<1>2. ASSUME NEW q \in Requests, NEW r \in Relations,
             WorkerStep(q, r) \/ LockFails(q, r) \/ AccessStep(q, r)
      PROVE  RunsTypeOK'
  <2> USE StageTypes, RoundTypes
  <2>1. CASE Take(q, r) \/ LockTable(q, r) \/ HistoryIsOn(q, r) \/ HistoryLost(q, r)
    <3>1. PICK stage \in Locked \cup {"locking"} : Move(q, r, stage)
      BY <2>1 DEF Take, LockTable, HistoryIsOn, HistoryLost, Rounds, Locked, Holding
    <3> QED
      BY <2>1, <3>1, MoveTypes DEF Take, LockTable, HistoryIsOn, HistoryLost, RunsTypeOK
  <2>2. CASE Altered(q, r) \/ RecordRefusal(q, r) \/ RecordDenial(q, r)
    <3>1. PICK stage \in Locked \cup {"told"} : Move(q, r, stage)
      BY <2>2 DEF Altered, RecordRefusal, RecordDenial
    <3> QED
      BY <2>2, <3>1, MoveTypes DEF Altered, RecordRefusal, RecordDenial, RunsTypeOK
  <2>3. CASE LockFails(q, r) \/ EndsEarly(q, r) \/ Pooled(q, r)
    BY <2>3, EndsTypes DEF LockFails, EndsEarly, Pooled, RunsTypeOK, Outcomes, Bad, Errors
  <2>4. CASE HistoryIsOff(q, r) \/ AlterFails(q, r)
    <3>1. \E what \in Inside \cap Locked : Reports(q, r, what)
      BY <2>4 DEF HistoryIsOff, AlterFails
    <3>2. at' \in [Requests -> [Relations -> Stages]]
      BY <3>1, MoveTypes DEF Reports
    <3>3. seen' \in [Requests -> [Relations -> Nat]]
      BY <3>1 DEF Reports, Session, RunsTypeOK
    <3> QED
      BY <3>1, <3>2, <3>3 DEF Reports, RunsTypeOK
  <2>5. CASE Reported(q, r) \/ ReportFails(q, r)
    <3>1. at[q][r] \in Tags /\ seen[q][r] \in Nat
      BY <2>5 DEF Reported, ReportFails, Tags, RunsTypeOK
    <3>2. warnings' \in [Requests -> Nat]
      BY <2>5, <3>1, CountsTypes DEF Reported, ReportFails
    <3>3. /\ events' \in [Requests -> SUBSET [rel : Relations, what : Tags]]
          /\ lost' \in [Requests -> Nat]
      BY <2>5, <3>1, StoresTypes DEF Reported, ReportFails
    <3>4. CASE Reported(q, r)
      <4>1. \E stage \in Locked : Move(q, r, stage)
        BY <3>4 DEF Reported
      <4> QED
        BY <3>2, <3>3, <3>4, <4>1, MoveTypes DEF Reported, RunsTypeOK, Tags
    <3>5. CASE ReportFails(q, r)
      BY <3>2, <3>3, <3>5, EndsTypes DEF ReportFails, RunsTypeOK, Tags, Outcomes, Bad, Errors
    <3> QED
      BY <2>5, <3>4, <3>5
  <2> QED
    BY <1>2, <2>1, <2>2, <2>3, <2>4, <2>5 DEF WorkerStep, AccessStep
<1>3. ASSUME NEW r \in Relations, Enroll(r) PROVE RunsTypeOK'
  BY <1>3 DEF Enroll, RunsTypeOK
<1>4. CASE UNCHANGED runsVars
  BY <1>4 DEF runsVars, RunsTypeOK
<1> QED
  BY <1>1, <1>2, <1>3, <1>4 DEF RunsNext

LEMMA RunsInitTypes == RunsInit => RunsTypeOK
BY DEF RunsInit, RunsTypeOK, Stages, Locked, Holding

\* Type correctness of the run sessions.
THEOREM RunsTypeCorrect == RunsSpec => []RunsTypeOK
BY RunsInitTypes, RunsTypeStep, PTL DEF RunsSpec

-----------------------------------------------------------------------------
(* What a step may do to one request *)

SamePlan(q)  == asks'[q] = asks[q] /\ run'[q] = run[q]
SameBooks(q) == warnings'[q] = warnings[q] /\ events'[q] = events[q] /\ lost'[q] = lost[q]
SameWork(q)  == at'[q] = at[q] /\ result'[q] = result[q] /\ seen'[q] = seen[q]

\* One event is counted from n on, and stored or lost.
Logs(q, n, e) ==
  /\ warnings'[q] = n + 1
  /\ \/ events'[q] = events[q] \cup {e} /\ lost'[q] = lost[q]
     \/ events'[q] = events[q] /\ lost'[q] = lost[q] + 1

Stays(q) == SamePlan(q) /\ SameBooks(q) /\ SameWork(q) /\ main'[q] = main[q]

Opens(q) ==
  /\ main[q] = "new" /\ SameBooks(q) /\ SameWork(q)
  /\ run'[q] \in {run[q], Running}
  /\ main'[q] \in {"opened", "finishing", "failed"}
  /\ main'[q] = "finishing" => asks'[q] = {}

Turns(q) ==
  /\ SamePlan(q) /\ SameBooks(q) /\ SameWork(q)
  /\ \/ main[q] = "opened" /\ main'[q] \in {"pooling", "failed"}
     \/ /\ main[q] = "pooling" /\ main'[q] = "reporting"
        /\ \A r \in asks[q] : at[q][r] = "done"
     \/ /\ main[q] = "reporting" /\ main'[q] = "finishing"
        /\ \A r \in asks[q] : at[q][r] = "told"
     \/ main[q] = "reporting" /\ main'[q] = "failed"

Nexts(stage) ==
  CASE stage = "locking"   -> {"checking", "done"}
    [] stage = "checking"  -> {"reading", "done"}
    [] stage = "altering"  -> {"reading"}
    [] stage = "recording" -> {"reading"}
    [] stage = "reading"   -> {"rechecking", "done"}
    [] stage \in {"rechecking", "altering again", "recording again"} -> {"rereading"}
    [] stage = "rereading" -> {"done"}
    [] OTHER               -> {}

MovesTo(q, r, stage) == r \in Relations /\ at'[q] = [at[q] EXCEPT ![r] = stage]

\* A worker goes on without an event.
Walks(q, r) ==
  /\ SamePlan(q) /\ SameBooks(q) /\ seen'[q] = seen[q] /\ main'[q] = main[q]
  /\ \/ /\ main[q] = "pooling" /\ r \in asks[q] /\ at[q][r] = "queued" /\ MovesTo(q, r, "locking")
        /\ result'[q] = result[q]
     \/ /\ \E stage \in Nexts(at[q][r]) : MovesTo(q, r, stage)
        /\ \A s \in Relations : s # r => result'[q][s] = result[q][s]

\* A worker gets into on_event.
Enters(q, r) ==
  /\ SamePlan(q) /\ SameBooks(q) /\ result'[q] = result[q] /\ main'[q] = main[q]
  /\ MayReport(q)
  /\ \/ at[q][r] = "checking" /\ MovesTo(q, r, "missing")
     \/ at[q][r] = "altering" /\ MovesTo(q, r, "refused")
     \/ at[q][r] = "rechecking" /\ MovesTo(q, r, "missing again")
     \/ at[q][r] = "altering again" /\ MovesTo(q, r, "refused again")
  /\ seen'[q] = [seen[q] EXCEPT ![r] = warnings[q]]

\* A worker gets out of it.
Leaves(q, r) ==
  /\ SamePlan(q) /\ seen'[q] = seen[q] /\ main'[q] = main[q]
  /\ at[q][r] \in Inside /\ Logs(q, seen[q][r], Event(r, at[q][r]))
  /\ \/ at[q][r] = "missing" /\ MovesTo(q, r, "altering")
     \/ at[q][r] = "refused" /\ MovesTo(q, r, "recording")
     \/ at[q][r] = "missing again" /\ MovesTo(q, r, "altering again")
     \/ at[q][r] = "refused again" /\ MovesTo(q, r, "recording again")
     \/ MovesTo(q, r, "done")
  /\ \A s \in Relations : s # r => result'[q][s] = result[q][s]

\* The handler goes over the results.
Tells(q, r) ==
  /\ SamePlan(q) /\ seen'[q] = seen[q] /\ result'[q] = result[q] /\ main'[q] = main[q]
  /\ main[q] = "reporting" /\ r \in asks[q]
  /\ \/ at[q][r] = "done" /\ result[q][r] = "ok" /\ SameBooks(q) /\ MovesTo(q, r, "told")
     \/ /\ at[q][r] = "done" /\ result[q][r] \in Bad
        /\ warnings'[q] = warnings[q] + 1 /\ lost'[q] = lost[q]
        /\ events'[q] = events[q] \cup {Event(r, result[q][r])}
        /\ \E stage \in {"noting", "retiring", "told"} :
             MovesTo(q, r, stage) /\ (stage = "retiring" => result[q][r] = "not_found")
     \/ at[q][r] \in {"noting", "retiring"} /\ SameBooks(q) /\ MovesTo(q, r, "told")
     \/ /\ at[q][r] = "retiring" /\ Logs(q, warnings[q], Event(r, "kept"))
        /\ MovesTo(q, r, "told")

\* The handler fails over an event.
Breaks(q, r) ==
  /\ SamePlan(q) /\ SameWork(q) /\ main[q] = "reporting" /\ main'[q] = "failed" /\ r \in asks[q]
  /\ \/ /\ at[q][r] = "done" /\ result[q][r] \in Bad
        /\ Logs(q, warnings[q], Event(r, result[q][r]))
     \/ at[q][r] = "retiring" /\ Logs(q, warnings[q], Event(r, "kept"))

Closes(q) ==
  /\ SameBooks(q) /\ SameWork(q) /\ asks'[q] = asks[q]
  /\ main[q] = "finishing" /\ main'[q] \in {"answered", "failed"}
  /\ \/ run'[q] = [status |-> RunStatus(q), warnings |-> warnings[q]]
     \/ run'[q] = run[q] /\ main'[q] = "failed"

StepOf(q) ==
  \/ Stays(q) \/ Opens(q) \/ Turns(q) \/ Closes(q)
  \/ \E r \in Relations : Walks(q, r) \/ Enters(q, r) \/ Leaves(q, r) \/ Tells(q, r) \/ Breaks(q, r)

LEMMA StoresOf ==
  ASSUME RunsTypeOK, NEW q \in Requests, NEW e, NEW n, Counts(q, n),
         Stores(q, e) \/ StoreFails(q, e)
  PROVE  /\ Logs(q, n, e)
         /\ Stores(q, e) => events'[q] = events[q] \cup {e} /\ lost'[q] = lost[q]
         /\ \A p \in Requests \ {q} : SameBooks(p)
BY DEF RunsTypeOK, Counts, Stores, StoreFails, Session, Logs, SameBooks

LEMMA MoveOf ==
  ASSUME RunsTypeOK, NEW q \in Requests, NEW r \in Relations, NEW stage, Move(q, r, stage)
  PROVE  /\ MovesTo(q, r, stage)
         /\ \A p \in Requests \ {q} : at'[p] = at[p]
BY DEF RunsTypeOK, Move, MovesTo

LEMMA EndOf ==
  ASSUME RunsTypeOK, NEW q \in Requests, NEW r \in Relations, NEW how, Ends(q, r, how)
  PROVE  /\ MovesTo(q, r, "done")
         /\ \A s \in Relations : s # r => result'[q][s] = result[q][s]
         /\ \A p \in Requests \ {q} : at'[p] = at[p] /\ result'[p] = result[p]
BY MoveOf DEF RunsTypeOK, Ends

LEMMA RunsStep == RunsTypeOK /\ [RunsNext]_runsVars => \A p \in Requests : StepOf(p)
<1> SUFFICES ASSUME RunsTypeOK, [RunsNext]_runsVars, NEW p \in Requests PROVE StepOf(p)
  OBVIOUS
<1> USE DEF sessions, tables, StepOf, SamePlan, SameBooks, SameWork
<1>1. ASSUME NEW q \in Requests, HandlerStep(q) PROVE StepOf(p)
  <2>1. CASE OpenRun(q) \/ OpenFails(q)
    BY <2>1 DEF OpenRun, OpenFails, Goto, Opens, Stays, RunsTypeOK
  <2>2. CASE StartPooling(q) \/ AllDone(q) \/ Completed(q)
    BY <2>2 DEF StartPooling, AllDone, Completed, Goto, Turns, Stays, RunsTypeOK
  <2>3. CASE HandlerFails(q)
    <3>1. CASE main[q] \in {"opened", "reporting"} /\ UNCHANGED <<warnings, events, lost>>
      BY <2>3, <3>1 DEF HandlerFails, Goto, Turns, Stays, RunsTypeOK
    <3>2. ASSUME NEW r \in asks[q], NEW e, main[q] = "reporting",
                 Counts(q, warnings[Session(q)]), StoreFails(q, e),
                 \/ at[q][r] = "done" /\ result[q][r] \in Bad /\ e = Event(r, result[q][r])
                 \/ at[q][r] = "retiring" /\ e = Event(r, "kept")
          PROVE  StepOf(p)
      <4>1. Logs(q, warnings[q], e) /\ \A o \in Requests \ {q} : SameBooks(o)
        BY <3>2, StoresOf DEF Session
      <4>2. r \in Relations
        BY DEF RunsTypeOK
      <4>3. CASE p = q
        <5>1. Breaks(q, r)
          BY <2>3, <3>2, <4>1 DEF HandlerFails, Goto, Breaks, RunsTypeOK
        <5> QED
          BY <4>2, <4>3, <5>1
      <4>4. CASE p # q
        BY <2>3, <4>1, <4>4 DEF HandlerFails, Goto, Stays, RunsTypeOK
      <4> QED
        BY <4>3, <4>4
    <3> QED
      BY <2>3, <3>1, <3>2 DEF HandlerFails
  <2>4. CASE Finish(q) \/ FinishFails(q)
    BY <2>4 DEF Finish, FinishFails, FinishRow, Goto, Closes, Stays, RunsTypeOK
  <2>5. ASSUME NEW r \in Relations, NothingToReport(q, r) PROVE StepOf(p)
    <3>1. MovesTo(q, r, "told") /\ \A o \in Requests \ {q} : at'[o] = at[o]
      BY <2>5, MoveOf DEF NothingToReport
    <3> QED
      BY <2>5, <3>1 DEF NothingToReport, Tells, Stays
  <2>6. ASSUME NEW r \in Relations, TellResult(q, r) PROVE StepOf(p)
    <3>1. PICK stage \in {"noting", "retiring", "told"} :
            Move(q, r, stage) /\ (stage = "retiring" => result[q][r] = "not_found")
      BY <2>6 DEF TellResult, Bad, Errors
    <3>2. MovesTo(q, r, stage) /\ \A o \in Requests \ {q} : at'[o] = at[o]
      BY <3>1, MoveOf
    <3>3. /\ Logs(q, warnings[q], Event(r, result[q][r]))
          /\ events'[q] = events[q] \cup {Event(r, result[q][r])} /\ lost'[q] = lost[q]
          /\ \A o \in Requests \ {q} : SameBooks(o)
      BY <2>6, StoresOf DEF TellResult, Session
    <3>4. CASE p = q
      <4>1. \E next \in {"noting", "retiring", "told"} :
              MovesTo(q, r, next) /\ (next = "retiring" => result[q][r] = "not_found")
        BY <3>1, <3>2
      <4>2. Tells(q, r)
        BY <2>6, <3>3, <4>1 DEF TellResult, Tells, Logs
      <4> QED
        BY <3>4, <4>2
    <3>5. CASE p # q
      BY <2>6, <3>2, <3>3, <3>5 DEF TellResult, Stays
    <3> QED
      BY <3>4, <3>5
  <2>7. ASSUME NEW r \in Relations, Retire(q, r) PROVE StepOf(p)
    <3>1. MovesTo(q, r, "told") /\ \A o \in Requests \ {q} : at'[o] = at[o]
      BY <2>7, MoveOf DEF Retire
    <3>2. CASE UNCHANGED <<warnings, events, lost>>
      BY <2>7, <3>1, <3>2 DEF Retire, Tells, Stays
    <3>3. CASE Counts(q, warnings[Session(q)]) /\ Stores(q, Event(r, "kept"))
      <4>1. Logs(q, warnings[q], Event(r, "kept")) /\ \A o \in Requests \ {q} : SameBooks(o)
        BY <3>3, StoresOf DEF Session
      <4> QED
        BY <2>7, <3>1, <4>1 DEF Retire, Tells, Stays
    <3> QED
      BY <2>7, <3>2, <3>3 DEF Retire
  <2> QED
    BY <1>1, <2>1, <2>2, <2>3, <2>4, <2>5, <2>6, <2>7 DEF HandlerStep
<1>2. ASSUME NEW q \in Requests, NEW r \in Relations,
             WorkerStep(q, r) \/ LockFails(q, r) \/ AccessStep(q, r)
      PROVE  StepOf(p)
  <2>1. CASE Take(q, r)
    <3>1. MovesTo(q, r, "locking") /\ \A o \in Requests \ {q} : at'[o] = at[o]
      BY <2>1, MoveOf DEF Take
    <3> QED
      BY <2>1, <3>1 DEF Take, Walks, Stays
  <2>2. CASE \/ LockTable(q, r) \/ HistoryIsOn(q, r) \/ HistoryLost(q, r)
             \/ Altered(q, r) \/ RecordRefusal(q, r)
    <3>1. PICK stage \in Nexts(at[q][r]) : Move(q, r, stage)
      BY <2>2, RoundFields
         DEF LockTable, HistoryIsOn, HistoryLost, Altered, RecordRefusal, Nexts, Rounds
    <3>2. MovesTo(q, r, stage) /\ \A o \in Requests \ {q} : at'[o] = at[o]
      BY <3>1, MoveOf
    <3> QED
      BY <2>2, <3>1, <3>2
         DEF LockTable, HistoryIsOn, HistoryLost, Altered, RecordRefusal, Walks, Stays
  <2>3. CASE LockFails(q, r) \/ EndsEarly(q, r) \/ Pooled(q, r)
    <3>1. "done" \in Nexts(at[q][r])
      BY <2>3, RoundFields DEF LockFails, EndsEarly, Pooled, Nexts, Rounds
    <3>2. \E how : Ends(q, r, how)
      BY <2>3 DEF LockFails, EndsEarly, Pooled
    <3>3. /\ MovesTo(q, r, "done")
          /\ \A s \in Relations : s # r => result'[q][s] = result[q][s]
          /\ \A o \in Requests \ {q} : at'[o] = at[o] /\ result'[o] = result[o]
      BY <3>2, EndOf
    <3> QED
      BY <2>3, <3>1, <3>3 DEF LockFails, EndsEarly, Pooled, Walks, Stays
  <2>4. CASE RecordDenial(q, r)
    <3>1. MovesTo(q, r, "told") /\ \A o \in Requests \ {q} : at'[o] = at[o]
      BY <2>4, MoveOf DEF RecordDenial
    <3> QED
      BY <2>4, <3>1 DEF RecordDenial, Tells, Stays
  <2>5. CASE HistoryIsOff(q, r) \/ AlterFails(q, r)
    <3>1. PICK what : Reports(q, r, what) /\ <<at[q][r], what>> \in
                        {<<"checking", "missing">>, <<"altering", "refused">>,
                         <<"rechecking", "missing again">>, <<"altering again", "refused again">>}
      BY <2>5, RoundFields DEF HistoryIsOff, AlterFails, Rounds
    <3>2. MovesTo(q, r, what) /\ \A o \in Requests \ {q} : at'[o] = at[o]
      BY <3>1, MoveOf DEF Reports
    <3>3. /\ seen'[q] = [seen[q] EXCEPT ![r] = warnings[q]]
          /\ \A o \in Requests \ {q} : seen'[o] = seen[o]
      BY <3>1 DEF Reports, Session, RunsTypeOK
    <3> QED
      BY <3>1, <3>2, <3>3 DEF Reports, Enters, Stays
  <2>6. CASE Reported(q, r)
    <3>1. Logs(q, seen[q][r], Event(r, at[q][r])) /\ \A o \in Requests \ {q} : SameBooks(o)
      BY <2>6, StoresOf DEF Reported
    <3>2. /\ \A o \in Requests \ {q} : at'[o] = at[o]
          /\ \/ at[q][r] = "missing" /\ MovesTo(q, r, "altering")
             \/ at[q][r] = "refused" /\ MovesTo(q, r, "recording")
             \/ at[q][r] = "missing again" /\ MovesTo(q, r, "altering again")
             \/ at[q][r] = "refused again" /\ MovesTo(q, r, "recording again")
      BY <2>6, MoveOf, RoundFields DEF Reported, Rounds
    <3> QED
      BY <2>6, <3>1, <3>2 DEF Reported, Leaves, Stays
  <2>7. CASE ReportFails(q, r)
    <3>1. Logs(q, seen[q][r], Event(r, at[q][r])) /\ \A o \in Requests \ {q} : SameBooks(o)
      BY <2>7, StoresOf DEF ReportFails
    <3>2. /\ MovesTo(q, r, "done")
          /\ \A s \in Relations : s # r => result'[q][s] = result[q][s]
          /\ \A o \in Requests \ {q} : at'[o] = at[o] /\ result'[o] = result[o]
      BY <2>7, EndOf DEF ReportFails
    <3>3. Leaves(q, r)
      BY <2>7, <3>1, <3>2 DEF ReportFails, Leaves
    <3> QED
      BY <2>7, <3>1, <3>2, <3>3 DEF ReportFails, Stays
  <2> QED
    BY <1>2, <2>1, <2>2, <2>3, <2>4, <2>5, <2>6, <2>7 DEF WorkerStep, AccessStep
<1>3. ASSUME NEW r \in Relations, Enroll(r) PROVE StepOf(p)
  BY <1>3 DEF Enroll, Stays
<1>4. CASE UNCHANGED runsVars
  BY <1>4 DEF runsVars, Stays
<1> QED
  BY <1>1, <1>2, <1>3, <1>4 DEF RunsNext

-----------------------------------------------------------------------------
(* The invariant, one request at a time *)

\* Where its handler and its workers can be together.
PlaceInv(q) ==
  /\ main[q] \in {"new", "opened"} => \A r \in Relations : at[q][r] = "queued"
  /\ main[q] = "new" => asks[q] = {} /\ run[q].status = "absent"
  /\ \A r \in Relations : at[q][r] # "queued" => r \in asks[q]
  /\ \A r \in Relations : at[q][r] \in Locked \cup {"locking"} => main[q] = "pooling"
  /\ \A r \in Relations : at[q][r] \in {"noting", "retiring", "told"} =>
       main[q] \in {"reporting", "finishing", "answered", "failed"}
  /\ main[q] \in {"finishing", "answered"} => \A r \in asks[q] : at[q][r] = "told"

LEMMA PlaceStep ==
  ASSUME RunsTypeOK, RunsTypeOK', NEW q \in Requests, PlaceInv(q), StepOf(q)
  PROVE  PlaceInv(q)'
<1> USE DEF PlaceInv, SamePlan, SameWork, SameBooks
<1>0. at[q] \in [Relations -> Stages]
  BY DEF RunsTypeOK
<1>1. CASE Stays(q) \/ Opens(q) \/ Turns(q) \/ Closes(q)
  <2>1. CASE Stays(q)
    BY <2>1 DEF Stays
  <2>2. CASE Opens(q)
    <3>1. /\ \A r \in Relations : at'[q][r] = "queued"
          /\ main'[q] \notin {"new", "answered"}
          /\ main'[q] = "finishing" => asks'[q] = {}
      BY <2>2 DEF Opens
    <3> QED
      BY <3>1 DEF Locked, Holding, Inside
  <2>3. CASE Turns(q)
    BY <2>3 DEF Turns, Locked, Holding, Inside
  <2>4. CASE Closes(q)
    BY <2>4 DEF Closes, Locked, Holding, Inside
  <2> QED
    BY <1>1, <2>1, <2>2, <2>3, <2>4
<1>2. ASSUME NEW r \in Relations, Walks(q, r) \/ Enters(q, r) \/ Leaves(q, r)
      PROVE  PlaceInv(q)'
  <2>1. PICK stage \in Locked \cup {"locking", "done"} : MovesTo(q, r, stage)
    BY <1>2 DEF Walks, Enters, Leaves, Nexts, Locked, Holding, Inside
  <2>2. main[q] = "pooling" /\ r \in asks[q] /\ main'[q] = main[q] /\ SamePlan(q)
    BY <1>2 DEF Walks, Enters, Leaves, Nexts, Locked, Holding, Inside
  <2> QED
    BY <1>0, <2>1, <2>2 DEF MovesTo, Locked, Holding, Inside
<1>3. ASSUME NEW r \in Relations, Tells(q, r) PROVE PlaceInv(q)'
  <2>1. PICK stage \in {"noting", "retiring", "told"} : MovesTo(q, r, stage)
    BY <1>3 DEF Tells
  <2> QED
    BY <1>0, <1>3, <2>1 DEF Tells, MovesTo, Locked, Holding, Inside
<1>4. ASSUME NEW r \in Relations, Breaks(q, r) PROVE PlaceInv(q)'
  BY <1>4 DEF Breaks, Locked, Holding, Inside
<1> QED
  BY <1>1, <1>2, <1>3, <1>4 DEF StepOf

\* One worker at a time is inside on_event, and its count is up to date.
SlotInv(q) ==
  /\ \A r, s \in asks[q] : at[q][r] \in Inside /\ at[q][s] \in Inside => r = s
  /\ \A r \in asks[q] : at[q][r] \in Inside => seen[q][r] = warnings[q]

LEMMA SlotStep ==
  ASSUME RunsTypeOK, RunsTypeOK', NEW q \in Requests, PlaceInv(q), SlotInv(q), StepOf(q)
  PROVE  SlotInv(q)'
<1> USE DEF SlotInv, SamePlan, SameWork, SameBooks, Inside
<1>0. at[q] \in [Relations -> Stages] /\ seen[q] \in [Relations -> Nat] /\ asks[q] \subseteq Relations
  BY DEF RunsTypeOK
<1>1. CASE Stays(q) \/ Turns(q) \/ Closes(q)
  BY <1>1 DEF Stays, Turns, Closes
<1>2. CASE Opens(q)
  <2>1. \A r \in Relations : at[q][r] \notin Inside
    BY <1>2 DEF Opens, PlaceInv
  <2>2. asks'[q] \subseteq Relations
    BY DEF RunsTypeOK
  <2> QED
    BY <1>2, <2>1, <2>2 DEF Opens
<1>3. ASSUME NEW r \in Relations, Walks(q, r) PROVE SlotInv(q)'
  <2>1. \E stage \in {"locking", "checking", "reading", "rechecking", "rereading", "done"} : MovesTo(q, r, stage)
    BY <1>3 DEF Walks, Nexts
  <2> QED
    BY <1>0, <1>3, <2>1 DEF Walks, MovesTo
<1>4. ASSUME NEW r \in Relations, Enters(q, r) PROVE SlotInv(q)'
  <2>1. PICK stage \in Inside : MovesTo(q, r, stage)
    BY <1>4 DEF Enters
  <2>2. \A s \in asks[q] : at[q][s] \notin Inside
    BY <1>4 DEF Enters, MayReport
  <2>3. asks'[q] = asks[q] /\ warnings'[q] = warnings[q] /\ seen'[q] = [seen[q] EXCEPT ![r] = warnings[q]]
    BY <1>4 DEF Enters
  <2>4. \A s \in asks[q] : at'[q][s] \in Inside => s = r
    BY <1>0, <2>1, <2>2 DEF MovesTo
  <2> QED
    BY <1>0, <2>3, <2>4
<1>5. ASSUME NEW r \in Relations, Leaves(q, r) PROVE SlotInv(q)'
  <2>1. \E stage \in {"altering", "recording", "altering again", "recording again", "done"} :
         MovesTo(q, r, stage)
    BY <1>5 DEF Leaves
  <2>2. r \in asks[q]
    BY <1>5 DEF Leaves, PlaceInv
  <2> QED
    <3>1. \A s \in asks[q] : at'[q][s] \in Inside => s # r /\ at[q][s] \in Inside
      BY <1>0, <2>1, <2>2 DEF MovesTo
    <3>2. \A s \in asks[q] : at'[q][s] \notin Inside
      BY <1>5, <2>2, <3>1 DEF Leaves
    <3>3. asks'[q] = asks[q]
      BY <1>5 DEF Leaves
    <3> QED
      BY <3>2, <3>3
<1>6. ASSUME NEW r \in Relations, Tells(q, r) \/ Breaks(q, r) PROVE SlotInv(q)'
  <2>1. \A s \in asks[q] : at[q][s] \notin Inside /\ at'[q][s] \notin Inside
    BY <1>0, <1>6 DEF Tells, Breaks, MovesTo, PlaceInv, Locked, Holding, Inside
  <2> QED
    BY <1>6, <2>1 DEF Tells, Breaks
<1> QED
  BY <1>1, <1>2, <1>3, <1>4, <1>5, <1>6 DEF StepOf

EndStages  == {"done", "noting", "retiring", "told"}
LateStages == EndStages \cup {"rechecking", "missing again", "altering again", "refused again",
                             "recording again", "rereading"}

\* How far a worker is when an event of its relation is in the table.
After(what) ==
  CASE what = "missing" -> Stages \ {"queued", "locking", "checking", "missing"}
    [] what = "refused" -> {"recording", "reading"} \cup LateStages
    [] what = "missing again" -> LateStages \ {"rechecking", "missing again"}
    [] what = "refused again" -> {"recording again", "rereading"} \cup EndStages
    [] what = "kept"    -> {"told"}
    [] OTHER            -> {"noting", "retiring", "told"}

FreshInv(q) ==
  \A e \in events[q] : e.rel \in asks[q] /\ (main[q] # "failed" => at[q][e.rel] \in After(e.what))

CountInv(q) == IsFiniteSet(events[q]) /\ warnings[q] = Cardinality(events[q]) + lost[q]

\* A result that is reported is ok or among the events.
ToldInv(q) ==
  \A r \in Relations : at[q][r] \in {"noting", "retiring", "told"} =>
    result[q][r] = "ok" \/ Event(r, result[q][r]) \in events[q]

LEMMA LogsCount ==
  ASSUME NEW q \in Requests, RunsTypeOK, CountInv(q), NEW e, Logs(q, warnings[q], e),
         e \notin events[q]
  PROVE  CountInv(q)'
<1>1. CASE events'[q] = events[q] \cup {e} /\ lost'[q] = lost[q]
  <2>1. /\ IsFiniteSet(events[q] \cup {e})
        /\ Cardinality(events[q] \cup {e}) = Cardinality(events[q]) + 1
    BY FS_AddElement DEF CountInv
  <2>2. Cardinality(events[q]) \in Nat /\ lost[q] \in Nat
    BY FS_CardinalityType DEF CountInv, RunsTypeOK
  <2> QED
    BY <1>1, <2>1, <2>2 DEF Logs, CountInv
<1>2. CASE events'[q] = events[q] /\ lost'[q] = lost[q] + 1
  <2>1. Cardinality(events[q]) \in Nat /\ lost[q] \in Nat
    BY FS_CardinalityType DEF CountInv, RunsTypeOK
  <2> QED
    BY <1>2, <2>1 DEF Logs, CountInv
<1> QED
  BY <1>1, <1>2 DEF Logs

\* The event of each step that logs one is new.
LEMMA NewEvents ==
  ASSUME NEW q \in Requests, FreshInv(q), NEW r \in Relations, NEW what \in Tags,
         main[q] # "failed", at[q][r] \notin After(what)
  PROVE  Event(r, what) \notin events[q]
BY DEF FreshInv, Event

LEMMA CountStep ==
  ASSUME RunsTypeOK, NEW q \in Requests, PlaceInv(q), SlotInv(q), FreshInv(q), CountInv(q),
         StepOf(q)
  PROVE  CountInv(q)'
<1>1. CASE SameBooks(q)
  BY <1>1 DEF SameBooks, CountInv
<1>2. ASSUME NEW r \in Relations, Leaves(q, r) PROVE CountInv(q)'
  <2>1. r \in asks[q] /\ main[q] = "pooling" /\ at[q][r] \in Inside
    BY <1>2 DEF Leaves, PlaceInv, Inside, Locked, Holding
  <2>2. Event(r, at[q][r]) \notin events[q]
    BY <2>1, NewEvents DEF After, LateStages, EndStages, Tags, Inside
  <2> QED
    BY <1>2, <2>1, <2>2, LogsCount DEF Leaves, SlotInv, Inside
<1>3. ASSUME NEW r \in Relations, NEW what \in Bad, main[q] = "reporting", at[q][r] = "done",
             Logs(q, warnings[q], Event(r, what))
      PROVE  CountInv(q)'
  <2>1. at[q][r] \notin After(what) /\ what \in Tags
    BY <1>3 DEF After, LateStages, EndStages, Tags, Bad, Errors
  <2> QED
    BY <1>3, <2>1, NewEvents, LogsCount
<1>4. ASSUME NEW r \in Relations, main[q] = "reporting", at[q][r] = "retiring",
             Logs(q, warnings[q], Event(r, "kept"))
      PROVE  CountInv(q)'
  <2>1. at[q][r] \notin After("kept") /\ "kept" \in Tags
    BY <1>4 DEF After, LateStages, EndStages, Tags
  <2> QED
    BY <1>4, <2>1, NewEvents, LogsCount
<1>5. ASSUME NEW r \in Relations, Tells(q, r) \/ Breaks(q, r) PROVE CountInv(q)'
  BY <1>1, <1>3, <1>4, <1>5 DEF Tells, Breaks, Logs
<1> QED
  BY <1>1, <1>2, <1>5 DEF StepOf, Stays, Opens, Turns, Walks, Enters, Closes

\* Where a worker goes next.
Successors(stage) ==
  Nexts(stage) \cup
  CASE stage = "queued"            -> {"locking"}
    [] stage = "checking"          -> {"missing"}
    [] stage = "missing"           -> {"altering", "done"}
    [] stage = "altering"          -> {"refused"}
    [] stage = "refused"           -> {"recording", "done"}
    [] stage = "rechecking"        -> {"missing again"}
    [] stage = "missing again"     -> {"altering again", "done"}
    [] stage = "altering again"    -> {"refused again"}
    [] stage = "refused again"     -> {"recording again", "done"}
    [] stage = "done"              -> {"noting", "retiring", "told"}
    [] stage \in {"noting", "retiring"} -> {"told"}
    [] OTHER                       -> {}

LEMMA AfterLasts ==
  \A what \in Tags, from \in Stages : from \in After(what) =>
    \A to \in Successors(from) : to \in After(what)
<1> SUFFICES ASSUME NEW what \in Tags, NEW from \in Stages, from \in After(what),
                    NEW to \in Successors(from)
             PROVE  to \in After(what)
  OBVIOUS
<1> USE DEF LateStages, EndStages
<1>1. from \in Locked \cup {"queued", "locking", "done", "noting", "retiring", "told"}
  BY DEF Stages
<1>2. CASE what = "missing"
  BY <1>2, <1>1 DEF After, Successors, Nexts, Stages, Locked, Holding, Inside
<1>3. CASE what = "refused"
  BY <1>3 DEF After, Successors, Nexts
<1>4. CASE what = "missing again"
  BY <1>4 DEF After, Successors, Nexts
<1>5. CASE what = "refused again"
  BY <1>5 DEF After, Successors, Nexts
<1>6. CASE what \in Bad \cup {"kept"}
  BY <1>6 DEF After, Successors, Nexts, Bad, Errors
<1> QED
  BY <1>2, <1>3, <1>4, <1>5, <1>6 DEF Tags, Inside

LEMMA FreshStep ==
  ASSUME RunsTypeOK, NEW q \in Requests, PlaceInv(q), FreshInv(q), StepOf(q)
  PROVE  FreshInv(q)'
<1> USE DEF FreshInv, SamePlan, SameWork, SameBooks
<1>0. /\ at[q] \in [Relations -> Stages] /\ asks[q] \subseteq Relations
      /\ \A e \in events[q] : e.what \in Tags
  BY DEF RunsTypeOK, Tags
<1>1. CASE Stays(q) \/ Turns(q) \/ Closes(q)
  BY <1>1 DEF Stays, Turns, Closes
<1>2. CASE Opens(q)
  BY <1>2 DEF Opens, PlaceInv
<1>3. ASSUME NEW r \in Relations, Walks(q, r) \/ Enters(q, r) PROVE FreshInv(q)'
  <2>1. PICK stage \in Successors(at[q][r]) : MovesTo(q, r, stage)
    BY <1>3 DEF Walks, Enters, Successors
  <2>2. \A what \in Tags : at[q][r] \in After(what) => stage \in After(what)
    BY <1>0, <2>1, AfterLasts
  <2> QED
    BY <1>0, <1>3, <2>1, <2>2 DEF Walks, Enters, MovesTo
<1>4. ASSUME NEW r \in Relations, Leaves(q, r) PROVE FreshInv(q)'
  <2>0. PICK stage \in Successors(at[q][r]) :
          MovesTo(q, r, stage) /\ at[q][r] \in Inside /\ stage \notin Nexts(at[q][r])
    BY <1>4 DEF Leaves, Successors, Nexts, Inside
  <2>1. /\ stage \in After(at[q][r])
        /\ \A what \in Tags : at[q][r] \in After(what) => stage \in After(what)
    <3>1. stage \in After(at[q][r])
      BY <2>0 DEF After, Successors, LateStages, EndStages, Stages, Locked, Holding, Inside
    <3> QED
      BY <1>0, <1>4, <2>0, <3>1, AfterLasts
  <2>2. r \in asks[q]
    BY <1>4 DEF Leaves, PlaceInv, Inside
  <2>3. Event(r, at[q][r]).rel = r /\ Event(r, at[q][r]).what = at[q][r]
    BY DEF Event
  <2>4. events'[q] \subseteq events[q] \cup {Event(r, at[q][r])}
    BY <1>4 DEF Leaves, Logs
  <2>5. main'[q] = main[q] /\ asks'[q] = asks[q]
    BY <1>4 DEF Leaves
  <2>6. at'[q][r] = stage /\ \A s \in Relations : s # r => at'[q][s] = at[q][s]
    BY <1>0, <2>0 DEF MovesTo
  <2> SUFFICES ASSUME NEW e \in events'[q]
               PROVE  e.rel \in asks'[q] /\ (main'[q] # "failed" => at'[q][e.rel] \in After(e.what))
    OBVIOUS
  <2>7. CASE e = Event(r, at[q][r])
    BY <2>1, <2>2, <2>3, <2>5, <2>6, <2>7
  <2>8. CASE e \in events[q]
    <3>1. e.rel \in asks[q] /\ e.rel \in Relations /\ e.what \in Tags
      BY <1>0, <2>8
    <3>2. main[q] # "failed" => at[q][e.rel] \in After(e.what)
      BY <2>8
    <3> QED
      BY <2>1, <2>5, <2>6, <3>1, <3>2
  <2> QED
    BY <2>4, <2>7, <2>8
<1>5. ASSUME NEW r \in Relations, Tells(q, r) PROVE FreshInv(q)'
  <2>1. PICK stage \in {"noting", "retiring", "told"} :
          /\ MovesTo(q, r, stage)
          /\ \A what \in Tags : at[q][r] \in After(what) => stage \in After(what)
          /\ \A e \in events'[q] \ events[q] : e.rel = r /\ stage \in After(e.what)
    <3>1. PICK stage \in {"noting", "retiring", "told"} :
            /\ MovesTo(q, r, stage) /\ stage \in Successors(at[q][r])
            /\ \/ SameBooks(q)
               \/ result[q][r] \in Bad /\ events'[q] = events[q] \cup {Event(r, result[q][r])}
               \/ stage = "told" /\ events'[q] \subseteq events[q] \cup {Event(r, "kept")}
      BY <1>5 DEF Tells, Logs, Successors
    <3>2. \A what \in Tags : at[q][r] \in After(what) => stage \in After(what)
      BY <1>0, <1>5, <3>1, AfterLasts DEF Tells
    <3>3. \A what \in Bad : stage \in After(what)
      BY <3>1 DEF After, Bad, Errors
    <3>4. "told" \in After("kept")
      BY DEF After
    <3>5. \A e \in events'[q] \ events[q] : e.rel = r /\ stage \in After(e.what)
      BY <3>1, <3>3, <3>4 DEF Event
    <3> QED
      BY <3>1, <3>2, <3>5
  <2> QED
    BY <1>0, <1>5, <2>1 DEF Tells, MovesTo
<1>6. ASSUME NEW r \in Relations, Breaks(q, r) PROVE FreshInv(q)'
  BY <1>6 DEF Breaks, Logs, Event
<1> QED
  BY <1>1, <1>2, <1>3, <1>4, <1>5, <1>6 DEF StepOf

LEMMA ToldStep ==
  ASSUME RunsTypeOK, NEW q \in Requests, PlaceInv(q), ToldInv(q), StepOf(q)
  PROVE  ToldInv(q)'
<1> USE DEF ToldInv, SamePlan, SameWork, SameBooks
<1>0. at[q] \in [Relations -> Stages] /\ asks[q] \subseteq Relations
  BY DEF RunsTypeOK
<1>1. CASE Stays(q) \/ Opens(q) \/ Turns(q) \/ Closes(q)
  BY <1>1 DEF Stays, Opens, Turns, Closes
<1>2. ASSUME NEW r \in Relations, Walks(q, r) \/ Enters(q, r) \/ Leaves(q, r) PROVE ToldInv(q)'
  <2>1. PICK stage \in Locked \cup {"locking", "done"} : MovesTo(q, r, stage)
    BY <1>2 DEF Walks, Enters, Leaves, Nexts, Locked, Holding, Inside
  <2>2. main[q] = "pooling"
    BY <1>2 DEF Walks, Enters, Leaves, Nexts, Locked, Holding, Inside, PlaceInv
  <2>3. \A s \in Relations : at'[q][s] \notin {"noting", "retiring", "told"}
    BY <1>0, <2>1, <2>2 DEF PlaceInv, MovesTo, Locked, Holding, Inside
  <2> QED
    BY <2>3
<1>3. ASSUME NEW r \in Relations, Tells(q, r) PROVE ToldInv(q)'
  <2>1. events[q] \subseteq events'[q]
    BY <1>3 DEF Tells, Logs
  <2>2. result[q][r] = "ok" \/ Event(r, result[q][r]) \in events'[q]
    BY <1>3 DEF Tells, Logs
  <2> QED
    BY <1>0, <1>3, <2>1, <2>2 DEF Tells, MovesTo
<1>4. ASSUME NEW r \in Relations, Breaks(q, r) PROVE ToldInv(q)'
  BY <1>4 DEF Breaks, Logs
<1> QED
  BY <1>1, <1>2, <1>3, <1>4 DEF StepOf

\* A finished run is over and tells what happened.
TruthInv(q) ==
  run[q].status \in Finished =>
    /\ main[q] \in {"answered", "failed"}
    /\ \A r \in asks[q] : at[q][r] = "told"
    /\ run[q].warnings = warnings[q]
    /\ run[q].status = "ok" => warnings[q] = 0
    /\ run[q].status = "error" <=> \E r \in asks[q] : result[q][r] \in Errors

LEMMA TruthStep ==
  ASSUME RunsTypeOK, NEW q \in Requests, PlaceInv(q), TruthInv(q), StepOf(q)
  PROVE  TruthInv(q)'
<1> USE DEF TruthInv, SamePlan, SameWork, SameBooks
<1>1. CASE run[q].status \in Finished
  <2>1. asks[q] \subseteq Relations /\ main[q] \in {"answered", "failed"}
    BY <1>1 DEF RunsTypeOK
  <2>2. ~Opens(q) /\ ~Turns(q) /\ ~Closes(q)
    BY <2>1 DEF Opens, Turns, Closes
  <2>3. \A r \in Relations : ~Tells(q, r) /\ ~Breaks(q, r)
    BY <2>1 DEF Tells, Breaks
  <2>4. \A r \in Relations : at[q][r] \notin Locked \cup {"locking"}
    BY <2>1 DEF PlaceInv
  <2>5. \A r \in Relations : ~Walks(q, r) /\ ~Enters(q, r) /\ ~Leaves(q, r)
    BY <2>1, <2>4 DEF Walks, Enters, Leaves, Nexts, Locked, Holding, Inside
  <2> QED
    BY <1>1, <2>2, <2>3, <2>5 DEF StepOf, Stays
<1>2. CASE run[q].status \notin Finished
  <2>1. CASE run'[q] = run[q]
    BY <1>2, <2>1
  <2>2. CASE Opens(q) /\ run'[q] = Running
    BY <2>2 DEF Running, Finished
  <2>3. CASE Closes(q) /\ run'[q] = [status |-> RunStatus(q), warnings |-> warnings[q]]
    <3>1. \A r \in asks[q] : at[q][r] = "told"
      BY <2>3 DEF Closes, PlaceInv
    <3>2. /\ RunStatus(q) = "ok" => warnings[q] = 0
          /\ RunStatus(q) = "error" <=> \E r \in asks[q] : result[q][r] \in Errors
      BY DEF RunStatus, RunsTypeOK
    <3> QED
      BY <2>3, <3>1, <3>2 DEF Closes
  <2> QED
    BY <2>1, <2>2, <2>3
       DEF StepOf, Stays, Opens, Turns, Closes, Walks, Enters, Leaves, Tells, Breaks
<1> QED
  BY <1>1, <1>2

\* Who answers has finished the run.
AnswerInv(q) == main[q] = "answered" => run[q].status \in Finished

LEMMA AnswerStep ==
  ASSUME RunsTypeOK, NEW q \in Requests, AnswerInv(q), StepOf(q)
  PROVE  AnswerInv(q)'
<1>1. CASE Closes(q)
  <2>1. RunStatus(q) \in Finished
    BY DEF RunStatus, Finished
  <2> QED
    BY <1>1, <2>1 DEF AnswerInv, Closes
<1>2. CASE Opens(q) \/ Turns(q) \/ Stays(q)
  BY <1>2 DEF AnswerInv, SamePlan, Stays, Opens, Turns
<1>3. ASSUME NEW r \in Relations,
             Walks(q, r) \/ Enters(q, r) \/ Leaves(q, r) \/ Tells(q, r) \/ Breaks(q, r)
      PROVE  AnswerInv(q)'
  BY <1>3 DEF AnswerInv, SamePlan, Walks, Enters, Leaves, Tells, Breaks
<1> QED
  BY <1>1, <1>2, <1>3 DEF StepOf

RunInv(q) ==
  /\ AnswerInv(q)
  /\ PlaceInv(q) /\ SlotInv(q) /\ FreshInv(q) /\ CountInv(q) /\ ToldInv(q) /\ TruthInv(q)

RunsInv == RunsTypeOK /\ \A q \in Requests : RunInv(q)

LEMMA RunsInvInit == RunsInit => RunsInv
<1> SUFFICES ASSUME RunsInit, NEW q \in Requests PROVE RunInv(q)
  BY RunsInitTypes DEF RunsInv
<1>1. PlaceInv(q) /\ SlotInv(q)
  BY DEF RunsInit, PlaceInv, SlotInv, Locked, Holding, Inside
<1>2. FreshInv(q) /\ ToldInv(q) /\ TruthInv(q) /\ AnswerInv(q)
  BY DEF RunsInit, AnswerInv, FreshInv, ToldInv, TruthInv, Finished
<1>3. CountInv(q)
  BY FS_EmptySet DEF RunsInit, CountInv
<1> QED
  BY <1>1, <1>2, <1>3 DEF RunInv

LEMMA RunsInvStep == RunsInv /\ [RunsNext]_runsVars => RunsInv'
<1> SUFFICES ASSUME RunsInv, [RunsNext]_runsVars, NEW q \in Requests PROVE RunInv(q)'
  BY RunsTypeStep DEF RunsInv
<1>1. RunsTypeOK /\ RunsTypeOK' /\ RunInv(q) /\ StepOf(q)
  BY RunsTypeStep, RunsStep DEF RunsInv
<1> QED
  BY <1>1, PlaceStep, SlotStep, FreshStep, CountStep, ToldStep, TruthStep, AnswerStep DEF RunInv

LEMMA RunsInvariant == RunsSpec => []RunsInv
BY RunsInvInit, RunsInvStep, PTL DEF RunsSpec

\* However many workers report at once and whichever inserts fail, the counters of a run agree
\* with its events (_event_lock around on_event).
THEOREM CountersAgree == RunsSpec => []WarningsAddUp
<1>1. RunsInv => WarningsAddUp
  BY DEF RunsInv, RunInv, CountInv, WarningsAddUp
<1> QED
  BY <1>1, RunsInvariant, PTL

\* A finished run's status and warnings are those of its own relations, all of them and nobody
\* else's (PoolRunSession.finish after _emit_result_events).
THEOREM RunsTellTheTruth == RunsSpec => []RunTellsTheTruth
<1>1. RunsInv => RunTellsTheTruth
  <2> SUFFICES ASSUME RunsInv, NEW q \in Requests, run[q].status \in Finished
               PROVE  /\ run[q].warnings = Cardinality(events[q]) + lost[q]
                      /\ \A e \in events[q] : e.rel \in asks[q]
                      /\ \A r \in asks[q] : result[q][r] = "ok" \/ Event(r, result[q][r]) \in events[q]
                      /\ run[q].status = "ok" => events[q] = {} /\ lost[q] = 0
                      /\ run[q].status = "error" <=> \E r \in asks[q] : result[q][r] \in Errors
    BY DEF RunTellsTheTruth
  <2>1. RunInv(q) /\ asks[q] \subseteq Relations /\ lost[q] \in Nat
    BY DEF RunsInv, RunsTypeOK
  <2>2. IsFiniteSet(events[q]) /\ warnings[q] = Cardinality(events[q]) + lost[q]
    BY <2>1 DEF RunInv, CountInv
  <2>3. Cardinality(events[q]) \in Nat
    BY <2>2, FS_CardinalityType
  <2>4. run[q].status = "ok" => Cardinality(events[q]) = 0 /\ lost[q] = 0
    BY <2>1, <2>2, <2>3 DEF RunInv, TruthInv
  <2>5. run[q].status = "ok" => events[q] = {} /\ lost[q] = 0
    BY <2>2, <2>4, FS_EmptySet
  <2> QED
    BY <2>1, <2>2, <2>5 DEF RunInv, TruthInv, FreshInv, ToldInv
<1> QED
  BY <1>1, RunsInvariant, PTL
=============================================================================
