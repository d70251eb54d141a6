------------------------- MODULE ChangePoolerProofs -------------------------
(***************************************************************************)
(* Proofs about ChangePooler for every set of tables, calls, partitions    *)
(* and intervals, and every value of the bounds.                           *)
(***************************************************************************)
EXTENDS ChangePooler, SequenceTheorems, TLAPS

-----------------------------------------------------------------------------
(* Sequences of checkpoints *)

\* Inserting into a sequence keeps its elements and adds the new one at its position.
LEMMA InsertAtFacts ==
  ASSUME NEW S, NEW s \in Seq(S), NEW i \in 1..(Len(s) + 1), NEW e \in S
  PROVE  /\ InsertAt(s, i, e) \in Seq(S)
         /\ Len(InsertAt(s, i, e)) = Len(s) + 1
         /\ \A j \in 1..(Len(s) + 1) :
              InsertAt(s, i, e)[j] = IF j < i THEN s[j] ELSE IF j = i THEN e ELSE s[j - 1]
<1> DEFINE front == SubSeq(s, 1, i - 1)
           back  == SubSeq(s, i, Len(s))
<1>0. Len(s) \in Nat /\ \A j \in 1..Len(s) : s[j] \in S
  BY LenProperties, ElementOfSeq
<1>1. /\ front \in Seq(S)
      /\ Len(front) = i - 1
      /\ \A j \in 1..(i - 1) : front[j] = s[j]
  BY <1>0, SubSeqProperties
<1>2. /\ back \in Seq(S)
      /\ Len(back) = Len(s) - i + 1
      /\ \A j \in 1..(Len(s) - i + 1) : back[j] = s[i + j - 1]
  BY <1>0, SubSeqProperties
<1>3. <<e>> \in Seq(S) /\ Len(<<e>>) = 1 /\ <<e>>[1] = e
  OBVIOUS
<1> HIDE DEF front, back
<1> DEFINE head == front \o <<e>>
<1>4. /\ head \in Seq(S)
      /\ Len(head) = i
      /\ \A j \in 1..i : head[j] = IF j < i THEN s[j] ELSE e
  <2>1. /\ head \in Seq(S)
        /\ Len(head) = Len(front) + Len(<<e>>)
        /\ \A j \in 1..(Len(front) + Len(<<e>>)) :
             head[j] = IF j <= Len(front) THEN front[j] ELSE <<e>>[j - Len(front)]
    BY <1>1, <1>3, ConcatProperties
  <2> QED
    BY <2>1, <1>0, <1>1, <1>3
<1> HIDE DEF head
<1>5. /\ head \o back \in Seq(S)
      /\ Len(head \o back) = Len(s) + 1
      /\ \A j \in 1..(Len(s) + 1) :
           (head \o back)[j] = IF j <= i THEN head[j] ELSE back[j - i]
  <2>1. /\ head \o back \in Seq(S)
        /\ Len(head \o back) = Len(head) + Len(back)
        /\ \A j \in 1..(Len(head) + Len(back)) :
             (head \o back)[j] = IF j <= Len(head) THEN head[j] ELSE back[j - Len(head)]
    BY <1>2, <1>4, ConcatProperties
  <2>2. Len(head) = i /\ Len(head) + Len(back) = Len(s) + 1
    BY <1>0, <1>2, <1>4
  <2> QED
    BY <2>1, <2>2
<1>6. InsertAt(s, i, e) = head \o back
  BY DEF InsertAt, front, back, head
<1> QED
  BY <1>0, <1>2, <1>4, <1>5, <1>6

\* A watermark is one of the checkpoints, or NoTime while there is none.
LEMMA WatermarkFacts ==
  ASSUME TypeOK, NEW t \in Tables
  PROVE  /\ Watermark(t) \in Time \cup {NoTime}
         /\ Watermark(t) # NoTime =>
              \E i \in DOMAIN checkpoints[t] : checkpoints[t][i] = Watermark(t)
<1>1. checkpoints[t] \in Seq(Time)
  BY DEF TypeOK
<1>2. CASE checkpoints[t] = <<>>
  BY <1>2 DEF Watermark
<1>3. CASE checkpoints[t] # <<>>
  <2>1. /\ Len(checkpoints[t]) \in Nat \ {0}
        /\ DOMAIN checkpoints[t] = 1..Len(checkpoints[t])
    BY <1>1, <1>3, EmptySeq, LenProperties
  <2>2. checkpoints[t][Len(checkpoints[t])] \in Time
    BY <1>1, <2>1, ElementOfSeq
  <2> QED
    BY <1>3, <2>1, <2>2 DEF Watermark, Last
<1> QED
  BY <1>2, <1>3

-----------------------------------------------------------------------------
(* Type correctness *)

LEMMA LeaveFrameTypes ==
  ASSUME TypeOK, NEW c \in Calls, LeaveFrame(c)
  PROVE  /\ base' \in [Calls -> Time \cup {NoTime}]
         /\ rank' \in [Calls -> Nat]
         /\ probe' \in [Calls -> BOOLEAN]
BY DEF TypeOK, LeaveFrame

LEMMA NoResultType == NoResult \in Result
BY DEF NoResult, Result, Ids, NoTime

\* The assignments to a call's result keep the results typed.
LEMMA ResultTypes ==
  ASSUME NEW f \in [Calls -> Result], NEW c \in Calls
  PROVE  /\ [f EXCEPT ![c].status = "error"] \in [Calls -> Result]
         /\ [f EXCEPT ![c].status = "skipped"] \in [Calls -> Result]
         /\ [f EXCEPT ![c].status = "not_found"] \in [Calls -> Result]
         /\ \A ids \in Ids \cup {Everything} :
              [f EXCEPT ![c].ids = ids] \in [Calls -> Result]
         /\ \A status \in LoggedStatuses, ids \in Ids \cup {Everything} :
              [f EXCEPT ![c].status = status, ![c].ids = ids] \in [Calls -> Result]
         /\ \A w \in Time \cup {NoTime} :
              [f EXCEPT ![c].watermark = w] \in [Calls -> Result]
BY ZenonT(60) DEF Result, LoggedStatuses, AdvanceStatuses

\* A commit writes typed rows.
LEMMA CommitTypes ==
  ASSUME TypeOK, NEW c \in Calls, pc[c] = "commit", CommitResult(c)
  PROVE  /\ PooledRow(c) \in Row
         /\ log' \in [Tables -> SUBSET Row]
         /\ registry' \in [Tables -> {"absent", "enabled", "disabled"}]
         /\ checkpoints' \in [Tables -> Seq(Time)]
<1> DEFINE t == Target(c)
<1>1. t \in Tables /\ req[c].end \in Time /\ result[c] \in Result
  BY DEF TypeOK, Target, Request
<1>2. WindowLo(c) \in Time
  BY <1>1 DEF WindowLo, TypeOK
<1>3. PooledRow(c) \in Row
  BY <1>1, <1>2 DEF PooledRow, Row, Result, TypeOK
<1>4. log' \in [Tables -> SUBSET Row]
  BY <1>1, <1>3 DEF CommitResult, TypeOK
<1>5. registry' \in [Tables -> {"absent", "enabled", "disabled"}]
  BY <1>1 DEF CommitResult, Enrolled, TypeOK
<1>6. checkpoints' \in [Tables -> Seq(Time)]
  <2>1. checkpoints[t] \in Seq(Time)
    BY <1>1 DEF TypeOK
  <2>2. \A i \in FinishPositions(c) : InsertAt(checkpoints[t], i, req[c].end) \in Seq(Time)
    BY <1>1, <2>1, InsertAtFacts DEF FinishPositions
  <2> QED
    BY ZenonT(60), <1>1, <2>2 DEF CommitResult, AdvanceCheckpoint, TypeOK
<1> QED
  BY <1>3, <1>4, <1>5, <1>6

\* What each action does to the state of BigQuery and the gateway keeps its type.
LEMMA TypeStep == TypeOK /\ [Next]_vars => TypeOK'
<1> SUFFICES ASSUME TypeOK, [Next]_vars PROVE TypeOK'
  OBVIOUS
<1> USE ConstantsAssumption
<1>1. CASE UNCHANGED vars
  BY <1>1 DEF TypeOK, vars, bigquery, gateway, locals, Target
<1>2. CASE Environment
  <2>1. CASE Tick
    BY <2>1 DEF Tick, TypeOK, bigquery, gateway, locals, Time
  <2>2. ASSUME NEW t \in Tables, NEW p \in Partitions, Write(t, p) PROVE TypeOK'
    BY <2>2 DEF Write, TypeOK, gateway, locals, Change
  <2>3. ASSUME NEW t \in Tables, Drop(t) PROVE TypeOK'
    BY <2>3 DEF Drop, TypeOK, gateway, locals
  <2>4. ASSUME NEW t \in Tables, NEW kind \in Kinds \ {"missing"}, NEW on \in BOOLEAN,
               Create(t, kind, on)
        PROVE  TypeOK'
    BY <2>4 DEF Create, TypeOK, gateway, locals
  <2>5. ASSUME NEW t \in Tables, Register(t) PROVE TypeOK'
    BY <2>5 DEF Register, TypeOK, bigquery, locals
  <2>6. ASSUME NEW t \in Tables, Unregister(t) PROVE TypeOK'
    BY <2>6 DEF Unregister, Disable, TypeOK, bigquery, locals
  <2> QED
    BY <1>2, <2>1, <2>2, <2>3, <2>4, <2>5, <2>6 DEF Environment
<1>3. ASSUME NEW c \in Calls, Start(c) PROVE TypeOK'
  <2>1. ASSUME NEW t \in Tables, NEW e \in Time, PoolRelation(c, t, e) PROVE TypeOK'
    BY <2>1 DEF PoolRelation, Goto, TypeOK, bigquery, gateway, Labels, Request, Time
  <2>2. ASSUME NEW t \in Tables, NEW q \in Questions,
               AskPartitions(c, t, q.start, q.end, q.fresh)
        PROVE  TypeOK'
    <3>1. q.start \in Time /\ q.end \in Time /\ q.fresh \in BOOLEAN
      BY DEF Time
    <3>2. Watermark(t) \in Time \cup {NoTime}
      BY WatermarkFacts
    <3>3. [result EXCEPT ![c].watermark = Watermark(t)] \in [Calls -> Result]
      BY <3>2, ResultTypes DEF TypeOK
    <3>4. result' \in [Calls -> Result]
      BY <2>2, <3>3 DEF AskPartitions, TypeOK
    <3>5. /\ pc' \in [Calls -> Labels]
          /\ pc'[c] # "commit"
          /\ \A d \in Calls : d # c => pc'[d] = pc[d] /\ result'[d] = result[d]
      BY ZenonT(60), <2>2 DEF AskPartitions, Goto, TypeOK, Labels
    <3>6. [query |-> TRUE, table |-> t, start |-> q.start, end |-> q.end, fresh |-> q.fresh]
            \in Request
      BY <3>1 DEF Request
    <3>7. req' \in [Calls -> Request \cup {NoRequest}]
      BY <2>2, <3>6 DEF AskPartitions, TypeOK
    <3>8. \A d \in Calls : pc'[d] # "idle" => req'[d] \in Request
      BY <2>2, <3>5, <3>6 DEF AskPartitions, TypeOK
    <3> QED
      BY <2>2, <3>4, <3>5, <3>7, <3>8 DEF AskPartitions, TypeOK, bigquery, gateway
  <2>3. Ends \subseteq Time /\ now \in Time
    BY DEF TypeOK, Time
  <2> QED
    BY <1>3, <2>1, <2>2, <2>3 DEF Start, PoolScheduled
<1>4. ASSUME NEW c \in Calls, AcquireLock(c) PROVE TypeOK'
  BY <1>4 DEF AcquireLock, Goto, TypeOK, bigquery, locals, Labels
<1>5. ASSUME NEW c \in Calls, LockFails(c) PROVE TypeOK'
  <2>1. result' \in [Calls -> Result]
    BY <1>5, ResultTypes DEF LockFails, TypeOK
  <2> QED
    BY <1>5, <2>1 DEF LockFails, Goto, TypeOK, bigquery, gateway, Labels
<1>6. ASSUME NEW c \in Calls, Progress(c) PROVE TypeOK'
  <2> DEFINE t == Target(c)
  <2>0. pc[c] # "idle" => t \in Tables /\ req[c].end \in Time
    BY <1>6 DEF TypeOK, Target, Request
  <2>1. CASE ReadCheckpoint(c)
    <3>1. Watermark(t) \in Time \cup {NoTime} /\ Len(checkpoints[t]) \in Nat
      BY <2>0, <2>1, WatermarkFacts, LenProperties DEF ReadCheckpoint, TypeOK
    <3>2. [result EXCEPT ![c].status = "skipped"] \in [Calls -> Result]
      BY ResultTypes DEF TypeOK
    <3>3. result' \in [Calls -> Result]
      BY <2>1, <3>2 DEF ReadCheckpoint, TypeOK
    <3>4. base' \in [Calls -> Time \cup {NoTime}] /\ rank' \in [Calls -> Nat]
      BY <2>1, <3>1 DEF ReadCheckpoint, TypeOK
    <3>5. pc[c] = "locked" /\ pc' \in [Calls -> Labels] /\ pc'[c] \in {"unlock", "meta"}
      BY ZenonT(60), <2>1 DEF ReadCheckpoint, Goto, TypeOK, Labels
    <3>6. \A d \in Calls : d # c => pc'[d] = pc[d] /\ result'[d] = result[d]
      BY <2>1 DEF ReadCheckpoint, Goto, TypeOK
    <3>7. UNCHANGED <<now, table, tracked, history, holder, checkpoints, log, registry,
                      req, probe>>
      BY <2>1 DEF ReadCheckpoint, bigquery, gateway
    <3> QED
      BY <3>3, <3>4, <3>5, <3>6, <3>7 DEF TypeOK
  <2>2. CASE GetTableMeta(c)
    <3>1. [result EXCEPT ![c].status = "not_found"] \in [Calls -> Result]
      BY ResultTypes DEF TypeOK
    <3>2. result' \in [Calls -> Result]
      BY <2>2, <3>1 DEF GetTableMeta, TypeOK
    <3>3. probe' \in [Calls -> BOOLEAN]
      BY <2>2 DEF GetTableMeta, TypeOK
    <3>4. pc[c] = "meta" /\ pc' \in [Calls -> Labels] /\ pc'[c] \in {"unlock", "history"}
      BY ZenonT(60), <2>2 DEF GetTableMeta, Goto, TypeOK, Labels
    <3>5. \A d \in Calls : d # c => pc'[d] = pc[d] /\ result'[d] = result[d]
      BY <2>2 DEF GetTableMeta, Goto, TypeOK
    <3>6. UNCHANGED <<now, table, tracked, history, holder, checkpoints, log, registry,
                      req, base, rank>>
      BY <2>2 DEF GetTableMeta, bigquery, gateway
    <3> QED
      BY <3>2, <3>3, <3>4, <3>5, <3>6 DEF TypeOK
  <2>3. CASE EnsureHistory(c)
    <3>1. \/ result' = result
          \/ \E status \in LoggedStatuses :
               result' = [result EXCEPT ![c].status = status, ![c].ids = Everything]
      BY <2>3 DEF EnsureHistory, LoggedStatuses, AdvanceStatuses
    <3>2. tracked' \in [Tables -> BOOLEAN]
      BY <2>3 DEF EnsureHistory, AlterHistory, TypeOK
    <3>3. result' \in [Calls -> Result]
      <4>1. CASE result' = result
        BY <4>1 DEF TypeOK
      <4>2. ASSUME NEW status \in LoggedStatuses,
                   result' = [result EXCEPT ![c].status = status, ![c].ids = Everything]
            PROVE  result' \in [Calls -> Result]
        BY <4>2, ResultTypes DEF TypeOK
      <4> QED
        BY <3>1, <4>1, <4>2
    <3>4. pc'[c] = "commit" => result'[c].status \in LoggedStatuses
      BY <2>3 DEF EnsureHistory, Goto, TypeOK, Result, LoggedStatuses, AdvanceStatuses
    <3>5. \A d \in Calls : d # c => pc'[d] = pc[d] /\ result'[d] = result[d]
      BY <2>3 DEF EnsureHistory, Goto, TypeOK
    <3> QED
      BY ZenonT(60), <2>3, <3>2, <3>3, <3>4, <3>5 DEF EnsureHistory, Goto, TypeOK, gateway, Labels
  <2>4. CASE RunChanges(c)
    <3>1. PICK status \in LoggedStatuses, ids \in Ids \cup {Everything} :
            result' = [result EXCEPT ![c].status = status, ![c].ids = ids]
      BY <2>4 DEF RunChanges, LoggedStatuses, AdvanceStatuses
    <3>2. result' \in [Calls -> Result]
      BY <3>1, ResultTypes DEF TypeOK
    <3>3. result'[c].status \in LoggedStatuses
      BY <3>1 DEF TypeOK, Result
    <3>4. \A d \in Calls : d # c => result'[d] = result[d]
      BY <3>1 DEF TypeOK
    <3> QED
      BY <2>4, <3>2, <3>3, <3>4 DEF RunChanges, Goto, TypeOK, bigquery, gateway, Labels
  <2>5. CASE EnableAndRetry(c)
    <3>1. tracked' \in [Tables -> BOOLEAN]
      BY <2>5 DEF EnableAndRetry, AlterHistory, TypeOK
    <3> QED
      BY <2>5, <3>1 DEF EnableAndRetry, Goto, TypeOK, gateway, Labels
  <2>6. CASE Commit(c)
    BY <2>6, CommitTypes DEF Commit, Goto, TypeOK, bigquery, locals, Labels
  <2>7. CASE CommitUnknown(c)
    <3>1. result' \in [Calls -> Result]
      BY <2>7, ResultTypes DEF CommitUnknown, TypeOK, LoggedStatuses, AdvanceStatuses
    <3> QED
      BY <2>7, <3>1, CommitTypes DEF CommitUnknown, Goto, TypeOK, bigquery, Labels
  <2>8. CASE PoolRaises(c)
    <3>1. result' \in [Calls -> Result]
      BY <2>8, ResultTypes DEF PoolRaises, TypeOK, LoggedStatuses, AdvanceStatuses
    <3> QED
      BY <2>8, <3>1 DEF PoolRaises, Goto, TypeOK, bigquery, gateway, Labels
  <2>9. CASE Unlock(c)
    BY <2>9, LeaveFrameTypes DEF Unlock, Unlocked, Goto, TypeOK, bigquery, Labels
  <2>10. CASE Report(c)
    <3>1. registry' \in [Tables -> {"absent", "enabled", "disabled"}]
      BY <2>10 DEF Report, Disable, TypeOK
    <3>2. CASE req[c].query
      <4>1. Goto(c, "recheck") /\ UNCHANGED locals
        BY <2>10, <3>2 DEF Report
      <4> QED
        BY <2>10, <3>1, <4>1 DEF Report, Goto, TypeOK, bigquery, locals, Labels
    <3>3. CASE ~req[c].query
      <4>1. Forget(c) /\ Goto(c, "idle")
        BY <2>10, <3>3 DEF Report
      <4> QED
        BY <2>10, <3>1, <4>1, LeaveFrameTypes, NoResultType
           DEF Report, Forget, Goto, TypeOK, bigquery, Labels
    <3> QED
      BY <3>2, <3>3
  <2>11. CASE Recheck(c)
    <3>1. Watermark(t) \in Time \cup {NoTime}
      BY <2>0, <2>11, WatermarkFacts DEF Recheck
    <3>2. result' \in [Calls -> Result]
      BY <2>11, <3>1, ResultTypes DEF Recheck, TypeOK
    <3> QED
      BY <2>11, <3>2 DEF Recheck, Goto, TypeOK, bigquery, gateway, Labels
  <2>12. CASE GetAffectedPartitions(c)
    <3>1. \A r \in AffectedRows(t, req[c].start, req[c].end) : r.ids \in Ids \cup {Everything}
      BY <2>0, <2>12 DEF GetAffectedPartitions, AffectedRows, TypeOK, Row
    <3>2. MergedIds(AffectedRows(t, req[c].start, req[c].end)) \in Ids \cup {Everything}
      BY <3>1 DEF MergedIds, Ids
    <3>3. [result EXCEPT ![c].ids = MergedIds(AffectedRows(t, req[c].start, req[c].end))]
            \in [Calls -> Result]
      BY <3>2, ResultTypes DEF TypeOK
    <3> QED
      BY <2>12, <3>3 DEF GetAffectedPartitions, Goto, TypeOK, bigquery, gateway, Labels
  <2>13. CASE Respond(c)
    BY <2>13, LeaveFrameTypes, NoResultType
       DEF Respond, Forget, Goto, TypeOK, bigquery, gateway, Labels
  <2> QED
    BY <1>6, <2>1, <2>2, <2>3, <2>4, <2>5, <2>6, <2>7, <2>8, <2>9, <2>10, <2>11, <2>12, <2>13
       DEF Progress
<1>7. ASSUME NEW c \in Calls, Crash(c) PROVE TypeOK'
  BY <1>7, LeaveFrameTypes, NoResultType
     DEF Crash, Unlocked, Forget, Goto, TypeOK, bigquery, Labels
<1>8. ASSUME NEW c \in Calls, LoseSession(c) PROVE TypeOK'
  BY <1>8 DEF LoseSession, TypeOK, bigquery, locals
<1> QED
  BY <1>1, <1>2, <1>3, <1>4, <1>5, <1>6, <1>7, <1>8 DEF Next

\* Every reachable state is typed: in particular no row is ever logged without a status the
\* gateway accepts, and no checkpoint is taken from a missing one.
THEOREM TypeCorrect == Spec => []TypeOK
<1>1. Init => TypeOK
  <2> SUFFICES ASSUME Init PROVE TypeOK
    OBVIOUS
  <2>1. \A t \in Tables : checkpoints[t] \in Seq(Time)
    BY EmptySeq DEF Init
  <2>2. checkpoints \in [Tables -> Seq(Time)]
    BY <2>1 DEF Init
  <2>3. /\ now \in Time
        /\ table \in [Tables -> {"missing", "plain", "partitioned"}]
        /\ tracked \in [Tables -> BOOLEAN]
    <3>1. MaxTime \in Nat /\ Kinds \subseteq {"missing", "plain", "partitioned"}
      BY ConstantsAssumption
    <3>2. now \in Time
      BY <3>1 DEF Init, Time
    <3> QED
      BY <3>1, <3>2 DEF Init
  <2>4. /\ history \in [Tables -> SUBSET Change]
        /\ holder \in [Tables -> Calls \cup {NoCall}]
        /\ log \in [Tables -> SUBSET Row]
        /\ registry \in [Tables -> {"absent", "enabled", "disabled"}]
    BY DEF Init
  <2>5. /\ pc \in [Calls -> Labels]
        /\ req \in [Calls -> Request \cup {NoRequest}]
        /\ \A c \in Calls : pc[c] = "idle"
    BY DEF Init, Labels
  <2>6. /\ base \in [Calls -> Time \cup {NoTime}]
        /\ rank \in [Calls -> Nat]
        /\ probe \in [Calls -> BOOLEAN]
        /\ result \in [Calls -> Result]
    BY NoResultType DEF Init
  <2> QED
    BY <2>2, <2>3, <2>4, <2>5, <2>6 DEF Init, TypeOK
<1> QED
  BY <1>1, TypeStep, PTL DEF Spec

-----------------------------------------------------------------------------
(* The lock *)

\* What PoolsOnLatest says of one call.
PoolOK(c) ==
  /\ Locked(c) => holder[Target(c)] = c
  /\ Pooling(c) => /\ base[c] = Watermark(Target(c))
                   /\ rank[c] = Len(checkpoints[Target(c)])
                   /\ base[c] < req[c].end

\* A call nothing is taken from stays as it was.
LEMMA BystanderPools ==
  ASSUME TypeOK, NEW d \in Calls, PoolOK(d),
         pc'[d] = pc[d], req'[d] = req[d], base'[d] = base[d], rank'[d] = rank[d],
         \A t \in Tables :
           holder[t] = d => holder'[t] = d /\ checkpoints'[t] = checkpoints[t]
  PROVE  PoolOK(d)'
<1>1. Locked(d) => Target(d) \in Tables
  BY DEF Locked, Pooling, Target, TypeOK, Request
<1>2. /\ Locked(d)' = Locked(d) /\ Pooling(d)' = Pooling(d) /\ Target(d)' = Target(d)
      /\ Pooling(d) => Locked(d)
  BY DEF Locked, Pooling, Target
<1> QED
  BY <1>1, <1>2 DEF PoolOK, Watermark

\* While no lock is lost and clocks agree, a step leaves what is pooled on the latest checkpoint.
LEMMA PoolsStep ==
  ASSUME Faults = {}, TypeOK, PoolsOnLatest, [Next]_vars
  PROVE  PoolsOnLatest'
<1>0. /\ \A c \in Calls : PoolOK(c)
      /\ (\A c \in Calls : PoolOK(c)') => PoolsOnLatest'
  BY DEF PoolsOnLatest, PoolOK
<1> SUFFICES ASSUME NEW d \in Calls PROVE PoolOK(d)'
  BY <1>0
<1>a. PoolOK(d)
  BY <1>0
<1>1. CASE UNCHANGED vars
  BY <1>1, <1>a, BystanderPools DEF vars, gateway, locals
<1>2. CASE Environment
  BY <1>2, <1>a, BystanderPools
     DEF Environment, Tick, Write, Drop, Create, Register, Unregister, bigquery, gateway, locals
<1>3. ASSUME NEW c \in Calls, Start(c) PROVE PoolOK(d)'
  <2>1. /\ UNCHANGED <<holder, checkpoints, base, rank>>
        /\ pc[c] = "idle" /\ pc' \in [Calls -> Labels]
        /\ pc'[c] \in {"lock", "answer"}
        /\ d # c => pc'[d] = pc[d] /\ req'[d] = req[d]
    <3>1. ASSUME NEW t \in Tables, NEW e, PoolRelation(c, t, e)
          PROVE  <2>1!:
      BY <3>1 DEF PoolRelation, Goto, gateway, TypeOK, Labels
    <3>2. ASSUME NEW t \in Tables, NEW q \in Questions,
                 AskPartitions(c, t, q.start, q.end, q.fresh)
          PROVE  <2>1!:
      BY ZenonT(60), <3>2 DEF AskPartitions, Goto, gateway, TypeOK, Labels
    <3> QED
      BY <1>3, <3>1, <3>2 DEF Start, PoolScheduled
  <2>2. CASE d # c
    BY <2>1, <2>2, <1>a, BystanderPools
  <2>3. CASE d = c
    BY <2>1, <2>3 DEF PoolOK, Locked, Pooling
  <2> QED
    BY <2>2, <2>3
<1>4. ASSUME NEW c \in Calls, AcquireLock(c) PROVE PoolOK(d)'
  <2>1. CASE d # c
    BY <1>4, <1>a, <2>1, BystanderPools, ConstantsAssumption
       DEF AcquireLock, LockFree, Goto, locals, TypeOK
  <2>2. CASE d = c
    BY <1>4, <2>2 DEF AcquireLock, Goto, locals, TypeOK, PoolOK, Locked, Pooling, Target, Request
  <2> QED
    BY <2>1, <2>2
<1>5. ASSUME NEW c \in Calls, LockFails(c) PROVE PoolOK(d)'
  <2>1. CASE d # c
    BY <1>5, <1>a, <2>1, BystanderPools DEF LockFails, Goto, gateway, TypeOK
  <2>2. CASE d = c
    BY <1>5, <2>2 DEF LockFails, Goto, TypeOK, PoolOK, Locked, Pooling
  <2> QED
    BY <2>1, <2>2
<1>6. ASSUME NEW c \in Calls, Progress(c) PROVE PoolOK(d)'
  <2> DEFINE Others == d # c => /\ pc'[d] = pc[d] /\ req'[d] = req[d]
                                /\ base'[d] = base[d] /\ rank'[d] = rank[d]
  <2> USE DEF Goto
  <2>1. CASE ReadCheckpoint(c)
    <3>1. CASE d # c
      BY <1>a, <2>1, <3>1, BystanderPools DEF ReadCheckpoint, gateway, TypeOK
    <3>2. CASE d = c
      <4>1. Target(c) \in Tables /\ req[c].end \in Time
        BY <2>1 DEF ReadCheckpoint, Target, TypeOK, Request
      <4>2. Watermark(Target(c)) \in Time \cup {NoTime}
        BY <4>1, WatermarkFacts
      <4>3. pc'[c] = "meta" => Watermark(Target(c)) < req[c].end
        BY <2>1, <4>1, <4>2 DEF ReadCheckpoint, TypeOK, Time, NoTime
      <4>4. /\ holder'[Target(c)] = c /\ UNCHANGED <<checkpoints, req>>
            /\ base'[c] = Watermark(Target(c)) /\ rank'[c] = Len(checkpoints[Target(c)])
            /\ pc'[c] \in {"meta", "unlock"}
        BY <1>a, <2>1, <3>2 DEF ReadCheckpoint, gateway, TypeOK, PoolOK, Locked
      <4> QED
        BY <3>2, <4>3, <4>4 DEF PoolOK, Locked, Pooling, Target, Watermark
    <3> QED
      BY <3>1, <3>2
  <2>2. CASE \/ GetTableMeta(c) \/ EnsureHistory(c) \/ RunChanges(c)
             \/ EnableAndRetry(c) \/ PoolRaises(c)
    <3>1. /\ UNCHANGED <<holder, checkpoints, req, base, rank>>
          /\ d # c => pc'[d] = pc[d]
          /\ Locked(c)
          /\ Pooling(c)' => Pooling(c)
      BY <2>2 DEF GetTableMeta, EnsureHistory, RunChanges, EnableAndRetry, PoolRaises,
                  Locked, Pooling, bigquery, gateway, TypeOK
    <3>2. CASE d # c
      BY <1>a, <3>1, <3>2, BystanderPools
    <3>3. CASE d = c
      BY <1>a, <3>1, <3>3 DEF PoolOK, Target, Watermark
    <3> QED
      BY <3>2, <3>3
  <2>3. CASE Commit(c) \/ CommitUnknown(c)
    <3>1. /\ CommitResult(c)
          /\ UNCHANGED <<holder, req, base, rank>>
          /\ pc[c] = "commit" /\ pc'[c] = "unlock"
          /\ d # c => pc'[d] = pc[d]
      BY <2>3 DEF Commit, CommitUnknown, locals, TypeOK
    <3>2. holder[Target(c)] = c
      BY <1>0, <3>1 DEF PoolOK, Locked, Pooling
    <3>3. CASE d # c
      <4>1. \A t \in Tables : holder[t] = d => checkpoints'[t] = checkpoints[t]
        BY <3>1, <3>2, <3>3 DEF CommitResult, AdvanceCheckpoint, TypeOK
      <4> QED
        BY <1>a, <3>1, <3>3, <4>1, BystanderPools
    <3>4. CASE d = c
      BY <3>1, <3>2, <3>4 DEF PoolOK, Locked, Pooling, Target
    <3> QED
      BY <3>3, <3>4
  <2>4. CASE Unlock(c) \/ Respond(c) \/ Report(c)
    <3>1. /\ UNCHANGED checkpoints
          /\ ~Locked(c)'
          /\ Others
          /\ d # c => \A t \in Tables : holder[t] = d => holder'[t] = d
      BY <2>4 DEF Unlock, Unlocked, Respond, Report, Forget, LeaveFrame, Locked, Pooling,
                  gateway, locals, TypeOK
    <3>2. CASE d # c
      BY <1>a, <3>1, <3>2, BystanderPools
    <3>3. CASE d = c
      BY <3>1, <3>3 DEF PoolOK, Locked
    <3> QED
      BY <3>2, <3>3
  <2>5. CASE Recheck(c) \/ GetAffectedPartitions(c)
    <3>1. /\ UNCHANGED <<holder, checkpoints, req, base, rank>>
          /\ d # c => pc'[d] = pc[d]
          /\ ~Locked(c)'
      BY <2>5 DEF Recheck, GetAffectedPartitions, Locked, Pooling, gateway, TypeOK
    <3>2. CASE d # c
      BY <1>a, <3>1, <3>2, BystanderPools
    <3>3. CASE d = c
      BY <3>1, <3>3 DEF PoolOK, Locked
    <3> QED
      BY <3>2, <3>3
  <2> QED
    BY <1>6, <2>1, <2>2, <2>3, <2>4, <2>5 DEF Progress
<1>7. ASSUME NEW c \in Calls, Crash(c) PROVE PoolOK(d)'
  <2>1. /\ UNCHANGED checkpoints
        /\ ~Locked(c)'
        /\ d # c => /\ pc'[d] = pc[d] /\ req'[d] = req[d]
                    /\ base'[d] = base[d] /\ rank'[d] = rank[d]
                    /\ \A t \in Tables : holder[t] = d => holder'[t] = d
    BY <1>7 DEF Crash, Unlocked, Forget, LeaveFrame, Goto, Locked, Pooling, TypeOK
  <2>2. CASE d # c
    BY <1>a, <2>1, <2>2, BystanderPools
  <2>3. CASE d = c
    BY <2>1, <2>3 DEF PoolOK, Locked, Pooling
  <2> QED
    BY <2>2, <2>3
<1>8. ASSUME NEW c \in Calls PROVE ~LoseSession(c)
  BY DEF LoseSession
<1> QED
  BY <1>1, <1>2, <1>3, <1>4, <1>5, <1>6, <1>7, <1>8 DEF Next

\* With the lock and the clocks sound, whoever pools a table holds its lock and has read the
\* latest checkpoint: two instances never pool the same window of a table.
THEOREM LockSound == ASSUME Faults = {} PROVE Spec => []PoolsOnLatest
<1>1. Init => PoolsOnLatest
  BY DEF Init, PoolsOnLatest, Locked, Pooling
<1>2. TypeOK /\ PoolsOnLatest /\ [Next]_vars => PoolsOnLatest'
  BY PoolsStep
<1> QED
  BY <1>1, <1>2, TypeCorrect, PTL DEF Spec

-----------------------------------------------------------------------------
(* Pooling implements the coverage ledger *)

\* Only a commit writes log rows and checkpoints.
LEMMA OnlyCommitsWrite ==
  ASSUME [Next]_vars
  PROVE  \/ UNCHANGED <<checkpoints, log>>
         \/ \E c \in Calls : /\ pc[c] = "commit"
                             /\ CommitResult(c)
                             /\ Commit(c) \/ CommitUnknown(c)
<1>1. CASE UNCHANGED vars
  BY <1>1 DEF vars, gateway
<1>2. CASE Environment
  BY <1>2 DEF Environment, Tick, Write, Drop, Create, Register, Unregister, gateway
<1>3. ASSUME NEW c \in Calls,
             Start(c) \/ AcquireLock(c) \/ LockFails(c) \/ Crash(c) \/ LoseSession(c)
      PROVE  UNCHANGED <<checkpoints, log>>
  BY <1>3 DEF Start, PoolScheduled, PoolRelation, AskPartitions, AcquireLock, LockFails,
              Crash, LoseSession, gateway
<1>4. ASSUME NEW c \in Calls, Progress(c)
      PROVE  UNCHANGED <<checkpoints, log>> \/ Commit(c) \/ CommitUnknown(c)
  BY <1>4 DEF Progress, ReadCheckpoint, GetTableMeta, EnsureHistory, RunChanges,
              EnableAndRetry, PoolRaises, Unlock, Report, Recheck, GetAffectedPartitions,
              Respond, gateway
<1> QED
  BY <1>1, <1>2, <1>3, <1>4 DEF Next, Commit, CommitUnknown

\* A checkpoint inserted after everything read under the lock is the new watermark.
LEMMA CommitMovesWatermark ==
  ASSUME Faults = {}, TypeOK, PoolsOnLatest, NEW c \in Calls, pc[c] = "commit",
         CommitResult(c), result[c].status \in AdvanceStatuses
  PROVE  checkpoints' = [checkpoints EXCEPT ![Target(c)] = Append(@, req[c].end)]
<1> DEFINE t == Target(c)
<1>1. /\ t \in Tables /\ req[c].end \in Time
      /\ checkpoints[t] \in Seq(Time) /\ Len(checkpoints[t]) \in Nat
  BY LenProperties DEF TypeOK, Target, Request
<1>2. rank[c] = Len(checkpoints[t])
  BY DEF PoolsOnLatest, Pooling
<1>3. FinishPositions(c) = {Len(checkpoints[t]) + 1}
  BY <1>1, <1>2 DEF FinishPositions
<1>4. InsertAt(checkpoints[t], Len(checkpoints[t]) + 1, req[c].end)
        = Append(checkpoints[t], req[c].end)
  <2> DEFINE s == checkpoints[t]
             u == InsertAt(s, Len(s) + 1, req[c].end)
             v == Append(s, req[c].end)
  <2>1. /\ u \in Seq(Time) /\ Len(u) = Len(s) + 1
        /\ \A j \in 1..(Len(s) + 1) :
             u[j] = IF j < Len(s) + 1 THEN s[j]
                    ELSE IF j = Len(s) + 1 THEN req[c].end ELSE s[j - 1]
    <3>1. s \in Seq(Time) /\ Len(s) + 1 \in 1..(Len(s) + 1) /\ req[c].end \in Time
      BY <1>1
    <3> HIDE DEF s
    <3> QED
      BY <3>1, InsertAtFacts
  <2>2. /\ v \in Seq(Time) /\ Len(v) = Len(s) + 1
        /\ \A j \in 1..Len(s) : v[j] = s[j]
        /\ v[Len(s) + 1] = req[c].end
    BY <1>1, AppendProperties
  <2> HIDE DEF s, u, v
  <2>3. Len(s) \in Nat
    BY <1>1 DEF s
  <2>4. \A j \in 1..Len(u) : u[j] = v[j]
    BY <2>1, <2>2, <2>3
  <2>5. u = v
    BY <2>1, <2>2, <2>4, SeqEqual
  <2> QED
    BY <2>5 DEF s, u, v
<1> QED
  BY <1>1, <1>3, <1>4 DEF CommitResult, AdvanceCheckpoint

\* The commit of a result that advances the checkpoint logs one window, from the watermark of
\* its table to the end that was asked for, and makes that end the watermark.
LEMMA CommitExtends ==
  ASSUME Faults = {}, TypeOK, PoolsOnLatest, NEW c \in Calls, pc[c] = "commit",
         CommitResult(c), result[c].status \in AdvanceStatuses,
         NEW t \in Tables, t = Target(c), NEW hi \in Time, hi = req[c].end
  PROVE  /\ base[c] = Watermark(t) /\ Watermark(t) < hi
         /\ \A u \in Tables : Watermark(u)' = IF u = t THEN hi ELSE Watermark(u)
         /\ \A u \in Tables : Windows(u)' = IF u = t THEN Windows(t) \cup {PooledRow(c)}
                                           ELSE Windows(u)
<1>1. base[c] = Watermark(t) /\ Watermark(t) < hi
  BY DEF PoolsOnLatest, Pooling
<1>2. checkpoints' = [checkpoints EXCEPT ![t] = Append(@, hi)]
  BY CommitMovesWatermark
<1>3. Watermark(t)' = hi
  <2>1. checkpoints[t] \in Seq(Time) /\ checkpoints \in [Tables -> Seq(Time)]
    BY DEF TypeOK
  <2>2. /\ Append(checkpoints[t], hi) # <<>>
        /\ Last(Append(checkpoints[t], hi)) = hi
    BY <2>1, AppendProperties, LenProperties, EmptySeq DEF Last
  <2> QED
    BY <1>2, <2>1, <2>2 DEF Watermark
<1>4. \A u \in Tables \ {t} : Watermark(u)' = Watermark(u)
  BY <1>2 DEF Watermark, TypeOK
<1>5. /\ log' = [log EXCEPT ![t] = @ \cup {PooledRow(c)}]
      /\ PooledRow(c).status \in AffectedStatuses
  BY DEF CommitResult, PooledRow, AdvanceStatuses, AffectedStatuses
<1>6. \A u \in Tables : Windows(u)' = IF u = t THEN Windows(t) \cup {PooledRow(c)}
                                      ELSE Windows(u)
  BY <1>5 DEF Windows, TypeOK
<1> QED
  BY <1>1, <1>3, <1>4, <1>6

\* The commit of an error changes no watermark and no window.
LEMMA CommitKeeps ==
  ASSUME TypeOK, NEW c \in Calls, pc[c] = "commit", CommitResult(c),
         result[c].status \notin AdvanceStatuses
  PROVE  \A u \in Tables : Watermark(u)' = Watermark(u) /\ Windows(u)' = Windows(u)
<1>1. /\ log' = [log EXCEPT ![Target(c)] = @ \cup {PooledRow(c)}]
      /\ PooledRow(c).status \notin AffectedStatuses
      /\ UNCHANGED checkpoints
  BY DEF CommitResult, AdvanceCheckpoint, PooledRow, TypeOK, LoggedStatuses, AdvanceStatuses,
         AffectedStatuses
<1> QED
  BY <1>1 DEF Watermark, Windows, TypeOK

LEMMA LedgerStep ==
  ASSUME Faults = {}, TypeOK, PoolsOnLatest, [Next]_vars
  PROVE  [Ledger!Next]_<<[t \in Tables |-> Watermark(t)],
                         [t \in Tables |-> {[lo |-> r.lo, hi |-> r.hi] : r \in Windows(t)}]>>
<1> DEFINE frontier == [t \in Tables |-> Watermark(t)]
           windows  == [t \in Tables |-> {[lo |-> r.lo, hi |-> r.hi] : r \in Windows(t)}]
<1>1. CASE UNCHANGED <<checkpoints, log>>
  BY <1>1 DEF Watermark, Windows
<1>2. ASSUME NEW c \in Calls, pc[c] = "commit", CommitResult(c),
             NEW t \in Tables, t = Target(c), NEW hi \in Time, hi = req[c].end
      PROVE  Ledger!Next \/ UNCHANGED <<frontier, windows>>
  <2>1. CASE result[c].status \notin AdvanceStatuses
    BY <1>2, <2>1, CommitKeeps
  <2>2. CASE result[c].status \in AdvanceStatuses
    <3>1. /\ base[c] = Watermark(t) /\ Watermark(t) < hi
          /\ \A u \in Tables : Watermark(u)' = IF u = t THEN hi ELSE Watermark(u)
          /\ \A u \in Tables : Windows(u)' = IF u = t THEN Windows(t) \cup {PooledRow(c)}
                                            ELSE Windows(u)
      BY <1>2, <2>2, CommitExtends
    <3>2. frontier' = [frontier EXCEPT ![t] = hi]
      BY <3>1
    <3>3. PooledRow(c).lo = WindowLo(c) /\ PooledRow(c).hi = hi
      BY <1>2 DEF PooledRow
    <3>4. windows' = [windows EXCEPT ![t] = @ \cup {[lo |-> WindowLo(c), hi |-> hi]}]
      BY <3>1, <3>3
    <3>5. WindowLo(c) = IF frontier[t] = NoTime THEN hi ELSE frontier[t]
      BY <1>2, <3>1 DEF WindowLo
    <3>6. Ledger!Extend(t, hi)
      BY <1>2, <3>1, <3>2, <3>4, <3>5
         DEF Ledger!Extend, Ledger!WindowStart, Ledger!NoTime, NoTime
    <3> QED
      BY <1>2, <3>6 DEF Ledger!Next, Ledger!Time, Time
  <2> QED
    BY <2>1, <2>2
<1>3. \A c \in Calls : pc[c] = "commit" => Target(c) \in Tables /\ req[c].end \in Time
  BY DEF TypeOK, Target, Request
<1> QED
  BY <1>1, <1>2, <1>3, OnlyCommitsWrite

\* With the lock and the clocks sound, whatever the calls interleave, fail at or retry, the
\* tables' watermarks and logged windows behave as the coverage ledger does: every commit
\* is one extension of it, every other step is invisible to it.
THEOREM Refinement == ASSUME Faults = {} PROVE Spec => RefinesLedger
<1>1. Init => Ledger!Init
  BY DEF Init, Ledger!Init, Watermark, Windows, Ledger!NoTime, NoTime
<1>2. TypeOK /\ PoolsOnLatest /\ [Next]_vars =>
        [Ledger!Next]_<<[t \in Tables |-> Watermark(t)],
                        [t \in Tables |-> {[lo |-> r.lo, hi |-> r.hi] : r \in Windows(t)}]>>
  BY LedgerStep
<1> QED
  BY <1>1, <1>2, TypeCorrect, LockSound, PTL DEF Spec, RefinesLedger, Ledger!Spec

-----------------------------------------------------------------------------
(* No change goes missing *)

\* What a call does itself.
Moves(c) == Start(c) \/ AcquireLock(c) \/ LockFails(c) \/ Progress(c) \/ Crash(c)

\* Nobody else touches the locals of a call.
LEMMA OwnLocals ==
  ASSUME TypeOK, [Next]_vars, NEW d \in Calls
  PROVE  \/ Moves(d)
         \/ /\ pc'[d] = pc[d] /\ req'[d] = req[d]
            /\ base'[d] = base[d] /\ result'[d] = result[d]
<1> DEFINE Kept == /\ pc'[d] = pc[d] /\ req'[d] = req[d]
                   /\ base'[d] = base[d] /\ result'[d] = result[d]
<1> USE DEF TypeOK, Goto
<1>1. CASE UNCHANGED vars
  BY <1>1 DEF vars, locals
<1>2. CASE Environment
  BY <1>2 DEF Environment, Tick, Write, Drop, Create, Register, Unregister, locals
<1>3. ASSUME NEW c \in Calls, c # d, Start(c) PROVE Kept
  <2>1. ASSUME NEW t, NEW e, PoolRelation(c, t, e) PROVE Kept
    BY <1>3, <2>1 DEF PoolRelation
  <2>2. ASSUME NEW t, NEW s, NEW e, NEW f, AskPartitions(c, t, s, e, f) PROVE Kept
    BY <1>3, <2>2 DEF AskPartitions
  <2> QED
    BY <1>3, <2>1, <2>2 DEF Start, PoolScheduled
<1>4. ASSUME NEW c \in Calls, c # d, AcquireLock(c) \/ LockFails(c) \/ Crash(c) PROVE Kept
  BY <1>4 DEF AcquireLock, LockFails, Crash, Forget, LeaveFrame, locals
<1>5. ASSUME NEW c \in Calls, LoseSession(c) PROVE Kept
  BY <1>5 DEF LoseSession, locals
<1>6. ASSUME NEW c \in Calls, c # d, Progress(c) PROVE Kept
  <2>1. CASE ReadCheckpoint(c) \/ GetTableMeta(c) \/ EnsureHistory(c) \/ EnableAndRetry(c)
    BY <1>6, <2>1 DEF ReadCheckpoint, GetTableMeta, EnsureHistory, EnableAndRetry
  <2>2. CASE RunChanges(c)
    BY <1>6, <2>2 DEF RunChanges
  <2>3. CASE Commit(c) \/ CommitUnknown(c) \/ PoolRaises(c)
    BY <1>6, <2>3 DEF Commit, CommitUnknown, PoolRaises, locals
  <2>4. CASE Unlock(c) \/ Report(c) \/ Respond(c)
    BY <1>6, <2>4 DEF Unlock, Report, Respond, Forget, LeaveFrame, locals
  <2>5. CASE Recheck(c) \/ GetAffectedPartitions(c)
    BY <1>6, <2>5 DEF Recheck, GetAffectedPartitions
  <2> QED
    BY <1>6, <2>1, <2>2, <2>3, <2>4, <2>5 DEF Progress
<1> QED
  BY <1>1, <1>2, <1>3, <1>4, <1>5, <1>6 DEF Next, Moves

\* Time does not run backwards, and what is recorded later is recorded at a later time.
LEMMA HistoryGrowsForward ==
  ASSUME TypeOK, [Next]_vars
  PROVE  /\ now <= now'
         /\ \A t \in Tables : \A w \in history'[t] : w \in history[t] \/ w.at = now
<1> USE DEF TypeOK, Time
<1>0. now \in Int
  BY ConstantsAssumption
<1>1. CASE Tick
  BY <1>0, <1>1 DEF Tick, bigquery
<1>2. ASSUME NEW t \in Tables, NEW p \in Partitions, Write(t, p) PROVE
        /\ now' = now
        /\ \A u \in Tables : \A w \in history'[u] : w \in history[u] \/ w.at = now
  BY <1>2 DEF Write
<1>3. ASSUME NEW t \in Tables, Drop(t) PROVE
        /\ now' = now
        /\ \A u \in Tables : \A w \in history'[u] : w \in history[u]
  BY <1>3 DEF Drop
<1>4. CASE Environment
  BY <1>0, <1>1, <1>2, <1>3, <1>4 DEF Environment, Create, Register, Unregister, bigquery
<1>5. ASSUME NEW c \in Calls, Moves(c) \/ LoseSession(c) PROVE UNCHANGED <<now, history>>
  BY <1>5 DEF Moves, Start, PoolScheduled, PoolRelation, AskPartitions, AcquireLock, LockFails,
              Crash, LoseSession, Progress, ReadCheckpoint, GetTableMeta, EnsureHistory,
              RunChanges, EnableAndRetry, Commit, CommitUnknown, PoolRaises, Unlock, Report,
              Recheck, GetAffectedPartitions, Respond, bigquery
<1>6. CASE UNCHANGED vars
  BY <1>0, <1>6 DEF vars, bigquery
<1> QED
  BY <1>0, <1>4, <1>5, <1>6 DEF Next, Moves

\* The log is append-only, so what it covers it goes on covering.
LEMMA LogGrows ==
  ASSUME TypeOK, [Next]_vars, NEW t \in Tables
  PROVE  /\ Windows(t) \subseteq Windows(t)'
         /\ Baselines(t) \subseteq Baselines(t)'
         /\ \A x : Anchored(t, x) => Anchored(t, x)'
<1>1. log[t] \subseteq log'[t]
  BY OnlyCommitsWrite DEF CommitResult, TypeOK
<1>2. /\ Windows(t) \subseteq Windows(t)'
      /\ Baselines(t) \subseteq Baselines(t)'
  BY <1>1 DEF Windows, Baselines
<1> QED
  BY <1>2 DEF Anchored

\* A window that names every change in it stays so.
LEMMA FaithfulStays ==
  ASSUME TypeOK, [Next]_vars, NEW t \in Tables, NEW lo \in Int, NEW hi \in Time, NEW ids,
         Faithful(t, lo, hi, ids)
  PROVE  Faithful(t, lo, hi, ids)'
<1>1. now \in Int /\ now' \in Int /\ hi \in Int
  BY TypeStep, ConstantsAssumption DEF TypeOK, Time
<1>2. \A w \in history[t] : w.at \in Int
  BY ConstantsAssumption DEF TypeOK, Time, Change
<1> QED
  BY <1>1, <1>2, HistoryGrowsForward DEF Faithful

\* What is committed is a faithful row.
LEMMA RowsStep ==
  ASSUME TypeOK, RowsFaithful, PendingFaithful, [Next]_vars
  PROVE  RowsFaithful'
<1> SUFFICES ASSUME NEW t \in Tables, NEW r \in Windows(t)'
             PROVE  /\ Faithful(t, r.lo, r.hi, r.ids)'
                    /\ r.status = "initial" => r.lo = r.hi /\ r.ids = Everything
  BY DEF RowsFaithful
<1>0. r.hi \in Time /\ r.lo \in Int
  BY TypeStep, ConstantsAssumption DEF TypeOK, Windows, Row, Time
<1>1. CASE r \in Windows(t)
  <2>1. /\ Faithful(t, r.lo, r.hi, r.ids)
        /\ r.status = "initial" => r.lo = r.hi /\ r.ids = Everything
    BY <1>1 DEF RowsFaithful
  <2> QED
    BY <1>0, <2>1, FaithfulStays
<1>2. CASE r \notin Windows(t)
  <2>1. PICK c \in Calls : pc[c] = "commit" /\ CommitResult(c)
    BY <1>2, OnlyCommitsWrite DEF Windows
  <2>2. r = PooledRow(c) /\ t = Target(c)
    BY <1>2, <2>1 DEF CommitResult, Windows, TypeOK
  <2>3. /\ result[c].status = "initial" <=> base[c] = NoTime
        /\ result[c].status = "initial" => result[c].ids = Everything
        /\ Faithful(Target(c), base[c], req[c].end, result[c].ids)
    BY <2>1 DEF PendingFaithful
  <2>4. /\ r.lo = WindowLo(c) /\ r.hi = req[c].end
        /\ r.status = result[c].status /\ r.ids = result[c].ids
    BY <2>2 DEF PooledRow
  <2>5. Faithful(t, r.lo, r.hi, r.ids)
    <3>1. CASE base[c] = NoTime
      BY <2>3, <2>4, <3>1 DEF Faithful
    <3>2. CASE base[c] # NoTime
      BY <2>2, <2>3, <2>4, <3>2 DEF WindowLo
    <3> QED
      BY <3>1, <3>2
  <2> QED
    BY <1>0, <2>3, <2>4, <2>5, FaithfulStays DEF WindowLo
<1> QED
  BY <1>1, <1>2

\* CHANGES reports what is recorded, and only of the past.
LEMMA PendingStep ==
  ASSUME TypeOK, PendingFaithful, [Next]_vars
  PROVE  PendingFaithful'
<1> DEFINE Pending(d) ==
      /\ pc[d] \in {"changes", "retry"} => base[d] # NoTime
      /\ pc[d] = "commit" =>
           /\ result[d].status = "initial" <=> base[d] = NoTime
           /\ result[d].status = "initial" => result[d].ids = Everything
           /\ Faithful(Target(d), base[d], req[d].end, result[d].ids)
<1> SUFFICES ASSUME NEW d \in Calls PROVE Pending(d)'
  BY DEF PendingFaithful
<1>0. Pending(d)
  BY DEF PendingFaithful
<1> USE DEF Goto
<1>1. CASE /\ pc'[d] = pc[d] /\ req'[d] = req[d]
           /\ base'[d] = base[d] /\ result'[d] = result[d]
  <2>1. CASE pc[d] = "commit"
    <3>1. PICK t \in Tables : t = Target(d)
      BY <2>1 DEF TypeOK, Target, Request
    <3>2. PICK hi \in Time : hi = req[d].end
      BY <2>1 DEF TypeOK, Request
    <3>3. PICK lo \in Int : lo = base[d]
      <4>1. Time \subseteq Int /\ NoTime \in Int
        BY ConstantsAssumption DEF Time, NoTime
      <4> QED
        BY <4>1 DEF TypeOK
    <3>4. PICK ids : ids = result[d].ids
      OBVIOUS
    <3>5. Faithful(t, lo, hi, ids)'
      BY <1>0, <2>1, <3>1, <3>2, <3>3, <3>4, FaithfulStays
    <3>6. Target(d)' = t /\ req'[d].end = hi /\ base'[d] = lo /\ result'[d].ids = ids
      BY <1>1, <3>1, <3>2, <3>3, <3>4 DEF Target
    <3>7. Faithful(Target(d), base[d], req[d].end, result[d].ids)'
      BY <3>5, <3>6 DEF Faithful
    <3> QED
      BY <1>0, <1>1, <2>1, <3>7
  <2>2. CASE pc[d] # "commit"
    BY <1>0, <1>1, <2>2
  <2> QED
    BY <2>1, <2>2
<1>2. CASE EnsureHistory(d)
  <2>1. CASE base[d] = NoTime \/ ~probe[d]
    <3>1. /\ base'[d] = base[d] /\ pc'[d] = "commit" /\ result'[d].ids = Everything
          /\ result'[d].status = IF base[d] = NoTime THEN "initial" ELSE "unpartitioned"
      BY <1>2, <2>1 DEF EnsureHistory, TypeOK, Result
    <3> QED
      BY <3>1 DEF Faithful
  <2>2. CASE ~(base[d] = NoTime \/ ~probe[d])
    BY <1>2, <2>2 DEF EnsureHistory, TypeOK
  <2> QED
    BY <2>1, <2>2
<1>3. CASE EnableAndRetry(d)
  BY <1>0, <1>3 DEF EnableAndRetry, TypeOK
<1>4. CASE RunChanges(d)
  <2>1. PICK status \in {"ok", "out_of_range", "error"}, ids \in Ids \cup {Everything} :
          /\ ChangesOutcome(Target(d), base[d], req[d].end, status, ids)
          /\ result' = [result EXCEPT ![d].status = status, ![d].ids = ids]
    BY <1>4 DEF RunChanges
  <2>2. /\ result'[d].status = status /\ result'[d].ids = ids
        /\ UNCHANGED <<now, history, req, base>> /\ pc'[d] = "commit"
    BY <1>4, <2>1 DEF RunChanges, TypeOK, Result, bigquery
  <2>3. base[d] # NoTime
    BY <1>0, <1>4 DEF RunChanges
  <2>4. Faithful(Target(d), base[d], req[d].end, ids)
    BY <2>1 DEF ChangesOutcome, ChangedIds, Faithful
  <2>5. Faithful(Target(d), base[d], req[d].end, result[d].ids)'
    BY <2>2, <2>4 DEF Faithful, Target
  <2> QED
    BY <2>2, <2>3, <2>5
<1>5. CASE Moves(d) /\ ~EnsureHistory(d) /\ ~EnableAndRetry(d) /\ ~RunChanges(d)
  <2>1. pc'[d] \notin {"changes", "retry", "commit"}
    BY <1>5 DEF Moves, Start, PoolScheduled, PoolRelation, AskPartitions, AcquireLock, LockFails,
                Crash, Progress, ReadCheckpoint, GetTableMeta, Commit, CommitUnknown, PoolRaises,
                Unlock, Report, Recheck, GetAffectedPartitions, Respond, TypeOK
  <2> QED
    BY <2>1
<1> QED
  BY <1>1, <1>2, <1>3, <1>4, <1>5, OwnLocals

\* A checkpoint is inserted with the row that leads up to it.
LEMMA NewCheckpointAnchored ==
  ASSUME TypeOK, PendingFaithful, WatermarksAnchored, [Next]_vars,
         NEW c \in Calls, pc[c] = "commit", CommitResult(c),
         result[c].status \in AdvanceStatuses,
         NEW t \in Tables, t = Target(c), NEW e \in Time, e = req[c].end
  PROVE  Anchored(t, e)'
<1> DEFINE row == PooledRow(c)
<1>1. row \in log'[t] /\ row.status = result[c].status
      /\ row.lo = WindowLo(c) /\ row.hi = e
  BY DEF CommitResult, PooledRow, TypeOK
<1>2. row \in Windows(t)'
  BY <1>1 DEF Windows, AdvanceStatuses, AffectedStatuses
<1>3. CASE base[c] = NoTime
  <2>1. row \in Baselines(t)' /\ row.lo = e
    BY <1>1, <1>3 DEF PendingFaithful, Baselines, WindowLo
  <2> QED
    BY <2>1, ConstantsAssumption DEF Anchored, Time
<1>4. CASE base[c] # NoTime
  <2>1. Anchored(t, base[c])
    BY <1>4 DEF WatermarksAnchored, Pooling
  <2>2. PICK b \in Baselines(t) : \A y \in Time :
          b.lo <= y /\ y < base[c] => \E r \in Windows(t) : r.lo <= y /\ y < r.hi
    BY <2>1 DEF Anchored
  <2>3. base[c] \in Int /\ row.lo = base[c]
    BY <1>1, <1>4, ConstantsAssumption DEF TypeOK, Time, NoTime, WindowLo
  <2>4. ASSUME NEW y \in Time, b.lo <= y, y < e
        PROVE  \E r \in Windows(t)' : r.lo <= y /\ y < r.hi
    <3>1. y \in Int
      BY ConstantsAssumption DEF Time
    <3>2. CASE y < base[c]
      BY <2>2, <2>4, <3>2, LogGrows
    <3>3. CASE row.lo <= y
      BY <1>1, <1>2, <2>4, <3>3
    <3> QED
      BY <2>3, <3>1, <3>2, <3>3
  <2> QED
    BY <2>2, <2>4, LogGrows DEF Anchored
<1> QED
  BY <1>3, <1>4

\* Every watermark anybody can come by is anchored.
LEMMA WatermarksStep ==
  ASSUME TypeOK, PendingFaithful, WatermarksAnchored, [Next]_vars
  PROVE  WatermarksAnchored'
<1>0. ASSUME NEW t \in Tables, Watermark(t) # NoTime PROVE Anchored(t, Watermark(t))
  BY <1>0, WatermarkFacts DEF WatermarksAnchored
<1>1. ASSUME NEW t \in Tables, NEW i \in DOMAIN checkpoints'[t]
      PROVE  Anchored(t, checkpoints[t][i])'
  <2>1. CASE checkpoints'[t] = checkpoints[t]
    BY <1>1, <2>1, LogGrows DEF WatermarksAnchored
  <2>2. CASE checkpoints'[t] # checkpoints[t]
    <3>1. PICK c \in Calls : pc[c] = "commit" /\ CommitResult(c)
      BY <2>2, OnlyCommitsWrite
    <3>2. /\ t = Target(c) /\ result[c].status \in AdvanceStatuses
          /\ \E j \in FinishPositions(c) :
               checkpoints'[t] = InsertAt(checkpoints[t], j, req[c].end)
      BY <2>2, <3>1 DEF CommitResult, AdvanceCheckpoint, TypeOK
    <3>3. PICK e \in Time : e = req[c].end
      BY <3>1 DEF TypeOK, Request
    <3>4. Anchored(t, e)'
      BY <3>1, <3>2, <3>3, NewCheckpointAnchored
    <3>5. PICK s \in Seq(Time) : s = checkpoints[t]
      BY DEF TypeOK
    <3>6. PICK j \in 1..(Len(s) + 1) : checkpoints'[t] = InsertAt(s, j, e)
      BY <3>2, <3>3, <3>5 DEF FinishPositions
    <3>7. /\ Len(s) \in Nat /\ DOMAIN s = 1..Len(s)
          /\ i \in 1..(Len(s) + 1)
          /\ checkpoints'[t][i] = IF i < j THEN s[i] ELSE IF i = j THEN e ELSE s[i - 1]
      <4>1. PICK u : u = checkpoints'[t]
        OBVIOUS
      <4>2. /\ u \in Seq(Time) /\ Len(u) = Len(s) + 1
            /\ \A k \in 1..(Len(s) + 1) :
                 u[k] = IF k < j THEN s[k] ELSE IF k = j THEN e ELSE s[k - 1]
        <5>1. /\ InsertAt(s, j, e) \in Seq(Time) /\ Len(InsertAt(s, j, e)) = Len(s) + 1
              /\ \A k \in 1..(Len(s) + 1) :
                   InsertAt(s, j, e)[k] = IF k < j THEN s[k] ELSE IF k = j THEN e ELSE s[k - 1]
          BY InsertAtFacts
        <5>2. u = InsertAt(s, j, e)
          BY <3>6, <4>1
        <5> QED
          BY <5>1, <5>2
      <4>3. DOMAIN u = 1..(Len(s) + 1) /\ Len(s) \in Nat /\ DOMAIN s = 1..Len(s)
        BY <4>2, LenProperties
      <4>4. i \in 1..(Len(s) + 1)
        BY <1>1, <4>1, <4>3
      <4>5. u[i] = IF i < j THEN s[i] ELSE IF i = j THEN e ELSE s[i - 1]
        BY <4>2, <4>4
      <4> QED
        BY <4>1, <4>3, <4>4, <4>5
    <3>8. checkpoints'[t][i] = e \/ \E k \in DOMAIN checkpoints[t] :
                                      checkpoints'[t][i] = checkpoints[t][k]
      BY <3>5, <3>7
    <3> QED
      BY <3>4, <3>8, LogGrows DEF WatermarksAnchored
  <2> QED
    BY <2>1, <2>2
<1>2. ASSUME NEW d \in Calls, Pooling(d)', base'[d] # NoTime
      PROVE  Anchored(Target(d), base[d])'
  <2>1. CASE ReadCheckpoint(d)
    <3>1. PICK t \in Tables : t = Target(d)
      BY <2>1 DEF ReadCheckpoint, TypeOK, Target, Request
    <3>2. Target(d)' = t /\ base'[d] = Watermark(t)
      BY <2>1, <3>1 DEF ReadCheckpoint, TypeOK, Target
    <3>3. Anchored(t, Watermark(t))
      BY <1>0, <1>2, <3>2
    <3>4. PICK x : x = Watermark(t)
      OBVIOUS
    <3>5. Anchored(t, x)'
      BY <3>3, <3>4, LogGrows
    <3> QED
      BY <3>2, <3>4, <3>5 DEF Anchored
  <2>2. CASE ~ReadCheckpoint(d)
    <3>1. Pooling(d) /\ base'[d] = base[d] /\ req'[d] = req[d]
      <4>1. CASE Moves(d)
        <5>1. pc'[d] \in {"meta", "history", "changes", "retry", "commit"}
          BY <1>2 DEF Pooling
        <5>2. \/ GetTableMeta(d) \/ EnsureHistory(d) \/ RunChanges(d) \/ EnableAndRetry(d)
          BY <2>2, <4>1, <5>1
             DEF Moves, Start, PoolScheduled, PoolRelation, AskPartitions, AcquireLock,
                 LockFails, Crash, Progress, Commit, CommitUnknown, PoolRaises, Unlock, Report,
                 Recheck, GetAffectedPartitions, Respond, TypeOK, Goto
        <5> QED
          BY <5>2 DEF GetTableMeta, EnsureHistory, RunChanges, EnableAndRetry, Pooling
      <4>2. CASE ~Moves(d)
        BY <1>2, <4>2, OwnLocals DEF Pooling
      <4> QED
        BY <4>1, <4>2
    <3>2. PICK t \in Tables : t = Target(d)
      BY <3>1 DEF Pooling, TypeOK, Target, Request
    <3>3. PICK x : x = base[d]
      OBVIOUS
    <3>4. Anchored(t, x)'
      BY <1>2, <3>1, <3>2, <3>3, LogGrows DEF WatermarksAnchored
    <3> QED
      BY <3>1, <3>2, <3>3, <3>4 DEF Anchored, Target
  <2> QED
    BY <2>1, <2>2
<1>3. ASSUME NEW d \in Calls, pc'[d] = "answer", result'[d].watermark # NoTime
      PROVE  Anchored(Target(d), result[d].watermark)'
  <2>1. CASE Moves(d)
    <3>1. \/ Recheck(d)
          \/ \E t \in Tables, q \in Questions : AskPartitions(d, t, q.start, q.end, q.fresh)
      BY <1>3, <2>1
         DEF Moves, Start, PoolScheduled, PoolRelation, AcquireLock, LockFails, Crash, Progress,
             ReadCheckpoint, GetTableMeta, EnsureHistory, RunChanges, EnableAndRetry, Commit,
             CommitUnknown, PoolRaises, Unlock, Report, GetAffectedPartitions, Respond,
             TypeOK, Goto
    <3>2. PICK t \in Tables : Target(d)' = t /\ result'[d].watermark = Watermark(t)
      <4>1. CASE Recheck(d)
        BY ZenonT(60), <4>1 DEF Recheck, TypeOK, Target, Request, Result
      <4>2. ASSUME NEW t \in Tables, NEW q \in Questions,
                   AskPartitions(d, t, q.start, q.end, q.fresh)
            PROVE  Target(d)' = t /\ result'[d].watermark = Watermark(t)
        BY <1>3, <4>2 DEF AskPartitions, TypeOK, Target, Result, Goto
      <4> QED
        BY <3>1, <4>1, <4>2
    <3>3. PICK x : x = Watermark(t)
      OBVIOUS
    <3>4. Anchored(t, x)'
      BY <1>0, <1>3, <3>2, <3>3, LogGrows
    <3> QED
      BY <3>2, <3>3, <3>4 DEF Anchored
  <2>2. CASE ~Moves(d)
    <3>1. pc[d] = "answer" /\ result'[d] = result[d] /\ req'[d] = req[d]
      BY <1>3, <2>2, OwnLocals
    <3>2. PICK t \in Tables : t = Target(d)
      BY <3>1 DEF TypeOK, Target, Request
    <3>3. PICK x : x = result[d].watermark
      OBVIOUS
    <3>4. Anchored(t, x)'
      BY <1>3, <3>1, <3>2, <3>3, LogGrows DEF WatermarksAnchored
    <3> QED
      BY <3>1, <3>2, <3>3, <3>4 DEF Anchored, Target
  <2> QED
    BY <2>1, <2>2
<1> QED
  BY <1>1, <1>2, <1>3 DEF WatermarksAnchored

\* What GetAffectedPartitions returns is complete and final, from the anchor of the watermark
\* on by the faithful rows and before it by the initial row itself.
LEMMA AnswerFacts ==
  ASSUME TypeOK, RowsFaithful,
         NEW t \in Tables, NEW s \in Time, NEW e \in Time, NEW W \in Time \cup {NoTime},
         W # NoTime => Anchored(t, W),
         \A b \in Baselines(t) : b.lo < e,
         MergedIds(AffectedRows(t, s, e)) # Everything
  PROVE  \A y \in Time : s <= y /\ y < e /\ y < W =>
           /\ y < now
           /\ \A w \in history[t] : w.at = y /\ w.part # NullPartition
                                      => w.part \in MergedIds(AffectedRows(t, s, e))
<1> DEFINE rows == AffectedRows(t, s, e)
<1> SUFFICES ASSUME NEW y \in Time, s <= y, y < e, y < W
             PROVE  /\ y < now
                    /\ \A w \in history[t] : w.at = y /\ w.part # NullPartition
                                               => w.part \in MergedIds(rows)
  OBVIOUS
<1>0. y \in Int /\ s \in Int /\ e \in Int /\ W \in Int /\ now \in Int /\ 0 <= y
  BY ConstantsAssumption DEF Time, NoTime, TypeOK
<1>1. /\ \A r \in rows : r.ids # Everything
      /\ MergedIds(rows) = UNION {r.ids : r \in rows}
  BY DEF MergedIds
<1>2. W # NoTime
  BY <1>0 DEF NoTime
<1>3. PICK b \in Baselines(t) : \A x \in Time :
        b.lo <= x /\ x < W => \E r \in Windows(t) : r.lo <= x /\ x < r.hi
  BY <1>2 DEF Anchored
<1>4. \A r \in log[t] : r.lo \in Int /\ r.hi \in Int
  BY ConstantsAssumption DEF TypeOK, Row, Time
<1>5. b \in log[t] /\ b.status = "initial" /\ b \in Windows(t)
  BY DEF Baselines, Windows, AffectedStatuses
<1>6. b.lo = b.hi /\ b.ids = Everything
  BY <1>5 DEF RowsFaithful
<1>7. b.lo <= y
  <2>1. SUFFICES ASSUME y < b.lo PROVE FALSE
    BY <1>0, <1>4, <1>5
  <2>2. b \in rows
    BY <1>0, <1>4, <1>5, <1>6, <2>1 DEF AffectedRows, AffectedStatuses
  <2> QED
    BY <1>1, <1>6, <2>2
<1>8. PICK r \in Windows(t) : r.lo <= y /\ y < r.hi
  BY <1>3, <1>7
<1>9. r \in rows
  BY <1>0, <1>4, <1>8 DEF AffectedRows, Windows
<1>10. Faithful(t, r.lo, r.hi, r.ids) /\ r.ids # Everything
  BY <1>1, <1>8, <1>9 DEF RowsFaithful
<1>11. r.hi <= now /\ r.hi \in Int
  BY <1>4, <1>10 DEF Faithful, Windows
<1> QED
  BY <1>0, <1>1, <1>8, <1>9, <1>10, <1>11 DEF Faithful

\* AnswersFinal and AnswerCoversChanges, for one call.
AnswerOK(c) ==
  pc[c] = "answered" /\ (\A b \in Baselines(Target(c)) : b.lo < req[c].end)
                     /\ result[c].ids # Everything
    => /\ \A y \in Time : req[c].start <= y /\ y < req[c].end /\ y < result[c].watermark
                            => y < now
       /\ \A w \in history[Target(c)] :
            /\ req[c].start <= w.at /\ w.at < req[c].end /\ w.at < result[c].watermark
            /\ w.part # NullPartition
            => w.part \in result[c].ids

LEMMA AnswersStep ==
  ASSUME TypeOK, RowsFaithful, WatermarksAnchored, AnswersFinal, AnswerCoversChanges,
         [Next]_vars
  PROVE  AnswersFinal' /\ AnswerCoversChanges'
<1>0. \A c \in Calls : AnswerOK(c)
  BY DEF AnswersFinal, AnswerCoversChanges, AnswerOK
<1> SUFFICES ASSUME NEW d \in Calls PROVE AnswerOK(d)'
  BY DEF AnswersFinal, AnswerCoversChanges, AnswerOK
<1> SUFFICES ASSUME pc'[d] = "answered" PROVE AnswerOK(d)'
  BY DEF AnswerOK
<1>1. CASE GetAffectedPartitions(d)
  <2>1. PICK t \in Tables, s \in Time, e \in Time, W \in Time \cup {NoTime} :
          /\ t = Target(d) /\ s = req[d].start /\ e = req[d].end
          /\ W = result[d].watermark
    BY <1>1 DEF GetAffectedPartitions, TypeOK, Target, Request, Result
  <2>2. /\ UNCHANGED <<now, history, log, req>>
        /\ result'[d].ids = MergedIds(AffectedRows(t, s, e))
        /\ result'[d].watermark = W
    BY <1>1, <2>1 DEF GetAffectedPartitions, TypeOK, Result, bigquery, gateway
  <2>3. W # NoTime => Anchored(t, W)
    BY <1>1, <2>1 DEF WatermarksAnchored, GetAffectedPartitions
  <2>4. \A w \in history[t] : w.at \in Time
    BY DEF TypeOK, Change
  <2>5. /\ Baselines(t)' = Baselines(t) /\ Target(d)' = t
        /\ req'[d].start = s /\ req'[d].end = e
    BY <2>1, <2>2 DEF Baselines, Target
  <2>6. CASE (\A b \in Baselines(t) : b.lo < e) /\ MergedIds(AffectedRows(t, s, e)) # Everything
    BY <2>2, <2>3, <2>4, <2>5, <2>6, AnswerFacts DEF AnswerOK
  <2>7. CASE ~((\A b \in Baselines(t) : b.lo < e) /\ MergedIds(AffectedRows(t, s, e)) # Everything)
    BY <2>2, <2>5, <2>7 DEF AnswerOK
  <2> QED
    BY <2>6, <2>7
<1>2. CASE ~GetAffectedPartitions(d)
  <2>1. pc[d] = "answered" /\ req'[d] = req[d] /\ result'[d] = result[d]
    <3>1. ~Moves(d)
      BY <1>2
         DEF Moves, Start, PoolScheduled, PoolRelation, AskPartitions, AcquireLock, LockFails,
             Crash, Progress, ReadCheckpoint, GetTableMeta, EnsureHistory, RunChanges,
             EnableAndRetry, Commit, CommitUnknown, PoolRaises, Unlock, Report, Recheck, Respond,
             TypeOK, Goto
    <3> QED
      BY <3>1, OwnLocals
  <2>2. PICK t \in Tables : t = Target(d)
    BY <2>1 DEF TypeOK, Target, Request
  <2>3. Target(d)' = t /\ Baselines(t) \subseteq Baselines(t)'
    BY <2>1, <2>2, LogGrows DEF Target
  <2>4. now \in Int /\ now' \in Int /\ Time \subseteq Int
    BY TypeStep, ConstantsAssumption DEF TypeOK, Time
  <2>5. CASE (\A b \in Baselines(t)' : b.lo < req[d].end) /\ result[d].ids # Everything
    <3>1. /\ \A y \in Time : /\ req[d].start <= y /\ y < req[d].end
                             /\ y < result[d].watermark
                             => y < now
          /\ \A w \in history[t] :
               /\ req[d].start <= w.at /\ w.at < req[d].end /\ w.at < result[d].watermark
               /\ w.part # NullPartition
               => w.part \in result[d].ids
      BY <1>0, <2>1, <2>2, <2>3, <2>5 DEF AnswerOK
    <3>2. \A y \in Time : /\ req[d].start <= y /\ y < req[d].end /\ y < result[d].watermark
                          => y < now'
      <4>1. now <= now'
        BY HistoryGrowsForward
      <4>2. \A y \in Time : y < now => y < now'
        BY <2>4, <4>1
      <4> QED
        BY <3>1, <4>2
    <3>3. \A w \in history'[t] :
            /\ req[d].start <= w.at /\ w.at < req[d].end /\ w.at < result[d].watermark
            /\ w.part # NullPartition
            => w.part \in result[d].ids
      <4>1. now \in Time /\ ~(now < now)
        BY <2>4 DEF TypeOK
      <4> QED
        BY <3>1, <4>1, HistoryGrowsForward
    <3> QED
      BY <2>1, <2>3, <3>2, <3>3 DEF AnswerOK
  <2>6. CASE ~((\A b \in Baselines(t)' : b.lo < req[d].end) /\ result[d].ids # Everything)
    BY <2>1, <2>3, <2>6 DEF AnswerOK
  <2> QED
    BY <2>5, <2>6
<1> QED
  BY <1>1, <1>2

\* The invariant behind it: the logged windows are faithful, and every watermark anybody can
\* come by is anchored in them.
THEOREM CoverageHolds == Spec => []CoverageInv
<1>1. Init => CoverageInv
  BY DEF Init, CoverageInv, RowsFaithful, PendingFaithful, WatermarksAnchored, AnswersFinal,
         AnswerCoversChanges, Windows, Pooling
<1>2. TypeOK /\ CoverageInv /\ [Next]_vars => CoverageInv'
  BY RowsStep, PendingStep, WatermarksStep, AnswersStep DEF CoverageInv
<1> QED
  BY <1>1, <1>2, TypeCorrect, PTL DEF Spec

\* The heart of the pooler, with no assumption on locks or clocks: whatever is lost, retried,
\* skewed or interleaved, no recorded change of a partition is missing from an answer that
\* ends after pooling of the table began and reports to be fresh.
THEOREM ChangesCovered == Spec => []AnswerCoversChanges
<1>1. CoverageInv => AnswerCoversChanges
  BY DEF CoverageInv
<1> QED
  BY <1>1, CoverageHolds, PTL

-----------------------------------------------------------------------------
(* The windows of a table follow one another *)

\* The windows of t end at its watermark, none overlaps another, and one of them is the first.
TileInv(t) ==
  /\ \A r \in Windows(t) : r.lo <= r.hi /\ r.hi <= Watermark(t)
  /\ \A q, r \in Windows(t) : q = r \/ q.hi <= r.lo \/ r.hi <= q.lo
  /\ \A q, r \in Baselines(t) : q = r

\* A new window starts where the last one ended, and is initial when there is none.
LEMMA TilesStep ==
  ASSUME Faults = {}, TypeOK, PoolsOnLatest, PendingFaithful, [Next]_vars,
         NEW t \in Tables, TileInv(t)
  PROVE  TileInv(t)'
<1>0. \A u \in Tables : Baselines(u) = {r \in Windows(u) : r.status = "initial"}
  BY DEF Baselines, Windows, AffectedStatuses
<1>00. Baselines(t)' = {r \in Windows(t)' : r.status = "initial"}
  BY DEF Baselines, Windows, AffectedStatuses
<1>1. CASE Windows(t)' = Windows(t) /\ Watermark(t)' = Watermark(t)
  BY <1>0, <1>00, <1>1 DEF TileInv
<1>2. ASSUME NEW c \in Calls, pc[c] = "commit", CommitResult(c), t = Target(c),
             result[c].status \in AdvanceStatuses
      PROVE  TileInv(t)'
  <2>1. PICK hi \in Time : hi = req[c].end
    BY <1>2 DEF TypeOK, Request
  <2> DEFINE row == PooledRow(c)
  <2>2. /\ base[c] = Watermark(t) /\ Watermark(t) < hi
        /\ Watermark(t)' = hi
        /\ Windows(t)' = Windows(t) \cup {row}
    BY <1>2, <2>1, CommitExtends
  <2>3. /\ row.hi = hi
        /\ row.lo = IF Watermark(t) = NoTime THEN hi ELSE Watermark(t)
        /\ row.status = "initial" <=> Watermark(t) = NoTime
    BY <1>2, <2>1, <2>2 DEF PooledRow, WindowLo, PendingFaithful
  <2>4. /\ hi \in Int /\ 0 <= hi /\ Watermark(t) \in Int
        /\ \A r \in Windows(t) : r.lo \in Int /\ r.hi \in Int /\ 0 <= r.hi
    BY WatermarkFacts, ConstantsAssumption DEF TypeOK, Windows, Row, Time, NoTime
  <2> HIDE DEF row
  <2>5. CASE Watermark(t) = NoTime
    <3>1. Windows(t) = {}
      BY <2>4, <2>5 DEF TileInv, NoTime
    <3> QED
      BY <1>00, <2>2, <2>3, <2>4, <2>5, <3>1 DEF TileInv
  <2>6. CASE Watermark(t) # NoTime
    <3>1. \A r \in Windows(t) : r.lo <= r.hi /\ r.hi <= row.lo /\ r.hi <= hi
      BY <2>2, <2>3, <2>4, <2>6 DEF TileInv
    <3>2. Baselines(t)' = Baselines(t)
      BY <1>0, <1>00, <2>2, <2>3, <2>6
    <3>3. row.lo <= row.hi /\ row.hi <= hi
      BY <2>2, <2>3, <2>4, <2>6
    <3> QED
      BY <2>2, <3>1, <3>2, <3>3 DEF TileInv
  <2> QED
    BY <2>5, <2>6
<1>3. ASSUME NEW c \in Calls, pc[c] = "commit", CommitResult(c)
      PROVE  TileInv(t)'
  <2>1. PICK hi \in Time, u \in Tables : hi = req[c].end /\ u = Target(c)
    BY <1>3 DEF TypeOK, Request, Target
  <2>2. CASE result[c].status \notin AdvanceStatuses
    BY <1>1, <1>3, <2>2, CommitKeeps
  <2>3. CASE result[c].status \in AdvanceStatuses /\ u # t
    BY <1>1, <1>3, <2>1, <2>3, CommitExtends
  <2> QED
    BY <1>2, <1>3, <2>1, <2>2, <2>3
<1>4. CASE UNCHANGED <<checkpoints, log>>
  BY <1>1, <1>4 DEF Watermark, Windows
<1> QED
  BY <1>3, <1>4, OnlyCommitsWrite

\* With the lock and the clocks sound, the windows a table's log holds leave no gap between its
\* first pool and its watermark, and no instant is in two of them.
THEOREM Tiling == ASSUME Faults = {} PROVE Spec => []WindowsTile
<1> DEFINE Tiles == \A t \in Tables : TileInv(t)
<1>1. Init => Tiles
  BY DEF Init, TileInv, Windows, Baselines
<1>2. TypeOK /\ PoolsOnLatest /\ CoverageInv /\ Tiles /\ [Next]_vars => Tiles'
  BY TilesStep DEF CoverageInv
<1>3. TypeOK /\ CoverageInv /\ Tiles => WindowsTile
  BY WatermarkFacts DEF CoverageInv, WatermarksAnchored, Anchored, TileInv, WindowsTile
<1> QED
  BY <1>1, <1>2, <1>3, TypeCorrect, LockSound, CoverageHolds, PTL DEF Spec

-----------------------------------------------------------------------------
(* Rejections *)

\* With the lock and the clocks sound a watermark never goes backwards.
LEMMA WatermarksGrow ==
  ASSUME Faults = {}, TypeOK, PoolsOnLatest, [Next]_vars, NEW t \in Tables
  PROVE  Watermark(t)' \in Int /\ Watermark(t) <= Watermark(t)'
<1>0. Watermark(t) \in Int
  BY WatermarkFacts, ConstantsAssumption DEF Time, NoTime
<1>1. CASE UNCHANGED <<checkpoints, log>>
  BY <1>0, <1>1 DEF Watermark
<1>2. ASSUME NEW c \in Calls, pc[c] = "commit", CommitResult(c)
      PROVE  Watermark(t)' \in Int /\ Watermark(t) <= Watermark(t)'
  <2>1. PICK hi \in Time, u \in Tables : hi = req[c].end /\ u = Target(c)
    BY <1>2 DEF TypeOK, Request, Target
  <2>2. hi \in Int
    BY ConstantsAssumption DEF Time
  <2>3. CASE result[c].status \notin AdvanceStatuses
    BY <1>0, <1>2, <2>3, CommitKeeps
  <2>4. CASE result[c].status \in AdvanceStatuses
    BY <1>0, <1>2, <2>1, <2>2, <2>4, CommitExtends
  <2> QED
    BY <2>3, <2>4
<1> QED
  BY <1>1, <1>2, OnlyCommitsWrite

\* A call that has pooled, or found it done, leaves the watermark at its end or later.
PooledInv(c) ==
  /\ pc[c] \in {"unlock", "report", "recheck"} /\ result[c].status \notin {"error", "not_found"}
       => req[c].end <= Watermark(Target(c))
  /\ pc[c] = "rejected" => result[c].status \in {"error", "not_found"}

LEMMA PooledStep ==
  ASSUME Faults = {}, TypeOK, PoolsOnLatest, [Next]_vars, NEW d \in Calls, PooledInv(d)
  PROVE  PooledInv(d)'
<1> USE DEF Goto
<1>0. ASSUME NEW t \in Tables, NEW e \in Time, e <= Watermark(t)
      PROVE  e <= Watermark(t)'
  <2>1. Watermark(t) \in Int /\ Watermark(t)' \in Int /\ e \in Int
    BY WatermarksGrow, WatermarkFacts, ConstantsAssumption DEF Time, NoTime
  <2> QED
    BY <1>0, <2>1, WatermarksGrow
<1>1. CASE ~Moves(d)
  <2>1. pc'[d] = pc[d] /\ req'[d] = req[d] /\ result'[d] = result[d]
    BY <1>1, OwnLocals
  <2>2. CASE pc[d] = "idle"
    BY <2>1, <2>2 DEF PooledInv
  <2>3. CASE pc[d] # "idle"
    <3>1. PICK t \in Tables, e \in Time : t = Target(d) /\ e = req[d].end
      BY <2>3 DEF TypeOK, Target, Request
    <3> QED
      BY <1>0, <2>1, <3>1 DEF PooledInv, Target
  <2> QED
    BY <2>2, <2>3
<1>2. CASE Start(d) \/ AcquireLock(d) \/ Crash(d)
  <2>1. pc'[d] \in {"lock", "answer", "locked", "idle"}
    <3>1. ASSUME NEW t, NEW e, PoolRelation(d, t, e) PROVE pc'[d] = "lock"
      BY <3>1 DEF PoolRelation, TypeOK
    <3>2. ASSUME NEW t, NEW s, NEW e, NEW f, AskPartitions(d, t, s, e, f)
          PROVE  pc'[d] \in {"lock", "answer"}
      BY <3>2 DEF AskPartitions, TypeOK
    <3> QED
      BY <1>2, <3>1, <3>2 DEF Start, PoolScheduled, AcquireLock, Crash, TypeOK
  <2> QED
    BY <2>1 DEF PooledInv
<1>3. CASE LockFails(d)
  BY <1>3 DEF LockFails, PooledInv, TypeOK, Result
<1>4. CASE Progress(d)
  <2>0. PICK t \in Tables, e \in Time : pc[d] # "idle" => t = Target(d) /\ e = req[d].end
    BY <1>4 DEF Progress, ReadCheckpoint, GetTableMeta, EnsureHistory, RunChanges,
                EnableAndRetry, Commit, CommitUnknown, PoolRaises, Unlock, Report, Recheck,
                GetAffectedPartitions, Respond, TypeOK, Target, Request
  <2>1. CASE ReadCheckpoint(d)
    <3>1. /\ pc'[d] = "unlock" => e <= Watermark(t)
          /\ pc'[d] \in {"unlock", "meta"} /\ req' = req
      BY <1>4, <2>0, <2>1 DEF ReadCheckpoint, TypeOK, Time
    <3>2. pc[d] # "idle"
      BY <2>1 DEF ReadCheckpoint
    <3> QED
      BY <1>0, <2>0, <3>1, <3>2 DEF PooledInv, Target
  <2>2. CASE GetTableMeta(d) \/ CommitUnknown(d) \/ PoolRaises(d)
    BY <2>2 DEF GetTableMeta, CommitUnknown, PoolRaises, PooledInv, TypeOK, Result
  <2>3. CASE EnsureHistory(d) \/ RunChanges(d) \/ EnableAndRetry(d) \/ Respond(d)
             \/ GetAffectedPartitions(d)
    BY <2>3 DEF EnsureHistory, RunChanges, EnableAndRetry, Respond, GetAffectedPartitions,
                PooledInv, TypeOK
  <2>4. CASE Commit(d)
    <3>1. /\ pc[d] = "commit" /\ CommitResult(d) /\ pc'[d] = "unlock"
          /\ req' = req /\ result' = result /\ result[d].status \in LoggedStatuses
      BY <2>4 DEF Commit, locals, TypeOK
    <3>2. CASE result[d].status \in AdvanceStatuses
      <4>1. Watermark(t)' = e
        BY <2>0, <3>1, <3>2, CommitExtends
      <4> QED
        BY <2>0, <3>1, <4>1, ConstantsAssumption DEF PooledInv, Target, Time
    <3>3. CASE result[d].status = "error"
      BY <3>1, <3>3 DEF PooledInv
    <3> QED
      BY <3>1, <3>2, <3>3 DEF LoggedStatuses
  <2>5. CASE Unlock(d) \/ Report(d)
    <3>1. /\ pc[d] \in {"unlock", "report"} /\ pc'[d] \in {"report", "recheck", "idle"}
          /\ pc'[d] # "idle" => req' = req /\ result' = result
      BY <2>5 DEF Unlock, Report, locals, TypeOK
    <3> QED
      BY <1>0, <2>0, <3>1 DEF PooledInv, Target
  <2>6. CASE Recheck(d)
    <3>1. /\ pc[d] = "recheck" /\ result'[d].status = result[d].status
          /\ pc'[d] = IF Watermark(t) < e THEN "rejected" ELSE "answer"
      BY <2>0, <2>6 DEF Recheck, TypeOK, Result
    <3>2. Watermark(t) \in Int /\ e \in Int
      BY WatermarkFacts, ConstantsAssumption DEF Time, NoTime
    <3> QED
      BY <2>0, <3>1, <3>2 DEF PooledInv
  <2> QED
    BY <1>4, <2>1, <2>2, <2>3, <2>4, <2>5, <2>6 DEF Progress
<1> QED
  BY <1>1, <1>2, <1>3, <1>4 DEF Moves

\* With the lock and the clocks sound, a 409 is the caller's own failure to pool: no other call
\* can take the freshness away that this one brought about.
THEOREM RejectionsEarned == ASSUME Faults = {} PROVE Spec => []RejectedOnlyOnFailure
<1> DEFINE Pooled == \A c \in Calls : PooledInv(c)
<1>1. Init => Pooled
  BY DEF Init, PooledInv
<1>2. TypeOK /\ PoolsOnLatest /\ Pooled /\ [Next]_vars => Pooled'
  BY PooledStep
<1>3. Pooled => RejectedOnlyOnFailure
  BY DEF PooledInv, RejectedOnlyOnFailure
<1> QED
  BY <1>1, <1>2, <1>3, TypeCorrect, LockSound, PTL DEF Spec

-----------------------------------------------------------------------------
(* Locks and registrations *)

\* What a step of c leaves of the locks: they stay, and c stays where it may hold one,
LocksStay(c) == UNCHANGED holder /\ (Locked(c) => Locked(c)' /\ req'[c] = req[c])
\* or some go, among them all that c has.
LocksGo(c) ==
  \A t \in Tables : holder'[t] # NoCall => holder'[t] = holder[t] /\ holder[t] # c

LEMMA LocksKept ==
  ASSUME TypeOK, LocksInUse, NEW c \in Calls, LocksStay(c) \/ LocksGo(c),
         \A d \in Calls \ {c} : pc'[d] = pc[d] /\ req'[d] = req[d]
  PROVE  LocksInUse'
<1> SUFFICES ASSUME NEW t \in Tables, holder'[t] # NoCall
             PROVE  Locked(holder[t])' /\ Target(holder[t])' = t
  BY DEF LocksInUse
<1>1. holder'[t] = holder[t] /\ Locked(holder[t]) /\ Target(holder[t]) = t
  BY DEF LocksStay, LocksGo, LocksInUse
<1>2. holder[t] \in Calls
  BY <1>1 DEF TypeOK
<1>3. CASE holder[t] = c
  BY <1>1, <1>3 DEF LocksStay, LocksGo, Target, Locked, Pooling
<1>4. CASE holder[t] # c
  BY <1>1, <1>2, <1>4 DEF Target, Locked, Pooling
<1> QED
  BY <1>3, <1>4

\* Unlocking frees all that a call holds, because that is the lock of its table.
LEMMA UnlockedGo ==
  ASSUME TypeOK, LocksInUse, NEW c \in Calls, pc[c] # "idle", holder' = Unlocked(c)
  PROVE  LocksGo(c)
<1>1. Target(c) \in Tables
  BY DEF TypeOK, Target, Request
<1>2. \A t \in Tables : holder[t] = c => t = Target(c)
  BY ConstantsAssumption DEF LocksInUse
<1> QED
  BY <1>1, <1>2, ConstantsAssumption DEF LocksGo, Unlocked, TypeOK

LEMMA LocksStep == TypeOK /\ LocksInUse /\ [Next]_vars => LocksInUse'
<1> SUFFICES ASSUME TypeOK, LocksInUse, [Next]_vars PROVE LocksInUse'
  OBVIOUS
<1>1. CASE UNCHANGED vars
  BY <1>1 DEF vars, gateway, locals, LocksInUse, Locked, Pooling, Target
<1>2. CASE Environment
  BY <1>2 DEF Environment, Tick, Write, Drop, Create, Register, Unregister, gateway, locals,
              LocksInUse, Locked, Pooling, Target
<1>3. ASSUME NEW c \in Calls, Start(c) \/ LockFails(c) PROVE LocksInUse'
  <2>1. /\ UNCHANGED holder /\ ~Locked(c)
        /\ \A d \in Calls \ {c} : pc'[d] = pc[d] /\ req'[d] = req[d]
    <3>1. CASE LockFails(c)
      BY <3>1 DEF LockFails, Goto, gateway, TypeOK, Locked, Pooling
    <3>2. ASSUME NEW t \in Tables, NEW e, PoolRelation(c, t, e) PROVE <2>1!:
      BY <3>2 DEF PoolRelation, Goto, gateway, TypeOK, Locked, Pooling
    <3>3. ASSUME NEW t \in Tables, NEW q \in Questions,
                 AskPartitions(c, t, q.start, q.end, q.fresh)
          PROVE  <2>1!:
      <4>1. pc[c] = "idle" /\ UNCHANGED holder /\ (Goto(c, "lock") \/ Goto(c, "answer"))
        BY <3>3 DEF AskPartitions, gateway
      <4>2. \A d \in Calls \ {c} : req'[d] = req[d]
        BY <3>3 DEF AskPartitions, TypeOK
      <4> QED
        BY <4>1, <4>2 DEF Goto, TypeOK, Locked, Pooling
    <3> QED
      BY <1>3, <3>1, <3>2, <3>3 DEF Start, PoolScheduled
  <2> QED
    BY <2>1, LocksKept DEF LocksStay
<1>4. ASSUME NEW c \in Calls, AcquireLock(c) PROVE LocksInUse'
  <2>1. /\ pc[c] = "lock" /\ holder[Target(c)] = NoCall /\ UNCHANGED req
        /\ holder' = [holder EXCEPT ![Target(c)] = c]
        /\ pc'[c] = "locked" /\ \A d \in Calls \ {c} : pc'[d] = pc[d]
    BY <1>4 DEF AcquireLock, LockFree, Goto, locals, TypeOK
  <2> SUFFICES ASSUME NEW t \in Tables, holder'[t] # NoCall
               PROVE  Locked(holder[t])' /\ Target(holder[t])' = t
    BY DEF LocksInUse
  <2>2. CASE t = Target(c)
    BY <2>1, <2>2 DEF TypeOK, Locked, Target
  <2>3. CASE t # Target(c)
    <3>1. holder'[t] = holder[t] /\ Locked(holder[t]) /\ Target(holder[t]) = t
      BY <2>1, <2>3 DEF TypeOK, LocksInUse
    <3>2. holder[t] \in Calls \ {c}
      BY <2>3, <3>1 DEF TypeOK
    <3> QED
      BY <2>1, <3>1, <3>2 DEF Locked, Pooling, Target
  <2> QED
    BY <2>2, <2>3
<1>5. ASSUME NEW c \in Calls, Progress(c) PROVE LocksInUse'
  <2> USE DEF Goto, TypeOK, gateway, locals, Locked, Pooling, LocksStay
  <2>1. CASE ReadCheckpoint(c)
    BY <2>1, LocksKept DEF ReadCheckpoint
  <2>2. CASE GetTableMeta(c)
    BY <2>2, LocksKept DEF GetTableMeta
  <2>3. CASE EnsureHistory(c)
    BY <2>3, LocksKept DEF EnsureHistory
  <2>4. CASE RunChanges(c) \/ EnableAndRetry(c)
    BY <2>4, LocksKept DEF RunChanges, EnableAndRetry
  <2>5. CASE Commit(c) \/ CommitUnknown(c) \/ PoolRaises(c)
    BY <2>5, LocksKept DEF Commit, CommitUnknown, PoolRaises
  <2>6. CASE Unlock(c)
    <3>1. LocksGo(c)
      BY <2>6, UnlockedGo DEF Unlock
    <3> QED
      BY <2>6, <3>1, LocksKept DEF Unlock
  <2>7. CASE Report(c)
    BY <2>7, LocksKept DEF Report, Forget
  <2>8. CASE Recheck(c) \/ GetAffectedPartitions(c)
    BY <2>8, LocksKept DEF Recheck, GetAffectedPartitions
  <2>9. CASE Respond(c)
    BY <2>9, LocksKept DEF Respond, Forget
  <2> QED
    BY <1>5, <2>1, <2>2, <2>3, <2>4, <2>5, <2>6, <2>7, <2>8, <2>9 DEF Progress
<1>6. ASSUME NEW c \in Calls, Crash(c) PROVE LocksInUse'
  <2>1. LocksGo(c)
    BY <1>6, UnlockedGo DEF Crash
  <2> QED
    BY <1>6, <2>1, LocksKept DEF Crash, Forget, Goto, TypeOK
<1>7. ASSUME NEW c \in Calls, LoseSession(c) PROVE LocksInUse'
  BY <1>7 DEF LoseSession, locals, TypeOK, LocksInUse, Locked, Pooling, Target
<1> QED
  BY <1>1, <1>2, <1>3, <1>4, <1>5, <1>6, <1>7 DEF Next

\* Whatever raises, dies, is cut off or loses its session, a lock is held only by a call that
\* is still at work under it: nobody waits for a lock that nobody will let go.
THEOREM NoLockOutlives == Spec => []LocksInUse
<1>1. Init => LocksInUse
  BY DEF Init, LocksInUse
<1> QED
  BY <1>1, LocksStep, TypeCorrect, PTL DEF Spec

\* No step but a registration enables a table that was disabled.
LEMMA ReenableStep ==
  ASSUME TypeOK, [Next]_vars, NEW t \in Tables,
         registry[t] = "disabled", registry'[t] = "enabled"
  PROVE  Register(t)
<1> USE DEF TypeOK
<1>1. CASE UNCHANGED vars
  BY <1>1 DEF vars, gateway
<1>2. CASE Environment
  <2>1. CASE \/ Tick
             \/ \E u \in Tables : \/ \E p \in Partitions : Write(u, p)
                                  \/ Drop(u)
                                  \/ \E kind \in Kinds \ {"missing"}, on \in BOOLEAN :
                                       Create(u, kind, on)
    BY <2>1 DEF Tick, Write, Drop, Create, gateway
  <2>2. ASSUME NEW u \in Tables, Register(u) PROVE Register(t)
    BY <2>2 DEF Register
  <2>3. ASSUME NEW u \in Tables, Unregister(u) PROVE FALSE
    BY <2>3 DEF Unregister, Disable
  <2> QED
    BY <1>2, <2>1, <2>2, <2>3 DEF Environment
<1>3. ASSUME NEW c \in Calls,
             Start(c) \/ AcquireLock(c) \/ LockFails(c) \/ Crash(c) \/ LoseSession(c)
      PROVE  FALSE
  BY <1>3 DEF Start, PoolScheduled, PoolRelation, AskPartitions, AcquireLock, LockFails,
              Crash, LoseSession, gateway
<1>4. ASSUME NEW c \in Calls, Progress(c) PROVE FALSE
  <2>1. CASE \/ ReadCheckpoint(c) \/ GetTableMeta(c) \/ EnsureHistory(c) \/ RunChanges(c)
             \/ EnableAndRetry(c) \/ PoolRaises(c) \/ Unlock(c) \/ Recheck(c)
             \/ GetAffectedPartitions(c) \/ Respond(c)
    BY <2>1 DEF ReadCheckpoint, GetTableMeta, EnsureHistory, RunChanges, EnableAndRetry,
                PoolRaises, Unlock, Recheck, GetAffectedPartitions, Respond, gateway
  <2>2. CASE Commit(c) \/ CommitUnknown(c)
    BY <2>2 DEF Commit, CommitUnknown, CommitResult, Enrolled
  <2>3. CASE Report(c)
    BY <2>3 DEF Report, Disable
  <2> QED
    BY <1>4, <2>1, <2>2, <2>3 DEF Progress
<1> QED
  BY <1>1, <1>2, <1>3, <1>4 DEF Next

\* A table its owner took off the schedule stays off it until it is registered again, whatever
\* pools are under way.
THEOREM OwnersDecide == Spec => OnlyOwnerReenables
<1>1. TypeOK /\ [Next]_vars =>
        [\A t \in Tables : registry[t] = "disabled" /\ registry'[t] = "enabled"
                           => Register(t)]_vars
  BY ReenableStep
<1> QED
  BY <1>1, TypeCorrect, PTL DEF Spec, OnlyOwnerReenables
=============================================================================
