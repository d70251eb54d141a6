----------------------- MODULE IncrementalExtProofs ------------------------
(***************************************************************************)
(* Proofs about incremental_ext (IncrementalExt), for any number of runs,  *)
(* any models and any lists of variable sets.                              *)
(***************************************************************************)
EXTENDS IncrementalExt, FiniteSetTheorems, WellFoundedInduction, TLAPS

-----------------------------------------------------------------------------
(* Variable sets *)

\* What a run may have been given.
GivenLists == Plans \cup {NoPlan}

\* A plan has the sets of a list.
LEMMA PlansHaveLists ==
  /\ \A p \in Plans : \E l \in Lists : p.sets = l.sets
  /\ \A m \in Models, l \in Lists : Plan(m, l) \in Plans /\ Plan(m, l).sets = l.sets
<1>1. \A m \in Models, l \in Lists : Plan(m, l).sets = l.sets
  BY DEF Plan
<1>2. \A m \in Models, l \in Lists : Plan(m, l) \in Plans
  BY DEF Plans
<1>3. \A p \in Plans : \E m \in Models, l \in Lists : p = Plan(m, l)
  BY DEF Plans
<1> QED
  BY <1>1, <1>2, <1>3

LEMMA GivenSlots ==
  ASSUME NEW l \in GivenLists
  PROVE  /\ DOMAIN l.sets \subseteq Slots /\ DOMAIN l.sets \subseteq Nat
         /\ IsFiniteSet(DOMAIN l.sets)
         /\ \E n \in Nat : DOMAIN l.sets = 1..n
<1>1. PICK n \in 0..MaxSets : DOMAIN l.sets = 1..n
  <2>1. CASE l = NoPlan
    BY <2>1, ExecuteExtAssumption DEF NoPlan
  <2>2. CASE l \in Plans
    BY <2>2, PlansHaveLists, ListsAssumption
  <2> QED
    BY <2>1, <2>2 DEF GivenLists
<1>2. n \in Int /\ 1 \in Int /\ n \in Nat /\ n <= MaxSets
  BY ExecuteExtAssumption
<1>3. IsFiniteSet(1..n)
  BY <1>2, FS_Interval
<1> QED
  BY <1>1, <1>2, <1>3, ExecuteExtAssumption DEF Slots

\* Of the sets with one bucket key the first survives.
LEMMA SurvivorsCover ==
  ASSUME NEW l \in GivenLists, NEW granularity, NEW i \in DOMAIN l.sets
  PROVE  \E j \in Survivors(l.sets, granularity) :
           BucketKey(Sole(l.sets[j]), granularity) = BucketKey(Sole(l.sets[i]), granularity)
<1> DEFINE key(j) == BucketKey(Sole(l.sets[j]), granularity)
           same   == {j \in DOMAIN l.sets : key(j) = key(i)}
<1>0. PICK n \in Nat : DOMAIN l.sets = 1..n
  BY GivenSlots
<1>1. same \subseteq Nat /\ same # {} /\ same \subseteq 1..n
  BY <1>0
<1>2. PICK m \in same : \A j \in same : ~(<<j, m>> \in OpToRel(<, Nat))
  <2> HIDE DEF same
  <2> QED
    BY <1>1, WFMin, NatLessThanWellFounded
<1>3. \A j \in same : ~(j < m)
  BY <1>1, <1>2 DEF OpToRel
<1>4. \A j \in 1..(m - 1) : key(j) # key(m)
  <2> SUFFICES ASSUME NEW j \in 1..(m - 1), key(j) = key(m) PROVE FALSE
    OBVIOUS
  <2>1. j \in 1..n /\ j < m
    BY <1>1
  <2> QED
    BY <1>0, <1>3, <2>1
<1> QED
  BY <1>4 DEF Survivors

\* No two survivors have the same.
LEMMA SurvivorsDiffer ==
  ASSUME NEW l \in GivenLists, NEW granularity,
         NEW i \in Survivors(l.sets, granularity), NEW j \in Survivors(l.sets, granularity), i # j
  PROVE  BucketKey(Sole(l.sets[i]), granularity) # BucketKey(Sole(l.sets[j]), granularity)
<1>1. i \in Nat /\ j \in Nat /\ i >= 1 /\ j >= 1
  BY GivenSlots DEF Survivors
<1>2. i < j \/ j < i
  BY <1>1
<1> QED
  BY <1>1, <1>2 DEF Survivors

\* The values of a set that is given are points in time.
LEMMA SoleValue ==
  ASSUME NEW l \in GivenLists, NEW i \in DOMAIN l.sets
  PROVE  Sole(l.sets[i]).at \in Int /\ Sole(l.sets[i]).offset \in Int
<1>1. PICK k \in Lists : l.sets = k.sets
  BY PlansHaveLists DEF GivenLists, NoPlan
<1>2. (CHOOSE n \in DOMAIN k.sets[i] : TRUE) \in DOMAIN k.sets[i]
  BY <1>1, ListsAssumption
<1> QED
  BY <1>1, <1>2, ListsAssumption DEF Sole

\* In UTC the bucket key is the bucket.
LEMMA KeyIsBucket ==
  ASSUME NEW l \in GivenLists, NEW i \in DOMAIN l.sets, NEW granularity,
         Sole(l.sets[i]).offset = 0
  PROVE  Bucket(Sole(l.sets[i]), granularity) = BucketKey(Sole(l.sets[i]), granularity)
BY SoleValue DEF Bucket, BucketKey

\* No pool exceeds the limit and the sets it has to run.
Sized(size, todo) == size <= MaxWorkerPoolSize \/ size <= Cardinality(todo)

LEMMA PoolSizes ==
  ASSUME NEW requested, ValidPoolSize(requested), NEW count \in Nat \ {0}
  PROVE  /\ PoolSize(requested, count, Threads) \in Nat \ {0}
         /\ \/ PoolSize(requested, count, Threads) <= MaxWorkerPoolSize
            \/ PoolSize(requested, count, Threads) <= count
         /\ requested = 1 => PoolSize(requested, count, Threads) = 1
BY ExecuteExtAssumption
DEF ValidPoolSize, PoolSize, AtMost, AtLeast, AutoWorkerPoolSize, MaxWorkerPoolSize

-----------------------------------------------------------------------------
(* Type correctness *)

Batches == {b \in [sets : {l.sets : l \in GivenLists}, types : {l.types : l \in GivenLists},
                   todo : SUBSET Slots, size : Nat] : Sized(b.size, b.todo)}

NodeStates == {"idle", "resolve", "hooks", "drop", "create", "columns", "main", "batch",
               "post", "docs"} \cup Ended

TypeInv ==
  /\ batch \in [Runs -> Batches]
  /\ worker \in [Runs -> [Slots -> {"none", "queued", "busy", "ok", "error"}]]
  /\ job \in [Runs -> [Slots -> {"none", "live", "emptied", "done", "dead"}]]
  /\ model \in Models /\ listed \in Lists /\ relists \in 0..MaxRelists
  /\ node \in [Runs -> NodeStates]
  /\ refresh \in [Runs -> BOOLEAN]
  /\ plan \in [Runs -> GivenLists]
  /\ table \in {"absent", "view", "table"}
  /\ rows \in [Places -> [Origins -> Nat]]
  /\ checkpoints \subseteq Runs /\ overlapped \in BOOLEAN

LEMMA TypesImplied == TypeInv => ExtTypeOK
<1> SUFFICES ASSUME TypeInv PROVE ExtTypeOK
  OBVIOUS
<1>1. Batches \subseteq [sets : {p.sets : p \in Plans} \cup {<<>>},
                         types : {p.types : p \in Plans} \cup {<<>>},
                         todo : SUBSET Slots, size : Nat]
  BY DEF Batches, GivenLists, NoPlan
<1>2. \A r \in Runs : \/ batch[r].size <= MaxWorkerPoolSize
                     \/ batch[r].size <= Cardinality(batch[r].todo)
  BY DEF TypeInv, Batches, Sized
<1> QED
  BY <1>1, <1>2 DEF TypeInv, ExtTypeOK, GivenLists, NodeStates

LEMMA RowTypes ==
  /\ Nothing \in [Origins -> Nat]
  /\ \A r \in Runs : Only(r) \in [Origins -> Nat] /\ Only(r)[r] = 1
  /\ Only(Old) \in [Origins -> Nat]
BY DEF Nothing, Only, Origins

\* What a batch of a run is made of: a list that was given and the sets of it to run.
Starts(r, l, todo) ==
  /\ l \in GivenLists /\ todo \subseteq DOMAIN l.sets
  /\ \E size \in Nat :
       /\ Sized(size, todo)
       /\ batch' = [batch EXCEPT ![r] = [sets |-> l.sets, types |-> l.types,
                                         todo |-> todo, size |-> size]]
  /\ worker' = [worker EXCEPT ![r] = [i \in Slots |-> IF i \in todo THEN "queued" ELSE "none"]]
  /\ UNCHANGED job

ToRun(r) == IF Overwrites THEN Survivors(plan[r].sets, model.granularity)
                          ELSE DOMAIN Resolved.sets
Given(r) == IF Overwrites THEN plan[r] ELSE Resolved

LEMMA MainStarts ==
  ASSUME TypeInv, NEW r \in Runs, Main(r)
  PROVE  Starts(r, Given(r), ToRun(r))
<1>1. Given(r) \in GivenLists
  BY PlansHaveLists DEF TypeInv, Given, GivenLists, Resolved
<1>2. ToRun(r) \subseteq DOMAIN Given(r).sets
  BY DEF ToRun, Given, Survivors
<1>3. ToRun(r) # {} => Cardinality(ToRun(r)) \in Nat \ {0}
  BY <1>1, <1>2, GivenSlots, FS_Subset, FS_CardinalityType, FS_EmptySet
<1>4. StartBatch(r, Given(r).sets, Given(r).types, ToRun(r), Workers)
  BY DEF Main, Given, ToRun
<1> DEFINE size == IF ToRun(r) = {} THEN 0 ELSE PoolSize(Workers, Cardinality(ToRun(r)), Threads)
<1>5. size \in Nat /\ Sized(size, ToRun(r))
  <2>1. CASE ToRun(r) = {}
    BY <2>1 DEF Sized, MaxWorkerPoolSize
  <2>2. CASE ToRun(r) # {}
    <3>1. ValidPoolSize(Workers)
      BY <1>4, <2>2 DEF StartBatch
    <3>2. Cardinality(ToRun(r)) \in Nat \ {0}
      BY <1>3, <2>2
    <3>3. size = PoolSize(Workers, Cardinality(ToRun(r)), Threads)
      BY <2>2
    <3> QED
      BY <3>1, <3>2, <3>3, PoolSizes DEF Sized
  <2> QED
    BY <2>1, <2>2
<1>6. /\ batch' = [batch EXCEPT ![r] = [sets |-> Given(r).sets, types |-> Given(r).types,
                                       todo |-> ToRun(r), size |-> size]]
      /\ worker' = [worker EXCEPT ![r] =
                      [i \in Slots |-> IF i \in ToRun(r) THEN "queued" ELSE "none"]]
      /\ UNCHANGED job
  BY <1>4 DEF StartBatch
<1> QED
  BY <1>1, <1>2, <1>5, <1>6 DEF Starts

LEMMA MakesBatch ==
  ASSUME NEW l \in GivenLists, NEW todo \in SUBSET Slots, NEW size \in Nat, Sized(size, todo)
  PROVE  [sets |-> l.sets, types |-> l.types, todo |-> todo, size |-> size] \in Batches
BY DEF Batches

LEMMA TypeInit == ExtInit => TypeInv
<1> SUFFICES ASSUME ExtInit PROVE TypeInv
  OBVIOUS
<1>1. NoBatch \in Batches
  <2>1. NoPlan \in GivenLists /\ {} \in SUBSET Slots /\ 0 \in Nat /\ Sized(0, {})
    BY DEF GivenLists, Sized, MaxWorkerPoolSize
  <2>2. [sets |-> NoPlan.sets, types |-> NoPlan.types, todo |-> {}, size |-> 0] \in Batches
    BY <2>1, MakesBatch
  <2> QED
    BY <2>2 DEF NoBatch, NoPlan
<1>2. batch \in [Runs -> Batches]
  BY <1>1 DEF ExtInit, BatchInit
<1>3. rows \in [Places -> [Origins -> Nat]]
  BY RowTypes DEF ExtInit
<1>4. relists \in 0..MaxRelists
  BY IncrementalExtAssumption DEF ExtInit
<1> QED
  BY <1>2, <1>3, <1>4 DEF ExtInit, BatchInit, TypeInv, GivenLists, NodeStates, Holds

LEMMA TypeStep == TypeInv /\ [ExtNext]_extVars => TypeInv'
<1> SUFFICES ASSUME TypeInv, [ExtNext]_extVars PROVE TypeInv'
  OBVIOUS
<1> USE DEF TypeInv, At, Goes, Ended
<1>1. CASE UNCHANGED extVars
  BY <1>1 DEF extVars, batchVars, tableVars
<1>2. ASSUME NEW r \in Runs, Begin(r) \/ Resolve(r) \/ PreHooks(r) \/ Columns(r) PROVE TypeInv'
  <2>1. CASE Begin(r)
    BY <2>1 DEF Begin, NodeStates, batchVars, tableVars
  <2>2. CASE Resolve(r)
    BY <2>2, PlansHaveLists DEF Resolve, Resolved, NodeStates, batchVars, tableVars, GivenLists
  <2>3. CASE PreHooks(r)
    BY <2>3 DEF PreHooks, NodeStates, batchVars, tableVars
  <2>4. CASE Columns(r)
    BY <2>4 DEF Columns, NodeStates, batchVars, tableVars
  <2> QED
    BY <1>2, <2>1, <2>2, <2>3, <2>4
<1>3. ASSUME NEW r \in Runs, DropExisting(r) \/ Create(r) PROVE TypeInv'
  <2>1. CASE DropExisting(r)
    <3>1. rows' \in [Places -> [Origins -> Nat]] /\ table' \in {"absent", "view", "table"}
      BY <2>1, RowTypes DEF DropExisting, tableVars
    <3> QED
      BY <2>1, <3>1 DEF DropExisting, NodeStates, batchVars
  <2>2. CASE Create(r)
    BY <2>2 DEF Create, NodeStates, batchVars
  <2> QED
    BY <1>3, <2>1, <2>2
<1>4. ASSUME NEW r \in Runs, Main(r) PROVE TypeInv'
  <2>1. Starts(r, Given(r), ToRun(r)) /\ ToRun(r) \subseteq Slots
    BY <1>4, MainStarts, GivenSlots DEF Starts
  <2>2. batch' \in [Runs -> Batches]
    <3>1. PICK size \in Nat :
            /\ Sized(size, ToRun(r))
            /\ batch' = [batch EXCEPT ![r] = [sets |-> Given(r).sets, types |-> Given(r).types,
                                              todo |-> ToRun(r), size |-> size]]
      BY <2>1 DEF Starts
    <3>2. [sets |-> Given(r).sets, types |-> Given(r).types,
           todo |-> ToRun(r), size |-> size] \in Batches
      <4>1. Given(r) \in GivenLists /\ ToRun(r) \in SUBSET Slots
        BY <2>1 DEF Starts
      <4> QED
        BY <3>1, <4>1, MakesBatch
    <3>3. \E b \in Batches : batch' = [batch EXCEPT ![r] = b]
      BY <3>1, <3>2
    <3> QED
      BY <3>3
  <2>3. worker' \in [Runs -> [Slots -> {"none", "queued", "busy", "ok", "error"}]]
    BY <2>1 DEF Starts
  <2> QED
    BY <1>4, <2>1, <2>2, <2>3 DEF Starts, Main, NodeStates, tableVars, GivenLists
<1>5. ASSUME NEW r \in Runs, NEW i \in Slots, Worker(r, i) PROVE TypeInv'
  <2>1. CASE Take(r, i)
    BY <1>5, <2>1 DEF Worker, Take, WorkerGoes, tableVars
  <2>2. CASE Submit(r, i)
    <3>1. /\ job' = [job EXCEPT ![r][i] = "live"]
          /\ UNCHANGED <<batch, worker, table, rows, model, listed, relists, node, refresh, plan,
                         checkpoints, overlapped>>
      BY <1>5, <2>2 DEF Worker, Submit, JobGoes, tableVars
    <3> QED
      BY <3>1
  <2>3. CASE Succeeds(r, i) \/ Raises(r, i)
    <3>1. /\ \E state \in {"ok", "error"} : worker' = [worker EXCEPT ![r][i] = state]
          /\ UNCHANGED <<batch, job, table, rows, model, listed, relists, node, refresh, plan,
                         checkpoints, overlapped>>
      BY <1>5, <2>3 DEF Worker, Succeeds, Raises, WorkerGoes, tableVars
    <3> QED
      BY <3>1
  <2> QED
    BY <1>5, <2>1, <2>2, <2>3 DEF Worker, WorkerStep
<1>6. ASSUME NEW r \in Runs, EndMain(r) \/ PostHooks(r) \/ PersistDocs(r) \/ Fails(r) \/ Kill(r)
      PROVE  TypeInv'
  <2>1. CASE EndMain(r) \/ Kill(r)
    <3>1. worker' \in [Runs -> [Slots -> {"none", "queued", "busy", "ok", "error"}]]
      <4>1. worker' = [worker EXCEPT ![r] = [i \in Slots |-> "none"]]
        BY <2>1 DEF EndMain, Kill, PoolGone
      <4>2. [i \in Slots |-> "none"] \in [Slots -> {"none", "queued", "busy", "ok", "error"}]
        OBVIOUS
      <4> QED
        BY <4>1, <4>2
    <3> QED
      BY <2>1, <3>1 DEF EndMain, Kill, NodeStates, tableVars
  <2>2. CASE PostHooks(r)
    BY <2>2 DEF PostHooks, NodeStates, batchVars, tableVars
  <2>3. CASE PersistDocs(r) \/ Fails(r)
    BY <2>3 DEF PersistDocs, Fails, NodeStates, batchVars, tableVars
  <2> QED
    BY <1>6, <2>1, <2>2, <2>3
<1>7. ASSUME NEW r \in Runs, NEW i \in Slots, Apply(r, i) \/ Delete(r, i) \/ Insert(r, i)
      PROVE  TypeInv'
  <2>1. rows' \in [Places -> [Origins -> Nat]]
    <3>1. CASE Apply(r, i)
      BY <3>1, RowTypes DEF Apply
    <3>2. CASE Delete(r, i)
      BY <3>2, RowTypes DEF Delete, Emptied
    <3>3. CASE Insert(r, i)
      <4>1. r \in Origins /\ rows' = [rows EXCEPT ![Target(r, i)][r] = @ + 1]
        BY <3>3 DEF Insert, Origins
      <4>2. \A f \in [Origins -> Nat] : [f EXCEPT ![r] = @ + 1] \in [Origins -> Nat]
        BY <4>1
      <4> QED
        BY <4>1, <4>2
    <3> QED
      BY <1>7, <3>1, <3>2, <3>3
  <2>2. PICK to \in {"emptied", "done"} : \E from : Script(r, i, from, to)
    BY <1>7 DEF Apply, Delete, Insert
  <2> QED
    BY <2>1, <2>2 DEF Script, JobGoes
<1>8. ASSUME NEW r \in Runs, NEW i \in Slots, Break(r, i) PROVE TypeInv'
  BY <1>8 DEF Break, JobGoes, tableVars
<1>9. CASE Relist
  BY <1>9, IncrementalExtAssumption DEF Relist, Holds, batchVars, tableVars
<1> QED
  BY <1>1, <1>2, <1>3, <1>4, <1>5, <1>6, <1>7, <1>8, <1>9 DEF ExtNext, RunStep, BigQuery

\* The types of the variables, in the parts the later proofs need.
LEMMA TypesHold == ExtSpec => []TypeInv
BY TypeInit, TypeStep, PTL DEF ExtSpec

\* Every state of a run is well-typed, and no pool exceeds the limit unless it has a set for
\* each of its workers, whatever size and however many threads were asked for.
THEOREM ExtTypeCorrect == ExtSpec => []ExtTypeOK
BY TypesHold, TypesImplied, PTL

-----------------------------------------------------------------------------
(* Steps, as one run sees them *)

Early == {"idle", "resolve", "hooks", "drop", "create", "columns", "main"}
Open  == Early \ {"idle"}

Keeps(s) ==
  /\ node'[s] = node[s] /\ worker'[s] = worker[s] /\ job'[s] = job[s] /\ batch'[s] = batch[s]
  /\ s \in checkpoints' <=> s \in checkpoints

SameData  == UNCHANGED <<table, rows, overlapped>>
SameJobs(r) == job'[r] = job[r] /\ batch'[r] = batch[r]
SameMarks(r) == r \in checkpoints' <=> r \in checkpoints

\* A run begins, or does what comes before its main statement.
Opens(r) ==
  /\ node[r] = "idle" /\ node'[r] \in Open
  /\ \A q \in 1..(r - 1) : node[q] \in Ended
  /\ overlapped' = (overlapped \/ \E q \in Runs : Alive(q) # {})
  /\ SameJobs(r) /\ SameMarks(r) /\ worker'[r] = worker[r] /\ UNCHANGED <<table, rows>>

Prepares(r) ==
  /\ node[r] \in Open /\ node'[r] \in Open
  /\ SameJobs(r) /\ SameMarks(r) /\ worker'[r] = worker[r] /\ UNCHANGED overlapped
  /\ \/ UNCHANGED <<table, rows>>
     \/ node[r] = "create" /\ table' = "table" /\ UNCHANGED rows
     \/ node[r] = "drop" /\ table' = "absent" /\ rows' = [p \in Places |-> Nothing]

Begun(r) ==
  /\ node[r] = "main" /\ node'[r] = "batch" /\ SameMarks(r) /\ SameData
  /\ Starts(r, Given(r), ToRun(r))

Works(r, i) ==
  /\ node[r] = "batch" /\ node'[r] = "batch" /\ SameMarks(r) /\ SameData
  /\ batch'[r] = batch[r] /\ worker[r][i] # "none"
  /\ \/ /\ job'[r] = job[r]
        /\ \E state \in {"busy", "ok", "error"} :
             /\ worker'[r] = [worker[r] EXCEPT ![i] = state]
             /\ state = "ok" => job[r][i] = "done"
     \/ /\ job[r][i] = "none" /\ worker'[r] = worker[r]
        /\ job'[r] = [job[r] EXCEPT ![i] = "live"]

Finishes(r) ==
  /\ node[r] \notin {"idle"} \cup Ended /\ SameData /\ SameJobs(r)
  /\ \/ /\ node[r] = "batch" /\ node'[r] = "post" /\ SameMarks(r)
        /\ Drained(r) /\ NoErrors(r) /\ \A i \in Slots : worker'[r][i] = "none"
     \/ /\ node[r] = "post" /\ node'[r] \in {"docs", "failed"} /\ r \in checkpoints'
        /\ worker'[r] = worker[r]
     \/ node[r] = "docs" /\ node'[r] = "done" /\ SameMarks(r) /\ worker'[r] = worker[r]
     \/ /\ node'[r] = "failed" /\ SameMarks(r)
        /\ \/ worker'[r] = worker[r] /\ node[r] # "batch"
           \/ \A i \in Slots : worker'[r][i] = "none"

Executes(r, i) ==
  /\ node'[r] = node[r] /\ worker'[r] = worker[r] /\ batch'[r] = batch[r] /\ SameMarks(r)
  /\ UNCHANGED <<table, overlapped>>
  /\ \E to \in {"emptied", "done", "dead"} :
       /\ job'[r] = [job[r] EXCEPT ![i] = to]
       /\ \/ /\ to = "done" /\ job[r][i] = "live" /\ (~Overwrites \/ InTransaction)
             /\ rows' = [rows EXCEPT ![Target(r, i)] = Only(r)]
          \/ /\ to = "emptied" /\ job[r][i] = "live" /\ Overwrites /\ ~InTransaction
             /\ rows' = [rows EXCEPT ![Target(r, i)] = Nothing]
          \/ /\ to = "done" /\ job[r][i] = "emptied"
             /\ rows' = [rows EXCEPT ![Target(r, i)][r] = @ + 1]
          \/ to = "dead" /\ UNCHANGED rows
  /\ (job[r][i] \in {"live", "emptied"} /\ table = "table") \/ UNCHANGED rows
  /\ job[r][i] \in {"live", "emptied"}

StepOf(r) ==
  /\ \A s \in Runs \ {r} : Keeps(s)
  /\ model' = model
  /\ \/ Opens(r) \/ Prepares(r) \/ Begun(r) \/ Finishes(r)
     \/ \E i \in Slots : Works(r, i) \/ Executes(r, i)

Idles == UNCHANGED <<node, batchVars, tableVars, model, checkpoints, overlapped>>

LEMMA Steps == TypeInv /\ [ExtNext]_extVars => Idles \/ \E r \in Runs : StepOf(r)
<1> SUFFICES ASSUME TypeInv, [ExtNext]_extVars PROVE Idles \/ \E r \in Runs : StepOf(r)
  OBVIOUS
<1> USE DEF At, Goes
<1>0. /\ node \in [Runs -> NodeStates]
      /\ worker \in [Runs -> [Slots -> {"none", "queued", "busy", "ok", "error"}]]
      /\ job \in [Runs -> [Slots -> {"none", "live", "emptied", "done", "dead"}]]
      /\ batch \in [Runs -> Batches]
  BY DEF TypeInv
<1>1. CASE UNCHANGED extVars \/ Relist
  BY <1>1 DEF extVars, Relist, Idles
<1>2. ASSUME NEW r \in Runs, Begin(r) PROVE StepOf(r)
  <2>1. Opens(r) /\ \A s \in Runs \ {r} : Keeps(s)
    BY <1>0, <1>2 DEF Begin, Opens, Open, Early, Keeps, SameJobs, SameMarks, batchVars, tableVars
  <2> QED
    BY <1>2, <2>1 DEF StepOf, Begin
<1>3. ASSUME NEW r \in Runs,
             Resolve(r) \/ PreHooks(r) \/ DropExisting(r) \/ Create(r) \/ Columns(r)
      PROVE  StepOf(r)
  <2>1. PICK to \in Open : node[r] \in Open /\ node' = [node EXCEPT ![r] = to]
    BY <1>3 DEF Resolve, PreHooks, DropExisting, Create, Columns, Open, Early
  <2>2. UNCHANGED <<batch, worker, job, model, checkpoints, overlapped>>
    BY <1>3 DEF Resolve, PreHooks, DropExisting, Create, Columns, batchVars
  <2>3. \/ UNCHANGED <<table, rows>>
        \/ node[r] = "create" /\ table' = "table" /\ UNCHANGED rows
        \/ node[r] = "drop" /\ table' = "absent" /\ rows' = [p \in Places |-> Nothing]
    BY <1>3 DEF Resolve, PreHooks, DropExisting, Create, Columns, tableVars
  <2>4. Prepares(r) /\ \A s \in Runs \ {r} : Keeps(s)
    BY <1>0, <2>1, <2>2, <2>3 DEF Prepares, Keeps, SameJobs, SameMarks
  <2> QED
    BY <2>2, <2>4 DEF StepOf
<1>4. ASSUME NEW r \in Runs, Main(r) PROVE StepOf(r)
  <2>1. Starts(r, Given(r), ToRun(r))
    BY <1>4, MainStarts
  <2>2. /\ UNCHANGED <<table, rows, model, checkpoints, overlapped>>
        /\ node[r] = "main" /\ node' = [node EXCEPT ![r] = "batch"]
    BY <1>4 DEF Main, tableVars
  <2>3. \A s \in Runs \ {r} : Keeps(s)
    BY <1>0, <2>1, <2>2 DEF Keeps, Starts
  <2>4. Begun(r)
    BY <1>0, <2>1, <2>2 DEF Begun, SameMarks, SameData
  <2> QED
    BY <2>2, <2>3, <2>4 DEF StepOf
<1>5. ASSUME NEW r \in Runs, NEW i \in Slots, Worker(r, i) PROVE StepOf(r)
  <2>1. /\ UNCHANGED <<batch, table, rows, model, checkpoints, overlapped, node>>
        /\ node[r] = "batch" /\ worker[r][i] # "none"
    BY <1>5 DEF Worker, WorkerStep, Take, Submit, Succeeds, Raises, tableVars
  <2>2. \/ /\ job' = job
           /\ \E state \in {"busy", "ok", "error"} :
                worker' = [worker EXCEPT ![r][i] = state] /\ (state = "ok" => job[r][i] = "done")
        \/ /\ job[r][i] = "none" /\ worker' = worker
           /\ job' = [job EXCEPT ![r][i] = "live"]
    BY <1>5 DEF Worker, WorkerStep, Take, Submit, Succeeds, Raises, Finished, WorkerGoes, JobGoes
  <2>3. \A s \in Runs \ {r} : Keeps(s)
    BY <1>0, <2>1, <2>2 DEF Keeps
  <2>4. Works(r, i)
    BY <1>0, <2>1, <2>2 DEF Works, SameMarks, SameData
  <2> QED
    BY <2>1, <2>3, <2>4 DEF StepOf
<1>6. ASSUME NEW r \in Runs, EndMain(r) \/ PostHooks(r) \/ PersistDocs(r) \/ Fails(r) \/ Kill(r)
      PROVE  StepOf(r)
  <2>1. /\ UNCHANGED <<batch, job, table, rows, model, overlapped>>
        /\ node[r] \notin {"idle"} \cup Ended
    BY <1>6 DEF EndMain, PostHooks, PersistDocs, Fails, Kill, batchVars, tableVars, Ended
  <2>2. /\ worker' \in {worker, [worker EXCEPT ![r] = [i \in Slots |-> "none"]]}
        /\ checkpoints' \in {checkpoints, checkpoints \cup {r}}
        /\ \E to \in NodeStates : node' = [node EXCEPT ![r] = to]
    BY <1>6 DEF EndMain, PostHooks, PersistDocs, Fails, Kill, PoolGone, batchVars, NodeStates, Ended
  <2>3. \A s \in Runs \ {r} : Keeps(s)
    BY <1>0, <2>1, <2>2 DEF Keeps
  <2>4. Finishes(r)
    <3>1. SameJobs(r) /\ SameData
      BY <2>1 DEF SameJobs, SameData
    <3>2. CASE EndMain(r)
      BY <1>0, <2>1, <3>1, <3>2 DEF EndMain, PoolGone, Finishes, SameMarks
    <3>3. CASE PostHooks(r) \/ PersistDocs(r)
      BY <1>0, <2>1, <3>1, <3>3 DEF PostHooks, PersistDocs, Finishes, SameMarks, batchVars
    <3>4. CASE Fails(r) \/ Kill(r)
      BY <1>0, <2>1, <3>1, <3>4 DEF Fails, Kill, PoolGone, Finishes, SameMarks, batchVars
    <3> QED
      BY <1>6, <3>2, <3>3, <3>4
  <2> QED
    BY <2>1, <2>3, <2>4 DEF StepOf
<1>7. ASSUME NEW r \in Runs, NEW i \in Slots,
             Apply(r, i) \/ Delete(r, i) \/ Insert(r, i) \/ Break(r, i)
      PROVE  StepOf(r)
  <2>1. UNCHANGED <<batch, worker, table, model, node, checkpoints, overlapped>>
    BY <1>7 DEF Apply, Delete, Insert, Break, Script, tableVars
  <2>2. \E to \in {"emptied", "done", "dead"} :
          /\ job' = [job EXCEPT ![r][i] = to]
          /\ \/ /\ to = "done" /\ job[r][i] = "live" /\ (~Overwrites \/ InTransaction)
                /\ rows' = [rows EXCEPT ![Target(r, i)] = Only(r)]
             \/ /\ to = "emptied" /\ job[r][i] = "live" /\ Overwrites /\ ~InTransaction
                /\ rows' = [rows EXCEPT ![Target(r, i)] = Nothing]
             \/ /\ to = "done" /\ job[r][i] = "emptied"
                /\ rows' = [rows EXCEPT ![Target(r, i)][r] = @ + 1]
             \/ to = "dead" /\ UNCHANGED rows
    BY <1>7 DEF Apply, Delete, Insert, Break, Script, JobGoes, Emptied, tableVars
  <2>3. /\ job[r][i] \in {"live", "emptied"}
        /\ (job[r][i] \in {"live", "emptied"} /\ table = "table") \/ UNCHANGED rows
    BY <1>7 DEF Apply, Delete, Insert, Break, Script, Alive, tableVars
  <2>4. \A s \in Runs \ {r} : Keeps(s)
    BY <1>0, <2>1, <2>2 DEF Keeps
  <2>5. Executes(r, i)
    BY <1>0, <2>1, <2>2, <2>3 DEF Executes, SameMarks
  <2> QED
    BY <2>1, <2>4, <2>5 DEF StepOf
<1> QED
  BY <1>1, <1>2, <1>3, <1>4, <1>5, <1>6, <1>7 DEF ExtNext, RunStep, BigQuery

-----------------------------------------------------------------------------
(* A bucket that has rows keeps some *)

GoneInv == table # "table" => \A p \in Places : rows[p] = Nothing

LEMMA OnlySome == \A r \in Runs : Only(r) # Nothing
BY RowTypes DEF Nothing, Origins

LEMMA GoneStep ==
  ASSUME TypeInv, GoneInv, NEW r \in Runs, StepOf(r)
  PROVE  GoneInv'
<1>1. CASE Opens(r) \/ Finishes(r) \/ Begun(r)
  BY <1>1 DEF GoneInv, Opens, Finishes, Begun, SameData
<1>2. CASE Prepares(r)
  BY <1>2 DEF GoneInv, Prepares
<1>3. ASSUME NEW i \in Slots, Works(r, i) \/ Executes(r, i) PROVE GoneInv'
  BY <1>3 DEF GoneInv, Works, Executes, SameData
<1> QED
  BY <1>1, <1>2, <1>3 DEF StepOf

\* Unless the mode is scalability, no step of any run takes all the rows of a bucket away,
\* except with the whole table: consistency replaces a bucket as a whole, whatever fails.
THEOREM NeverEmpties == ExtSpec => NeverEmptied
<1>1. ExtInit => GoneInv
  BY DEF ExtInit, GoneInv
<1>2. TypeInv /\ GoneInv /\ [ExtNext]_extVars => GoneInv'
  BY Steps, GoneStep DEF Idles, GoneInv, tableVars
<1>3. TypeInv /\ GoneInv /\ [ExtNext]_extVars =>
        [model.mode # "scalability" /\ table' = table =>
           \A p \in Places : rows[p] # Nothing => rows'[p] # Nothing]_extVars
  <2> SUFFICES ASSUME TypeInv, GoneInv, [ExtNext]_extVars, model.mode # "scalability",
                      table' = table, NEW p \in Places, rows[p] # Nothing
               PROVE  rows'[p] # Nothing
    OBVIOUS
  <2>1. table = "table"
    BY DEF GoneInv
  <2>2. ASSUME NEW r \in Runs, StepOf(r), rows' # rows PROVE rows'[p] # Nothing
    <3>1. PICK i \in Slots : Executes(r, i)
      BY <2>1, <2>2
      DEF StepOf, Opens, Prepares, Begun, Finishes, Works, SameData
    <3>2. model.mode \in {"consistency", "merge"}
      BY IncrementalExtAssumption DEF TypeInv
    <3>3. \/ rows' = [rows EXCEPT ![Target(r, i)] = Only(r)]
          \/ rows' = [rows EXCEPT ![Target(r, i)][r] = @ + 1]
      BY <2>2, <3>1, <3>2 DEF Executes, Overwrites, InTransaction
    <3>4. rows \in [Places -> [Origins -> Nat]] /\ r \in Origins
      BY DEF TypeInv, Origins
    <3>5. CASE rows' = [rows EXCEPT ![Target(r, i)] = Only(r)]
      BY <3>4, <3>5, OnlySome
    <3>6. CASE rows' = [rows EXCEPT ![Target(r, i)][r] = @ + 1]
      <4>1. CASE p = Target(r, i)
        <5>1. rows'[p][r] = rows[p][r] + 1 /\ rows[p][r] \in Nat
          BY <3>4, <3>6, <4>1
        <5>2. rows'[p][r] # 0
          BY <5>1
        <5> QED
          BY <3>4, <5>2 DEF Nothing
      <4>2. CASE p # Target(r, i)
        BY <3>4, <3>6, <4>2
      <4> QED
        BY <4>1, <4>2
    <3> QED
      BY <3>3, <3>5, <3>6
  <2> QED
    BY <2>2, Steps DEF Idles, tableVars
<1> QED
  BY <1>1, <1>2, <1>3, TypesHold, PTL DEF ExtSpec, NeverEmptied

-----------------------------------------------------------------------------
(* Success means that every set was run *)

ToRunOf(sets) == IF Overwrites THEN Survivors(sets, model.granularity) ELSE DOMAIN sets

\* What holds of a run and its workers and scripts.
RunInv(r) ==
  /\ node[r] \in Early => batch[r].sets = <<>> /\ \A i \in Slots : job[r][i] = "none"
  /\ node[r] # "batch" => \A i \in Slots : worker[r][i] = "none"
  /\ batch[r].todo = ToRunOf(batch[r].sets)
  /\ \A i \in Slots : worker[r][i] # "none" \/ job[r][i] # "none" => i \in batch[r].todo
  /\ \A i \in Slots : worker[r][i] = "ok" => job[r][i] = "done"
  /\ node[r] \in {"post", "docs", "done"} \/ r \in checkpoints =>
       \A i \in batch[r].todo : job[r][i] = "done"
  /\ r \in checkpoints => node[r] \in {"docs", "done", "failed"}

LEMMA TodoSlots ==
  ASSUME TypeInv, NEW r \in Runs
  PROVE  /\ batch[r].todo \subseteq Slots
         /\ \E l \in GivenLists : batch[r].sets = l.sets
         /\ node[r] \in NodeStates
         /\ worker[r] \in [Slots -> {"none", "queued", "busy", "ok", "error"}]
         /\ job[r] \in [Slots -> {"none", "live", "emptied", "done", "dead"}]
BY DEF TypeInv, Batches

LEMMA RunKept ==
  ASSUME NEW s \in Runs, RunInv(s), Keeps(s), model' = model PROVE RunInv(s)'
BY DEF RunInv, Keeps, ToRunOf, Overwrites

LEMMA RunStepKeeps ==
  ASSUME TypeInv, NEW r \in Runs, RunInv(r), StepOf(r) PROVE RunInv(r)'
<1>0. /\ batch[r].todo \subseteq Slots
      /\ worker[r] \in [Slots -> {"none", "queued", "busy", "ok", "error"}]
      /\ job[r] \in [Slots -> {"none", "live", "emptied", "done", "dead"}]
  BY TodoSlots
<1>a. batch'[r] = batch[r] => ToRunOf(batch[r].sets)' = ToRunOf(batch[r].sets)
  BY DEF StepOf, ToRunOf, Overwrites
<1>1. CASE Opens(r) \/ Prepares(r)
  BY <1>1, <1>a DEF RunInv, Opens, Prepares, Open, Early, SameJobs, SameMarks
<1>2. CASE Begun(r)
  <2>1. /\ batch'[r].sets = Given(r).sets /\ batch'[r].todo = ToRun(r)
        /\ worker'[r] = [i \in Slots |-> IF i \in ToRun(r) THEN "queued" ELSE "none"]
        /\ job' = job
    <3>1. batch \in [Runs -> Batches] /\ worker \in [Runs -> [Slots -> {"none", "queued", "busy", "ok", "error"}]]
      BY DEF TypeInv
    <3> QED
      BY <1>2, <3>1 DEF Begun, Starts
  <2>2. ToRunOf(batch[r].sets)' = ToRun(r)
    BY <2>1 DEF ToRunOf, ToRun, Given, Overwrites, StepOf
  <2>3. r \notin checkpoints' /\ node'[r] = "batch" /\ \A i \in Slots : job[r][i] = "none"
    BY <1>2 DEF RunInv, Begun, SameMarks, Early
  <2> QED
    BY <2>1, <2>2, <2>3 DEF RunInv, Early
<1>3. ASSUME NEW i \in Slots, Works(r, i) PROVE RunInv(r)'
  <2>1. /\ i \in batch[r].todo /\ r \notin checkpoints' /\ node'[r] = "batch"
        /\ batch'[r] = batch[r]
    BY <1>3 DEF RunInv, Works, SameMarks
  <2>2. CASE job'[r] = job[r]
    BY <1>0, <1>3, <1>a, <2>1, <2>2 DEF RunInv, Works, Early
  <2>3. CASE job[r][i] = "none" /\ worker'[r] = worker[r] /\ job'[r] = [job[r] EXCEPT ![i] = "live"]
    BY <1>0, <1>a, <2>1, <2>3 DEF RunInv, Early
  <2> QED
    BY <1>3, <2>2, <2>3 DEF Works
<1>4. CASE Finishes(r)
  <2>1. batch'[r] = batch[r] /\ job'[r] = job[r] /\ node'[r] \notin Early
        /\ node'[r] # "batch" /\ node[r] # "idle" /\ node[r] \notin Ended
    BY <1>4 DEF Finishes, SameJobs, Early
  <2>2. ASSUME node[r] = "batch", node'[r] = "post"
        PROVE  \A i \in batch[r].todo : job[r][i] = "done"
    <3>1. Drained(r) /\ NoErrors(r)
      BY <1>4, <2>2 DEF Finishes
    <3> QED
      BY <1>0, <3>1 DEF Drained, NoErrors, RunInv
  <2>3. node'[r] \in {"post", "docs", "done"} \/ r \in checkpoints' =>
          \A i \in batch[r].todo : job[r][i] = "done"
    BY <1>4, <2>2 DEF Finishes, RunInv, SameMarks
  <2>4. r \in checkpoints' => node'[r] \in {"docs", "done", "failed"}
    BY <1>4 DEF Finishes, RunInv, SameMarks
  <2>5. \A i \in Slots : worker'[r][i] = "none"
    BY <1>4 DEF Finishes, RunInv
  <2> QED
    BY <1>0, <1>a, <2>1, <2>3, <2>4, <2>5 DEF RunInv
<1>5. ASSUME NEW i \in Slots, Executes(r, i) PROVE RunInv(r)'
  <2>1. /\ node'[r] = node[r] /\ worker'[r] = worker[r] /\ batch'[r] = batch[r]
        /\ SameMarks(r) /\ job[r][i] \in {"live", "emptied"}
    BY <1>5 DEF Executes
  <2>2. PICK to \in {"emptied", "done", "dead"} : job'[r] = [job[r] EXCEPT ![i] = to]
    BY <1>5 DEF Executes
  <2>3. i \in batch[r].todo /\ worker[r][i] # "ok" /\ node[r] \notin Early
    BY <2>1 DEF RunInv
  <2>4. node[r] \notin {"post", "docs", "done"} /\ r \notin checkpoints
    BY <2>1, <2>3 DEF RunInv
  <2> QED
    BY <1>0, <1>a, <2>1, <2>2, <2>3, <2>4 DEF RunInv, SameMarks
<1> QED
  BY <1>1, <1>2, <1>3, <1>4, <1>5 DEF StepOf

RunsInv == \A r \in Runs : RunInv(r)

\* What a run under way has resolved and what its batch has submitted, taken and answered.
LEMMA RunsHold == ExtSpec => []RunsInv
<1>1. ExtInit => RunsInv
  <2> SUFFICES ASSUME ExtInit, NEW r \in Runs PROVE RunInv(r)
    BY DEF RunsInv
  <2>1. batch[r].sets = <<>> /\ batch[r].todo = {} /\ node[r] = "idle" /\ checkpoints = {}
    BY DEF ExtInit, BatchInit, NoBatch
  <2>2. \A i \in Slots : worker[r][i] = "none" /\ job[r][i] = "none"
    BY DEF ExtInit, BatchInit
  <2>3. ToRunOf(<<>>) = {}
    BY DEF ToRunOf, Survivors
  <2> QED
    BY <2>1, <2>2, <2>3 DEF RunInv
<1>2. TypeInv /\ RunsInv /\ [ExtNext]_extVars => RunsInv'
  <2> SUFFICES ASSUME TypeInv, RunsInv, [ExtNext]_extVars, NEW s \in Runs PROVE RunInv(s)'
    BY DEF RunsInv
  <2>1. CASE Idles
    BY <2>1, RunKept DEF Idles, Keeps, RunsInv, batchVars
  <2>2. ASSUME NEW r \in Runs, StepOf(r) PROVE RunInv(s)'
    <3>1. CASE s = r
      BY <2>2, <3>1, RunStepKeeps DEF RunsInv
    <3>2. CASE s # r
      BY <2>2, <3>2, RunKept DEF RunsInv, StepOf
    <3> QED
      BY <3>1, <3>2
  <2> QED
    BY <2>1, <2>2, Steps
<1> QED
  BY <1>1, <1>2, TypesHold, PTL DEF ExtSpec

\* The places of a batch in UTC.
LEMMA TargetsCovered ==
  ASSUME TypeInv, NEW r \in Runs, RunInv(r), InUTC(r), NEW i \in DOMAIN batch[r].sets
  PROVE  \E j \in batch[r].todo : Target(r, j) = Target(r, i)
<1>1. CASE ~Overwrites
  BY <1>1 DEF RunInv, ToRunOf
<1>2. CASE Overwrites
  <2>1. PICK l \in GivenLists : batch[r].sets = l.sets
    BY TodoSlots
  <2>2. PICK j \in batch[r].todo :
          BucketKey(Sole(l.sets[j]), model.granularity) = BucketKey(Sole(l.sets[i]), model.granularity)
    BY <1>2, <2>1, SurvivorsCover DEF RunInv, ToRunOf
  <2>3. j \in DOMAIN l.sets
    BY <1>2, <2>1, <2>2 DEF RunInv, ToRunOf, Survivors
  <2>4. Sole(l.sets[j]).offset = 0 /\ Sole(l.sets[i]).offset = 0
    BY <1>2, <2>1, <2>3 DEF InUTC
  <2>5. Bucket(Sole(l.sets[j]), model.granularity) = Bucket(Sole(l.sets[i]), model.granularity)
    BY <2>1, <2>2, <2>3, <2>4, KeyIsBucket
  <2> QED
    BY <1>2, <2>1, <2>5 DEF Target, Place
<1> QED
  BY <1>1, <1>2

LEMMA TargetsDiffer ==
  ASSUME TypeInv, NEW r \in Runs, RunInv(r), InUTC(r), Overwrites,
         NEW i \in batch[r].todo, NEW j \in batch[r].todo, i # j
  PROVE  Target(r, i) # Target(r, j)
<1>1. PICK l \in GivenLists : batch[r].sets = l.sets
  BY TodoSlots
<1>2. i \in Survivors(l.sets, model.granularity) /\ j \in Survivors(l.sets, model.granularity)
  BY <1>1 DEF RunInv, ToRunOf
<1>3. i \in DOMAIN l.sets /\ j \in DOMAIN l.sets
  BY <1>2 DEF Survivors
<1>4. Sole(l.sets[j]).offset = 0 /\ Sole(l.sets[i]).offset = 0
  BY <1>1, <1>3 DEF InUTC
<1>5. Bucket(Sole(l.sets[i]), model.granularity) # Bucket(Sole(l.sets[j]), model.granularity)
  BY <1>2, <1>3, <1>4, SurvivorsDiffer, KeyIsBucket
<1> QED
  BY <1>1, <1>5 DEF Target, Place

LEMMA TargetsArePlaces ==
  ASSUME TypeInv, NEW r \in Runs, RunInv(r), NEW i \in batch[r].todo
  PROVE  Target(r, i) \in Places
<1>1. PICK l \in GivenLists : batch[r].sets = l.sets
  BY TodoSlots
<1>2. i \in DOMAIN l.sets
  BY <1>1 DEF RunInv, ToRunOf, Survivors
<1>3. PICK k \in Lists : l.sets = k.sets
  BY <1>2, PlansHaveLists DEF GivenLists, NoPlan
<1>4. model \in Models
  BY DEF TypeInv
<1> QED
  BY <1>1, <1>2, <1>3, <1>4, ListsAssumption DEF Target, Place

\* A run that has recorded a checkpoint has applied, for every set it was given, a script of
\* that set's place.
THEOREM CheckpointsCover == ExtSpec => []CheckpointCoversSets
<1>1. TypeInv /\ RunsInv => CheckpointCoversSets
  <2> SUFFICES ASSUME TypeInv, RunsInv, NEW r \in checkpoints, InUTC(r),
                      NEW i \in DOMAIN batch[r].sets
               PROVE  \E j \in batch[r].todo : Target(r, j) = Target(r, i) /\ job[r][j] = "done"
    BY DEF CheckpointCoversSets
  <2>1. r \in Runs
    BY DEF TypeInv
  <2>2. RunInv(r)
    BY <2>1 DEF RunsInv
  <2>3. PICK j \in batch[r].todo : Target(r, j) = Target(r, i)
    BY <2>1, <2>2, TargetsCovered
  <2> QED
    BY <2>2, <2>3 DEF RunInv
<1> QED
  BY <1>1, TypesHold, RunsHold, PTL

\* No two scripts of one run are alive in the same bucket.
THEOREM BucketsDoNot == ExtSpec => []BucketsDoNotRace
<1>1. TypeInv /\ RunsInv => BucketsDoNotRace
  <2> SUFFICES ASSUME TypeInv, RunsInv, Overwrites, NEW r \in Runs, InUTC(r),
                      NEW i \in Alive(r), NEW j \in Alive(r), i # j
               PROVE  Target(r, i) # Target(r, j)
    BY DEF BucketsDoNotRace
  <2>1. RunInv(r)
    BY DEF RunsInv
  <2>2. i \in batch[r].todo /\ j \in batch[r].todo
    BY <2>1 DEF Alive, RunInv
  <2> QED
    BY <2>1, <2>2, TargetsDiffer
<1> QED
  BY <1>1, TypesHold, RunsHold, PTL

-----------------------------------------------------------------------------
(* One run at a time *)

\* A run begins when the earlier ones are over; unless scripts of theirs were left alive, the
\* only scripts there are from then on are its own.
SequenceInv ==
  \A q, r \in Runs : q < r =>
    /\ node[r] # "idle" => node[q] \in Ended
    /\ ~overlapped /\ Alive(q) # {} => node[r] = "idle"

LEMMA SequenceStep ==
  ASSUME TypeInv, RunsInv, SequenceInv, NEW t \in Runs, StepOf(t)
  PROVE  SequenceInv'
<1> SUFFICES ASSUME NEW q \in Runs, NEW r \in Runs, q < r
             PROVE  /\ node'[r] # "idle" => node'[q] \in Ended
                    /\ ~overlapped' /\ Alive(q)' # {} => node'[r] = "idle"
  BY DEF SequenceInv
<1>0. /\ q \in Nat /\ r \in Nat /\ q >= 1
      /\ \A s \in Runs : s # t => Keeps(s)
      /\ node[r] # "idle" => node[q] \in Ended
      /\ ~overlapped /\ Alive(q) # {} => node[r] = "idle"
      /\ ~overlapped' => ~overlapped
  <2>1. ~overlapped' => ~overlapped
    BY DEF StepOf, Opens, Prepares, Begun, Finishes, Works, Executes, SameData
  <2> QED
    BY <2>1, ExecuteExtAssumption DEF Runs, SequenceInv, StepOf
<1>1. ASSUME Opens(t) PROVE /\ node'[r] # "idle" => node'[q] \in Ended
                            /\ ~overlapped' /\ Alive(q)' # {} => node'[r] = "idle"
  <2>1. \A s \in Runs : Alive(s)' = Alive(s)
    BY <1>0, <1>1 DEF Opens, Keeps, SameJobs, Alive
  <2>2. node'[q] \in Ended \/ node'[r] = "idle"
    <3>1. CASE r = t
      BY <1>0, <1>1, <3>1 DEF Opens, Keeps
    <3>2. CASE r # t /\ q = t
      BY <1>0, <1>1, <3>2 DEF Opens, Keeps, Ended
    <3>3. CASE r # t /\ q # t
      BY <1>0, <3>3 DEF Keeps
    <3> QED
      BY <3>1, <3>2, <3>3
  <2>3. ~overlapped' => Alive(q) = {}
    BY <1>1 DEF Opens
  <2> QED
    BY <2>1, <2>2, <2>3
<1>2. ASSUME ~Opens(t) PROVE /\ node'[r] # "idle" => node'[q] \in Ended
                             /\ ~overlapped' /\ Alive(q)' # {} => node'[r] = "idle"
  <2>1. node[t] \notin {"idle"} \cup Ended \/ node'[t] = node[t]
    BY <1>2 DEF StepOf, Prepares, Begun, Finishes, Works, Executes, Open, Early, Ended
  <2>2. node'[t] # "idle" \/ node'[t] = node[t]
    BY <1>2 DEF StepOf, Prepares, Begun, Finishes, Works, Executes, Open, Early
  <2>3. node[r] # "idle" <=> node'[r] # "idle"
    BY <1>0, <2>1, <2>2 DEF Keeps
  <2>4. node[q] \in Ended => node'[q] \in Ended
    BY <1>0, <2>1 DEF Keeps
  <2>5. ASSUME Alive(q)' # {}, Alive(q) = {} PROVE node[r] = "idle"
    <3>1. q = t
      BY <1>0, <2>5 DEF Keeps, Alive
    <3>2. node[t] = "batch"
      <4>1. job'[t] # job[t]
        BY <2>5, <3>1 DEF Alive
      <4>2. ASSUME NEW i \in Slots, Executes(t, i) PROVE Alive(t) # {}
        BY <4>2 DEF Executes, Alive
      <4>3. ASSUME Begun(t) PROVE job' = job
        BY <4>3 DEF Begun, Starts
      <4> QED
        BY <1>2, <2>5, <3>1, <4>1, <4>2, <4>3
        DEF StepOf, Prepares, Finishes, Works, SameJobs
    <3> QED
      BY <1>0, <3>1, <3>2 DEF Ended
  <2> QED
    BY <1>0, <2>3, <2>4, <2>5
<1> QED
  BY <1>1, <1>2

\* Where the statements of the runs stand to one another: the order RowsOnce rests on.
LEMMA SequenceHolds == ExtSpec => []SequenceInv
<1>1. ExtInit => SequenceInv
  BY DEF ExtInit, SequenceInv
<1>2. TypeInv /\ RunsInv /\ SequenceInv /\ [ExtNext]_extVars => SequenceInv'
  <2> SUFFICES ASSUME TypeInv, RunsInv, SequenceInv, [ExtNext]_extVars PROVE SequenceInv'
    OBVIOUS
  <2>1. CASE Idles
    BY <2>1 DEF Idles, SequenceInv, Alive, batchVars
  <2> QED
    BY <2>1, Steps, SequenceStep
<1> QED
  BY <1>1, <1>2, TypesHold, RunsHold, PTL DEF ExtSpec

-----------------------------------------------------------------------------
(* What the places hold *)

SteadyInv == model.mode # "scalability" => \A r \in Runs, i \in Slots : job[r][i] # "emptied"

\* A place that a script has emptied stays empty until it inserts.
Clean(r) == \A i \in Slots : job[r][i] = "emptied" => rows[Target(r, i)] = Nothing

\* A place that a script of the current run is done with holds what it computed.
Filled(r) ==
  node[r] \in {"batch", "post"} =>
    \A i \in batch[r].todo : job[r][i] = "done" => rows[Target(r, i)] = Only(r)

PlacesInv == \A r \in Runs : ~overlapped /\ InUTC(r) => Clean(r) /\ Filled(r)

LEMMA StepsBack ==
  ASSUME RunsInv, NEW t \in Runs, StepOf(t), NEW r \in Runs
  PROVE  /\ ~overlapped' => ~overlapped
         /\ InUTC(r)' => InUTC(r)
         /\ batch'[r] = batch[r] => \A i : Target(r, i)' = Target(r, i)
<1>1. ~overlapped' => ~overlapped
  BY DEF StepOf, Opens, Prepares, Begun, Finishes, Works, Executes, SameData
<1>2. model' = model
  BY DEF StepOf
<1>3. CASE batch'[r] = batch[r]
  BY <1>1, <1>2, <1>3 DEF InUTC, Overwrites, Target, Place
<1>4. CASE batch'[r] # batch[r]
  <2>1. r = t /\ Begun(t)
    BY <1>4 DEF StepOf, Keeps, Opens, Prepares, Finishes, Works, Executes, SameJobs
  <2>2. batch[r].sets = <<>>
    BY <2>1 DEF Begun, RunsInv, RunInv, Early
  <2> QED
    BY <1>1, <1>4, <2>2 DEF InUTC
<1> QED
  BY <1>3, <1>4

\* While a script of a run is at work no other run is.
LEMMA ScriptsAlone ==
  ASSUME TypeInv, RunsInv, SequenceInv, ~overlapped, NEW t \in Runs, Alive(t) # {},
         NEW r \in Runs, r # t
  PROVE  Alive(r) = {} /\ node[r] \notin {"batch", "post"}
<1>1. node[t] # "idle" /\ (Alive(r) # {} => node[r] # "idle")
  BY DEF RunsInv, RunInv, Alive, Early
<1>2. r < t \/ t < r
  BY ExecuteExtAssumption DEF Runs
<1> QED
  BY <1>1, <1>2 DEF SequenceInv, Ended

LEMMA SteadyStep ==
  ASSUME TypeInv, SteadyInv, NEW t \in Runs, StepOf(t) PROVE SteadyInv'
<1> SUFFICES ASSUME model.mode # "scalability", NEW r \in Runs, NEW i \in Slots
             PROVE  job'[r][i] # "emptied"
  BY DEF SteadyInv, StepOf
<1>0. job[r][i] # "emptied"
  BY DEF SteadyInv
<1>1. CASE r # t
  BY <1>0, <1>1 DEF StepOf, Keeps
<1>2. ASSUME r = t, NEW k \in Slots, Executes(t, k) PROVE job'[r][i] # "emptied"
  <2>1. model.mode \in {"consistency", "merge"}
    BY IncrementalExtAssumption DEF TypeInv
  <2>2. ~Overwrites \/ InTransaction
    BY <2>1 DEF Overwrites, InTransaction
  <2>3. job[t] \in [Slots -> {"none", "live", "emptied", "done", "dead"}]
    BY TodoSlots
  <2>4. PICK to \in {"done", "dead"} : job'[t] = [job[t] EXCEPT ![k] = to]
    BY <1>2, <2>2 DEF Executes
  <2> QED
    BY <1>0, <1>2, <2>3, <2>4
<1>3. ASSUME r = t, NEW k \in Slots, Works(t, k) PROVE job'[r][i] # "emptied"
  <2>1. job[t] \in [Slots -> {"none", "live", "emptied", "done", "dead"}]
    BY TodoSlots
  <2> QED
    BY <1>0, <1>3, <2>1 DEF Works
<1>4. CASE r = t /\ (Opens(t) \/ Prepares(t) \/ Begun(t) \/ Finishes(t))
  BY <1>0, <1>4 DEF Opens, Prepares, Begun, Finishes, SameJobs, Starts
<1> QED
  BY <1>1, <1>2, <1>3, <1>4 DEF StepOf

LEMMA PlacesStep ==
  ASSUME TypeInv, RunsInv, SequenceInv, SteadyInv, PlacesInv, NEW t \in Runs, StepOf(t)
  PROVE  PlacesInv'
<1> SUFFICES ASSUME NEW r \in Runs, ~overlapped', InUTC(r)'
             PROVE  Clean(r)' /\ Filled(r)'
  BY DEF PlacesInv
<1>0. /\ ~overlapped /\ InUTC(r) /\ RunInv(r)
      /\ batch'[r] = batch[r] => \A i : Target(r, i)' = Target(r, i)
      /\ \A i \in Slots : job[r][i] = "emptied" => rows[Target(r, i)] = Nothing
      /\ node[r] \in {"batch", "post"} =>
           \A i \in batch[r].todo : job[r][i] = "done" => rows[Target(r, i)] = Only(r)
  BY StepsBack DEF PlacesInv, Clean, Filled, RunsInv
<1>a. /\ batch[r].todo \subseteq Slots
      /\ job[r] \in [Slots -> {"none", "live", "emptied", "done", "dead"}]
      /\ rows \in [Places -> [Origins -> Nat]]
      /\ \A i \in batch[r].todo : Target(r, i) \in Places
  BY <1>0, TodoSlots, TargetsArePlaces DEF TypeInv
<1>1. CASE Opens(t) \/ Finishes(t)
  <2>1. rows' = rows /\ job'[r] = job[r] /\ batch'[r] = batch[r]
    BY <1>1 DEF StepOf, Keeps, Opens, Finishes, SameData, SameJobs
  <2>2. node'[r] \in {"batch", "post"} => node[r] \in {"batch", "post"}
    BY <1>1 DEF StepOf, Keeps, Opens, Finishes, Open, Early
  <2> QED
    BY <1>0, <2>1, <2>2 DEF Clean, Filled
<1>2. CASE Begun(t)
  <2>1. CASE r = t
    <3>1. \A i \in Slots : job'[r][i] = "none"
      BY <1>0, <1>2, <2>1 DEF Begun, Starts, RunInv, Early
    <3>2. batch'[r].todo \subseteq Slots
      <4>1. Given(t) \in GivenLists /\ ToRun(t) \subseteq DOMAIN Given(t).sets
        BY <1>2 DEF Begun, Starts
      <4>2. batch'[r].todo = ToRun(t)
        <5>1. batch \in [Runs -> Batches]
          BY DEF TypeInv
        <5> QED
          BY <1>2, <2>1, <5>1 DEF Begun, Starts
      <4> QED
        BY <4>1, <4>2, GivenSlots
    <3> QED
      BY <3>1, <3>2 DEF Clean, Filled
  <2>2. CASE r # t
    BY <1>0, <1>2, <2>2 DEF StepOf, Keeps, Begun, SameData, Clean, Filled
  <2> QED
    BY <2>1, <2>2
<1>3. CASE Prepares(t)
  <2>1. job'[r] = job[r] /\ batch'[r] = batch[r]
    BY <1>3 DEF StepOf, Keeps, Prepares, SameJobs
  <2>2. CASE rows' = rows
    BY <1>0, <1>3, <2>1, <2>2 DEF StepOf, Keeps, Prepares, Open, Early, Clean, Filled
  <2>3. CASE rows' = [p \in Places |-> Nothing]
    <3>1. node'[r] \notin {"batch", "post"}
      <4>1. CASE r = t
        BY <1>3, <4>1 DEF Prepares, Open, Early
      <4>2. CASE r # t
        <5>1. r < t \/ t < r
          BY <4>2, ExecuteExtAssumption DEF Runs
        <5> QED
          BY <1>3, <4>2, <5>1 DEF SequenceInv, Prepares, Open, Early, Ended, StepOf, Keeps
      <4> QED
        BY <4>1, <4>2
    <3>2. \A i \in Slots : job[r][i] = "emptied" => i \in batch[r].todo
      BY <1>0 DEF RunInv
    <3> QED
      BY <1>0, <1>a, <2>1, <2>3, <3>1, <3>2 DEF Clean, Filled
  <2> QED
    BY <1>3, <2>2, <2>3 DEF Prepares
<1>4. ASSUME NEW k \in Slots, Works(t, k)
      PROVE  Clean(r)' /\ Filled(r)'
  <2>1. rows' = rows /\ batch'[r] = batch[r] /\ node'[r] = node[r]
    BY <1>4 DEF StepOf, Keeps, Works, SameData
  <2>2. \A i \in Slots : job'[r][i] \in {"emptied", "done"} => job'[r][i] = job[r][i]
    BY <1>4, <1>a DEF StepOf, Keeps, Works
  <2> QED
    BY <1>0, <1>a, <2>1, <2>2 DEF Clean, Filled
<1>5. ASSUME NEW k \in Slots, Executes(t, k)
      PROVE  Clean(r)' /\ Filled(r)'
  <2>0. Alive(t) # {} /\ batch'[r] = batch[r] /\ node'[r] = node[r]
    BY <1>5 DEF Executes, Alive, StepOf, Keeps
  <2>1. CASE r # t
    <3>1. Alive(r) = {} /\ node[r] \notin {"batch", "post"} /\ job'[r] = job[r]
      BY <1>0, <2>0, <2>1, ScriptsAlone DEF StepOf, Keeps
    <3> QED
      BY <2>0, <3>1 DEF Alive, Clean, Filled
  <2>2. CASE r = t
    <3> DEFINE T == Target(r, k)
    <3>0. /\ k \in batch[r].todo /\ T \in Places
          /\ \A i \in Slots : job[r][i] # "none" => i \in batch[r].todo
      BY <1>0, <1>5, <1>a, <2>2 DEF Executes, RunInv
    <3>a. Overwrites => \A i \in batch[r].todo : i # k => Target(r, i) # T
      BY <1>0, <3>0, TargetsDiffer
    <3>b. \A i \in batch[r].todo : Target(r, i) \in Places
      BY <1>a
    <3>1. PICK to \in {"emptied", "done", "dead"} :
            /\ job'[r] = [job[r] EXCEPT ![k] = to]
            /\ \/ /\ to = "done" /\ job[r][k] = "live" /\ (~Overwrites \/ InTransaction)
                  /\ rows' = [rows EXCEPT ![T] = Only(r)]
               \/ /\ to = "emptied" /\ job[r][k] = "live" /\ Overwrites /\ ~InTransaction
                  /\ rows' = [rows EXCEPT ![T] = Nothing]
               \/ /\ to = "done" /\ job[r][k] = "emptied"
                  /\ rows' = [rows EXCEPT ![T][r] = @ + 1]
               \/ to = "dead" /\ UNCHANGED rows
      BY <1>5, <2>2 DEF Executes
    <3>2. /\ job'[r][k] = to
          /\ \A i \in Slots : i # k => job'[r][i] = job[r][i]
      BY <1>a, <3>1
    <3> HIDE DEF T
    <3>3. CASE to = "done" /\ (~Overwrites \/ InTransaction) /\ rows' = [rows EXCEPT ![T] = Only(r)]
      <4>1. \A i \in Slots : job[r][i] # "emptied"
        BY <3>3 DEF SteadyInv, Overwrites, InTransaction
      <4>2. \A p \in Places : rows'[p] = IF p = T THEN Only(r) ELSE rows[p]
        BY <1>a, <3>3
      <4>3. Target(r, k) = T
        BY DEF T
      <4> QED
        <5>1. Clean(r)'
          BY <3>2, <3>3, <4>1 DEF Clean
        <5>2. Filled(r)'
          BY <1>0, <1>a, <2>0, <3>b, <3>2, <4>2, <4>3 DEF Filled
        <5> QED
          BY <5>1, <5>2
    <3>4. CASE to = "emptied" /\ Overwrites /\ rows' = [rows EXCEPT ![T] = Nothing]
      <4>1. \A p \in Places : rows'[p] = IF p = T THEN Nothing ELSE rows[p]
        BY <1>a, <3>4
      <4>2. Target(r, k) = T
        BY DEF T
      <4> QED
        <5>1. Clean(r)'
          BY <1>0, <2>0, <3>0, <3>b, <3>2, <4>1, <4>2 DEF Clean
        <5>2. Filled(r)'
          BY <1>0, <1>a, <2>0, <3>a, <3>b, <3>2, <3>4, <4>1, <4>2 DEF Filled
        <5> QED
          BY <5>1, <5>2
    <3>5. CASE to = "done" /\ job[r][k] = "emptied" /\ rows' = [rows EXCEPT ![T][r] = @ + 1]
      <4>1. Overwrites
        BY <3>5 DEF SteadyInv, Overwrites
      <4>2. Target(r, k) = T
        BY DEF T
      <4>3. rows[T] = Nothing
        BY <1>0, <3>5, <4>2
      <4>4. rows'[T] = Only(r)
        <5>1. rows'[T] = [Nothing EXCEPT ![r] = Nothing[r] + 1]
          BY <1>a, <3>0, <3>5, <4>3
        <5>2. Nothing[r] + 1 = 1
          BY DEF Nothing, Origins
        <5> QED
          BY <5>1, <5>2 DEF Only
      <4>5. \A p \in Places : p # T => rows'[p] = rows[p]
        BY <1>a, <3>5
      <4> QED
        <5>1. Clean(r)'
          BY <1>0, <2>0, <3>0, <3>a, <3>b, <3>2, <3>5, <4>1, <4>5 DEF Clean
        <5>2. Filled(r)'
          BY <1>0, <1>a, <2>0, <3>a, <3>b, <3>2, <4>1, <4>2, <4>4, <4>5 DEF Filled
        <5> QED
          BY <5>1, <5>2
    <3>6. CASE to = "dead" /\ rows' = rows
      BY <1>0, <1>a, <2>0, <3>0, <3>2, <3>6 DEF Clean, Filled
    <3> QED
      BY <3>1, <3>3, <3>4, <3>5, <3>6
  <2> QED
    BY <2>1, <2>2
<1> QED
  BY <1>1, <1>2, <1>3, <1>4, <1>5 DEF StepOf

LEMMA PlacesIdle ==
  ASSUME Idles, SteadyInv, PlacesInv, RowsOnce PROVE (SteadyInv /\ PlacesInv /\ RowsOnce)'
<1>1. /\ UNCHANGED <<node, batch, worker, job, table, rows, model, checkpoints, overlapped>>
      /\ \A r : InUTC(r)' <=> InUTC(r)
      /\ \A r, i : Target(r, i)' = Target(r, i)
  BY DEF Idles, batchVars, tableVars, InUTC, Overwrites, Target, Place
<1>2. SteadyInv'
  BY <1>1 DEF SteadyInv
<1>3. PlacesInv'
  BY <1>1 DEF PlacesInv, Clean, Filled
<1>4. RowsOnce'
  BY <1>1 DEF RowsOnce
<1> QED
  BY <1>2, <1>3, <1>4

LEMMA OnceStep ==
  ASSUME TypeInv, RunsInv, SteadyInv, PlacesInv, RowsOnce, NEW t \in Runs, StepOf(t)
  PROVE  RowsOnce'
<1> DEFINE Good == {Nothing} \cup {Only(o) : o \in Origins}
<1> SUFFICES ASSUME (~(overlapped /\ model.mode = "scalability"))',
                    \A r \in Runs : InUTC(r)', NEW p \in Places
             PROVE  rows'[p] \in Good
  BY DEF RowsOnce
<1>0. rows[p] \in Good /\ rows \in [Places -> [Origins -> Nat]] /\ t \in Origins
  <2>1. \A r \in Runs : InUTC(r)
    BY StepsBack
  <2>2. ~(overlapped /\ model.mode = "scalability")
    BY StepsBack DEF StepOf
  <2> QED
    BY <2>1, <2>2 DEF RowsOnce, TypeInv, Origins
<1>1. CASE rows' = rows
  BY <1>0, <1>1
<1>2. CASE rows' = [q \in Places |-> Nothing]
  BY <1>2
<1>3. ASSUME NEW k \in Slots, Executes(t, k), rows' # rows PROVE rows'[p] \in Good
  <2>1. CASE \E new \in Good : rows' = [rows EXCEPT ![Target(t, k)] = new]
    <3> HIDE DEF Good
    <3> QED
      BY <1>0, <2>1
  <2>2. CASE job[t][k] = "emptied" /\ rows' = [rows EXCEPT ![Target(t, k)][t] = @ + 1]
    <3>1. model.mode = "scalability"
      BY <2>2 DEF SteadyInv
    <3>2. ~overlapped /\ InUTC(t)
      BY <3>1, StepsBack DEF StepOf
    <3>3. rows[Target(t, k)] = Nothing
      BY <2>2, <3>2 DEF PlacesInv, Clean
    <3>4. CASE p = Target(t, k)
      <4>1. rows'[p] = [Nothing EXCEPT ![t] = Nothing[t] + 1]
        BY <1>0, <2>2, <3>3, <3>4
      <4>2. Nothing[t] + 1 = 1
        BY DEF Nothing, Origins
      <4>3. rows'[p] = Only(t)
        BY <4>1, <4>2 DEF Only
      <4> QED
        BY <1>0, <4>3
    <3>5. CASE p # Target(t, k)
      <4>1. rows'[p] = rows[p]
        BY <1>0, <2>2, <3>5
      <4> QED
        BY <1>0, <4>1
    <3> QED
      BY <3>4, <3>5
  <2>3. Only(t) \in Good /\ Nothing \in Good
    BY <1>0
  <2> HIDE DEF Good
  <2> QED
    BY <1>3, <2>1, <2>2, <2>3 DEF Executes
<1> QED
  BY <1>1, <1>2, <1>3
  DEF StepOf, Opens, Prepares, Begun, Finishes, Works, SameData

\* What the places hold while a script of this run or of an earlier one may be at work.
LEMMA PlacesHold == ExtSpec => [](SteadyInv /\ PlacesInv /\ RowsOnce)
<1>1. ExtInit => SteadyInv /\ PlacesInv /\ RowsOnce
  <2> SUFFICES ASSUME ExtInit PROVE SteadyInv /\ PlacesInv /\ RowsOnce
    OBVIOUS
  <2>1. \A r \in Runs, i \in Slots : job[r][i] = "none"
    BY DEF ExtInit, BatchInit
  <2>2. \A r \in Runs : node[r] = "idle"
    BY DEF ExtInit
  <2>3. \A p \in Places : rows[p] \in {Only(Old), Nothing}
    BY DEF ExtInit
  <2>4. RowsOnce
    BY <2>3 DEF RowsOnce, Origins
  <2> QED
    BY <2>1, <2>2, <2>4 DEF SteadyInv, PlacesInv, Clean, Filled
<1>2. TypeInv /\ RunsInv /\ SequenceInv /\ (SteadyInv /\ PlacesInv /\ RowsOnce)
      /\ [ExtNext]_extVars => (SteadyInv /\ PlacesInv /\ RowsOnce)'
  <2> SUFFICES ASSUME TypeInv, RunsInv, SequenceInv, SteadyInv, PlacesInv, RowsOnce,
                      [ExtNext]_extVars
               PROVE  (SteadyInv /\ PlacesInv /\ RowsOnce)'
    OBVIOUS
  <2>1. CASE Idles
    BY <2>1, PlacesIdle
  <2>2. ASSUME NEW t \in Runs, StepOf(t) PROVE (SteadyInv /\ PlacesInv /\ RowsOnce)'
    BY <2>2, SteadyStep, PlacesStep, OnceStep
  <2> QED
    BY <2>1, <2>2, Steps
<1> QED
  BY <1>1, <1>2, TypesHold, RunsHold, SequenceHolds, PTL DEF ExtSpec

\* No place ever holds rows twice or of two runs; in mode scalability, unless a run began
\* while a script of an earlier one was alive.
THEOREM RowsAreThereOnce == ExtSpec => []RowsOnce
BY PlacesHold, PTL

\* When execute_ext has succeeded, the places of all its sets hold what this run computed and
\* nothing else, whatever runs failed before.
THEOREM SuccessHasReplaced == ExtSpec => []SuccessReplaces
<1>1. TypeInv /\ RunsInv /\ PlacesInv => SuccessReplaces
  <2> SUFFICES ASSUME TypeInv, RunsInv, PlacesInv, NEW r \in Runs, node[r] = "post",
                      ~overlapped, InUTC(r), NEW i \in DOMAIN batch[r].sets
               PROVE  rows[Target(r, i)] = Only(r)
    BY DEF SuccessReplaces, At
  <2>1. RunInv(r)
    BY DEF RunsInv
  <2>2. PICK j \in batch[r].todo : Target(r, j) = Target(r, i)
    BY <2>1, TargetsCovered
  <2>3. job[r][j] = "done"
    BY <2>1, <2>2 DEF RunInv
  <2>4. rows[Target(r, j)] = Only(r)
    BY <2>2, <2>3 DEF PlacesInv, Filled
  <2> QED
    BY <2>2, <2>4
<1> QED
  BY <1>1, TypesHold, RunsHold, PlacesHold, PTL

-----------------------------------------------------------------------------
(* The pool goes on *)

\* The pool of a batch with sets to run has a worker, one with a set each, and every set has
\* been queued.
PoolInv(r) ==
  node[r] = "batch" =>
    /\ batch[r].todo # {} => batch[r].size > 0
    /\ InTransaction => batch[r].size <= 1
    /\ \A i \in batch[r].todo : worker[r][i] # "none"
    /\ Cardinality(InState(r, "busy")) <= batch[r].size

LEMMA BusyFinite ==
  ASSUME NEW r \in Runs
  PROVE  IsFiniteSet(InState(r, "busy")) /\ Cardinality(InState(r, "busy")) \in Nat
<1>1. IsFiniteSet(Slots)
  BY FS_Interval, ExecuteExtAssumption DEF Slots
<1> QED
  BY <1>1, FS_Subset, FS_CardinalityType DEF InState

\* Nothing outside the main statement touches a batch that is under way.
LEMMA PoolKept ==
  ASSUME NEW r \in Runs, PoolInv(r), model' = model, batch'[r] = batch[r],
         worker'[r] = worker[r], node'[r] = "batch" => node[r] = "batch"
  PROVE  PoolInv(r)'
BY DEF PoolInv, InTransaction, InState

LEMMA PoolStarts ==
  ASSUME TypeInv, NEW r \in Runs, Main(r)
  PROVE  PoolInv(r)'
<1>1. batch \in [Runs -> Batches]
      /\ worker \in [Runs -> [Slots -> {"none", "queued", "busy", "ok", "error"}]]
  BY DEF TypeInv
<1>2. Given(r) \in GivenLists /\ ToRun(r) \subseteq DOMAIN Given(r).sets
  BY PlansHaveLists DEF TypeInv, Given, GivenLists, ToRun, Survivors, Resolved
<1>3. IsFiniteSet(ToRun(r)) /\ ToRun(r) \subseteq Slots
  BY <1>2, GivenSlots, FS_Subset
<1>4. StartBatch(r, Given(r).sets, Given(r).types, ToRun(r), Workers)
  BY DEF Main, Given, ToRun
<1>5. /\ batch'[r].todo = ToRun(r)
      /\ batch'[r].size = IF ToRun(r) = {} THEN 0
                          ELSE PoolSize(Workers, Cardinality(ToRun(r)), Threads)
      /\ worker'[r] = [i \in Slots |-> IF i \in ToRun(r) THEN "queued" ELSE "none"]
  BY <1>1, <1>4 DEF StartBatch
<1>6. ToRun(r) # {} => Cardinality(ToRun(r)) \in Nat \ {0}
  BY <1>3, FS_CardinalityType, FS_EmptySet
<1>7. /\ ToRun(r) # {} => batch'[r].size > 0
      /\ InTransaction => batch'[r].size <= 1
      /\ batch'[r].size >= 0
  <2>1. InTransaction => Workers = 1
    BY DEF InTransaction, Workers
  <2>2. ToRun(r) # {} => ValidPoolSize(Workers)
    BY <1>4 DEF StartBatch
  <2>3. CASE ToRun(r) = {}
    BY <1>5, <2>3
  <2>4. CASE ToRun(r) # {}
    <3> DEFINE size == PoolSize(Workers, Cardinality(ToRun(r)), Threads)
    <3>1. size \in Nat /\ size > 0 /\ (InTransaction => size = 1)
      BY <1>6, <2>1, <2>2, <2>4, PoolSizes
    <3>2. batch'[r].size = size
      BY <1>5, <2>4
    <3> QED
      BY <3>1, <3>2
  <2> QED
    BY <2>3, <2>4
<1>8. Cardinality(InState(r, "busy")') = 0
  <2>1. InState(r, "busy")' = {}
    BY <1>5 DEF InState
  <2> QED
    BY <2>1, FS_EmptySet
<1>9. InTransaction' <=> InTransaction
  BY DEF Main, InTransaction
<1> QED
  BY <1>3, <1>5, <1>7, <1>8, <1>9 DEF PoolInv

LEMMA PoolWorks ==
  ASSUME TypeInv, NEW r \in Runs, PoolInv(r), NEW i \in Slots, Worker(r, i)
  PROVE  PoolInv(r)'
<1>0. /\ worker \in [Runs -> [Slots -> {"none", "queued", "busy", "ok", "error"}]]
      /\ batch[r].todo \subseteq Slots /\ batch[r].size \in Nat
  BY DEF TypeInv, Batches
<1>1. /\ node[r] = "batch" /\ batch' = batch /\ model' = model
  BY DEF Worker, WorkerStep, Take, Submit, Succeeds, Raises, At
<1>2. \/ worker' = worker
      \/ \E state \in {"busy", "ok", "error"} : worker' = [worker EXCEPT ![r][i] = state]
  BY DEF Worker, WorkerStep, Take, Submit, Succeeds, Raises, WorkerGoes
<1>3. \A j \in batch[r].todo : worker'[r][j] # "none"
  BY <1>0, <1>1, <1>2 DEF PoolInv
<1>4. Cardinality(InState(r, "busy")') <= batch[r].size
  <2>1. CASE Take(r, i)
    <3>1. InState(r, "busy")' = InState(r, "busy") \cup {i} /\ i \notin InState(r, "busy")
      BY <1>0, <2>1 DEF Take, WorkerGoes, InState
    <3>2. Cardinality(InState(r, "busy")') = Cardinality(InState(r, "busy")) + 1
      BY <3>1, BusyFinite, FS_AddElement
    <3>3. Cardinality(InState(r, "busy")) < batch[r].size
      BY <2>1 DEF Take
    <3> QED
      BY <1>0, <3>2, <3>3, BusyFinite
  <2>2. CASE Submit(r, i) \/ Succeeds(r, i) \/ Raises(r, i)
    <3>1. InState(r, "busy")' \subseteq InState(r, "busy")
      BY <1>0, <2>2 DEF Submit, Succeeds, Raises, WorkerGoes, InState
    <3>2. Cardinality(InState(r, "busy")') <= Cardinality(InState(r, "busy"))
      BY <3>1, BusyFinite, FS_Subset
    <3>3. Cardinality(InState(r, "busy")') \in Nat
      BY <3>1, BusyFinite, FS_Subset, FS_CardinalityType
    <3> QED
      BY <1>0, <1>1, <3>2, <3>3, BusyFinite DEF PoolInv
  <2> QED
    BY <2>1, <2>2 DEF Worker, WorkerStep
<1> QED
  BY <1>1, <1>3, <1>4 DEF PoolInv, InTransaction

LEMMA PoolStep ==
  TypeInv /\ (\A r \in Runs : PoolInv(r)) /\ [ExtNext]_extVars => (\A r \in Runs : PoolInv(r))'
<1> SUFFICES ASSUME TypeInv, \A r \in Runs : PoolInv(r), [ExtNext]_extVars, NEW s \in Runs
             PROVE  PoolInv(s)'
  OBVIOUS
<1>0. /\ node \in [Runs -> NodeStates]
      /\ worker \in [Runs -> [Slots -> {"none", "queued", "busy", "ok", "error"}]]
      /\ batch \in [Runs -> Batches]
  BY DEF TypeInv
<1>1. CASE UNCHANGED extVars \/ Relist \/ BigQuery
  <2>1. UNCHANGED <<batch, worker, node, model>>
    BY <1>1 DEF extVars, batchVars, Relist, BigQuery, Apply, Delete, Insert, Break, Script
  <2> QED
    BY <2>1, PoolKept
<1>2. ASSUME NEW r \in Runs,
             \/ Begin(r) \/ Resolve(r) \/ PreHooks(r) \/ DropExisting(r) \/ Create(r)
             \/ Columns(r) \/ PostHooks(r) \/ PersistDocs(r) \/ Fails(r)
      PROVE  PoolInv(s)'
  <2>1. UNCHANGED <<batch, worker, model>> /\ (node'[s] = "batch" => node[s] = "batch")
    BY <1>0, <1>2 DEF Begin, Resolve, PreHooks, DropExisting, Create, Columns, PostHooks,
                      PersistDocs, Fails, Goes, batchVars
  <2> QED
    BY <2>1, PoolKept
<1>3. ASSUME NEW r \in Runs, Main(r) PROVE PoolInv(s)'
  <2>1. CASE s = r
    BY <1>3, <2>1, PoolStarts
  <2>2. CASE s # r
    <3>1. batch'[s] = batch[s] /\ worker'[s] = worker[s] /\ node'[s] = node[s] /\ model' = model
      BY <1>0, <1>3, <2>2 DEF Main, StartBatch, Goes
    <3> QED
      BY <3>1, PoolKept
  <2> QED
    BY <2>1, <2>2
<1>4. ASSUME NEW r \in Runs, NEW i \in Slots, Worker(r, i) PROVE PoolInv(s)'
  <2>1. CASE s = r
    BY <1>4, <2>1, PoolWorks
  <2>2. CASE s # r
    <3>1. batch' = batch /\ worker'[s] = worker[s] /\ node' = node /\ model' = model
      BY <1>0, <1>4, <2>2 DEF Worker, WorkerStep, Take, Submit, Succeeds, Raises, WorkerGoes
    <3> QED
      BY <3>1, PoolKept
  <2> QED
    BY <2>1, <2>2
<1>5. ASSUME NEW r \in Runs, EndMain(r) \/ Kill(r) PROVE PoolInv(s)'
  <2>1. CASE s = r
    <3>1. node'[s] # "batch"
      BY <1>0, <1>5, <2>1 DEF EndMain, Kill, Goes
    <3> QED
      BY <3>1 DEF PoolInv
  <2>2. CASE s # r
    <3>1. batch' = batch /\ worker'[s] = worker[s] /\ node'[s] = node[s] /\ model' = model
      BY <1>0, <1>5, <2>2 DEF EndMain, Kill, PoolGone, Goes
    <3> QED
      BY <3>1, PoolKept
  <2> QED
    BY <2>1, <2>2
<1> QED
  BY <1>1, <1>2, <1>3, <1>4, <1>5 DEF ExtNext, RunStep

\* For any models, lists, threads and bounds: a batch that is not over has a worker at work, or
\* a free one and a set for it; and in mode consistency no more than one works at a time.
THEOREM PoolsGoOn == ExtSpec => []PoolGoesOn
<1>1. ExtInit => \A r \in Runs : PoolInv(r)
  BY DEF ExtInit, PoolInv
<1>2. TypeInv /\ (\A r \in Runs : PoolInv(r)) => PoolGoesOn
  <2> SUFFICES ASSUME TypeInv, NEW r \in Runs, PoolInv(r), node[r] = "batch"
               PROVE  /\ \/ Drained(r) \/ InState(r, "busy") # {}
                         \/ InState(r, "queued") # {} /\ batch[r].size > 0
                      /\ Cardinality(InState(r, "busy")) <=
                           IF InTransaction THEN 1 ELSE batch[r].size
    BY DEF PoolGoesOn, At
  <2>1. /\ worker[r] \in [Slots -> {"none", "queued", "busy", "ok", "error"}]
        /\ batch[r].todo \subseteq Slots /\ batch[r].size \in Nat
    BY DEF TypeInv, Batches
  <2>2. Cardinality(InState(r, "busy")) <= IF InTransaction THEN 1 ELSE batch[r].size
    BY <2>1, BusyFinite DEF PoolInv
  <2>3. ASSUME NEW i \in batch[r].todo, worker[r][i] \notin {"ok", "error"}
        PROVE  InState(r, "busy") # {} \/ (InState(r, "queued") # {} /\ batch[r].size > 0)
    BY <2>1, <2>3 DEF PoolInv, InState
  <2> QED
    BY <2>2, <2>3 DEF Drained
<1> QED
  BY <1>1, <1>2, PoolStep, TypesHold, PTL DEF ExtSpec

=============================================================================
