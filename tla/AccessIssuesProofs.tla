------------------------- MODULE AccessIssuesProofs -------------------------
(***************************************************************************)
(* Proofs about AccessIssues for any numbers of handlers, threads, tables  *)
(* and entries, and any number of changes by the owners.                   *)
(***************************************************************************)
EXTENDS AccessIssues, TLAPS

-----------------------------------------------------------------------------
(* Types *)

LEMMA OnTypes ==
  /\ \A e \in Entries : On(e) \in Resources
  /\ \A t \in Threads : On(t) = "dataset"
  /\ Needs \subseteq Entries
BY PrincipalsAssumption DEF On, Resources, Entries, Needs

LEMMA OpenIssuesTypes ==
  ASSUME AccessTypeOK, NEW needs, OpenIssues(needs)
  PROVE  /\ issue' \in [Needs -> {"absent", "open", "resolved"}]
         /\ \A n \in Needs : issue'[n] = issue[n] \/ issue'[n] = "open"
BY DEF OpenIssues, AccessTypeOK

\* The list a grant puts back.
LEMMA PutTypes ==
  ASSUME AccessTypeOK, NEW p \in Granters, PutAcl(p)
  PROVE  /\ acl' \in [Resources -> SUBSET Entries] /\ etag' \in [Resources -> Nat]
         /\ writer' \in [Resources -> Granters \cup {Owner}] /\ revoked' = revoked
<1>1. want[p] \in Entries /\ On(want[p]) \in Resources
  BY OnTypes DEF AccessTypeOK
<1>2. copy[p].list \cup {want[p]} \in SUBSET Entries
  BY <1>1 DEF AccessTypeOK
<1> QED
  BY <1>1, <1>2 DEF PutAcl, AccessTypeOK

LEMMA AccessTypeStep == AccessTypeOK /\ [AccessNext]_accessVars => AccessTypeOK'
<1> SUFFICES ASSUME AccessTypeOK, [AccessNext]_accessVars PROVE AccessTypeOK'
  OBVIOUS
<1> USE DEF lists, granting, replies
<1>1. ASSUME NEW e \in Entries, OwnerWrites(e) PROVE AccessTypeOK'
  <2>1. On(e) \in Resources
    BY OnTypes
  <2> QED
    BY <1>1, <2>1 DEF OwnerWrites, AccessTypeOK
<1>2. ASSUME NEW h \in Handlers, Grant(h) PROVE AccessTypeOK'
  <2>1. CASE BeginGrant(h)
    <3>1. want[h] \in Needs
      BY DEF AccessTypeOK
    <3>2. PICK known \in {FALSE, issue[want[h]] # "absent"} :
            resolves' = [resolves EXCEPT ![h].issue = known]
      BY <2>1 DEF BeginGrant
    <3>3. known \in BOOLEAN
      BY <3>2, Zenon
    <3>4. resolves' \in [Handlers -> [issue : BOOLEAN, retry : BOOLEAN, done : BOOLEAN]]
      BY <3>2, <3>3 DEF AccessTypeOK
    <3> QED
      BY <2>1, <3>4 DEF BeginGrant, Goes, AccessTypeOK
  <2>2. ASSUME NEW ok \in BOOLEAN, AfterProbe(h, ok) PROVE AccessTypeOK'
    <3>1. resolves' \in [Handlers -> [issue : BOOLEAN, retry : BOOLEAN, done : BOOLEAN]]
      BY <2>2 DEF AfterProbe, AccessTypeOK
    <3>2. PICK label \in {"retrying", "resolving", "denied"} : pc' = [pc EXCEPT ![h] = label]
      BY <2>2 DEF AfterProbe, Goes
    <3> QED
      BY <2>2, <3>1, <3>2 DEF AfterProbe, AccessTypeOK
  <2>3. CASE Retry(h)
    <3>1. resolves' \in [Handlers -> [issue : BOOLEAN, retry : BOOLEAN, done : BOOLEAN]]
      BY ZenonT(60), <2>3 DEF Retry, AccessTypeOK
    <3> QED
      BY <2>3, <3>1 DEF Retry, Goes, AccessTypeOK
  <2>4. CASE RetryFails(h)
    BY <2>4, OpenIssuesTypes DEF RetryFails, Goes, AccessTypeOK
  <2>5. CASE Resolve(h)
    BY <2>5 DEF Resolve, Goes, AccessTypeOK
  <2> QED
    BY <1>2, <2>1, <2>2, <2>3, <2>4, <2>5 DEF Grant, Probe, ProbeFails
<1>3. ASSUME NEW t \in Threads, BeginThread(t) PROVE AccessTypeOK'
  BY <1>3 DEF BeginThread, Goes, AccessTypeOK
<1>4. ASSUME NEW p \in Granters, Access(p) PROVE AccessTypeOK'
  <2>1. CASE ReadAcl(p)
    <3>1. On(want[p]) \in Resources
      BY OnTypes DEF AccessTypeOK
    <3>2. copy' \in [Granters -> [list : SUBSET Entries, tag : Nat]]
      BY <2>1, <3>1 DEF ReadAcl, AccessTypeOK
    <3> QED
      BY <2>1, <3>2 DEF ReadAcl, Granted, Goes, AccessTypeOK
  <2>2. CASE WriteAcl(p)
    BY <2>2, PutTypes DEF WriteAcl, Granted, Goes, AccessTypeOK
  <2>3. CASE WriteConflicts(p)
    BY <2>3 DEF WriteConflicts, Refusal, Goes, AccessTypeOK
  <2>4. CASE GrantFails(p)
    BY <2>4, PutTypes DEF GrantFails, Refusal, Goes, AccessTypeOK
  <2> QED
    BY <1>4, <2>1, <2>2, <2>3, <2>4 DEF Access
<1>5. ASSUME NEW h \in Registrars, RegisterOther(h) \/ \E t \in Tables : Upserts(h, t)
      PROVE  AccessTypeOK'
  <2>1. CASE Preview(h) \/ Registered(h)
    BY <2>1 DEF Preview, Registered, Status, AccessTypeOK
  <2>2. CASE PreviewFails(h)
    BY <2>2, OpenIssuesTypes DEF PreviewFails, AccessTypeOK
  <2>3. ASSUME NEW t \in Tables, Upserts(h, t) PROVE AccessTypeOK'
    BY <2>3 DEF Upserts, RegisterTable, RegisterUnheard, AccessTypeOK
  <2>4. ASSUME NEW t \in Tables, RegisterFails(h, t) PROVE AccessTypeOK'
    BY <2>4, OpenIssuesTypes DEF RegisterFails, AccessTypeOK
  <2> QED
    BY <1>5, <2>1, <2>2, <2>3, <2>4 DEF RegisterOther
<1>6. CASE UNCHANGED accessVars
  BY <1>6 DEF accessVars, AccessTypeOK
<1>7. ASSUME NEW n \in Needs, Denied(n) PROVE AccessTypeOK'
  BY <1>7, OpenIssuesTypes DEF Denied, AccessTypeOK
<1> QED
  BY <1>1, <1>2, <1>3, <1>4, <1>5, <1>6, <1>7 DEF AccessNext

LEMMA AccessInitTypes == AccessInit => AccessTypeOK
<1> SUFFICES ASSUME AccessInit PROVE AccessTypeOK
  OBVIOUS
<1>1. resolves \in [Handlers -> [issue : BOOLEAN, retry : BOOLEAN, done : BOOLEAN]]
  BY DEF AccessInit
<1>2. copy \in [Granters -> [list : SUBSET Entries, tag : Nat]]
  BY DEF AccessInit
<1>3. writer \in [Resources -> Granters \cup {Owner}] /\ revoked \subseteq Entries
  BY DEF AccessInit
<1> QED
  BY <1>1, <1>2, <1>3 DEF AccessInit, AccessTypeOK

\* Type correctness of the permission handlers and the adapter's grants.
THEOREM AccessTypeCorrect == AccessSpec => []AccessTypeOK
<1> QED
  BY AccessInitTypes, AccessTypeStep, PTL DEF AccessSpec

-----------------------------------------------------------------------------
(* Lists: what a writer read is what is there, as long as the etag matches *)

CopyInv ==
  \A p \in Granters : pc[p] = "writing" =>
    /\ copy[p].tag <= etag[On(want[p])]
    /\ copy[p].tag = etag[On(want[p])] => copy[p].list = acl[On(want[p])]

\* A list that changes gets another version, and only an owner takes entries away.
ListSteps ==
  \A x \in Resources :
    /\ \/ acl'[x] = acl[x] /\ etag'[x] = etag[x]
       \/ etag'[x] = etag[x] + 1
    /\ acl[x] \cup revoked \subseteq acl'[x] \cup revoked'
    /\ acl'[x] # acl[x] /\ writer'[x] # Owner => acl'[x] = acl[x] \cup {want[writer'[x]]}

LEMMA PutSteps ==
  ASSUME AccessTypeOK, CopyInv, NEW p \in Granters, pc[p] = "writing", PutAcl(p)
  PROVE  ListSteps
<1>1. On(want[p]) \in Resources /\ want[p] \in Entries
  BY OnTypes DEF AccessTypeOK
<1>2. copy[p].list = acl[On(want[p])]
  BY DEF CopyInv, PutAcl, Matches
<1> QED
  BY <1>1, <1>2 DEF PutAcl, ListSteps, AccessTypeOK

LEMMA SameLists == UNCHANGED lists => ListSteps
BY DEF lists, ListSteps

LEMMA OwnerSteps ==
  ASSUME AccessTypeOK, NEW e \in Entries, OwnerWrites(e)
  PROVE  ListSteps
<1>1. On(e) \in Resources
  BY OnTypes
<1> QED
  BY <1>1 DEF OwnerWrites, ListSteps, AccessTypeOK

LEMMA ListsStep == AccessTypeOK /\ CopyInv /\ [AccessNext]_accessVars => ListSteps
<1> SUFFICES ASSUME AccessTypeOK, CopyInv, [AccessNext]_accessVars PROVE ListSteps
  OBVIOUS
<1>1. ASSUME NEW h \in Handlers, Grant(h) PROVE UNCHANGED lists
  BY <1>1 DEF Grant, BeginGrant, Probe, ProbeFails, AfterProbe, Retry, RetryFails, Resolve
<1>2. ASSUME NEW t \in Threads, BeginThread(t) PROVE UNCHANGED lists
  BY <1>2 DEF BeginThread
<1>3. ASSUME NEW p \in Granters, Access(p) PROVE ListSteps
  <2>1. UNCHANGED lists \/ (pc[p] = "writing" /\ PutAcl(p))
    BY <1>3 DEF Access, ReadAcl, WriteAcl, WriteConflicts, GrantFails
  <2> QED
    BY <2>1, PutSteps, SameLists
<1>4. ASSUME NEW h \in Registrars, RegisterOther(h) \/ \E t \in Tables : Upserts(h, t)
      PROVE  UNCHANGED lists
  BY <1>4 DEF RegisterOther, Upserts, RegisterTable, RegisterUnheard, Preview, PreviewFails,
              Registered, RegisterFails
<1>5. CASE UNCHANGED accessVars
  BY <1>5, SameLists DEF accessVars
<1> QED
  BY <1>1, <1>2, <1>3, <1>4, <1>5, OwnerSteps, SameLists DEF AccessNext, Denied

\* Where a granter goes in one step, and what it read.
GranterSteps ==
  /\ want' = want
  /\ \A p \in Granters :
       \/ pc'[p] = pc[p] /\ copy'[p] = copy[p]
       \/ pc'[p] \in {"reading", "refused", "denied"}
       \/ /\ pc'[p] = "writing" /\ UNCHANGED lists
          /\ copy'[p] = [list |-> acl[On(want[p])], tag |-> etag[On(want[p])]]
       \/ /\ pc'[p] \in {"probing", "granted"}
          /\ want[p] \in acl'[On(want[p])]
       \/ /\ pc[p] \in {"probing", "retrying", "resolving"} /\ UNCHANGED lists
          /\ pc'[p] \in {"retrying", "resolving", "granted"}

LEMMA GranterStep == AccessTypeOK /\ [AccessNext]_accessVars => GranterSteps
<1> SUFFICES ASSUME AccessTypeOK, [AccessNext]_accessVars PROVE GranterSteps
  OBVIOUS
<1> USE DEF granting, GranterSteps, Goes
<1>1. ASSUME NEW h \in Handlers, Grant(h) PROVE GranterSteps
  <2> h \in Granters
    BY DEF Granters
  <2> USE DEF AccessTypeOK
  <2>1. CASE BeginGrant(h)
    BY <2>1 DEF BeginGrant
  <2>2. ASSUME NEW ok \in BOOLEAN, pc[h] = "probing", AfterProbe(h, ok) PROVE GranterSteps
    BY <2>2 DEF AfterProbe
  <2>3. CASE Retry(h)
    BY <2>3 DEF Retry
  <2>4. CASE RetryFails(h)
    BY <2>4 DEF RetryFails
  <2>5. CASE Resolve(h)
    BY <2>5 DEF Resolve
  <2> QED
    BY <1>1, <2>1, <2>2, <2>3, <2>4, <2>5 DEF Grant, Probe, ProbeFails
<1>2. ASSUME NEW t \in Threads, BeginThread(t) PROVE GranterSteps
  BY <1>2 DEF BeginThread, AccessTypeOK, Granters
<1>3. ASSUME NEW p \in Granters, Access(p) PROVE GranterSteps
  <2>0. On(want[p]) \in Resources
    BY OnTypes DEF AccessTypeOK
  <2>1. CASE ReadAcl(p)
    BY <2>0, <2>1 DEF ReadAcl, Granted, AccessTypeOK, lists
  <2>2. CASE WriteAcl(p)
    BY <2>0, <2>2 DEF WriteAcl, PutAcl, Granted, AccessTypeOK
  <2>3. CASE WriteConflicts(p) \/ GrantFails(p)
    BY <2>3 DEF WriteConflicts, GrantFails, Refusal, AccessTypeOK
  <2> QED
    BY <1>3, <2>1, <2>2, <2>3 DEF Access
<1>4. ASSUME NEW h \in Registrars, RegisterOther(h) \/ \E t \in Tables : Upserts(h, t)
      PROVE  UNCHANGED granting
  BY <1>4 DEF RegisterOther, Upserts, RegisterTable, RegisterUnheard, Preview, PreviewFails,
              Registered, RegisterFails
<1>5. ASSUME NEW e \in Entries, OwnerWrites(e) PROVE UNCHANGED granting
  BY <1>5 DEF OwnerWrites
<1>6. CASE UNCHANGED accessVars
  BY <1>6 DEF accessVars
<1> QED
  BY <1>1, <1>2, <1>3, <1>4, <1>5, <1>6 DEF AccessNext, Denied

LEMMA CopyStep == AccessTypeOK /\ CopyInv /\ [AccessNext]_accessVars => CopyInv'
<1> SUFFICES ASSUME AccessTypeOK, CopyInv, [AccessNext]_accessVars,
                    NEW p \in Granters, pc'[p] = "writing"
             PROVE  /\ copy'[p].tag <= etag'[On(want[p])]
                    /\ copy'[p].tag = etag'[On(want[p])] => copy'[p].list = acl'[On(want[p])]
  BY GranterStep DEF CopyInv, GranterSteps
<1>1. On(want[p]) \in Resources /\ copy[p].tag \in Nat /\ etag \in [Resources -> Nat]
  BY OnTypes DEF AccessTypeOK
<1>2. CASE pc'[p] = pc[p] /\ copy'[p] = copy[p]
  BY <1>1, <1>2, ListsStep DEF CopyInv, ListSteps
<1>3. CASE /\ UNCHANGED lists
           /\ copy'[p] = [list |-> acl[On(want[p])], tag |-> etag[On(want[p])]]
  BY <1>1, <1>3 DEF lists
<1> QED
  BY <1>2, <1>3, GranterStep DEF GranterSteps

\* Who is told that access is granted has it, from the moment it is on the list.
LandedInv ==
  \A p \in Granters : pc[p] \in {"probing", "retrying", "resolving", "granted"} =>
    want[p] \in acl[On(want[p])] \cup revoked

LEMMA LandedStep ==
  AccessTypeOK /\ CopyInv /\ LandedInv /\ [AccessNext]_accessVars => LandedInv'
<1> SUFFICES ASSUME AccessTypeOK, CopyInv, LandedInv, [AccessNext]_accessVars,
                    NEW p \in Granters,
                    pc'[p] \in {"probing", "retrying", "resolving", "granted"}
             PROVE  want[p] \in acl'[On(want[p])] \cup revoked'
  BY GranterStep DEF LandedInv, GranterSteps
<1>1. On(want[p]) \in Resources
  BY OnTypes DEF AccessTypeOK
<1>2. CASE pc[p] \in {"probing", "retrying", "resolving", "granted"}
  BY <1>1, <1>2, ListsStep DEF LandedInv, ListSteps
<1>3. CASE want[p] \in acl'[On(want[p])]
  BY <1>3
<1> QED
  BY <1>2, <1>3, GranterStep DEF GranterSteps

ResolvedInv == \A n \in Needs : issue[n] = "resolved" => n \in acl[On(n)] \cup revoked

LEMMA IssueSteps ==
  ASSUME AccessTypeOK, LandedInv, [AccessNext]_accessVars,
         NEW n \in Needs, issue'[n] = "resolved"
  PROVE  issue[n] = "resolved" \/ n \in acl[On(n)] \cup revoked
<1>1. ASSUME NEW needs, OpenIssues(needs) PROVE issue[n] = "resolved"
  BY <1>1, OpenIssuesTypes
<1>2. ASSUME NEW h \in Handlers, Grant(h) PROVE issue[n] = "resolved" \/ n \in acl[On(n)] \cup revoked
  <2>1. CASE Resolve(h)
    <3>1. want[h] \in Needs /\ h \in Granters /\ pc[h] = "resolving"
      BY <2>1 DEF Resolve, AccessTypeOK, Granters
    <3> QED
      BY <2>1, <3>1 DEF Resolve, LandedInv, AccessTypeOK
  <2>2. CASE RetryFails(h)
    BY <2>2, <1>1 DEF RetryFails
  <2> QED
    BY <1>2, <2>1, <2>2 DEF Grant, BeginGrant, Probe, ProbeFails, AfterProbe, Retry
<1>3. ASSUME NEW t \in Threads, BeginThread(t) PROVE issue' = issue
  BY <1>3 DEF BeginThread
<1>4. ASSUME NEW p \in Granters, Access(p) PROVE issue' = issue
  BY <1>4 DEF Access, ReadAcl, WriteAcl, WriteConflicts, GrantFails
<1>5. ASSUME NEW h \in Registrars, RegisterOther(h) \/ \E t \in Tables : Upserts(h, t)
      PROVE  issue[n] = "resolved"
  BY <1>5, <1>1 DEF RegisterOther, Upserts, RegisterTable, RegisterUnheard, Preview, PreviewFails,
                    Registered, RegisterFails
<1>6. ASSUME NEW e \in Entries, OwnerWrites(e) PROVE issue' = issue
  BY <1>6 DEF OwnerWrites
<1>7. CASE UNCHANGED accessVars
  BY <1>7 DEF accessVars
<1>8. ASSUME NEW m \in Needs, Denied(m) PROVE issue[n] = "resolved"
  BY <1>8, <1>1 DEF Denied
<1> QED
  BY <1>2, <1>3, <1>4, <1>5, <1>6, <1>7, <1>8 DEF AccessNext

LEMMA ResolvedStep ==
  AccessTypeOK /\ CopyInv /\ LandedInv /\ ResolvedInv /\ [AccessNext]_accessVars => ResolvedInv'
<1> SUFFICES ASSUME AccessTypeOK, CopyInv, LandedInv, ResolvedInv, [AccessNext]_accessVars,
                    NEW n \in Needs, issue'[n] = "resolved"
             PROVE  n \in acl'[On(n)] \cup revoked'
  BY DEF ResolvedInv
<1>1. n \in acl[On(n)] \cup revoked
  BY IssueSteps DEF ResolvedInv
<1>2. On(n) \in Resources
  BY OnTypes
<1> QED
  BY <1>1, <1>2, ListsStep DEF ListSteps

\* The invariant of the grants.
ListsInv == AccessTypeOK /\ CopyInv /\ LandedInv /\ ResolvedInv

LEMMA ListsInvariant == AccessSpec => []ListsInv
<1>1. AccessInit => ListsInv
  <2> SUFFICES ASSUME AccessInit PROVE CopyInv /\ LandedInv /\ ResolvedInv
    BY AccessInitTypes DEF ListsInv
  <2> QED
    BY DEF AccessInit, CopyInv, LandedInv, ResolvedInv
<1>2. ListsInv /\ [AccessNext]_accessVars => ListsInv'
  BY AccessTypeStep, CopyStep, LandedStep, ResolvedStep DEF ListsInv
<1> QED
  BY <1>1, <1>2, PTL DEF AccessSpec

\* Nobody is told that access is granted, and no issue is resolved, when the entry is not on
\* the list and no owner took it away (grant_permission, grant_access_to).
THEOREM GrantsLast == AccessSpec => []GrantedStays
<1>1. ListsInv => GrantedStays
  BY DEF ListsInv, LandedInv, ResolvedInv, GrantedStays
<1> QED
  BY <1>1, ListsInvariant, PTL

\* However many grants overlap, each adds its own entry and loses nobody else's (the etags of
\* update_dataset and setIamPolicy).
THEOREM GrantsOnlyAdd == AccessSpec => GrantsAccumulate
<1>1. ListsInv /\ [AccessNext]_accessVars =>
        [\A x \in Resources : acl'[x] # acl[x] /\ writer'[x] # Owner =>
           acl'[x] = acl[x] \cup {want[writer'[x]]}]_accessVars
  BY ListsStep DEF ListsInv, ListSteps
<1> QED
  BY <1>1, ListsInvariant, PTL DEF AccessSpec, GrantsAccumulate

-----------------------------------------------------------------------------
(* Threads: the lock of the process *)

Held(t) == pc[t] \in {"reading", "writing"}

\* One thread at a time, and whoever spoils its write is not a thread.
LockInv ==
  /\ \A t, u \in Threads : Held(t) /\ Held(u) => t = u
  /\ \A t \in Threads : pc[t] = "writing" /\ ~Matches(t) => writer["dataset"] \notin Threads

\* Who begins, who writes, and who may hold the lock afterwards.
LockSteps ==
  /\ \A t \in Threads : Held(t)' => Held(t) \/ DatasetLock
  /\ \A t, u \in Threads : Held(t)' /\ ~Held(t) /\ Held(u)' => t = u
  /\ \/ UNCHANGED <<acl, etag, writer>>
     \/ writer'["dataset"] \notin Threads
     \/ writer'["dataset"] = writer["dataset"] /\ etag'["dataset"] = etag["dataset"]
     \/ \E t \in Threads : Held(t) /\ ~Held(t)' /\ \A u \in Threads \ {t} : pc'[u] = pc[u]

LEMMA ThreadsElsewhere ==
  ASSUME AccessTypeOK, NEW p \in Granters, NEW label, Goes(p, label)
  PROVE  /\ \A t \in Threads : t # p => pc'[t] = pc[t]
         /\ pc'[p] = label
         /\ p \in Handlers => \A t \in Threads : pc'[t] = pc[t]
<1>1. \A t \in Threads : t \in Granters
  BY DEF Granters
<1>2. p \in Handlers => p \notin Threads
  BY PrincipalsAssumption
<1> QED
  BY <1>1, <1>2 DEF Goes, AccessTypeOK

LEMMA LockStep == AccessTypeOK /\ [AccessNext]_accessVars => LockSteps
<1> SUFFICES ASSUME AccessTypeOK, [AccessNext]_accessVars PROVE LockSteps
  OBVIOUS
<1>0. ASSUME UNCHANGED lists, \A t \in Threads : pc'[t] = pc[t] PROVE LockSteps
  BY <1>0 DEF LockSteps, lists, Held
<1>1. ASSUME NEW h \in Handlers, Grant(h) PROVE LockSteps
  <2>1. UNCHANGED lists
    BY <1>1 DEF Grant, BeginGrant, Probe, ProbeFails, AfterProbe, Retry, RetryFails, Resolve
  <2>2. \E label : Goes(h, label)
    BY <1>1 DEF Grant, BeginGrant, Probe, ProbeFails, AfterProbe, Retry, RetryFails, Resolve
  <2> QED
    BY <1>0, <2>1, <2>2, ThreadsElsewhere DEF Granters
<1>2. ASSUME NEW t \in Threads, BeginThread(t) PROVE LockSteps
  <2>1. /\ \A u \in Threads : u # t => pc'[u] = pc[u]
        /\ pc'[t] = "reading"
    BY <1>2, ThreadsElsewhere DEF BeginThread, Granters
  <2> QED
    BY <1>2, <2>1 DEF BeginThread, DatasetLock, LockSteps, lists, Held
<1>3. ASSUME NEW p \in Granters, Access(p) PROVE LockSteps
  <2>1. \E label \in {"writing", "probing", "granted", "refused"} : Goes(p, label)
    BY <1>3 DEF Access, ReadAcl, WriteAcl, WriteConflicts, GrantFails, Granted, Refusal
  <2>2. /\ \A t \in Threads : t # p => pc'[t] = pc[t]
        /\ pc'[p] \in {"writing", "probing", "granted", "refused"}
        /\ p \in Handlers => \A t \in Threads : pc'[t] = pc[t]
    BY <2>1, ThreadsElsewhere
  <2>3. pc[p] \in {"reading", "writing"}
    BY <1>3 DEF Access, ReadAcl, WriteAcl, WriteConflicts, GrantFails
  <2>4. \A t \in Threads : Held(t)' => Held(t)
    BY <2>2, <2>3 DEF Held
  <2>5. CASE UNCHANGED lists
    BY <2>4, <2>5 DEF LockSteps, lists
  <2>6. CASE pc[p] = "writing" /\ PutAcl(p) /\ pc'[p] # "writing"
    <3>1. On(want[p]) \in Resources
      BY OnTypes DEF AccessTypeOK
    <3>2. CASE p \in Threads
      <4>1. Held(p) /\ ~Held(p)'
        BY <2>2, <2>6 DEF Held
      <4> QED
        BY <2>2, <2>4, <3>2, <4>1 DEF LockSteps
    <3>3. CASE p \notin Threads
      <4>1. \/ writer'["dataset"] = p
            \/ writer'["dataset"] = writer["dataset"] /\ etag'["dataset"] = etag["dataset"]
        BY <2>6, <3>1 DEF PutAcl, Resources, AccessTypeOK
      <4> QED
        BY <2>4, <3>3, <4>1 DEF LockSteps
    <3> QED
      BY <3>2, <3>3
  <2>7. UNCHANGED lists \/ (pc[p] = "writing" /\ PutAcl(p) /\ pc'[p] # "writing")
    <3>1. CASE WriteAcl(p)
      BY <3>1 DEF WriteAcl, Granted, Goes, AccessTypeOK
    <3>2. CASE GrantFails(p)
      BY <3>2 DEF GrantFails, Refusal, Goes, AccessTypeOK
    <3> QED
      BY <1>3, <3>1, <3>2 DEF Access, ReadAcl, WriteConflicts
  <2> QED
    BY <2>5, <2>6, <2>7
<1>4. ASSUME NEW h \in Registrars, RegisterOther(h) \/ \E t \in Tables : Upserts(h, t)
      PROVE  UNCHANGED <<lists, granting>>
  BY <1>4 DEF RegisterOther, Upserts, RegisterTable, RegisterUnheard, Preview, PreviewFails,
              Registered, RegisterFails
<1>5. ASSUME NEW e \in Entries, OwnerWrites(e) PROVE LockSteps
  <2>1. On(e) \in Resources /\ pc' = pc
    BY <1>5, OnTypes DEF OwnerWrites, granting
  <2>2. \/ writer'["dataset"] = Owner
        \/ writer'["dataset"] = writer["dataset"] /\ etag'["dataset"] = etag["dataset"]
    BY <1>5, <2>1 DEF OwnerWrites, Resources, AccessTypeOK
  <2> QED
    BY <2>1, <2>2, PrincipalsAssumption DEF LockSteps, Held
<1>6. CASE UNCHANGED accessVars
  BY <1>0, <1>6 DEF accessVars, granting
<1> QED
  BY <1>0, <1>1, <1>2, <1>3, <1>4, <1>5, <1>6 DEF AccessNext, granting, Denied

LEMMA LockInvStep ==
  AccessTypeOK /\ CopyInv /\ LockInv /\ [AccessNext]_accessVars => LockInv'
<1> SUFFICES ASSUME AccessTypeOK, CopyInv, LockInv, [AccessNext]_accessVars PROVE LockInv'
  OBVIOUS
<1>0. \A t \in Threads : t \in Granters /\ On(want[t]) = "dataset" /\ want'[t] = want[t]
  BY OnTypes, GranterStep DEF Granters, AccessTypeOK, GranterSteps
<1>1. ASSUME NEW t \in Threads, NEW u \in Threads, Held(t)', Held(u)' PROVE t = u
  BY <1>1, LockStep DEF LockSteps, LockInv
<1>2. ASSUME NEW t \in Threads, pc'[t] = "writing", copy'[t].tag # etag'["dataset"],
             writer'["dataset"] \in Threads
      PROVE  FALSE
  <2>1. CASE pc[t] = "writing" /\ copy'[t] = copy[t]
    <3>1. CASE etag'["dataset"] = etag["dataset"] /\ writer'["dataset"] = writer["dataset"]
      BY <1>0, <1>2, <2>1, <3>1 DEF LockInv, Matches
    <3>2. ASSUME NEW v \in Threads, Held(v), ~Held(v)' PROVE FALSE
      BY <1>2, <2>1, <3>2 DEF LockInv, Held
    <3> QED
      BY <1>2, <3>1, <3>2, LockStep DEF LockSteps
  <2>2. CASE UNCHANGED lists /\ copy'[t].tag = etag["dataset"]
    BY <1>2, <2>2 DEF lists
  <2>3. \/ pc'[t] = pc[t] /\ copy'[t] = copy[t]
        \/ UNCHANGED lists /\ copy'[t] = [list |-> acl["dataset"], tag |-> etag["dataset"]]
    <3>1. pc'[t] \notin {"reading", "refused", "denied", "probing", "granted", "retrying", "resolving"}
      BY <1>2
    <3>2. On(want[t]) = "dataset" /\ t \in Granters
      BY <1>0
    <3> QED
      BY <3>1, <3>2, GranterStep DEF GranterSteps
  <2>4. CASE pc'[t] = pc[t] /\ copy'[t] = copy[t]
    BY <1>2, <2>1, <2>4
  <2> QED
    BY <2>2, <2>3, <2>4
<1> QED
  BY <1>0, <1>1, <1>2 DEF LockInv, Matches

\* The threads of one dbt process never make each other's grant fail, however many they are
\* (_dataset_lock around the read and the write).
THEOREM ThreadsTakeTurns == AccessSpec => ThreadsKeepClear
<1>1. AccessInit => LockInv
  BY DEF AccessInit, LockInv, Held, Granters
<1>2. ListsInv /\ LockInv /\ [AccessNext]_accessVars => LockInv'
  BY LockInvStep DEF ListsInv
<1>3. LockInv /\ [AccessNext]_accessVars =>
        [\A t \in Threads : WriteConflicts(t) => writer["dataset"] \notin Threads]_accessVars
  BY DEF LockInv, WriteConflicts
<1> QED
  BY <1>1, <1>2, <1>3, ListsInvariant, PTL DEF AccessSpec, ThreadsKeepClear

-----------------------------------------------------------------------------
(* Registration *)

\* What the tables of a registrar and its answer have to do with each other.
RepliesInv ==
  \A h \in Registrars :
    /\ denied[h] \subseteq reported[h]
    /\ answer[h] \in {"none", "invalid"} => registered[h] = {}
    /\ answer[h] \in {"ok", "partly"} => Tables \ reported[h] \subseteq registered[h]
    /\ answer[h] = "ok" => reported[h] = {}
    /\ answer[h] = "partly" => reported[h] # {}
    /\ answer[h] = "denied" => registered[h] \subseteq reported[h]

LEMMA RepliesStep == AccessTypeOK /\ RepliesInv /\ [AccessNext]_accessVars => RepliesInv'
<1> SUFFICES ASSUME AccessTypeOK, RepliesInv, [AccessNext]_accessVars PROVE RepliesInv'
  OBVIOUS
<1>1. ASSUME UNCHANGED replies PROVE RepliesInv'
  BY <1>1 DEF replies, RepliesInv
<1>2. ASSUME NEW h \in Registrars, RegisterOther(h) \/ \E t \in Tables : Upserts(h, t)
      PROVE  RepliesInv'
  <2>1. CASE Preview(h)
    BY <2>1 DEF Preview, RepliesInv, AccessTypeOK
  <2>2. CASE PreviewFails(h)
    BY <2>2 DEF PreviewFails, RepliesInv, AccessTypeOK
  <2>3. ASSUME NEW t \in Tables, RegisterTable(h, t) \/ RegisterUnheard(h, t) PROVE RepliesInv'
    <3>1. /\ answer[h] = "registering" /\ UNCHANGED <<answer, denied>>
          /\ \A g \in Registrars : reported[g] \subseteq reported'[g]
          /\ \A g \in Registrars \ {h} : registered'[g] = registered[g] /\ reported'[g] = reported[g]
      BY <2>3 DEF RegisterTable, RegisterUnheard, AccessTypeOK
    <3> QED
      BY <3>1 DEF RepliesInv
  <2>4. ASSUME NEW t \in Tables, RegisterFails(h, t) PROVE RepliesInv'
    <3>1. /\ reported' = [reported EXCEPT ![h] = @ \cup {t}]
          /\ denied' = denied \/ denied' = [denied EXCEPT ![h] = @ \cup {t}]
          /\ answer[h] = "registering"
          /\ UNCHANGED <<answer, registered>>
      BY <2>4 DEF RegisterFails
    <3> QED
      BY <3>1 DEF RepliesInv, AccessTypeOK
  <2>5. CASE Registered(h)
    <3>1. registered[h] \subseteq Tables /\ reported[h] \subseteq Tables
      BY DEF AccessTypeOK
    <3>2. Tables \ reported[h] \subseteq registered[h]
      BY <2>5, <3>1 DEF Registered, Todo
    <3>3. /\ Status(h) = "ok" => reported[h] = {}
          /\ Status(h) = "partly" => reported[h] # {}
          /\ Status(h) = "denied" => registered[h] \subseteq reported[h]
          /\ Status(h) \in {"ok", "partly", "denied"}
      BY DEF Status, Counted
    <3> QED
      BY <2>5, <3>2, <3>3 DEF Registered, RepliesInv, AccessTypeOK
  <2> QED
    BY <1>2, <2>1, <2>2, <2>3, <2>4, <2>5 DEF RegisterOther, Upserts
<1>3. ASSUME NEW h \in Handlers, Grant(h) PROVE UNCHANGED replies
  BY <1>3 DEF Grant, BeginGrant, Probe, ProbeFails, AfterProbe, Retry, RetryFails, Resolve
<1>4. ASSUME NEW p \in Granters, Access(p) PROVE UNCHANGED replies
  BY <1>4 DEF Access, ReadAcl, WriteAcl, WriteConflicts, GrantFails
<1> QED
  BY <1>1, <1>2, <1>3, <1>4 DEF AccessNext, accessVars, OwnerWrites, BeginThread, Denied

LEMMA RepliesInvariant == AccessSpec => []RepliesInv
<1>1. AccessInit => RepliesInv
  BY DEF AccessInit, RepliesInv
<1> QED
  BY <1>1, RepliesStep, AccessTypeCorrect, PTL DEF AccessSpec
=============================================================================
