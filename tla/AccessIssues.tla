---------------------------- MODULE AccessIssues -----------------------------
(***************************************************************************)
(* Who may do what on BigQuery, as the pooler service and dbt see it and   *)
(* change it: permission issues, the grant handler (permissions.py,        *)
(* main.py), registration of targets, and the adapter's grant_access_to    *)
(* (impl.py).  Grants read an access list, add an entry and write the list *)
(* back with the etag they read, while owners change it by other means.    *)
(***************************************************************************)
EXTENDS Integers

CONSTANTS
  Handlers,    \* calls of /v1/permissions/grant
  Threads,     \* dbt threads in grant_access_to; a thread's entry has its name
  Registrars,  \* calls of /v1/register
  Tables,      \* the tables a target names
  Others,      \* entries of anybody else
  Owner,       \* who changes access lists by other means
  OwnerChanges \* bound: an owner changes lists only before there were so many changes

ASSUME PrincipalsAssumption ==
  /\ Owner \notin Handlers \cup Threads
  /\ Handlers \cap Threads = {}
  /\ {"viewer", "editor", "jobUser"} \cap (Others \cup Threads) = {}
ASSUME OwnerChangesAssumption == OwnerChanges \in Nat

VARIABLES
  acl,        \* BigQuery and Resource Manager: the entries on each resource
  etag,       \* its version
  writer,     \* history: who wrote it last
  revoked,    \* history: the entries an owner ever removed
  issue,      \* the permission issue table, per role the service account needs
  pc,         \* per granter
  want,       \* per granter: the entry it adds
  copy,       \* per granter: the list and etag it read
  resolves,   \* per handler: has it an issue_id, a retry_target, is it resolved
  answer,     \* per registrar
  registered, \* per registrar: tables whose upsert is committed
  reported,   \* per registrar: tables it reports as failed
  denied      \* per registrar: those for want of access

lists      == <<acl, etag, writer, revoked>>
granting   == <<pc, want, copy, resolves>>
replies    == <<answer, registered, reported, denied>>
accessVars == <<lists, issue, granting, replies>>

-----------------------------------------------------------------------------
(* Helpers *)

Needs     == {"viewer", "editor", "jobUser"}
Granters  == Handlers \cup Threads
Resources == {"dataset", "project"}
Entries   == Needs \cup Threads \cup Others
On(e)     == IF e = "jobUser" THEN "project" ELSE "dataset"

\* What the service account can do.
CanRead  == {"viewer", "editor"} \cap acl["dataset"] # {}
CanAlter == "editor" \in acl["dataset"]
CanRun   == "jobUser" \in acl["project"]

Goes(p, label) == pc' = [pc EXCEPT ![p] = label]

\* upsert_permission_issue opens the issue anew; _persist_needs goes on when it fails.
OpenIssues(needs) ==
  \E saved \in SUBSET needs :
    issue' = [n \in Needs |-> IF n \in saved THEN "open" ELSE issue[n]]

\* classify_bq_error, by the error's text.
Classified ==
  {{}, {"viewer"}, {"editor"}, {"viewer", "jobUser"}, {"editor", "jobUser"}}

AccessInit ==
  /\ acl \in [Resources -> SUBSET Entries] /\ \A x \in Resources : \A e \in acl[x] : On(e) = x
  /\ etag     = [x \in Resources |-> 0]
  /\ writer   = [x \in Resources |-> Owner]
  /\ revoked  = {}
  /\ issue    = [n \in Needs |-> "absent"]
  /\ pc       = [p \in Granters |-> "idle"]
  /\ want \in [Granters -> Entries]
  /\ \A t \in Threads : want[t] = t
  /\ \A h \in Handlers : want[h] \in Needs
  /\ copy     = [p \in Granters |-> [list |-> {}, tag |-> 0]]
  /\ resolves \in [Handlers -> [issue : {FALSE}, retry : BOOLEAN, done : {FALSE}]]
  /\ answer     = [h \in Registrars |-> "none"]
  /\ registered = [h \in Registrars |-> {}]
  /\ reported   = [h \in Registrars |-> {}]
  /\ denied     = [h \in Registrars |-> {}]

-----------------------------------------------------------------------------
(* Grants *)

\* An owner changes a list, which is another version from then on.
OwnerWrites(e) ==
  /\ etag["dataset"] + etag["project"] < OwnerChanges
  /\ LET x == On(e) IN
       /\ \/ acl' = [acl EXCEPT ![x] = @ \cup {e}] /\ UNCHANGED revoked
          \/ acl' = [acl EXCEPT ![x] = @ \ {e}] /\ revoked' = revoked \cup {e}
       /\ acl' # acl
       /\ etag'   = [etag EXCEPT ![x] = @ + 1]
       /\ writer' = [writer EXCEPT ![x] = Owner]
  /\ UNCHANGED <<issue, granting, replies>>

\* The caller may name the issue he saw.
BeginGrant(h) ==
  /\ pc[h] = "idle"
  /\ \E known \in {FALSE, issue[want[h]] # "absent"} :
       resolves' = [resolves EXCEPT ![h].issue = known]
  /\ Goes(h, "reading")
  /\ UNCHANGED <<lists, issue, want, copy, replies>>

\* Mutant of DatasetLock: nothing keeps the threads of a process apart.
NoDatasetLock == TRUE
\* _dataset_lock is the process's.
DatasetLock == \A t \in Threads : pc[t] \notin {"reading", "writing"}

BeginThread(t) ==
  /\ pc[t] = "idle" /\ DatasetLock
  /\ Goes(t, "reading")
  /\ UNCHANGED <<lists, issue, want, copy, resolves, replies>>

\* A dataset's entry that is there counts as made; a project's policy is written all the same.
Granted(p) == Goes(p, IF p \in Handlers THEN "probing" ELSE "granted")

ReadAcl(p) ==
  /\ pc[p] = "reading"
  /\ LET x == On(want[p]) IN
       /\ copy' = [copy EXCEPT ![p] = [list |-> acl[x], tag |-> etag[x]]]
       /\ IF x = "dataset" /\ want[p] \in acl[x] THEN Granted(p) ELSE Goes(p, "writing")
  /\ UNCHANGED <<lists, issue, want, resolves, replies>>

\* Mutant of Matches: the update is sent without the etag.
AnyVersion(p) == TRUE
\* update_dataset and setIamPolicy send the etag that came with the list.
Matches(p) == copy[p].tag = etag[On(want[p])]

\* The entry is appended to the list that was read.
PutAcl(p) ==
  LET x == On(want[p]) IN
  /\ Matches(p)
  /\ acl'    = [acl EXCEPT ![x] = copy[p].list \cup {want[p]}]
  /\ etag'   = [etag EXCEPT ![x] = @ + 1]
  /\ writer' = [writer EXCEPT ![x] = p]
  /\ UNCHANGED revoked

WriteAcl(p) ==
  /\ pc[p] = "writing"
  /\ PutAcl(p)
  /\ Granted(p)
  /\ UNCHANGED <<issue, want, copy, resolves, replies>>

\* Mutant of Refusal: the handler goes on to the probe when the grant failed.
ProbeAnyway(p) == IF p \in Handlers THEN "probing" ELSE "refused"
\* HTTP 400, or an exception in the dbt thread.
Refusal(p) == "refused"

\* Somebody wrote in between: 412 Precondition Failed.
WriteConflicts(p) ==
  /\ pc[p] = "writing" /\ ~Matches(p)
  /\ Goes(p, Refusal(p))
  /\ UNCHANGED <<lists, issue, want, copy, resolves, replies>>

\* The user may not read or change the list, or the answer of the update is lost.
GrantFails(p) ==
  /\ \/ pc[p] \in {"reading", "writing"} /\ UNCHANGED lists
     \/ pc[p] = "writing" /\ PutAcl(p)
  /\ Goes(p, Refusal(p))
  /\ UNCHANGED <<issue, want, copy, resolves, replies>>

\* probe_access_need: an editor is not asked for more than reading the dataset.
ProbeWorks(h) == IF want[h] = "jobUser" THEN CanRun ELSE CanRead

AfterProbe(h, ok) ==
  /\ resolves' = [resolves EXCEPT ![h].done = ok]
  /\ Goes(h, IF resolves[h].retry THEN "retrying" ELSE IF ok THEN "resolving" ELSE "denied")
  /\ UNCHANGED <<lists, issue, want, copy, replies>>

Probe(h)      == pc[h] = "probing" /\ ProbeWorks(h) /\ AfterProbe(h, TRUE)
\* The grant has not spread yet, or was not enough.
ProbeFails(h) == pc[h] = "probing" /\ AfterProbe(h, FALSE)

\* _preview_target(retry_target) decides whatever the probe said.
Retry(h) ==
  /\ pc[h] = "retrying" /\ CanRead
  /\ resolves' = [resolves EXCEPT ![h].done = TRUE]
  /\ Goes(h, "resolving")
  /\ UNCHANGED <<lists, issue, want, copy, replies>>

RetryFails(h) ==
  /\ pc[h] = "retrying"
  /\ \E needs \in Classified :
       /\ OpenIssues(needs)
       /\ Goes(h, IF needs = {} THEN "refused" ELSE "denied")
  /\ UNCHANGED <<lists, want, copy, resolves, replies>>

\* resolve_permission_issue, unless there is no id or it fails: the answer is 200 all the same.
Resolve(h) ==
  /\ pc[h] = "resolving"
  /\ \/ resolves[h].issue /\ issue' = [issue EXCEPT ![want[h]] = "resolved"]
     \/ UNCHANGED issue
  /\ Goes(h, "granted")
  /\ UNCHANGED <<lists, want, copy, resolves, replies>>

-----------------------------------------------------------------------------
(* Registration *)

Preview(h) ==
  /\ answer[h] = "none" /\ CanRead
  /\ answer' = [answer EXCEPT ![h] = "registering"]
  /\ UNCHANGED <<lists, issue, granting, registered, reported, denied>>

\* Missing access is 403 and on record, anything else 400.
PreviewFails(h) ==
  /\ answer[h] = "none"
  /\ \E needs \in Classified :
       /\ OpenIssues(needs)
       /\ answer' = [answer EXCEPT ![h] = IF needs = {} THEN "invalid" ELSE "denied"]
  /\ UNCHANGED <<lists, granting, registered, reported, denied>>

Todo(h) == Tables \ (registered[h] \cup reported[h])

\* probe_table_access and the upsert.
RegisterTable(h, t) ==
  /\ answer[h] = "registering" /\ t \in Todo(h) /\ CanRead
  /\ registered' = [registered EXCEPT ![h] = @ \cup {t}]
  /\ UNCHANGED <<lists, issue, granting, answer, reported, denied>>

\* The upsert is committed and its answer is lost, which is counted as a failure.
RegisterUnheard(h, t) ==
  /\ answer[h] = "registering" /\ t \in Todo(h) /\ CanRead
  /\ registered' = [registered EXCEPT ![h] = @ \cup {t}]
  /\ reported'   = [reported EXCEPT ![h] = @ \cup {t}]
  /\ UNCHANGED <<lists, issue, granting, answer, denied>>

\* The probe or the upsert fails; the next table is tried all the same.
RegisterFails(h, t) ==
  /\ answer[h] = "registering" /\ t \in Todo(h)
  /\ reported' = [reported EXCEPT ![h] = @ \cup {t}]
  /\ \E needs \in Classified :
       /\ OpenIssues(needs)
       /\ denied' = IF needs = {} THEN denied ELSE [denied EXCEPT ![h] = @ \cup {t}]
  /\ UNCHANGED <<lists, granting, answer, registered>>

\* Those it counts as registered.
Counted(h) == registered[h] \ reported[h]

\* Mutant of Status: a failure that is not about access does not count.
DeniedStatus(h) ==
  IF denied[h] = {} THEN "ok" ELSE IF Counted(h) = {} THEN "denied" ELSE "partly"
\* 200, 403 or 207.
Status(h) ==
  IF reported[h] = {} THEN "ok"
  ELSE IF denied[h] # {} /\ Counted(h) = {} THEN "denied" ELSE "partly"

Registered(h) ==
  /\ answer[h] = "registering" /\ Todo(h) = {}
  /\ answer' = [answer EXCEPT ![h] = Status(h)]
  /\ UNCHANGED <<lists, issue, granting, registered, reported, denied>>

-----------------------------------------------------------------------------
(* Denials of others *)

\* _record_permission_issue of a pool request (see PoolService).
Denied(n) ==
  /\ OpenIssues({n}) /\ issue'[n] = "open"
  /\ UNCHANGED <<lists, granting, replies>>

-----------------------------------------------------------------------------
(* Specification *)

Grant(h) ==
  BeginGrant(h) \/ Probe(h) \/ ProbeFails(h) \/ Retry(h) \/ RetryFails(h) \/ Resolve(h)

Access(p) == ReadAcl(p) \/ WriteAcl(p) \/ WriteConflicts(p) \/ GrantFails(p)

\* What leaves a table registered.
Upserts(h, t) == RegisterTable(h, t) \/ RegisterUnheard(h, t)

RegisterOther(h) ==
  \/ Preview(h) \/ PreviewFails(h) \/ Registered(h)
  \/ \E t \in Tables : RegisterFails(h, t)

AccessNext ==
  \/ \E e \in Entries : OwnerWrites(e)
  \/ \E h \in Handlers : Grant(h)
  \/ \E t \in Threads : BeginThread(t)
  \/ \E p \in Granters : Access(p)
  \/ \E n \in Needs : Denied(n)
  \/ \E h \in Registrars : RegisterOther(h) \/ \E t \in Tables : Upserts(h, t)

AccessSpec == AccessInit /\ [][AccessNext]_accessVars

-----------------------------------------------------------------------------
(* Correctness *)

AccessTypeOK ==
  /\ acl \in [Resources -> SUBSET Entries] /\ etag \in [Resources -> Nat]
  /\ writer \in [Resources -> Granters \cup {Owner}] /\ revoked \subseteq Entries
  /\ issue \in [Needs -> {"absent", "open", "resolved"}]
  /\ pc \in [Granters -> {"idle", "reading", "writing", "probing", "retrying", "resolving",
                          "granted", "refused", "denied"}]
  /\ want \in [Granters -> Entries]
  /\ \A t \in Threads : want[t] = t
  /\ \A h \in Handlers : want[h] \in Needs
  /\ copy \in [Granters -> [list : SUBSET Entries, tag : Nat]]
  /\ resolves \in [Handlers -> [issue : BOOLEAN, retry : BOOLEAN, done : BOOLEAN]]
  /\ answer \in [Registrars -> {"none", "registering", "ok", "partly", "denied", "invalid"}]
  /\ registered \in [Registrars -> SUBSET Tables]
  /\ reported \in [Registrars -> SUBSET Tables]
  /\ denied \in [Registrars -> SUBSET Tables]

\* A grant adds its entry to the list as it is, and nothing else: it neither removes what
\* somebody wrote in between nor restores what was revoked (the etags).
GrantsAccumulate ==
  [][\A x \in Resources : acl'[x] # acl[x] /\ writer'[x] # Owner =>
       acl'[x] = acl[x] \cup {want[writer'[x]]}]_accessVars

\* Who was told that access is granted has it until an owner takes it away, whatever other
\* grants do meanwhile, and only such an answer resolves an issue (grant_permission,
\* grant_access_to).
GrantedStays ==
  /\ \A p \in Granters : pc[p] = "granted" => want[p] \in acl[On(want[p])] \cup revoked
  /\ \A n \in Needs : issue[n] = "resolved" => n \in acl[On(n)] \cup revoked

\* Threads of one process never make each other's grant fail (_dataset_lock).
ThreadsKeepClear ==
  [][\A t \in Threads : WriteConflicts(t) => writer["dataset"] \notin Threads]_accessVars
=============================================================================
