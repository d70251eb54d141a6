----------------------------- MODULE PoolService -----------------------------
(***************************************************************************)
(* The pooler service: pool requests whose workers need the access that    *)
(* the permission handlers, the adapter's grants and the owners of the     *)
(* dataset change meanwhile.  PoolRuns and AccessIssues take their steps   *)
(* side by side; pooling and switching change history on take access, and  *)
(* a denial is recorded as an issue by the request it happened to.         *)
(***************************************************************************)
EXTENDS PoolRuns, AccessIssues

CONSTANT Loads \* who comes, with which requests, to what access lists

ASSUME TablesAssumption == Tables \subseteq Relations
ASSUME LoadsAssumption ==
  \A load \in Loads : load.active \subseteq Requests \cup Granters \cup Registrars \cup {Owner}

VARIABLES
  active,  \* the callers of this load
  client,  \* per request: what its caller knows
  unsaved  \* history, per request: the issues it could not record

vars == <<runsVars, accessVars, active, client, unsaved>>

Init ==
  /\ \E load \in Loads :
       /\ body = load.body /\ enabled = load.enabled /\ acl = load.acl /\ want = load.want
       /\ resolves = load.resolves /\ active = load.active
  /\ RunsInit /\ AccessInit
  /\ client  = [q \in Requests |-> "waiting"]
  /\ unsaved = [q \in Requests |-> {}]

-----------------------------------------------------------------------------
(* Steps of both *)

\* What a success takes of the access lists; failures come anyway.
HasAccess(q, r) ==
  \A round \in Rounds : /\ at[q][r] = round.alter => CanAlter
                        /\ at[q][r] = round.read => CanRead

Works(q, r) ==
  /\ HasAccess(q, r) /\ (Altered(q, r) \/ Pooled(q, r))
  /\ UNCHANGED <<accessVars, active, client, unsaved>>

\* CHANGES raises for want of access, or anything else.
Stumbles(q, r) ==
  /\ ~HasAccess(q, r) /\ Pooled(q, r) /\ result'[q][r] \in Errors
  /\ UNCHANGED <<accessVars, active, client, unsaved>>

\* _record_permission_issue: editor for a refused ALTER, viewer for a denied result.
Record(q, n) ==
  /\ \/ Denied(n) /\ UNCHANGED unsaved
     \/ unsaved' = [unsaved EXCEPT ![q] = @ \cup {n}] /\ UNCHANGED accessVars
  /\ UNCHANGED <<active, client>>

\* Mutant of Records: the roles of the two kinds of denial are mixed up.
RecordsMixedUp(q, r) ==
  \/ RecordRefusal(q, r) /\ Record(q, "viewer")
  \/ RecordDenial(q, r) /\ Record(q, "editor")
Records(q, r) ==
  \/ RecordRefusal(q, r) /\ Record(q, "editor")
  \/ RecordDenial(q, r) /\ Record(q, "viewer")

\* What a register handler enrols is pooled on schedule from then on.
Registers(h) ==
  /\ \/ \E t \in Tables : Upserts(h, t) /\ Enroll(t)
     \/ RegisterOther(h) /\ UNCHANGED runsVars
  /\ UNCHANGED <<active, client, unsaved>>

-----------------------------------------------------------------------------
(* The caller: PoolerHttpClient in a dbt process, or the scheduler *)

\* The answer gets through, or nobody hears it: the connection broke, or urlopen had waited for
\* 300 seconds while the service went on all the same.
Hears(q) ==
  /\ client[q] = "waiting" /\ main[q] \in {"answered", "failed"}
  /\ \/ main[q] = "answered" /\ client' = [client EXCEPT ![q] = "results"]
     \/ client' = [client EXCEPT ![q] = "error"]
  /\ UNCHANGED <<runsVars, accessVars, active, unsaved>>

-----------------------------------------------------------------------------
(* Specification *)

Alone(q) ==
  HandlerStep(q) \/ \E r \in Relations : WorkerStep(q, r) \/ LockFails(q, r)

RunStep(q) ==
  \/ Alone(q) /\ UNCHANGED <<accessVars, active, client, unsaved>>
  \/ \E r \in Relations : Works(q, r) \/ Stumbles(q, r) \/ Records(q, r)

Permissions ==
  /\ \/ Owner \in active /\ \E e \in Entries : OwnerWrites(e)
     \/ \E h \in Handlers \cap active : Grant(h)
     \/ \E t \in Threads \cap active : BeginThread(t)
     \/ \E p \in Granters \cap active : Access(p)
  /\ UNCHANGED <<runsVars, active, client, unsaved>>

Next ==
  \/ Permissions
  \/ \E h \in Registrars \cap active : Registers(h)
  \/ \E q \in Requests \cap active : RunStep(q) \/ Hears(q)

\* What a request does but for failing to get a lock, which nobody can rely on.
GoesOn(q) ==
  \/ (HandlerStep(q) \/ \E r \in Relations : WorkerStep(q, r))
     /\ UNCHANGED <<accessVars, active, client, unsaved>>
  \/ \E r \in Relations : Works(q, r) \/ Stumbles(q, r) \/ Records(q, r)

\* A request that came goes on as long as any of its threads can: they run, and every call to
\* the database or BigQuery returns.
Fairness == \A q \in Requests : WF_vars(q \in active /\ GoesOn(q))

Spec == Init /\ [][Next]_vars /\ Fairness

-----------------------------------------------------------------------------
(* Correctness *)

TypeOK ==
  /\ RunsTypeOK /\ AccessTypeOK
  /\ active \subseteq Requests \cup Granters \cup Registrars \cup {Owner}
  /\ client \in [Requests -> {"waiting", "results", "error"}]
  /\ unsaved \in [Requests -> SUBSET Needs]

Recorded(q, n) == issue[n] # "absent" \/ n \in unsaved[q]

\* Whoever reads a finished run finds each denial also as an issue: the role its service
\* account lacked was asked for, unless that insert failed, and an issue is only out of the
\* way when it was granted (_record_permission_issue, resolve_permission_issue).
DenialsOnRecord ==
  \A q \in Requests : run[q].status \in Finished =>
    \A e \in events[q] :
      /\ e.what \in {"refused", "refused again"} /\ result[q][e.rel] \notin Errors =>
           Recorded(q, "editor")
      /\ e.what = "denied" => Recorded(q, "viewer")

\* The tables that the result of a run said are gone, and that it has unregistered or is about to.
Gone ==
  {r \in Relations : \E q \in Requests :
     at[q][r] \in {"retiring", "told"} /\ result[q][r] = "not_found"}

\* The answer of /v1/register leaves no table unaccounted for: on 200 and 207 every table it
\* does not report as failed is in the registry, until a pool run finds that it is gone; 207
\* reports one at least; and on 403 and 400 a table got registered only if it is reported, for
\* an upsert whose answer was lost counts as failed (register_target, _emit_result_events).
RegisterTellsAll ==
  \A h \in Registrars :
    /\ answer[h] \in {"ok", "partly"} => Tables \ reported[h] \subseteq enabled \cup Gone
    /\ answer[h] = "ok" => reported[h] = {}
    /\ answer[h] = "partly" => reported[h] # {}
    /\ answer[h] \in {"denied", "invalid"} => registered[h] \subseteq reported[h]

\* A caller who got results finds its run finished (pool, PoolRunSession.finish).
ResultsMeanFinished ==
  \A q \in Requests : client[q] = "results" => run[q].status \in Finished

\* Every run that is opened ends, or its request fails: no worker waits for ever for a table's
\* lock, the event lock or a thread of the pool, whatever the others do.
RunsEnd ==
  \A q \in Requests :
    main[q] = "opened" ~> main[q] \in {"answered", "failed"}
=============================================================================
