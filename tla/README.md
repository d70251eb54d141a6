# A verification of dbt-bigquery-ext

TLA+ models of the parts of this repository where several threads, service
instances and remote systems act at once, with the TLC runs that check them and the
TLAPS proofs about them. Paths below are relative to the repository root (`src/` of
the source tree that `PROJECT.json` names).

    tlasany M.tla                                      parse a module
    tlc -workers 2 -config X.cfg MCM.tla               check a run of PROJECT.json
    tlapm XProofs.tla                                  check the proofs of a module

The proof modules are `ChangePoolerProofs`, `QueryJobsProofs`, `PoolRunsProofs`,
`AccessIssuesProofs`, `PoolServiceProofs`, `IncrementalExtProofs`, `IncrementalModelProofs`
and `GatewaySchemaProofs`.

## 1. Inventory

The repository is dbt's BigQuery adapter with three extensions: a Postgres *gateway*
that keeps checkpoints of incremental runs and a log of changed partitions, a *change
metadata pooler* that fills that log from BigQuery's `CHANGES` function (in process or
as a Cloud Run service), and an *extended execution* of one statement over parameter
buckets on a thread pool.

| Component | State it keeps | Operations | Interacts by | What is hard |
| --- | --- | --- | --- | --- |
| Pooler core (`gateway/pooler_core.py`, `change_tracking.py`) | none of its own: locals of one call | `ensure_affected_partitions`, `pool_relations`, `_pool_one` | queries to BigQuery, transactions of the gateway, a thread per relation | read – query – commit across two systems under an advisory lock; failure between any two steps |
| Gateway client (`gateway/client.py`) | Postgres: `dbt_model_log` (checkpoints), `change_tracking_log`, `change_tracking_registry`, run, event and permission rows | checkpoint read and write, commit of a pool result, partition query, register, unregister, lock | one connection per operation | "latest" checkpoint by wall clock, session locks, transactions whose acknowledgement is lost |
| Gateway schema (`gateway/schema.py`, `ensure_schema`) | Postgres: the tables, the registry's owner and columns; locks of open transactions | `ensure_schema`, `migrate` | every service instance and dbt process at start-up, under its own role | several tables in one transaction that a failure in its middle undoes; instances that start together and wait for each other's tables |
| Pooler service (`services/.../app/main.py`, `run_session.py`, `deps.py`) | run and event rows, a session's counters | pool, pool/scheduled, partitions, register | HTTP; a core and a worker pool per request, one callback for all workers | overlapping requests and instances, events of several threads, any insert may fail, a caller that stops waiting |
| Access (`permissions.py`, grant and register handlers; `grant_access_to` of `impl.py`) | issue rows; access lists of BigQuery | grant, probe, resolve, register, deny | issues that workers record, lists that owners change too | read-modify-write of lists, an issue resolved while it is opened, targets registered in part |
| Connection manager, retry (`connections.py`, `retry.py`) | `jobs_by_thread`, connection states, BigQuery jobs | `raw_execute`, `copy_bq_table`, `cancel_open` | jobs.insert/get/cancel/getQueryResults | lost and late answers, retries, timeouts, interruption by the main thread |
| Bucketed execution (`query_parameters.py`, `execute_ext`) | sets, types, workers and their scripts | resolve, validate and dedupe sets, run the statement per set on a pool | `raw_execute` on worker threads | some sets fail, others are applied; a script outlives its worker; buckets told apart by a key |
| Extended incremental materialization (`incremental_ext.sql`) | target, checkpoint row | full refresh, create, schema change, main statement, post hooks | statements in sequence, `execute_ext`, a source of sets that changes | failure, kill and repetition between any two statements |
| Incremental materialization (`incremental.sql`, `on_schema_change.sql`, `struct_utils.py`) | temporary table, target and its schema | stage, compare, align, merge, drop | statements, API updates with and without etag | a schema change in up to five requests, an owner who alters the target meanwhile |
| Python models (`python_submissions.py`) | file per model, notebook templates, jobs at Google | upload, submit, poll, report | GCS and REST | a job reads the file when it starts and is never stopped; the next attempt overwrites it |
| Rest of the adapter (`impl.py`, `column.py`, `relation*.py`, credentials, SQL rendering) | none | pure functions, API calls | – | nested column merge |

What makes each of them correct, in the order of importance:

* pooler: an answer to "which partitions changed in [start, end)" misses no change;
  windows neither overlap nor leave holes; a failure never advances the watermark, and
  a success always does; every request ends; pooling does not change who is scheduled;
* gateway schema: what is reported as there is there, tables come all together, and
  instances that start at once do not block each other for good;
* query jobs: a statement's work is done at most once and is done when it is reported
  done; every statement ends; an interrupt stops what runs;
* service: a run row ends as its run did, no event is lost, an issue that was fixed and
  came back is open;
* access: a grant adds one entry and takes nothing away; what a handler answers is so; a
  denial a run tells of is on record;
* bucketed execution and materializations: a checkpoint advances only over data that
  was applied; a failure in the middle leaves a state the next run repairs; buckets
  neither race nor double;
* incremental and Python models: what is merged was computed by the attempt's own code;
  a schema change that is reported done is done, and appending takes nothing away.

## 2. Plan

| Module | Depends on | Status |
| --- | --- | --- |
| `CoverageLedger`: abstract specification of pooling | – | done |
| `ChangePooler`, `MCChangePooler`, `ChangePoolerProofs` | `CoverageLedger` | done |
| `StatementEffects`: abstract specification of running a statement | – | done |
| `QueryJobs`, `MCQueryJobs`, `QueryJobsProofs` | `StatementEffects` | done |
| `PoolRuns`: run sessions, events, workers; `PoolRunsProofs` | results of pooling as outcomes | done |
| `AccessIssues`: grants, issues, registration; `AccessIssuesProofs` | – | done |
| `PoolService`, `MCPoolService`, `PoolServiceProofs`: the two of them and their callers | `PoolRuns`, `AccessIssues` | done |
| `VariableSets`: sets, buckets, pool sizes (operators only) | – | done |
| `ExecuteExt`: one batch on its pool | `VariableSets`; what `StatementEffects` promises of a statement | done |
| `IncrementalExt`, `MCIncrementalExt`, `IncrementalExtProofs`: runs of a model | `ExecuteExt` | done |
| `PythonJobs`: submissions and the jobs they leave behind | – | done |
| `SchemaChange`: `process_schema_changes` | – | done |
| `IncrementalModel`, `MCIncrementalModel`, `IncrementalModelProofs`: attempts of a model | `PythonJobs`, `SchemaChange` | done |
| `GatewaySchema`, `MCGatewaySchema`, `GatewaySchemaProofs`: start-up of the database | – | done |

What the plan has left: string timestamps and buckets of values with an offset, as operators
compared with a reference definition; the remaining branches of `incremental.sql` (copied
partitions above all, which are several jobs per run); liveness of the grant handlers.

## 3. The change-metadata pooler: `ChangePooler`

### State and code

| Variable | Code |
| --- | --- |
| `now` | wall clock; `end_ts` defaults to it |
| `table`, `tracked`, `history` | BigQuery: the table's kind, its `enable_change_history`, the changes `CHANGES` can report |
| `holder` | `pg_advisory_lock` of `pooler_table_lock` |
| `checkpoints` | successful rows of `dbt_model_log`, ordered by `node_finished_at`; `get_checkpoint` takes the last |
| `log` | `change_tracking_log`: window, status, partition ids |
| `registry` | `change_tracking_registry`: no row, enabled, disabled |
| `pc`, `req`, `base`, `rank`, `probe`, `result` | one call: where it is, its arguments, and the locals of `_pool_one_locked` and `ensure_affected_partitions` (`rank` only serves to order `node_finished_at`) |

A call starts at one of three entry points and then takes one action per round trip:

    PoolRelation | PoolScheduled | AskPartitions          main.py, ensure_affected_partitions
    AcquireLock | LockFails                               pooler_table_lock
    ReadCheckpoint                                        skipped, or on
    GetTableMeta                                          not_found, or on
    EnsureHistory                                         initial, unpartitioned, or on
    RunChanges | EnableAndRetry                           ok, out_of_range, error
    Commit | CommitUnknown                                log + registry + checkpoint
    PoolRaises                                            any exception on the way
    Unlock, Report, Recheck, GetAffectedPartitions, Respond
    Crash, LoseSession                                    at any time

A call is one relation. `pool_relations` runs a thread per relation and reports when
all are done; each is a call here whose `Report` comes arbitrarily late. `Crash` stands
for the death of an instance and for an exception outside `_pool_one` (for instance in
`on_event`): the call is gone, Postgres frees the lock. `CommitUnknown` is a commit
whose acknowledgement is lost: the caller sees an error. `LoseSession` is a lock
connection that is closed while `CHANGES` runs; the call does not notice.

`CoverageLedger` is what pooling promises: per table, one atomic step `Extend` that
appends the window from the frontier to a later end.

### Assumptions about BigQuery and Postgres

`CHANGES` refuses an end that is not in the past (`hi <= now`), returns every change it
has recorded in the window, and fails for whatever reason at any time. Changes made
while change history is off are not recorded, so no property speaks of them. Postgres
transactions are atomic and a session's locks go with the session.

### Runs

| Run | Instance | Shows |
| --- | --- | --- |
| `pooler_serialized` | 2 calls, 1 table of any kind, instants 0..2, 3 intervals | while lock and clocks hold: `PoolsOnLatest`, `WindowsTile`, `RejectedOnlyOnFailure`, refinement of `CoverageLedger` |
| `pooler_faults` | 2 calls, lost sessions and skewed clocks | `AnswerCoversChanges` holds even then; nothing has to be lost or skewed, so it is also checked of a lock that holds. No call asks for an end that is yet to come: that `pooler_serialized` has |
| `pooler_owners` | 2 calls, owners drop, create, register, unregister; fairness | `OnlyOwnerReenables`, `CallsEnd` |
| `pooler_first_see` | 1 call | **violated**: the initial row is the empty window [E, E), which the overlap predicate of `get_affected_partitions` never selects for an interval that ends by E. Right after the first pool such an interval is answered `[]`, "no changes", where the documentation says `NULL`, the entire table |
| `pooler_null_rows` | 1 call, rows without a partition | **violated**: changes of rows with a NULL partitioning column are aggregated away; `{}` does not mean "no changes" |

The model also has what no document decides: `Report` disables a table that was found missing
after the lock is gone and the whole request is pooled, without a second look, so that a table
that was created and registered again meanwhile is off the schedule.

*Bounds.* Tables do not interact (every variable and the lock are per table), so one
table is enough for TLC, and the proofs cover any number. Two calls give every overlap
of a pool with a pool or with a query; a third only repeats one of them. Three
instants give an initial window, a following one and changes before, inside and
after; three checkpoints are the most distinct ends of that clock. One recorded write
at any instant is enough since coverage is a statement about single changes;
`MaxErrors` bounds the error rows, which nothing reads. The calls are interchangeable
and reduced by symmetry in the runs without liveness.

*Fairness.* `WF(Progress(c))`: the client libraries put a timeout on every request, so a
call that holds the lock or needs none goes on. `SF(AcquireLock(c))`: Postgres queues
waiters of an advisory lock in order of arrival. Nothing is assumed about the
environment, about new calls, or about failures.

### Proofs (`ChangePoolerProofs`)

For every set of tables, calls, partitions and intervals and every bound:

* `TypeCorrect`: `Spec => []TypeOK`.
* `LockSound`, assuming `Faults = {}`: `Spec => []PoolsOnLatest`. The invariant is
  inductive because it says more than mutual exclusion: a call between reading the
  checkpoint and committing holds the lock, its base is still the watermark, and the
  checkpoints it counted are all there are. A commit by the holder leaves nobody else
  inside; everyone else's actions leave a table's checkpoints alone (`OnlyCommitsWrite`).
* `Refinement`, assuming `Faults = {}`: `Spec => RefinesLedger`. By `PoolsOnLatest` the
  window a commit logs starts at the watermark (`CommitMovesWatermark`), which is
  `Extend`; every other action stutters (`LedgerStep`).
* `ChangesCovered`, for any `Faults`: `Spec => []AnswerCoversChanges`. Without the lock
  windows may overlap and watermarks go back, so the argument must not use order. The
  inductive invariant `CoverageInv` says instead: every logged window names all changes
  recorded in it and lies in the past (`RowsFaithful`), so does what is about to be
  committed (`PendingFaithful`), and every watermark there is, was or is held in a local
  is *anchored*: from some first pool up to it each instant is in a logged window
  (`WatermarksAnchored`). Windows are only ever added, so anchors stay. At the answer,
  each instant of the interval before the watermark lies in a selected row;
  `AnswersFinal` keeps later writes out of it.

* `CoverageHolds`, for any `Faults`: that invariant itself, which no run repeats.
* `Tiling`, assuming `Faults = {}`: `Spec => []WindowsTile`. Per table, the windows are
  pairwise apart and end by the watermark, and there is one initial row (`TileInv`); a commit
  by the lock's holder adds the window that starts at the watermark, and an initial row only
  when there is no watermark yet (`TilesStep`). That they leave no hole is
  `WatermarksAnchored`.
* `RejectionsEarned`, assuming `Faults = {}`: `Spec => []RejectedOnlyOnFailure`. Once a call
  has committed, the watermark is at its end or later and stays there (`WatermarksGrow`), so
  `Recheck` after a pool that ended well finds what it wants (`PooledStep`).

* `NoLockOutlives`, for any `Faults`: `Spec => []LocksInUse`. Whoever holds a table's lock is in
  the locked section for that table, so a waiting call only ever waits for one that is
  going on: every way out of the section, an exception included, goes through `Unlocked`.
  It is the safety half of `CallsEnd`; without a `finally` both fail.
* `OwnersDecide`, for any `Faults`: `Spec => OnlyOwnerReenables`. Of all that writes the
  registry only a registration turns a disabled row on; the upsert of `Commit` leaves
  `enabled` as it finds it.

Liveness (`CallsEnd`) is model-checked only: fairness and ENABLED are out of the prover's
reach.

## 4. Query jobs: `QueryJobs`

### State and code

| Variable | Code |
| --- | --- |
| `jobs`, `asked` | BigQuery: the state of a job id, and whether its cancellation was requested |
| `outcome`, `minted` | per statement: how `raw_execute` or `copy_bq_table` ended, the id its closure holds |
| `pc`, `work` | per thread: submitting, polling or in the retry wrapper; statement, id, `_error_count`, kind of the last error |
| `conn` | `connection.state` |
| `registered` | `jobs_by_thread` |
| `phase`, `pending`, `visiting`, `index` | `cancel_open` on the main thread, as far as its two loops have come |

`Begin` is `generate_job_id`; `Send`, `Accepted`, `Attach` and `SubmitFails` are the ways
`_submit_or_attach` can go, the client library's own repetition of a request included;
`Arrive` is a request that reaches BigQuery when nobody waits for it any more. `PollDone`,
`PollDead`, `PollFails` and `PollTimeout` are the ends of `query_job.result` under
`_TerminalJobAwarePredicate` (errors it rides out change nothing and are no steps).
`Resubmit`, `ReopenFails` and `GiveUp` are the retry wrapper with `_DeferredException` and
`_create_reopen_on_error`; its deadline may pass at any time, so `GiveUp` is always
possible. A copy is retried only while it is submitted and not cancelled on timeout.
Left out: dry runs (ids that never become jobs, like refused ones), load jobs, and
dataset calls, which have no job id.

`StatementEffects` is what a caller may rely on: the work is executed at most once, is
executed when the outcome is "ok", and after "raised" may have been or may yet be.

### Runs

| Run | Instance | Shows |
| --- | --- | --- |
| `query_jobs` | 2 threads, a query and a copy, 1 retry, interrupted | refinement of `StatementEffects`, `ClosedMeansAsked` and `RetriesRunOut` |
| `query_cancel` | 2 threads, 2 queries | **violated**: `cancel_open` meets a registered id that BigQuery does not have (the thread is about to submit it), the 404 becomes a `DbtDatabaseError` that leaves both loops, and the running job of the other thread is not cancelled. The comment in `generate_job_id` says that this race only leads to attempting to cancel a job that does not exist |

*Bounds.* Threads share nothing but BigQuery's jobs and `cancel_open`, so two of them show what
one can do to another. Two statements let a thread go on after one that failed and left its job
running. Job ids are fresh uuids, interchangeable, one per statement. `CancelFaults` lets cancel
requests fail on their way; it is off in `query_cancel`, so that only the 404 is to blame. The
system stops when all statements have ended: deadlock is not checked.

*No fairness.* That statements end is `RetriesRunOut`, a bound on what a thread has left, and needs
no assumption about BigQuery: each request is answered or times out
(`create_job_creation_timeout`, the polling timeout and deadline always have a value), and a
thread with a statement can always go on, if only to fail. That a poll ends, by its deadline,
its timeout or the end of the job, is an assumption here: `RetriesRunOut` counts errors.

A retry of a statement whose job crashed gets 409, and `_submit_or_attach` looks the job up
without a look at its state: the "in-flight job" of its docstring is then the crashed one, and
the retry repeats the old error. No property says so, since nothing is done twice.

The comment that opens `generate_job_id` ("a fresh job_id for every `_query_and_results`
call") is out of date: the id is kept over retries, which is what `ImplementsEffects`
depends on. Its mutant, a fresh id per attempt, breaks it.

### Proofs (`QueryJobsProofs`)

For every set of threads, statements and ids and every number of retries:

* `TypeCorrect`: `Spec => []TypeOK`, and with it that errors stay within `job_retries`.
* `AtMostOnce`: `Spec => ImplementsEffects`, by `EffectsInv`: a statement has the one id
  minted for it and shares it with no other; an id nobody minted has no job; a thread is
  alone with its statement; what was reported ok is done. So when a job ends as done its
  statement had no execution before (`EffectsRefined`).
* `ClosedJobsAsked`: `Spec => ClosedMeansAsked`, by `AskedSoFar`: of the ids under the
  cursor of `cancel_open` each has a job, and those running were asked to stop. That the
  job exists is essential, and it is the abort on 404 that establishes it: were the 404
  swallowed, a job submitted right after it would run on under a closed connection.
* `EffectsHold` and `AskedHolds`: the two invariants as theorems of their own; no run repeats
  them.
* `StatementsRunOut`: `Spec => RetriesRunOut`. `StepsLeft` bounds the requests a thread still
  makes for its statement, five for each error it may yet spend; each step of its own lowers
  it (`OwnStepsCount`), and whatever BigQuery, other threads and `cancel_open` do leaves it
  alone or lowers it (`OthersLeaveAlone`, `JobsForward`: no job becomes absent again). Together
  with the fact that a busy thread always has a step, that is why statements end.

## 5. The pooler service: `PoolRuns`, `AccessIssues`, `PoolService`

### State and code

| Variable | Code |
| --- | --- |
| `body`, `asks`, `main` | the relations a request lists, those its run is about (`_dedupe`, or all that are enabled), where its handler is |
| `at`, `result` | per relation: where its worker is in `_pool_one` and `_ensure_change_history`, later where `_emit_result_events` is; its `PoolResult` |
| `warnings`, `seen` | `PoolRunSession.num_warnings`, and what a worker inside `on_event` has read of it |
| `run`, `events`, `lost` | `pooler_run`, `pooler_run_event`; `lost` counts the events whose insert failed |
| `enabled` | `change_tracking_registry` |
| `acl`, `etag`, `writer`, `revoked` | the access list of a dataset and a project's policy, their version, who wrote them last and what an owner took away |
| `issue` | the permission issue table, by role |
| `pc`, `want`, `copy`, `resolves` | per grant, of the handler or of a dbt thread: where it is, its entry, the list and etag it read, and whether it retries or resolves |
| `answer`, `registered`, `reported`, `denied` | per register request: its answer and its tables |
| `client`, `unsaved` | what the caller of a pool knows; the issues a request could not record |

`PoolRuns` is a request from its handler's first insert to its answer:

    OpenRun | OpenFails, StartPooling                     main.py, PoolRunSession.__init__
    Take, LockTable | LockFails                           pool_relations, pooler_table_lock
    EndsEarly, HistoryIsOn | HistoryIsOff | HistoryLost   _pool_one, _ensure_change_history
    Altered | AlterFails, Pooled                          ALTER TABLE, CHANGES and commit
    Reports, Reported | ReportFails                       _emit under _event_lock, on_event
    AllDone, TellResult, NothingToReport                  _emit_result_events
    Retire: Unregister | UnregisterFails                  unregister_change_tracking_table
    RecordRefusal, RecordDenial                           _record_permission_issue
    Completed, Finish | FinishFails | HandlerFails        PoolRunSession.finish

A worker's `on_event` is two steps, so that the counter that one thread reads and another writes
is visible. `PoolSize` gives each request its number of threads: a request with more relations
than threads makes some of them wait for one. What pooling does to log and checkpoint is
`ChangePooler`'s; here it is a choice of results.

`AccessIssues` has the read, the write with an etag and the probe of a grant as actions
of their own, for `grant_permission` and for `grant_access_to`, and `OwnerWrites` for everybody
else. Each table of a target is registered (`RegisterTable`), fails before anything is written
(`RegisterFails`), or is in the registry although the answer of its upsert is lost
(`RegisterUnheard`), which the handler counts as failed; `Upserts` is what the first and the
last have in common. Which roles an error names is a choice among what `classify_bq_error` can
return. A grant is made for the issue of the role it is about: the code takes `issue_id` from
the caller and does not compare the two.

`PoolService` lets both take their steps side by side and joins those that belong together:
altering and reading a table take access (`Works`, `Stumbles`), a denial becomes an issue
(`Records`), a table whose upsert commits is enabled (`Registers`). `Hears` is the caller, who may give
up at any time after the end: an answer that comes too late does not undo anything.

### Run `pool_service`

Safety: `RunTellsTheTruth`, `ResultsMeanFinished` of the runs;
`GrantsAccumulate`, `GrantedStays`, `ThreadsKeepClear` of access; `DenialsOnRecord` and
`RegisterTellsAll` of the two together. Liveness: `RunsEnd`.

`RegisterTellsAll` compares the answer of `/v1/register` with the registry that the scheduled
pools read: on 200 and 207 every table that is not reported as failed is enabled, until a pool
run has found that it does not exist (`Gone`: such a run may take its time, and then it retires
a table that was registered in between, as nothing in the code looks again). A table may be
reported as failed and be registered, for the answer of its upsert was lost; and that is the
only way in which a refusal (403 or 400) has registered anything. Owners who call
`/v1/tables/unregister` are callers of `ChangePooler`, not of this module.

*Bounds.* Instead of everything at once, which is far too much, TLC gets seven loads
(`MCLoads`), each with the callers whose steps meet:

1. two requests of one table, one of them scheduled: the table's lock, two sessions;
2. a request of two tables on a pool of one thread: a worker that waits for the thread;
3. a registration while a scheduled pool begins: two workers of one session and their events,
   who wait for `_event_lock`;
4. a request whose account has no access, and a grant with a retry: denials, issues that are
   opened and resolved, access that comes in the middle, a second round of `ALTER`;
5. two grant handlers, one per resource, and an owner;
6. a handler, two dbt threads and an owner on one dataset: etags and the process lock;
7. a registration beside a grant: issues opened by one and resolved by the other.

`Untracked` (the relations that may lose their history between the check and `CHANGES`) is
`r3`, so that the second round is explored in one load; `OwnerChanges = 2` lets an owner act
before and after a grant. Two relations and two workers show each interleaving of
two events. The proofs have none of these bounds.

*Fairness.* `WF(q \in active /\ GoesOn(q))` per request: one that came, since a load has only
some of them, goes on as long as any of its threads can, for every call of the client libraries
returns or times out. Failing to get a lock is not part of it: a waiting worker is only rescued
by the holder, which is what `RunsEnd` is about. Nothing is assumed of grants, owners and
callers.

### Proofs

For any requests, relations, workers, handlers, threads and tables:

* `PoolRunsProofs`: `RunsTypeCorrect`, `CountersAgree`, `RunsTellTheTruth`. A step of the
  service is, for each request, one of nine kinds (`StepOf`, `RunsStep`), and the invariant
  is kept kind by kind. `RunInv` has six parts: phases and relations fit each other
  (`PlaceInv`); at most one worker is inside `on_event` and what it has read is current
  (`SlotInv`, which is `_event_lock`); an event is in the table once its worker has
  passed the stage it tells of (`FreshInv`, so that no event is counted twice); counter
  and table agree (`CountInv`); what was reported is in the table (`ToldInv`); a finished
  row says so (`TruthInv`).
* `AccessIssuesProofs`: `AccessTypeCorrect`; `GrantsOnlyAdd` and `GrantsLast` from `CopyInv`
  (a copy whose etag is current is the list) and `LandedInv`; `ThreadsTakeTurns` from
  `LockInv` (the thread that holds the lock has the last list any thread wrote);
  `RepliesInvariant`, that an answer agrees with what the handler counted.
* `PoolServiceProofs`: `RegisterIsHonest`, from that count (`RepliesInv`), from the fact that
  what was registered is enabled or `Gone` (`EnrolledInv`), and from what a retirement follows
  (`RetiringInv`: only a `not_found` is retired); `ServiceComposes` (`Spec` implies the
  specifications of both parts, so that all of the above holds of the service),
  `ServiceTypeCorrect`, `ResultsComeLast`, and `DenialsRecorded`, which relates the two: an
  event of a denial is followed by its issue, by the failure of the insert or by the failure of
  the request (`Followed`); a new event puts its worker before the insert (`NewDenials`), which
  only the insert leaves (`NotingLeaves`), and what is on record stays there, resolved or not
  (`IssuesLast`).

`RunsEnd` is model-checked only.

## 6. Bucketed execution: `VariableSets`, `ExecuteExt`, `IncrementalExt`

### State and code

`VariableSets` has the functions of `query_parameters.py` as operators: sources and types of
variable sets, `infer_scalar_type`, the validation of `insert_overwrite`, its dedupe by
`_partition_bucket_key`, `resolve_worker_pool_size`. A value is a kind, an hour of a wall
clock and that clock's offset from UTC: enough to tell a bucket key, which drops the
offset, from the bucket that the statement's `TIMESTAMP_TRUNC` deletes.

| Variable | Code |
| --- | --- |
| `batch`, `worker` | `execute_ext`: the sets, their types, the ones to run, the size of the pool; its futures |
| `job` | per set: its script in BigQuery, which may be between `DELETE` and `MERGE` |
| `model`, `listed`, `relists` | the model's configuration; what the source of its sets holds, and how often that changed |
| `node`, `refresh`, `plan` | per run: where the materialization is, `--full-refresh`, the resolved list |
| `table`, `rows` | the target; per bucket and origin, how many copies of that origin's rows |
| `checkpoints` | the post hook's row, by run |
| `overlapped` | history: a run began while a script of an earlier one was alive |

A run takes `Begin`, `Resolve`, `PreHooks`, `DropExisting`, `Create`, `Columns`, `Main`,
the workers' `Take`, `Submit`, `Succeeds` and `Raises`, `EndMain`, `PostHooks` and
`PersistDocs`, in the macro's order; `Fails` and `Kill` end it anywhere. Scripts take
`Apply` (one `MERGE`, or a transaction), `Delete` and `Insert` (scalability mode) or `Break`,
whether or not anybody waits for them. The source of sets is read anew at each point where
the macro resolves it, and `Relist` changes it in between. A statement is what
`StatementEffects` promises: its work is done at most once, it is done when it is reported
done, and after a failure it may yet be done.

### Run `incremental_ext`

`ExtTypeOK`, `CheckpointCoversSets`, `BucketsDoNotRace`, `RowsOnce`, `SuccessReplaces`, `PoolGoesOn`,
`NeverEmptied`, `RunsSettle`.

`RowsOnce` and `SuccessReplaces` say what they need: that no script of an earlier run was
alive when a later one began (`overlapped`). The code does not see to it: after a timeout or
a kill nobody waits for scripts, and in scalability mode such a script can insert its rows
into a bucket that the next run has filled.

`NeverEmptied` is about consistency mode, where a bucket is replaced as a whole. In scalability
mode it is empty between `DELETE` and `MERGE`, and stays so if the script dies there: the mode
accepts that, and `SuccessReplaces` says that the next success fills it.

The size of the pool is a property in two parts. `ExtTypeOK`: a pool exceeds
`MaxWorkerPoolSize` only if it has a set for each of its workers. The limit is one on what is
configured; `-1`, a worker per set, and `0`, the profile's threads, are not held to it.
`PoolGoesOn`: a batch that is not over has a worker at work, or a place and a set for it, and
never more at work than places, nor more than one in consistency mode, whatever was asked for.
A pool of size 0 is refused (`ThreadPoolExecutor` raises), as `StartBatch` has it. `RunsSettle`
is about the batch's end: it waits for a result of each set it runs, and for no other.

`CheckpointCoversSets`, `BucketsDoNotRace`, `RowsOnce` and `SuccessReplaces` are about sets in
UTC (`InUTC`). With an offset, two sets of one bucket may have different keys and race, and two
of one key are different buckets, of which one is not run.

*Bounds.* `MaxRuns = 2`: a run and the one that repairs it. `MaxSets = 2`: two sets of one
bucket, of two, or one that cannot be bound. `Day = 2`: a day is two hours, so that hours
and days differ. `MaxRelists = 1`. `Threads = 0` makes the pool's size come of its fallback,
16 workers. `MCModels` has both overwrite modes, both granularities, merge, each source, an
invalid size and two sources at once; `MCInit` gives each of them one kind of target and
offsets only to buckets of a day. There are eight models, whose configured sizes are -2, -1, 0 and
one above the limit, and six lists. A list holds sets and the columns of a query's result,
which are typed apart from the types a model configures: a column of a type that no parameter
has and a cell without a value are both refused (`FromRows`). What a query returns fits its
columns and is in UTC (`Holds`), which explicit values need not be.

*Fairness.* `WF(RunStep(r))`: the process and its threads go on, each statement ends
(`RetriesRunOut` of `QueryJobs`). BigQuery need not finish any script.

### Proofs (`IncrementalExtProofs`)

For any models, lists, runs, sets and threads: `ExtTypeCorrect` (with the pool's limit),
`CheckpointsCover`, `BucketsDoNot`, `NeverEmpties`, `RowsAreThereOnce`, `SuccessHasReplaced`.
Two facts about the dedupe carry them: survivors differ in their keys (`SurvivorsDiffer`), and
each set has a survivor with its key, the first (`SurvivorsCover`, by the least index that has
the key). `KeyIsBucket` makes keys buckets, in UTC. `RunInv` then relates the workers of a run
to its scripts, and `PlacesInv` says what a bucket holds while they are at work: between
`DELETE` and `MERGE` nothing, after its own script this run's rows once. `SequenceInv` (runs
begin one after the other, and scripts belong to runs that began) lets `overlapped` stand for
all scripts of earlier runs.

`PoolsGoOn` proves `PoolGoesOn` from `PoolInv`: a batch with sets to run has a pool of at least
one worker (`PoolsHaveWorkers`: each of `-1`, `0` and a positive request gives one, the
profile's threads being 0 included), every set has been queued, and no more are busy than
the pool has places. So a batch that is not over has a worker at work, or a place and a set.

`RunsSettle` is model-checked only.

## 7. Incremental and Python models: `PythonJobs`, `SchemaChange`, `IncrementalModel`

### State and code

| Variable | Code |
| --- | --- |
| `project`, `method` | the attempts to run models that share a project, and how they are submitted |
| `submit`, `elapsed` | where a helper's `submit` is, and how long it has polled |
| `files`, `templates`, `run` | GCS: whose code a model's file holds; notebook templates; the jobs at Google and the code they have read |
| `policy`, `stage`, `diff`, `seen`, `fresh` | `on_schema_change`, where `process_schema_changes` is, `schema_changes_dict`, the schema last fetched and whether its etag is current |
| `source`, `target`, `altered` | the schemas of the table just built and of the target; whether an owner altered it |
| `language`, `node`, `tmp`, `merged` | the materialization of an attempt, whose rows a temporary table holds and whose it merged |

`PythonJobs` writes the code to the path `schema/alias.py`, submits a job that reads it when it
starts (`JobStarts`), polls until the job has ended or time is up and never stops the job.
`SchemaChange` takes one action per request: `Compare`, `Fetch`, `UpdateStructs` (with the
etag), `Alter`, `Drop`, `Refetch`, `Add` (without an etag: only BigQuery's refusal of a schema
that lacks something protects the target), `Columnize` and `Rewrite` for types. A schema gives
each column a kind and, to a struct, fields. `IncrementalModel` stages the model, by a
statement or by a submission, compares and aligns, merges the temporary table and drops it;
its attempts follow one another, and jobs of earlier ones may still write.

### Run `incremental_model`

`SuccessRanItsCode`, `MergesItsOwnRows`, `DoneMeansAligned`, `AppendOnlyAdds`, `ModelsSettle`.

`SuccessRanItsCode` is about models that share schema and alias with no other: the path does
not name the database, and of two models that differ in nothing else, as `MCProjects` has
them, one may run the other's code.

*Bounds.* Two attempts of a model, or one beside a Python model of the same or another file:
each file has at most two writers and two jobs. `Deadline = 1` poll lets a job end before and
after time is up. Two columns, a scalar and a struct of two fields, in five schemas that
differ by a column, by a field, by a type and by a kind. An owner alters the target once,
while the changes are processed: earlier, it is another target to begin with. `MCInit` explores
schemas with statements and submissions with one policy for each method, since submissions
decide nothing about schemas but whether there is a table.

*Fairness.* `WF(NodeStep(a))` per attempt: threads go on and requests return. Google need
neither start nor finish a job; the deadline ends the polling.

### Proofs (`IncrementalModelProofs`)

For any attempts, deadline, columns, fields and schemas:

* Of `SchemaChange`: `SchemaTypeCorrect`; `AppendsOnlyAdd` (every write under this policy
  is one BigQuery accepts, or a column type that is not touched); `DoneIsAligned` from
  `AlignInv`: while no owner interferes, what was fetched is the target (`SeenInv`) and
  what is still different is in `diff` (`SyncInv`, `AppendInv`). No run has to succeed:
  `Compare` makes the differences anew from what a failed one has left.
* Of `IncrementalModel` and `PythonJobs`: `ModelsChangeSchemas` (the materialization implements
  `SchemaSpec`, because one attempt at a time is in the changes, `ChangesInv`) and with it
  `ModelsAlign`; `ModelsTypeCorrect`; `MergesOwnRows` from `RowsInv` (a temporary table is
  only written by the code of its own attempt, whose name carries the time);
  `RanItsOwnCode` from `TurnsInv` and `CodeInv`: an attempt's file is its own from the upload
  to the end of its polling, and a job that is started later than that has nobody waiting.

`ModelsSettle` is model-checked only.

## 8. The gateway's schema: `GatewaySchema`

### State and code

| Variable | Code |
| --- | --- |
| `there`, `owner`, `columns` | Postgres, as committed: the tables of `REQUIRED_TABLES`, who owns the registry, which columns of `MIGRATE_REGISTRY_COLUMNS_SQL` it has |
| `role` | per call: the IAM user of its connection |
| `at`, `pos` | per call of `ensure_schema`: where it is, and the statement it has come to, through the tables and then through the migrations |
| `fresh`, `added` | per call: the tables and columns of its open transaction, which are also the locks others wait for |

    Begin                                  get_gateway of a service, _ensure_gateway_ready of dbt
    Exists | IsMissing                     _table_exists: also of what the call itself created
    Create | CreateFails                   the DDL of one table; _rollback
    Recheck                                "failed but table exists; continuing", or the call raises
    Alter | AlterRefused                   migrate: ADD COLUMN IF NOT EXISTS; "must be owner"
    Commit, Fails                          the context manager of connection()

A call may be repeated at any time, as a process that is started again. A lookup sees what
is committed and what the call's own transaction holds. The transaction is the point of
the model: `CreateFails` and `AlterRefused` undo everything since `Begin` or the last rollback,
and the loops go on from where they are.

### Runs

| Run | Instance | Shows |
| --- | --- | --- |
| `gateway_schema` | 2 calls, 2 roles, the six tables and three columns of `schema.py`, databases of four ages; fairness | `DoneMeansReady`, `NeverHalfway`, `WaitersAreBehind`, `StartsEnd` |
| `gateway_upgrade` | 1 call on a database from before there were runs, whose registry may be another role's | **violated** (`CreatesMissing`): the call creates the missing tables, the first `ALTER` is refused to all but the owner, `migrate` rolls back to skip it, and with it go the tables. The commit is empty and `ensure_schema` returns `created` for tables that are not there; with the next start it does so again. The docstrings say "create missing metadata tables" and "Skips statements the current role cannot run" |

*Bounds.* Transactions meet in pairs: one that waits or has come second and one that it waits
for; a circle of two is the shortest. The list of statements is the code's own, so nothing
is cut there. `Ages` are an empty database, one with checkpoints only, one from before there
were runs, and a complete one, with and without the later columns. `Strangers` excludes from
`gateway_schema` just the databases of `gateway_upgrade`: tables are missing, and the
registry belongs to a role that some migrating call does not have (`Upgradable`).

*Fairness.* `WF(Step(i))`: a process goes on while its statements do not wait.
`SF(Create(i))`, `SF(Alter(i))`: Postgres queues those who wait for a lock. Nothing has to
fail or be repeated.

### Proofs (`GatewaySchemaProofs`)

For any calls, roles, tables and columns:

* `TypeCorrect`, which says with the types that no call that is over holds anything.
* `SchemaIsReady` and `SchemaComesWhole`, assuming `~Strangers`. The loop never looks at a table
  twice, so after a rollback in its middle nothing on its own way makes up for the tables that
  are gone. What does is `SchemaInv`: a call sees every table it has passed (`SeesPassed`),
  because a `CREATE` that is forgiven was beaten by another transaction, and a transaction
  that commits tables commits all that are missing (`ComeTogether`, `CommitCompletes`). The two
  need each other, and both need that no `ALTER` is refused while tables are missing:
  `UpgradableStays` says that this is a fact about the database and lasts. Without the
  hypothesis they are false, as `gateway_upgrade` shows. The columns follow from
  `ColumnsFollow` (`CommitAddsAll`).
* `WaitersQueue`, for every database: what a transaction holds is behind it in the one list
  of statements (`HeldBehind`), and one at a time holds columns (`LocksInOrder`); so who is
  waited for is further on, and no circle closes.

`StartsEnd` is model-checked only.

## 9. Not modelled

* *Inside the modelled parts.* The mirror of checkpoints and log in BigQuery, whose failure
  is swallowed. `incremental_ext` without any source of sets. Appending merges without a
  unique key: a repetition doubles rows by design. What a `MERGE` selects is named by the
  first parameter of its set. The serial statements of a run are single steps; retries are
  summarised by `StatementEffects`, not composed with `QueryJobs`. The branches of
  `incremental.sql` for an absent target, a view or a full refresh are one statement each;
  its `insert_overwrite`, microbatch and copied partitions are not modelled. Structs are one
  level deep.
* *Data.* SQL text, partition id formats, types of parameters in detail. That timestamps are
  compared as strings (`_ts_compare_lt`) is a hazard without a property: instants are numbers
  here. Values with an offset are modelled, but no property covers their buckets.
* *Parts left out.* Pages and settings of the service, credentials and clients, relations and
  their configs, catalog and metadata macros, seeds, snapshots, views and the other
  materializations: rendering, wiring or sequences of statements without state shared beyond
  their target.

`PROJECT.json` lists every component with its reason, and every hazard with the properties
that watch it, or with the reason why none does.
