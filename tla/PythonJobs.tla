----------------------------- MODULE PythonJobs -----------------------------
(***************************************************************************)
(* Python models (python_submissions.py): a helper writes the code to one  *)
(* file per model, has Google run that file as a Dataproc job, a Dataproc  *)
(* batch or a notebook, and polls until the job ends or time is up.  The   *)
(* job reads the file when it starts, and nobody stops it.  A model whose  *)
(* submission failed may be submitted again.                               *)
(***************************************************************************)
EXTENDS Integers, FiniteSets

CONSTANTS
  Projects, \* bound: per instance the attempts to submit a model, by its database, schema and
            \* alias and a number
  Methods,  \* what the models may be configured with: submission method and batch_id
  Deadline  \* the polling timeout, in polls

ASSUME PythonJobsAssumption ==
  /\ \A a \in UNION Projects :
       DOMAIN a[1] = {"database", "schema", "alias"} /\ a[2] \in Nat
  /\ \A a, b \in UNION Projects : a[1] = b[1] /\ a[2] = b[2] => a = b
  /\ Methods \subseteq [helper : {"cluster", "serverless", "bigframes"}, named : BOOLEAN]
  /\ Deadline \in Nat

Attempts == UNION Projects
Model(a) == a[1]

\* The database is not part of _model_file_name.
File(m) == <<m.schema, m.alias>>
Files   == {File(Model(a)) : a \in Attempts}

VARIABLES
  project,   \* the attempts that are made
  method,    \* the submission method, and whether the config of a model gives the batch_id
  submit,     \* per attempt: where its submit is
  elapsed,   \* per attempt: polls so far
  files,     \* GCS, per file: whose code it holds, none at first
  templates, \* Vertex AI: the attempts that created a default template
  run        \* per attempt, its job at Google: its state, and whose code it runs

pyVars == <<project, method, submit, elapsed, files, templates, run>>

None == <<>>

PyInit ==
  /\ project \in Projects /\ method \in Methods
  /\ submit = [a \in Attempts |-> "idle"] /\ elapsed = [a \in Attempts |-> 0]
  /\ files = [f \in Files |-> None] /\ templates = {}
  /\ run = [a \in Attempts |-> [state |-> "none", code |-> None]]

-----------------------------------------------------------------------------
(* dbt *)

Earlier(a) == {b \in project : Model(b) = Model(a) /\ b[2] < a[2]}
Over     == {"done", "failed"}
JobEnded == {"succeeded", "failed"}
Gets(a, to) == submit' = [submit EXCEPT ![a] = to]

\* One attempt of a model at a time.
Submission(a) ==
  /\ submit[a] = "idle" /\ a \in project
  /\ \A b \in Earlier(a) : submit[b] \in Over
  /\ Gets(a, IF method.helper = "bigframes" THEN "template" ELSE "write")
  /\ UNCHANGED <<project, method, elapsed, files, templates, run>>

\* _get_notebook_template_id: the first one that is listed, ...
FindTemplate(a) ==
  /\ submit[a] = "template"
  /\ Gets(a, IF templates = {} THEN "new template" ELSE "write")
  /\ UNCHANGED <<project, method, elapsed, files, templates, run>>

\* ... or a new one, even if another thread has created one since.
NewTemplate(a) ==
  /\ submit[a] = "new template"
  /\ templates' = templates \cup {a}
  /\ Gets(a, "write")
  /\ UNCHANGED <<project, method, elapsed, files, run>>

\* Mutant of Written: the upload leaves a file that exists as it is.
WrittenOnce(a) == IF files[File(Model(a))] = None THEN a ELSE files[File(Model(a))]
Written(a)     == a

WriteCode(a) ==
  /\ submit[a] = "write"
  /\ files' = [files EXCEPT ![File(Model(a))] = Written(a)]
  /\ Gets(a, "create")
  /\ UNCHANGED <<project, method, elapsed, templates, run>>

\* A batch of that name exists: create_batch raises.
NameTaken(a) ==
  /\ method.helper = "serverless" /\ method.named
  /\ \E b \in Earlier(a) : run[b].state # "none"

\* The job or batch is submitted; the answer may be lost.
CreateJob(a) ==
  /\ submit[a] = "create" /\ ~NameTaken(a)
  /\ run' = [run EXCEPT ![a].state = "pending"]
  /\ \E to \in {"poll", "failed"} : Gets(a, to)
  /\ UNCHANGED <<project, method, elapsed, files, templates>>

Refused(a) ==
  /\ submit[a] = "create" /\ NameTaken(a)
  /\ Gets(a, "failed")
  /\ UNCHANGED <<project, method, elapsed, files, templates, run>>

\* Mutant of Polled: the time a job waits to be started does not count.
PolledWhileRunning(a) == IF run[a].state = "pending" THEN elapsed[a] ELSE elapsed[a] + 1
Polled(a)             == elapsed[a] + 1

\* Mutant of TimeUp: one poll more.
PastDeadline(a) == elapsed[a] > Deadline
TimeUp(a)       == elapsed[a] >= Deadline

\* _track_notebook_job_status, or the polling of the operation: the state first, then the time.
Poll(a) ==
  /\ submit[a] = "poll"
  /\ CASE run[a].state = "succeeded" -> Gets(a, "report") /\ UNCHANGED elapsed
       [] run[a].state = "failed"    -> Gets(a, "failed") /\ UNCHANGED elapsed
       [] OTHER ->
            IF TimeUp(a) THEN Gets(a, "failed") /\ UNCHANGED elapsed
            ELSE elapsed' = [elapsed EXCEPT ![a] = Polled(a)] /\ UNCHANGED submit
  /\ UNCHANGED <<project, method, files, templates, run>>

\* The log is shown if it can be read, and the job is got once more.
Report(a) ==
  /\ submit[a] = "report"
  /\ Gets(a, "done")
  /\ UNCHANGED <<project, method, elapsed, files, templates, run>>

\* The configuration is incomplete, a request fails, or dbt is killed.
Stops(a) ==
  /\ submit[a] \notin {"idle"} \cup Over
  /\ Gets(a, "failed")
  /\ UNCHANGED <<project, method, elapsed, files, templates, run>>

-----------------------------------------------------------------------------
(* Google *)

JobStarts(a) ==
  /\ run[a].state = "pending"
  /\ run' = [run EXCEPT ![a] = [state |-> "running", code |-> files[File(Model(a))]]]
  /\ UNCHANGED <<project, method, submit, elapsed, files, templates>>

\* Its code, or the installation of its packages, may raise; somebody may cancel it.
JobEnds(a) ==
  /\ \/ run[a].state = "running" /\ \E s \in JobEnded : run' = [run EXCEPT ![a].state = s]
     \/ run[a].state = "pending" /\ run' = [run EXCEPT ![a].state = "failed"]
  /\ UNCHANGED <<project, method, submit, elapsed, files, templates>>

-----------------------------------------------------------------------------
(* Specification *)

SubmitStep(a) ==
  \/ FindTemplate(a) \/ NewTemplate(a) \/ WriteCode(a) \/ CreateJob(a) \/ Refused(a)
  \/ Poll(a) \/ Report(a)

-----------------------------------------------------------------------------
(* Correctness *)

PyTypeOK ==
  /\ project \in Projects
  /\ method \in Methods
  /\ submit \in [Attempts -> {"idle", "template", "new template", "write", "create", "poll",
                             "report"} \cup Over]
  /\ elapsed \in [Attempts -> 0..Deadline]
  /\ files \in [Files -> Attempts \cup {None}]
  /\ templates \subseteq Attempts
  /\ run \in [Attempts -> [state : {"none", "pending", "running"} \cup JobEnded,
                           code : Attempts \cup {None}]]

\* A submission that is reported done had a job that succeeded on exactly the code dbt
\* compiled for it, whatever jobs of earlier attempts are still waiting to read the file: for
\* models that share their schema and alias with no other model of the run.
SuccessRanItsCode ==
  \A a \in Attempts :
    /\ submit[a] = "done"
    /\ \A b \in project : Model(b) # Model(a) => File(Model(b)) # File(Model(a))
    => run[a] = [state |-> "succeeded", code |-> a]
=============================================================================
