-------------------------- MODULE IncrementalModel --------------------------
(***************************************************************************)
(* The incremental materialization (incremental.sql) of a model whose      *)
(* target exists, staged into a temporary table: the model is built there  *)
(* by a statement or by a Python submission (PythonJobs), the target is    *)
(* brought in line with it (SchemaChange), it is merged into the target    *)
(* and dropped.  Other Python models of PythonJobs are of the table        *)
(* materialization: they are submitted and no more.                        *)
(***************************************************************************)
EXTENDS PythonJobs, SchemaChange

CONSTANT Subject \* the incremental model

ASSUME IncrementalModelAssumption == \E a \in Attempts : Model(a) = Subject

Mine == {a \in Attempts : Model(a) = Subject}

VARIABLES
  language, \* the model's: "sql" or "python"
  node,     \* per attempt to run the model: where its materialization is
  tmp,      \* BigQuery, per temporary table: whose code computed its rows, none if absent
  merged    \* history, per attempt: whose rows it merged into the target

nodeVars == <<language, node, tmp, merged>>
imVars   == <<pyVars, schemaVars, nodeVars>>

\* Mutant of TmpOf: make_temp_relation without the time in its suffix.
SharedTmp(a) == <<Model(a), 0>>
TmpOf(a)     == a

IMInit ==
  /\ PyInit /\ SchemaInit
  /\ language \in {"sql", "python"}
  /\ node = [a \in Mine |-> "idle"]
  /\ tmp = [t \in {TmpOf(a) : a \in Attempts} |-> None]
  /\ merged = [a \in Mine |-> None]

-----------------------------------------------------------------------------

NodeEnded == {"done", "failed"}
NodeIs(a, to) == node' = [node EXCEPT ![a] = to]

\* dbt runs the model, again once a run of it has failed.
RunNode(a) ==
  /\ node[a] = "idle" /\ a \in project
  /\ \A b \in Earlier(a) : node[b] = "failed"
  /\ NodeIs(a, "build")
  /\ UNCHANGED <<pyVars, schemaVars, language, tmp, merged>>

\* create_tmp_relation: the schema the code yields, or none if the table is not there.
Compares(a, from) ==
  /\ IF from = None THEN Build(Missing) ELSE \E schema \in Schemas : Build(schema)
  /\ NodeIs(a, "changes")

\* The statement may have done its work although it is reported as failed.
BuildSql(a) ==
  /\ node[a] = "build" /\ language = "sql"
  /\ tmp' = [tmp EXCEPT ![TmpOf(a)] = a]
  /\ \/ Compares(a, a)
     \/ NodeIs(a, "failed") /\ UNCHANGED schemaVars
  /\ UNCHANGED <<pyVars, language, merged>>

\* The submission is done: whether the table is there is not looked at.
BuiltByPython(a) ==
  /\ node[a] = "build" /\ submit[a] = "done"
  /\ Compares(a, tmp[TmpOf(a)])
  /\ UNCHANGED <<pyVars, language, tmp, merged>>

\* An exception of the submission ends the run.
BuildFails(a) ==
  /\ node[a] = "build" /\ submit[a] = "failed"
  /\ NodeIs(a, "failed")
  /\ UNCHANGED <<pyVars, schemaVars, language, tmp, merged>>

Submits(a) ==
  /\ a \in Mine => node[a] = "build" /\ language = "python"
  /\ Submission(a) \/ SubmitStep(a)
  /\ UNCHANGED <<schemaVars, nodeVars>>

Changes(a) ==
  /\ node[a] = "changes" /\ SchemaStep
  /\ CASE stage' = "done"   -> NodeIs(a, "merge")
       [] stage' = "failed" -> NodeIs(a, "failed")
       [] OTHER             -> UNCHANGED node
  /\ UNCHANGED <<pyVars, language, tmp, merged>>

\* What process_schema_changes returns, or the columns of the target.
DestColumns == IF policy = "ignore" \/ Named(source) = {} THEN Named(target) ELSE Named(source)

Fits == \A c \in DestColumns : source[c] = target[c]

\* The main statement; it too may have done its work and be reported as failed.
Merge(a) ==
  /\ node[a] = "merge"
  /\ IF tmp[TmpOf(a)] # None /\ Fits
     THEN /\ merged' = [merged EXCEPT ![a] = tmp[TmpOf(a)]]
          /\ \E to \in {"drop", "failed"} : NodeIs(a, to)
     ELSE NodeIs(a, "failed") /\ UNCHANGED merged
  /\ UNCHANGED <<pyVars, schemaVars, language, tmp>>

\* After the post hooks, the grants and persist_docs, any of which may fail.
DropTmp(a) ==
  /\ node[a] = "drop"
  /\ tmp' = [tmp EXCEPT ![TmpOf(a)] = None]
  /\ NodeIs(a, "done")
  /\ UNCHANGED <<pyVars, schemaVars, language, merged>>

\* Some other request of the run fails, or dbt is killed.
NodeFails(a) ==
  /\ node[a] \notin {"idle"} \cup NodeEnded
  /\ NodeIs(a, "failed")
  /\ submit' = [submit EXCEPT ![a] = IF @ = "done" THEN @ ELSE "failed"]
  /\ stage' = IF node[a] = "changes" THEN "failed" ELSE stage
  /\ UNCHANGED <<project, method, elapsed, files, templates, run, policy, source, target, diff,
                 seen, fresh, altered, language, tmp, merged>>

\* A job that succeeds has replaced the table its code names, one that fails may have.
JobWrites(a) ==
  /\ JobEnds(a)
  /\ \E wrote \in BOOLEAN :
       /\ run[a].state = "pending" => ~wrote
       /\ run'[a].state = "succeeded" => wrote
       /\ tmp' = IF wrote THEN [tmp EXCEPT ![TmpOf(run[a].code)] = run[a].code] ELSE tmp
  /\ UNCHANGED <<schemaVars, language, node, merged>>

-----------------------------------------------------------------------------
(* Specification *)

NodeStep(a) ==
  \/ Submits(a)
  \/ a \in Mine /\ \/ BuildSql(a) \/ BuiltByPython(a) \/ BuildFails(a)
                   \/ Changes(a) \/ Merge(a) \/ DropTmp(a)

IMNext ==
  \/ \E a \in Attempts :
       \/ NodeStep(a)
       \/ a \in Mine /\ (RunNode(a) \/ NodeFails(a))
       \/ a \notin Mine /\ Stops(a) /\ UNCHANGED <<schemaVars, nodeVars>>
       \/ JobStarts(a) /\ UNCHANGED <<schemaVars, nodeVars>>
       \/ JobWrites(a)
  \/ OwnerAlters /\ UNCHANGED <<pyVars, nodeVars>>

IMSpec == IMInit /\ [][IMNext]_imVars

\* Threads keep running and requests return; Google need not start or finish a job.
IMFair == \A a \in Attempts : WF_imVars(NodeStep(a))

-----------------------------------------------------------------------------
(* Correctness *)

IMTypeOK ==
  /\ PyTypeOK /\ SchemaTypeOK
  /\ language \in {"sql", "python"}
  /\ node \in [Mine -> {"idle", "build", "changes", "merge", "drop"} \cup NodeEnded]
  /\ tmp \in [{TmpOf(a) : a \in Attempts} -> Attempts \cup {None}]
  /\ merged \in [Mine -> Attempts \cup {None}]

\* What a run merges into the target was computed by its own code, and a run that ends well
\* has merged it, whatever tables the jobs of earlier attempts, which nobody stops, still write.
MergesItsOwnRows ==
  \A a \in Mine : merged[a] \in {None, a} /\ (node[a] = "done" => merged[a] = a)

\* Every model that dbt runs settles, though Google may neither start nor finish its job.
ModelsSettle ==
  /\ \A a \in Mine : node[a] = "build" ~> node[a] \in NodeEnded
  /\ \A a \in Attempts \ Mine : submit[a] = "create" ~> submit[a] \in Over
=============================================================================
