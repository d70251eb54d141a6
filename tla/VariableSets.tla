---------------------------- MODULE VariableSets ----------------------------
(***************************************************************************)
(* The parameters of execute_ext (query_parameters.py): which variable     *)
(* sets can be bound to a statement, which ones insert_overwrite accepts,  *)
(* which of them it runs, and how many workers run them.                   *)
(*                                                                         *)
(* A set is a function from parameter names to values.  A value has a kind *)
(* and, if it is a point in time, the hour it names on a wall clock that   *)
(* is "offset" hours ahead of UTC.                                         *)
(***************************************************************************)
EXTENDS Integers, FiniteSets, Sequences

CONSTANT Day \* hours in a day

ASSUME DayAssumption == Day \in Nat \ {0}

Clocks == {"datetime", "timestring"}
Dates  == {"date", "datestring"}

AutoWorkerPoolSize == 16
MaxWorkerPoolSize  == 1024

-----------------------------------------------------------------------------
(* Sources and types *)

\* validate_variable_set_source: at most one source, and configured types only beside
\* explicit values.
OneSource(given, types) ==
  /\ Cardinality(given) <= 1
  /\ given \cap {"relation", "sql"} # {} => DOMAIN types = {}

ParamTypes == {"STRING", "INT64", "DATE", "DATETIME", "TIMESTAMP"}

\* bq_field_type_to_param_type; what is not a parameter's type then is refused.
ParamType(field) == IF field = "INTEGER" THEN "INT64" ELSE field

\* variable_sets_from_bq_rows: a scalar type per column, and a value in every cell.
FromRows(sets, columns) ==
  /\ \A n \in DOMAIN columns : ParamType(columns[n]) \in ParamTypes
  /\ \A i \in DOMAIN sets : \A n \in DOMAIN sets[i] : sets[i][n].kind # "null"

Inferable(v) == v.kind \notin {"null", "list"}

\* infer_scalar_type
InferredType(v) ==
  CASE v.kind = "datetime" -> "TIMESTAMP"
    [] v.kind = "date"     -> "DATE"
    [] v.kind = "integer"  -> "INT64"
    [] OTHER               -> "STRING"

\* build_query_parameters succeeds.
Buildable(set, types) ==
  \A n \in DOMAIN set :
    IF n \in DOMAIN types THEN types[n] \in ParamTypes /\ set[n].kind # "null"
                          ELSE Inferable(set[n])

-----------------------------------------------------------------------------
(* insert_overwrite *)

Sole(set) == set[CHOOSE n \in DOMAIN set : TRUE]

OverwriteType(set, types) ==
  LET n == CHOOSE m \in DOMAIN set : TRUE
  IN  IF n \in DOMAIN types THEN types[n] ELSE InferredType(set[n])

Width(granularity) == IF granularity = "hour" THEN 1 ELSE Day

\* _partition_bucket_key: by the wall clock, tzinfo is dropped.
BucketKey(v, granularity) == v.at \div Width(granularity)

\* bq_ext_partition_bucket_eq: BigQuery truncates the instant itself, in UTC.
Bucket(v, granularity) == (v.at - v.offset) \div Width(granularity)

\* validate_insert_overwrite_variable_sets does not raise.
ValidOverwrite(sets, types, granularity) ==
  /\ sets # <<>>
  /\ \A i \in DOMAIN sets :
       /\ Cardinality(DOMAIN sets[i]) = 1
       /\ DOMAIN sets[i] = DOMAIN sets[1]
       /\ LET v == Sole(sets[i]) IN
            /\ OverwriteType(sets[i], types) \in {"DATE", "STRING", "TIMESTAMP", "DATETIME"}
            /\ v.kind \in Clocks \cup (IF granularity = "hour" THEN {} ELSE Dates)

\* Mutant of Survivors: nothing is dropped.
AllOfThem(sets, granularity) == DOMAIN sets
\* What it returns: of the sets with one bucket key the first.
Survivors(sets, granularity) ==
  {i \in DOMAIN sets : \A j \in 1..(i - 1) :
     BucketKey(Sole(sets[j]), granularity) # BucketKey(Sole(sets[i]), granularity)}

-----------------------------------------------------------------------------
(* resolve_worker_pool_size *)

\* Mutant of ValidPoolSize: no limit.
AnyPoolSize(requested)   == requested >= -1
ValidPoolSize(requested) == requested \in -1..MaxWorkerPoolSize

AtMost(a, b)  == IF a <= b THEN a ELSE b
AtLeast(a, b) == IF a >= b THEN a ELSE b

\* 0 takes the profile's threads, -1 a worker for each set.
PoolSize(requested, count, threads) ==
  IF requested = 0
  THEN AtLeast(1, AtMost(IF threads > 0 THEN threads ELSE AutoWorkerPoolSize, count))
  ELSE IF requested = -1 THEN count ELSE requested
=============================================================================
