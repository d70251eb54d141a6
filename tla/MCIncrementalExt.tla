------------------------- MODULE MCIncrementalExt --------------------------
(* Two runs of a model over two buckets of two hours, or three slices of a merge. *)
EXTENDS IncrementalExt, TLC

Value(kind, hour)        == [kind |-> kind, at |-> hour, offset |-> 0]
Ahead(kind, hour, hours) == [kind |-> kind, at |-> hour, offset |-> hours]
List(field, first, second) ==
  [sets |-> <<("dt" :> first), ("dt" :> second)>>, columns |-> ("dt" :> field)]

MCLists == {[sets |-> <<>>, columns |-> ("dt" :> "DATE")],
            List("STRING", Value("timestring", 0), Value("timestring", 1)),
            List("DATE", Value("date", 0), Value("date", 2)),
            List("TIMESTAMP", Value("datetime", 1), Ahead("datetime", 2, 1)),
            List("INTEGER", Value("integer", 0), Value("null", 1)),
            List("ARRAY", Value("list", 0), Value("list", 2))}

Config(mode, granularity, workers, given, types) ==
  [mode |-> mode, granularity |-> granularity, workers |-> workers, given |-> given,
   types |-> types]

Untyped == <<>>
Typed   == "dt" :> "STRING"

MCModels == {Config("consistency", "day", 0, {"relation"}, Untyped),
             Config("scalability", "day", 0, {"values"}, Untyped),
             Config("scalability", "hour", -1, {"values"}, Typed),
             Config("merge", "day", 0, {"relation"}, Untyped),
             Config("merge", "day", 0, {"relation"}, Typed),
             Config("merge", "day", -2, {"values"}, Untyped),
             Config("merge", "day", MaxWorkerPoolSize + 1, {"sql"}, Untyped),
             Config("merge", "day", 0, {"values", "sql"}, Untyped)}

\* An offset is for the buckets of a day only; a full refresh drops the other targets, too.
MCInit ==
  /\ ExtInit
  /\ model.granularity = "hour" \/ ~Overwrites =>
       \A i \in DOMAIN listed.sets : Sole(listed.sets[i]).offset = 0
  /\ table = CASE model.granularity = "hour" -> "view"
               [] model.given = {"values"}   -> "absent"
               [] OTHER                      -> "table"

MCSpec == MCInit /\ [][ExtNext]_extVars /\ ExtFair
=============================================================================
