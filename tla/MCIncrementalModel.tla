------------------------ MODULE MCIncrementalModel -------------------------
(* Attempts to run one incremental model, alone, beside a Python model of the same schema and
   alias in another database, or beside one that has a file of its own. *)
EXTENDS IncrementalModel

Named3(database, alias) == [database |-> database, schema |-> "s", alias |-> alias]

MCSubject  == Named3("d", "a")
MCProjects == {{<<MCSubject, 1>>, <<MCSubject, 2>>},
               {<<MCSubject, 1>>, <<Named3("e", "a"), 1>>},
               {<<MCSubject, 1>>, <<Named3("d", "b"), 1>>}}
MCMethods  == {[helper |-> "cluster", named |-> FALSE], [helper |-> "bigframes", named |-> FALSE],
               [helper |-> "serverless", named |-> TRUE]}

Scalar(kind) == [kind |-> kind, fields |-> NoFields]
Struct(x, y) == [kind |-> "struct", fields |-> [f \in Fields |-> IF f = "x" THEN x ELSE y]]
Table(c, s)  == [col \in Columns |-> IF col = "c" THEN c ELSE s]

MCSchemas == {Table(Scalar("int"), Struct("int", "none")),
              Table(Scalar("string"), Struct("int", "int")),
              Table(Scalar("none"), Struct("int", "int")),
              Table(Scalar("int"), Scalar("none")),
              Table(Scalar("int"), Struct("none", "int"))}

Alone == {<<MCSubject, 1>>, <<MCSubject, 2>>}

\* Schemas are explored with statements, neighbours with notebooks.
MCInit ==
  /\ IMInit
  /\ language = "sql" => project = Alone /\ method.helper = "cluster"
  /\ language = "python" =>
       /\ target = Table(Scalar("int"), Struct("int", "none"))
       /\ policy = IF method.helper = "cluster" THEN "sync" ELSE "ignore"
       /\ project = Alone \/ method.helper = "bigframes"

MCSpec == MCInit /\ [][IMNext]_imVars /\ IMFair
=============================================================================
