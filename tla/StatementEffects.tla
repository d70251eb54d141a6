-------------------------- MODULE StatementEffects --------------------------
(***************************************************************************)
(* What running a SQL statement promises its caller: its work is done at   *)
(* most once, it is done when the caller is told so, and a caller told of  *)
(* a failure knows nothing: the work may have been done, or may yet be.    *)
(***************************************************************************)
EXTENDS Integers

CONSTANTS Statements, \* the statements
          JobIds      \* what an execution is known by

VARIABLES outcome,    \* per statement: "new", "open", "ok" or "raised"
          executed    \* per statement: the executions that did its work

Init ==
  /\ outcome  = [s \in Statements |-> "new"]
  /\ executed = [s \in Statements |-> {}]

Call(s) ==
  /\ outcome[s] = "new"
  /\ outcome' = [outcome EXCEPT ![s] = "open"]
  /\ UNCHANGED executed

\* Never a second time, and never first after the caller was told it is done.
Execute(s, j) ==
  /\ outcome[s] \in {"open", "raised"}
  /\ executed[s] = {}
  /\ executed' = [executed EXCEPT ![s] = {j}]
  /\ UNCHANGED outcome

Return(s) ==
  /\ outcome[s] = "open"
  /\ executed[s] # {}
  /\ outcome' = [outcome EXCEPT ![s] = "ok"]
  /\ UNCHANGED executed

Raise(s) ==
  /\ outcome[s] = "open"
  /\ outcome' = [outcome EXCEPT ![s] = "raised"]
  /\ UNCHANGED executed

Next == \E s \in Statements : \/ Call(s) \/ Return(s) \/ Raise(s)
                              \/ \E j \in JobIds : Execute(s, j)

Spec == Init /\ [][Next]_<<outcome, executed>>
=============================================================================
