--------------------------- MODULE CoverageLedger ---------------------------
(***************************************************************************)
(* What pooling promises about each table, with no locks, calls, clocks or *)
(* failures: one frontier that only moves forward, and the windows already *)
(* accounted for.  The first window of a table is the empty one at the     *)
(* moment pooling began; every later one starts where the previous ended.  *)
(***************************************************************************)
EXTENDS Integers

CONSTANTS Tables,   \* the BigQuery tables
          MaxTime   \* the latest instant of the model

VARIABLES frontier, \* per table: end of the accounted-for period, NoTime before the first pool
          windows   \* per table: the windows [lo, hi) accounted for

Time   == 0..MaxTime
NoTime == -1

Init ==
  /\ frontier = [t \in Tables |-> NoTime]
  /\ windows  = [t \in Tables |-> {}]

\* Where the next window of t starts when it is to end at hi.
WindowStart(t, hi) == IF frontier[t] = NoTime THEN hi ELSE frontier[t]

\* Account for the changes of t up to hi, in one step.
Extend(t, hi) ==
  /\ frontier[t] < hi
  /\ windows'  = [windows EXCEPT ![t] = @ \cup {[lo |-> WindowStart(t, hi), hi |-> hi]}]
  /\ frontier' = [frontier EXCEPT ![t] = hi]

Next == \E t \in Tables, hi \in Time : Extend(t, hi)

Spec == Init /\ [][Next]_<<frontier, windows>>
=============================================================================
