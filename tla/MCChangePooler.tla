--------------------------- MODULE MCChangePooler ---------------------------
(***************************************************************************)
(* Small instances of ChangePooler for TLC.                                *)
(***************************************************************************)
EXTENDS ChangePooler

\* Intervals asked for: [start, end).
Fresh(s, e) == [start |-> s, end |-> e, fresh |-> TRUE]
Stale(s, e) == [start |-> s, end |-> e, fresh |-> FALSE]
SerializedQuestions == {Fresh(0, 2), Fresh(1, 2), Stale(0, 1)}
FaultyQuestions     == {Fresh(0, 2)}
InitialQuestions    == {Fresh(0, 1)}
NullQuestions       == {Fresh(0, 2)}
OwnerQuestions      == {Fresh(0, 1)}

\* The slots are interchangeable; not for the liveness run.
CallSymmetry == Permutations(Calls)
=============================================================================
