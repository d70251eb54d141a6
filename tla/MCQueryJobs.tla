----------------------------- MODULE MCQueryJobs ----------------------------
(***************************************************************************)
(* Small instances of QueryJobs for TLC.                                   *)
(***************************************************************************)
EXTENDS QueryJobs, TLC

\* Uuids are interchangeable.
IdSymmetry == Permutations(JobIds)
=============================================================================
