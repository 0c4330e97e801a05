----------------------------- MODULE MCIsoJobs -----------------------------
(***************************************************************************)
(* TLC instance of IsoJobs; jobs are interchangeable.                      *)
(***************************************************************************)
EXTENDS IsoJobs, TLC

Symmetry == Permutations(Jobs)
=============================================================================
