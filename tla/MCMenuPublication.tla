-------------------------- MODULE MCMenuPublication --------------------------
(***************************************************************************)
(* TLC instance of MenuPublication; OS types and regenerations are          *)
(* interchangeable.                                                        *)
(***************************************************************************)
EXTENDS MenuPublication, TLC

Symmetry == Permutations(Regens) \cup Permutations(OsTypes)
=============================================================================
