------------------------------- MODULE MCJobsPage -------------------------------
(***************************************************************************)
(* An instance of JobsPage for TLC.                                        *)
(***************************************************************************)
EXTENDS JobsPage, TLC

CONSTANTS j1, j2, l1, l2

Symmetry == Permutations(Jobs) \union Permutations(Loads)
=============================================================================
