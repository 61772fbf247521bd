-------------------------------- MODULE MCPages --------------------------------
(***************************************************************************)
(* An instance of Pages for TLC.                                           *)
(***************************************************************************)
EXTENDS Pages, TLC

CONSTANTS j1, j2, e1, e2, l1, l2, v1, v2, i1, o1

Symmetry == Permutations(Jobs) \union Permutations(Executions) \union Permutations(Loads)
=============================================================================
