---------------------------- MODULE MCJobExecution ----------------------------
(***************************************************************************)
(* Instances of JobExecution for TLC.                                      *)
(***************************************************************************)
EXTENDS JobExecution, TLC

CONSTANTS j1, j2, p1, p2

Once == j1 :> 1
Twice == j1 :> 2
\* A job that is retried, and one that has no attempt at all.
RetriedAndNever == (j1 :> 2) @@ (j2 :> 0)

\* Processes are alike; not used with liveness.
Symmetry == Permutations(Processes)
=============================================================================
