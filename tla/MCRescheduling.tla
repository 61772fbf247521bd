---------------------------- MODULE MCRescheduling ----------------------------
(***************************************************************************)
(* An instance of Rescheduling for TLC, at the thresholds of the rules.    *)
(***************************************************************************)
EXTENDS Rescheduling, TLC

CONSTANTS p1, p2

Fields == {Every, Step(40), Several(40, 2)}

Repeat(n, status, time) ==
  [i \in 1 .. n |-> [status |-> status, executionTimeMs |-> time]]

\* One short of ten, with two failures; eleven slow ones, the first six failed and the last
\* two beyond the timeout.
AtThresholds ==
  {Repeat(7, "SUCCESS", 1) \o Repeat(2, "FAILED", 1),
   Repeat(6, "FAILED", 9) \o Repeat(3, "SUCCESS", 9) \o Repeat(2, "SUCCESS", 10)}

\* Every execution failed.
AllFailed == {Repeat(10, "FAILED", 1)}
=============================================================================
