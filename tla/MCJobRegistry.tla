----------------------------- MODULE MCJobRegistry -----------------------------
(***************************************************************************)
(* Instances of JobRegistry for TLC.                                       *)
(***************************************************************************)
EXTENDS JobRegistry, TLC

CONSTANTS j1, p1, p2, c1, c2, z1, z2

\* The first expression is extended into the second, which stays.
Slowed == c1 :> c2

\* Jobs are created with the first expression, in a known zone or another; or inactive.
Row1(isActive, zone) == [isActive |-> isActive, cronExpression |-> c1, timezone |-> zone]
FirstRows == {Row1("on", z) : z \in Zones} \union {Row1("off", z1)}

\* Updates that move a job to the second expression or switch it off.
FewUpdates == {[NoDto EXCEPT !.cronExpression = c2], [NoDto EXCEPT !.isActive = "off"]}
\* Every update.
AnyUpdate == Dto

Symmetry == Permutations(Processes)
=============================================================================
