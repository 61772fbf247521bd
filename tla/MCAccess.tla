------------------------------- MODULE MCAccess -------------------------------
(***************************************************************************)
(* Instances of Access for TLC.                                            *)
(***************************************************************************)
EXTENDS Access, TLC

CONSTANTS u1, u2

ReadOrAll == {{"READ"}, {"ADMIN"}}
Symmetry == Permutations(Users)
=============================================================================
