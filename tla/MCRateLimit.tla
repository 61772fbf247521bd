------------------------------ MODULE MCRateLimit ------------------------------
(***************************************************************************)
(* Instances of RateLimit for TLC.                                         *)
(***************************************************************************)
EXTENDS RateLimit

CONSTANTS k1, k2
=============================================================================
