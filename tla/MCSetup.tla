------------------------------ MODULE MCSetup ------------------------------
(* Small sets of participants for TLC. *)
EXTENDS Setup, TLC
CONSTANTS p1, p2, p3

OneOrder == <<p1>>
TwoOrder == <<p1, p2>>
=============================================================================
