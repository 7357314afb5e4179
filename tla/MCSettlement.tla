---------------------------- MODULE MCSettlement ----------------------------
(* Small cycles of participants for TLC. *)
EXTENDS Settlement, TLC
CONSTANTS p1, p2, p3

TwoCycle == p1 :> p2 @@ p2 :> p1
ThreeCycle == p1 :> p2 @@ p2 :> p3 @@ p3 :> p1
=============================================================================
