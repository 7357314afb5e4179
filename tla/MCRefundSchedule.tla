--------------------------- MODULE MCRefundSchedule ---------------------------
(* Three participants on both chains for TLC. *)
EXTENDS RefundSchedule, TLC
CONSTANTS p1, p2, p3

ThreeCycle == p1 :> p2 @@ p2 :> p3 @@ p3 :> p1
Mixed == p1 :> "Cardano" @@ p2 :> "Cardano" @@ p3 :> "Bitcoin"
=============================================================================
