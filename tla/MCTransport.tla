----------------------------- MODULE MCTransport -----------------------------
(* Two daemons for TLC, one of which sends more than the sockets hold. *)
EXTENDS Transport, TLC
CONSTANTS d1, d2

Talkative == d1 :> 3 @@ d2 :> 1
=============================================================================
