-------------------------------- MODULE Cycle --------------------------------
(***************************************************************************)
(* The cyclic arrangement of the participants and the refund distances     *)
(* derived from it (swap-daemon/src/utils.rs).  target[p] is the code's    *)
(* target_participant: the participant whose lock p claims.                *)
(***************************************************************************)
EXTENDS Naturals, FiniteSets

\* The walk both loops of utils.rs take: n hops along target from start.
Walk(target, start) ==
    LET w[n \in Nat] == IF n = 0 THEN start ELSE target[w[n - 1]]
    IN  w

\* check_cyclic: every target exists, nobody targets itself, and the walk from
\* some participant first comes back to it after visiting all of them.  The
\* code starts at the smallest key; which one it is does not matter.
CheckCyclic(participants, target) ==
    /\ participants # {}
    /\ \A p \in participants : target[p] \in participants \ {p}
    /\ \E start \in participants :
          {n \in 1 .. Cardinality(participants) : Walk(target, start)[n] = start}
             = {Cardinality(participants)}

\* distance_from_leader: the number of hops after which the walk from the
\* leader first reaches from; the leader itself is reached last.
DistanceFromLeader(participants, target, from, leader) ==
    LET reached == {n \in 1 .. Cardinality(participants) :
                        Walk(target, leader)[n] = from}
    IN  CHOOSE n \in reached : \A m \in reached : n <= m

=============================================================================
