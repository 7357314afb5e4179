------------------------------ MODULE AtomicSwap ------------------------------
(***************************************************************************)
(* What the swap promises on the ledgers, whatever the daemons do: each    *)
(* participant deposits once; a deposit leaves its lock once, either to    *)
(* its claimant or back to its owner.  The leader can claim only when all  *)
(* participants have deposited, everybody else only once the leader has,   *)
(* and an owner is refunded only after the owner's window has opened.      *)
(***************************************************************************)
EXTENDS Naturals

CONSTANTS
    Participants,   \* the parties of the swap
    Leader,         \* the elected leader
    Target,         \* Target[p]: the participant whose deposit p claims
    Distance        \* Distance[p]: after how many windows p's refund opens

VARIABLES
    deposit,        \* deposit[p]: where p's money is
    now             \* the number of refund windows that have opened

vars == <<deposit, now>>

DepositStates == {"absent", "locked", "claimed", "refunded"}

TypeOK ==
    /\ deposit \in [Participants -> DepositStates]
    /\ now \in Nat

Init ==
    /\ deposit = [p \in Participants |-> "absent"]
    /\ now = 0

\* The deposit of p is locked on its chain.
Lock(p) ==
    /\ deposit[p] = "absent"
    /\ deposit' = [deposit EXCEPT ![p] = "locked"]
    /\ UNCHANGED now

\* The leader claims its target's deposit: everyone has deposited.
LeaderClaim ==
    /\ \A q \in Participants : deposit[q] # "absent"
    /\ deposit[Target[Leader]] = "locked"
    /\ deposit' = [deposit EXCEPT ![Target[Leader]] = "claimed"]
    /\ UNCHANGED now

\* Another participant claims its target's deposit, after the leader.
FollowerClaim(p) ==
    /\ deposit[Target[Leader]] = "claimed"
    /\ deposit[Target[p]] = "locked"
    /\ deposit' = [deposit EXCEPT ![Target[p]] = "claimed"]
    /\ UNCHANGED now

\* p takes its own deposit back.
Refund(p) ==
    /\ now >= Distance[p]
    /\ deposit[p] = "locked"
    /\ deposit' = [deposit EXCEPT ![p] = "refunded"]
    /\ UNCHANGED now

OpenWindow ==
    /\ now' = now + 1
    /\ UNCHANGED deposit

Next ==
    \/ \E p \in Participants : Lock(p) \/ FollowerClaim(p) \/ Refund(p)
    \/ LeaderClaim
    \/ OpenWindow

Spec == Init /\ [][Next]_vars

=============================================================================
