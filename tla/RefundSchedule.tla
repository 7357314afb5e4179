---------------------------- MODULE RefundSchedule ----------------------------
(***************************************************************************)
(* When refunds open: the staggered locktimes in the units of each chain   *)
(* (swap-daemon/src/utils.rs), the poll that compares them with the tip    *)
(* (protocol/chain_monitor.rs), and the ledgers' own verdict on a refund,  *)
(* nLockTime on Bitcoin, validity interval and script                      *)
(* (swap_validator/validators/swap.ak) on Cardano.                         *)
(*                                                                         *)
(* Seconds are counted from the creation of the session.  A slot is one    *)
(* second; Bitcoin's blocks are external and keep up with the clock within *)
(* MaxDrift, Cardano's latest block is at most MaxLag old.                 *)
(***************************************************************************)
EXTENDS Cycle, Integers

CONSTANTS
    Participants,        \* the parties of the swap
    Leader,              \* the elected leader
    Target,              \* Target[p]: the participant whose lock p claims
    Blockchain,          \* Blockchain[p]: the chain p locks on
    refund_window_secs,  \* the length of a refund window, in seconds
    BlockSecs,           \* the seconds the code counts for a Bitcoin block: 600
    start_block,         \* Bitcoin's height when the session was created
    start_slot,          \* Cardano's slot when the session was created
    system_start_secs,   \* the POSIX time of Cardano's slot 0
    MaxDrift,            \* how far Bitcoin's height may be off the clock
    MaxLag,              \* how old Cardano's latest block may be
    Horizon              \* the last second looked at

\* session.rs:92 fixes 604_800 seconds, which is 1008 blocks of 600.
ASSUME ScheduleAssumption ==
    /\ IsFiniteSet(Participants)
    /\ Leader \in Participants
    /\ Target \in [Participants -> Participants]
    /\ CheckCyclic(Participants, Target)
    /\ Blockchain \in [Participants -> {"Bitcoin", "Cardano"}]
    /\ {refund_window_secs, BlockSecs, system_start_secs} \subseteq Nat \ {0}
    /\ {start_block, start_slot, MaxDrift, MaxLag, Horizon} \subseteq Nat
    /\ refund_window_secs % BlockSecs = 0

VARIABLES
    clock,      \* seconds since the session was created
    height,     \* Bitcoin's tip
    tip_slot,   \* the slot of Cardano's latest block
    opened,     \* when the window of each participant opened, or NotYet
    verdict     \* what became of each participant's refund

vars == <<clock, height, tip_slot, opened, verdict>>

NotYet == -1
Slot == start_slot + clock

Distance(p) == DistanceFromLeader(Participants, Target, p, Leader)

\* How late the claimant's window and how early the target's may be seen.
Tolerance == MaxDrift + (IF MaxDrift > MaxLag + 1 THEN MaxDrift ELSE MaxLag + 1)

\* A week, against what a chain may be off the clock.
ASSUME WindowsAreLong == refund_window_secs > Tolerance

-----------------------------------------------------------------------------
(* Locktimes.                                                              *)

\* Variants: every locktime is one window away; the windows are too short.
LocktimeUnstaggered(p) == start_block + (refund_window_secs + BlockSecs - 1) \div BlockSecs
LocktimeOneLess(p) ==
    start_block + (Distance(p) - 1) * ((refund_window_secs + BlockSecs - 1) \div BlockSecs)

\* refund_locktime_btc, in blocks, rounded up.
refund_locktime_btc(p) ==
    start_block + Distance(p) * ((refund_window_secs + BlockSecs - 1) \div BlockSecs)

\* refund_locktime_cardano, in slots.
refund_locktime_cardano(p) == start_slot + Distance(p) * refund_window_secs

\* Variant: the datum holds the slot.
DeadlineInSlots(p) == refund_locktime_cardano(p)

\* refund_deadline_posix_ms, for the datum of the lock.
refund_deadline_posix_ms(p) ==
    (system_start_secs + refund_locktime_cardano(p)) * 1000

-----------------------------------------------------------------------------
(* The ledgers.                                                            *)

PosixMs(slot) == (system_start_secs + slot) * 1000

\* swap.ak, Refund: the validity interval starts at or after the deadline.
ScriptAccepts(p, invalid_before) ==
    PosixMs(invalid_before) >= refund_deadline_posix_ms(p)

\* build_refund_tx sets nLockTime: the next block must be past it.
BitcoinAccepts(p) == refund_locktime_btc(p) <= height

\* build_refund_tx sets the start of the validity interval: the tip must be
\* past it, and the script must accept it.
CardanoAccepts(p) ==
    /\ refund_locktime_cardano(p) < tip_slot
    /\ ScriptAccepts(p, refund_locktime_cardano(p))

LedgerAccepts(p) ==
    IF Blockchain[p] = "Bitcoin" THEN BitcoinAccepts(p) ELSE CardanoAccepts(p)

-----------------------------------------------------------------------------
(* The daemon.                                                             *)

\* Variant: not strict on Cardano.
WindowOpenNotStrict(p) ==
    IF Blockchain[p] = "Bitcoin"
    THEN height >= refund_locktime_btc(p)
    ELSE tip_slot >= refund_locktime_cardano(p)

\* check_refund_window_open, when the tip can be fetched.
WindowOpen(p) ==
    IF Blockchain[p] = "Bitcoin"
    THEN height >= refund_locktime_btc(p)
    ELSE tip_slot > refund_locktime_cardano(p)

\* Variant: the session is left in a state of its own until the next poll.
PollUnknownVerdict(p) ==
    /\ verdict[p] = "none"
    /\ WindowOpen(p)
    /\ verdict' = [verdict EXCEPT ![p] = "submitted"]
    /\ UNCHANGED <<clock, height, tip_slot, opened>>

\* A ChainPoll of the RefundWindow target: an open window ends the session.
PollRefundWindow(p) ==
    /\ verdict[p] = "none"
    /\ WindowOpen(p)
    /\ verdict' = [verdict EXCEPT ![p] =
                      IF LedgerAccepts(p) THEN "refunded" ELSE "rejected"]
    /\ UNCHANGED <<clock, height, tip_slot, opened>>

-----------------------------------------------------------------------------
(* Time.                                                                   *)

InStep(c, h) ==
    /\ (h - start_block) * BlockSecs - c <= MaxDrift
    /\ c - (h - start_block) * BlockSecs <= MaxDrift

\* Notes the windows that a step of time opens.
NoteOpened ==
    opened' = [p \in Participants |->
                  IF opened[p] = NotYet /\ WindowOpen(p)' THEN clock' ELSE opened[p]]

Tick ==
    /\ clock < Horizon
    /\ InStep(clock + 1, height)
    /\ Slot + 1 - tip_slot <= MaxLag
    /\ clock' = clock + 1
    /\ UNCHANGED <<height, tip_slot, verdict>>
    /\ NoteOpened

MineBlock ==
    /\ InStep(clock, height + 1)
    /\ height' = height + 1
    /\ UNCHANGED <<clock, tip_slot, verdict>>
    /\ NoteOpened

MakeCardanoBlock ==
    /\ tip_slot < Slot
    /\ tip_slot' = Slot
    /\ UNCHANGED <<clock, height, verdict>>
    /\ NoteOpened

Init ==
    /\ clock = 0
    /\ height = start_block
    /\ tip_slot = start_slot
    /\ opened = [p \in Participants |-> NotYet]
    /\ verdict = [p \in Participants |-> "none"]

Next ==
    \/ \E p \in Participants : PollRefundWindow(p)
    \/ Tick
    \/ MineBlock
    \/ MakeCardanoBlock

Spec == Init /\ [][Next]_vars

-----------------------------------------------------------------------------
(* Properties.                                                             *)

TypeOK ==
    /\ clock \in 0 .. Horizon
    /\ height \in Nat
    /\ tip_slot \in start_slot .. start_slot + Horizon
    /\ opened \in [Participants -> Int]
    /\ verdict \in [Participants -> {"none", "refunded", "rejected"}]

\* utils.rs:532: each party's refund window opens after its claimant's.  All
\* but the leader have their own window open, and have had nearly a window to
\* claim in, before their target's refund opens, whichever chains they are on.
ClaimBeforeTargetRefunds ==
    \A p \in Participants \ {Leader} :
        opened[Target[p]] # NotYet =>
            /\ opened[p] # NotYet
            /\ opened[Target[p]] - opened[p] >= refund_window_secs - Tolerance

\* chain_monitor.rs:317: the daemon gives up its session for a refund only
\* when the node takes the refund.
RefundNotRejected == \A p \in Participants : verdict[p] # "rejected"

\* utils.rs:479-500: whatever start of validity its owner declares, the ledger
\* takes no refund from the script before the deadline has passed in seconds.
NoRefundBeforeDeadline ==
    \A p \in Participants : \A invalid_before \in 0 .. Slot :
        Blockchain[p] = "Cardano" /\ ScriptAccepts(p, invalid_before)
            => clock >= Distance(p) * refund_window_secs

\* Settlement counts the windows that have opened: they open in the order of
\* the distance from the leader, the leader's own last.
WindowsInOrder ==
    \A p, q \in Participants :
        Distance(p) < Distance(q) /\ WindowOpen(q) => WindowOpen(p)

=============================================================================
