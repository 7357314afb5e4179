------------------------- MODULE RefundScheduleProofs -------------------------
(***************************************************************************)
(* Theorems of RefundSchedule, for every cycle on both kinds of chain and  *)
(* every length of a window that is longer than the chains are off.        *)
(***************************************************************************)
EXTENDS RefundSchedule, CycleProofs, TLAPS

\* When a window is due, and when at the latest it is seen open.
Due(p) == Distance(p) * refund_window_secs
Late == IF MaxDrift > MaxLag THEN MaxDrift ELSE MaxLag

\* The chains keep up with the clock.
ChainsInStep ==
    /\ InStep(clock, height)
    /\ tip_slot <= Slot /\ Slot - tip_slot <= MaxLag

\* A window is noted when it opens, neither much before nor after it is due.
OpenedWhenDue ==
    \A p \in Participants :
        IF opened[p] = NotYet
        THEN ~WindowOpen(p)
        ELSE /\ opened[p] \in 0 .. clock
             /\ Due(p) - MaxDrift <= opened[p]
             /\ opened[p] <= Due(p) + Late

IInv == TypeOK /\ ChainsInStep /\ OpenedWhenDue /\ RefundNotRejected

-----------------------------------------------------------------------------
(* Numbers.                                                                *)

LEMMA TimesMonotone ==
    ASSUME NEW a \in Int, NEW b \in Int, NEW c \in Nat, a <= b
    PROVE  a * c <= b * c
  OBVIOUS

\* The distances that the locktimes are made of.
LEMMA Hops ==
    /\ \A p \in Participants : Distance(p) \in Nat \ {0}
    /\ \A p \in Participants \ {Leader} : Distance(Target[p]) = Distance(p) + 1
<1> DEFINE D(p) == DistanceFromLeader(Participants, Target, p, Leader)
<1>1. /\ \A p \in Participants : D(p) \in 1 .. Cardinality(Participants)
      /\ \A p \in Participants \ {Leader} : D(Target[p]) = D(p) + 1
  BY ScheduleAssumption, HopByHop
<1>2. Cardinality(Participants) \in Nat
  BY ScheduleAssumption, FS_CardinalityType
<1> HIDE DEF D
<1>3. \A p \in Participants : D(p) \in Nat \ {0}
  BY <1>1, <1>2
<1>4. QED
  BY <1>1, <1>3 DEF D, Distance

LEMMA Numbers ==
    /\ refund_window_secs \in Nat \ {0} /\ BlockSecs \in Nat \ {0}
    /\ system_start_secs \in Nat
    /\ start_block \in Nat /\ start_slot \in Nat
    /\ MaxDrift \in Nat /\ MaxLag \in Nat /\ Horizon \in Nat
    /\ \A p \in Participants : Distance(p) \in Nat \ {0} /\ Due(p) \in Nat
<1>1. \A p \in Participants : Distance(p) \in Nat \ {0}
  BY Hops
<1>2. refund_window_secs \in Nat
  BY ScheduleAssumption
<1>3. \A p \in Participants : Due(p) \in Nat
  BY <1>1, <1>2 DEF Due
<1>4. QED
  BY <1>1, <1>3, ScheduleAssumption

\* The blocks of a window, rounded up, are as long as the window.
LEMMA BlocksOfWindow ==
    /\ (refund_window_secs + BlockSecs - 1) \div BlockSecs \in Nat
    /\ ((refund_window_secs + BlockSecs - 1) \div BlockSecs) * BlockSecs
           = refund_window_secs
<1> DEFINE W == refund_window_secs
           B == BlockSecs
           k == W \div B
           q == (W + B - 1) \div B
           r == (W + B - 1) % B
<1>1. W \in Nat \ {0} /\ B \in Nat \ {0} /\ W % B = 0
  BY ScheduleAssumption
<1> HIDE DEF W, B
<1>2. k \in Nat /\ W = k * B
  BY <1>1
<1>3. q \in Nat /\ r \in 0 .. B - 1 /\ W + B - 1 = q * B + r
  BY <1>1
<1> HIDE DEF k, q, r
<1>4. q <= k
  <2> SUFFICES ASSUME k + 1 <= q PROVE FALSE
    BY <1>2, <1>3
  <2>1. (k + 1) * B <= q * B
    BY <1>1, <1>2, <1>3, TimesMonotone
  <2>2. (k + 1) * B = k * B + B
    BY <1>1, <1>2
  <2>3. k * B \in Nat /\ q * B \in Nat
    BY <1>1, <1>2, <1>3
  <2>4. QED
    BY <1>1, <1>2, <1>3, <2>1, <2>2, <2>3
<1>5. k <= q
  <2> SUFFICES ASSUME q + 1 <= k PROVE FALSE
    BY <1>2, <1>3
  <2>1. (q + 1) * B <= k * B
    BY <1>1, <1>2, <1>3, TimesMonotone
  <2>2. (q + 1) * B = q * B + B
    BY <1>1, <1>3
  <2>3. k * B \in Nat /\ q * B \in Nat
    BY <1>1, <1>2, <1>3
  <2>4. QED
    BY <1>1, <1>2, <1>3, <2>1, <2>2, <2>3
<1>6. q = k
  BY <1>2, <1>3, <1>4, <1>5
<1>7. q \in Nat /\ q * B = W
  BY <1>2, <1>6
<1>8. QED
  BY <1>7 DEF q, W, B

\* A window on Bitcoin in seconds, whatever the length of its blocks.
LEMMA BitcoinWindow ==
    ASSUME NEW p \in Participants, NEW h \in Nat
    PROVE  /\ refund_locktime_btc(p) \in Nat
           /\ h >= refund_locktime_btc(p) => (h - start_block) * BlockSecs >= Due(p)
           /\ h < refund_locktime_btc(p) => (h - start_block) * BlockSecs < Due(p)
<1> DEFINE K == (refund_window_secs + BlockSecs - 1) \div BlockSecs
           D == Distance(p)
           x == h - start_block
           B == BlockSecs
<1>1. K \in Nat /\ K * B = refund_window_secs
  BY BlocksOfWindow
<1>2. D \in Nat /\ B \in Nat \ {0} /\ start_block \in Nat /\ x \in Int
  BY Numbers
<1>3. refund_locktime_btc(p) = start_block + D * K
  BY DEF refund_locktime_btc
<1>4. Due(p) = D * (K * B)
  BY <1>1 DEF Due
<1> HIDE DEF K, D, B
<1>5. D * K \in Nat /\ (D * K) * B = D * (K * B)
  BY <1>1, <1>2
<1>6. h >= refund_locktime_btc(p) <=> D * K <= x
  BY <1>2, <1>3, <1>5
<1> HIDE DEF x
<1>7. ASSUME D * K <= x PROVE Due(p) <= x * B
  BY <1>2, <1>4, <1>5, <1>7, TimesMonotone
<1>8. ASSUME ~(D * K <= x) PROVE x * B < Due(p)
  <2>1. x + 1 <= D * K
    BY <1>2, <1>5, <1>8
  <2>2. (x + 1) * B <= (D * K) * B
    BY <1>2, <1>5, <2>1, TimesMonotone
  <2>3. (x + 1) * B = x * B + B /\ x * B \in Int
    BY <1>2
  <2>4. (D * K) * B \in Nat /\ Due(p) = (D * K) * B
    BY <1>2, <1>4, <1>5
  <2>5. QED
    BY <1>2, <2>2, <2>3, <2>4
<1>9. x * B \in Int /\ Due(p) \in Nat /\ refund_locktime_btc(p) \in Nat
  BY <1>2, <1>3, <1>5, Numbers
<1>10. QED
  BY <1>2, <1>6, <1>7, <1>8, <1>9 DEF x, B

-----------------------------------------------------------------------------
(* Windows and the clock.                                                  *)

\* The window of p when Bitcoin's tip is h and Cardano's latest block at t.
OpenAt(p, h, t) ==
    IF Blockchain[p] = "Bitcoin"
    THEN h >= refund_locktime_btc(p)
    ELSE t > refund_locktime_cardano(p)

LEMMA OpenAgainstClock ==
    ASSUME NEW p \in Participants, NEW c \in Nat, NEW h \in Nat, NEW t \in Nat,
           InStep(c, h), t <= start_slot + c, start_slot + c - t <= MaxLag
    PROVE  /\ OpenAt(p, h, t) => Due(p) - MaxDrift <= c
           /\ ~OpenAt(p, h, t) => c <= Due(p) + Late
<1>0. /\ Due(p) \in Nat /\ MaxDrift \in Nat /\ MaxLag \in Nat /\ start_slot \in Nat
      /\ MaxDrift <= Late /\ MaxLag <= Late /\ Late \in Nat
  BY Numbers DEF Late
<1>1. CASE Blockchain[p] = "Bitcoin"
  <2> DEFINE x == (h - start_block) * BlockSecs
  <2>1. x \in Int
    BY Numbers
  <2>2. x - c <= MaxDrift /\ c - x <= MaxDrift
    BY DEF InStep
  <2>3. /\ h >= refund_locktime_btc(p) => x >= Due(p)
        /\ h < refund_locktime_btc(p) => x < Due(p)
        /\ refund_locktime_btc(p) \in Nat
    BY BitcoinWindow
  <2> HIDE DEF x
  <2>4. QED
    BY <1>0, <1>1, <2>1, <2>2, <2>3 DEF OpenAt
<1>2. CASE Blockchain[p] # "Bitcoin"
  <2>1. refund_locktime_cardano(p) = start_slot + Due(p)
    BY DEF refund_locktime_cardano, Due
  <2>2. QED
    BY <1>0, <1>2, <2>1 DEF OpenAt
<1>3. QED
  BY <1>1, <1>2

LEMMA InvariantInit == Init => IInv
<1> SUFFICES ASSUME Init PROVE IInv
  OBVIOUS
<1>1. TypeOK
  BY Numbers DEF Init, TypeOK, NotYet
<1>2. ChainsInStep
  BY Numbers DEF Init, ChainsInStep, InStep, Slot
<1>3. ASSUME NEW p \in Participants PROVE ~WindowOpen(p)
  <2>1. /\ height = start_block /\ tip_slot = start_slot
    BY DEF Init
  <2>2. Due(p) \in Nat /\ 0 < Due(p)
    <3>1. 1 * refund_window_secs <= Distance(p) * refund_window_secs
      BY Numbers, TimesMonotone
    <3>2. QED
      BY <3>1, Numbers DEF Due
  <2>3. height < refund_locktime_btc(p)
    <3>1. (start_block - start_block) * BlockSecs = 0
      BY Numbers
    <3>2. QED
      BY <2>1, <2>2, <3>1, BitcoinWindow, Numbers
  <2>4. ~(tip_slot > refund_locktime_cardano(p))
    BY <2>1, <2>2, Numbers DEF refund_locktime_cardano, Due
  <2>5. QED
    BY <2>1, <2>3, <2>4, BitcoinWindow, Numbers DEF WindowOpen
<1>4. OpenedWhenDue
  BY <1>3 DEF Init, OpenedWhenDue
<1>5. RefundNotRejected
  BY DEF Init, RefundNotRejected
<1>6. QED
  BY <1>1, <1>2, <1>4, <1>5 DEF IInv

\* A step of time moves the chains, within what they may be off the clock.
TimePasses ==
    /\ clock' \in 0 .. Horizon /\ clock <= clock'
    /\ clock' = clock \/ UNCHANGED <<height, tip_slot>>
    /\ height' \in Nat
    /\ tip_slot' \in start_slot .. start_slot + Horizon
    /\ ChainsInStep'
    /\ InStep(clock', height')
    /\ tip_slot' <= start_slot + clock' /\ start_slot + clock' - tip_slot' <= MaxLag
    /\ NoteOpened
    /\ UNCHANGED verdict

LEMMA TimeStep ==
    ASSUME IInv, Tick \/ MineBlock \/ MakeCardanoBlock
    PROVE  TimePasses
<1>0. /\ clock \in 0 .. Horizon /\ height \in Nat
      /\ tip_slot \in start_slot .. start_slot + Horizon
      /\ InStep(clock, height) /\ tip_slot <= Slot /\ Slot - tip_slot <= MaxLag
      /\ Horizon \in Nat /\ start_slot \in Nat /\ MaxLag \in Nat
  BY Numbers DEF IInv, TypeOK, ChainsInStep
<1>1. CASE Tick
  BY <1>0, <1>1 DEF Tick, TimePasses, ChainsInStep, InStep, Slot
<1>2. CASE MineBlock
  BY <1>0, <1>2 DEF MineBlock, TimePasses, ChainsInStep, InStep, Slot
<1>3. CASE MakeCardanoBlock
  BY <1>0, <1>3 DEF MakeCardanoBlock, TimePasses, ChainsInStep, InStep, Slot
<1>4. QED
  BY <1>1, <1>2, <1>3

LEMMA TimeKeeps ==
    ASSUME IInv, TimePasses
    PROVE  IInv'
<1>0. /\ clock \in 0 .. Horizon /\ clock' \in 0 .. Horizon /\ clock <= clock'
      /\ Horizon \in Nat /\ clock \in Nat /\ clock' \in Nat
      /\ height \in Nat /\ height' \in Nat /\ tip_slot \in Nat /\ tip_slot' \in Nat
  BY Numbers DEF IInv, TypeOK, TimePasses
<1>1. /\ InStep(clock, height) /\ tip_slot <= start_slot + clock
      /\ start_slot + clock - tip_slot <= MaxLag
      /\ InStep(clock', height') /\ tip_slot' <= start_slot + clock'
      /\ start_slot + clock' - tip_slot' <= MaxLag
  <2>1. /\ InStep(clock, height) /\ tip_slot <= start_slot + clock
        /\ start_slot + clock - tip_slot <= MaxLag
    BY <1>0, Numbers DEF IInv, ChainsInStep, Slot
  <2>2. QED
    BY <2>1, Zenon DEF TimePasses
<1>2. \A p \in Participants :
          opened'[p] = IF opened[p] = NotYet /\ OpenAt(p, height', tip_slot')
                       THEN clock' ELSE opened[p]
  BY DEF TimePasses, NoteOpened, WindowOpen, OpenAt, refund_locktime_btc,
         refund_locktime_cardano, Distance
<1>3. ASSUME NEW p \in Participants
      PROVE  IF opened'[p] = NotYet
             THEN ~OpenAt(p, height', tip_slot')
             ELSE /\ opened'[p] \in 0 .. clock'
                  /\ Due(p) - MaxDrift <= opened'[p]
                  /\ opened'[p] <= Due(p) + Late
  <2>0. /\ Due(p) \in Nat /\ MaxDrift \in Nat /\ Late \in Nat
        /\ NotYet = -1
    BY Numbers DEF Late, NotYet
  <2>1. CASE opened[p] # NotYet
    BY <1>0, <1>2, <2>0, <2>1 DEF IInv, OpenedWhenDue
  <2>2. CASE opened[p] = NotYet /\ ~OpenAt(p, height', tip_slot')
    BY <1>2, <2>2
  <2>3. CASE opened[p] = NotYet /\ OpenAt(p, height', tip_slot')
    <3>1. opened'[p] = clock'
      BY <1>2, <2>3
    <3>2. Due(p) - MaxDrift <= clock'
      BY <1>0, <1>1, <2>3, OpenAgainstClock
    <3>3. ~OpenAt(p, height, tip_slot)
      BY <2>3 DEF IInv, OpenedWhenDue, WindowOpen, OpenAt
    <3>4. clock <= Due(p) + Late
      BY <1>0, <1>1, <3>3, OpenAgainstClock
    <3>5. clock' = clock
      BY <2>3, <3>3 DEF TimePasses
    <3>6. QED
      BY <1>0, <2>0, <3>1, <3>2, <3>4, <3>5
  <2>4. QED
    BY <2>1, <2>2, <2>3
<1>4. OpenedWhenDue'
  BY <1>3 DEF OpenedWhenDue, WindowOpen, OpenAt, refund_locktime_btc,
              refund_locktime_cardano, Distance, Due, Late, NotYet
<1>5. TypeOK'
  <2>1. opened' \in [Participants -> Int]
    BY <1>0 DEF IInv, TypeOK, TimePasses, NoteOpened
  <2>2. QED
    BY <2>1 DEF IInv, TypeOK, TimePasses
<1>6. RefundNotRejected'
  BY DEF IInv, RefundNotRejected, TimePasses
<1>7. QED
  BY <1>4, <1>5, <1>6 DEF IInv, TimePasses

\* The poll looks at the window as the ledger does.
LEMMA PollKeeps ==
    ASSUME IInv, NEW p \in Participants, PollRefundWindow(p)
    PROVE  IInv'
<1>1. LedgerAccepts(p)
  <2>1. WindowOpen(p)
    BY DEF PollRefundWindow
  <2>2. CASE Blockchain[p] = "Bitcoin"
    <3>1. height \in Nat /\ refund_locktime_btc(p) \in Nat
      BY BitcoinWindow DEF IInv, TypeOK
    <3>2. QED
      BY <2>1, <2>2, <3>1 DEF WindowOpen, LedgerAccepts, BitcoinAccepts
  <2>3. CASE Blockchain[p] # "Bitcoin"
    <3>1. refund_locktime_cardano(p) \in Nat
      BY Numbers DEF refund_locktime_cardano, Due
    <3>2. ScriptAccepts(p, refund_locktime_cardano(p))
      BY <3>1, Numbers DEF ScriptAccepts, PosixMs, refund_deadline_posix_ms
    <3>3. tip_slot \in Nat
      BY Numbers DEF IInv, TypeOK
    <3>4. QED
      BY <2>1, <2>3, <3>1, <3>2, <3>3 DEF WindowOpen, LedgerAccepts, CardanoAccepts
  <2>4. QED
    BY <2>2, <2>3
<1>2. /\ verdict' = [verdict EXCEPT ![p] = "refunded"]
      /\ UNCHANGED <<clock, height, tip_slot, opened>>
  BY <1>1 DEF PollRefundWindow
<1>3. TypeOK' /\ RefundNotRejected'
  BY <1>2 DEF IInv, TypeOK, RefundNotRejected
<1>4. ChainsInStep' /\ OpenedWhenDue'
  BY <1>2 DEF IInv, ChainsInStep, InStep, Slot, OpenedWhenDue, WindowOpen
<1>5. QED
  BY <1>3, <1>4 DEF IInv

LEMMA InvariantHolds == Spec => []IInv
<1>1. Init => IInv
  BY InvariantInit
<1>2. IInv /\ [Next]_vars => IInv'
  <2> SUFFICES ASSUME IInv, [Next]_vars PROVE IInv'
    OBVIOUS
  <2>1. CASE UNCHANGED vars
    BY <2>1 DEF vars, IInv, TypeOK, ChainsInStep, InStep, Slot, OpenedWhenDue,
                WindowOpen, RefundNotRejected
  <2>2. QED
    BY <2>1, TimeStep, TimeKeeps, PollKeeps DEF Next
<1>3. QED
  BY <1>1, <1>2, PTL DEF Spec

-----------------------------------------------------------------------------
(* What follows.                                                           *)

\* The schedule keeps its type.
THEOREM TypeCorrect == Spec => []TypeOK
<1>1. IInv => TypeOK
  BY DEF IInv
<1>2. QED
  BY <1>1, InvariantHolds, PTL

\* A daemon that gives up its session for a refund is never turned down for
\* being early, on either chain (check_refund_window_open against nLockTime,
\* validity interval and swap.ak).
THEOREM RefundsAreTaken == Spec => []RefundNotRejected
<1>1. IInv => RefundNotRejected
  BY DEF IInv
<1>2. QED
  BY <1>1, InvariantHolds, PTL

\* The script takes no refund before its deadline in seconds, whatever start of
\* validity is declared (refund_deadline_posix_ms, swap.ak).
THEOREM NoEarlyRefund == Spec => []NoRefundBeforeDeadline
<1>1. IInv => NoRefundBeforeDeadline
  <2> SUFFICES ASSUME IInv, NEW p \in Participants, NEW invalid_before \in 0 .. Slot,
                      ScriptAccepts(p, invalid_before)
               PROVE  clock >= Distance(p) * refund_window_secs
    BY DEF NoRefundBeforeDeadline
  <2>1. /\ clock \in Nat /\ Due(p) \in Nat
        /\ start_slot \in Nat /\ system_start_secs \in Nat
    BY Numbers DEF IInv, TypeOK
  <2>2. (system_start_secs + invalid_before) * 1000
            >= (system_start_secs + (start_slot + Due(p))) * 1000
    BY DEF ScriptAccepts, PosixMs, refund_deadline_posix_ms,
           refund_locktime_cardano, Due
  <2>3. clock >= Due(p)
    BY <2>1, <2>2 DEF Slot
  <2>4. QED
    BY <2>3 DEF Due
<1>2. QED
  BY <1>1, InvariantHolds, PTL

\* From one distance to a greater one there is a window.
LEMMA WindowBetween ==
    ASSUME NEW p \in Participants, NEW q \in Participants, Distance(p) < Distance(q)
    PROVE  Due(p) + refund_window_secs <= Due(q)
<1> DEFINE W == refund_window_secs
           D == Distance(p)
           E == Distance(q)
<1>1. W \in Nat /\ D \in Nat /\ E \in Nat /\ D + 1 <= E
  BY Numbers
<1>2. Due(p) = D * W /\ Due(q) = E * W
  BY DEF Due
<1> HIDE DEF W, D, E
<1>3. (D + 1) * W <= E * W
  BY <1>1, TimesMonotone
<1>4. (D + 1) * W = D * W + W
  BY <1>1
<1>5. QED
  BY <1>2, <1>3, <1>4 DEF W

LEMMA Tolerated ==
    /\ Tolerance \in Nat
    /\ MaxDrift + Late <= Tolerance
    /\ refund_window_secs > Tolerance
  BY Numbers, WindowsAreLong DEF Tolerance, Late

\* Windows open in the order of the distance from the leader, though one may be
\* on Bitcoin and the next on Cardano (refund_locktime_btc and _cardano).
THEOREM WindowsOpenInOrder == Spec => []WindowsInOrder
<1>1. IInv => WindowsInOrder
  <2> SUFFICES ASSUME IInv, NEW p \in Participants, NEW q \in Participants,
                      Distance(p) < Distance(q), OpenAt(q, height, tip_slot),
                      ~OpenAt(p, height, tip_slot)
               PROVE  FALSE
    BY DEF WindowsInOrder, WindowOpen, OpenAt
  <2>1. /\ clock \in Nat /\ height \in Nat /\ tip_slot \in Nat
        /\ InStep(clock, height) /\ tip_slot <= start_slot + clock
        /\ start_slot + clock - tip_slot <= MaxLag
    BY Numbers DEF IInv, TypeOK, ChainsInStep, Slot
  <2>2. Due(q) - MaxDrift <= clock /\ clock <= Due(p) + Late
    BY <2>1, OpenAgainstClock
  <2>3. Due(p) + refund_window_secs <= Due(q)
    BY WindowBetween
  <2>4. /\ Due(p) \in Nat /\ Due(q) \in Nat /\ MaxDrift \in Nat /\ Late \in Nat
        /\ refund_window_secs \in Nat
    BY Numbers DEF Late
  <2>5. QED
    BY <2>1, <2>2, <2>3, <2>4, Tolerated
<1>2. QED
  BY <1>1, InvariantHolds, PTL

\* Whoever is not the leader has had a window, less what the chains may be off
\* the clock, to claim in before the refund of the deposit it claims opens: the
\* stagger of compute_distance_from_leader, whatever chains the two are on.
THEOREM ClaimantHasAWindow == Spec => []ClaimBeforeTargetRefunds
<1>1. IInv => ClaimBeforeTargetRefunds
  <2> SUFFICES ASSUME IInv, NEW p \in Participants \ {Leader},
                      opened[Target[p]] # NotYet
               PROVE  /\ opened[p] # NotYet
                      /\ opened[Target[p]] - opened[p] >= refund_window_secs - Tolerance
    BY DEF ClaimBeforeTargetRefunds
  <2> DEFINE q == Target[p]
  <2>1. p \in Participants /\ q \in Participants
    BY ScheduleAssumption
  <2>2. Distance(q) = Distance(p) + 1 /\ Distance(p) \in Nat
    BY Hops
  <2>3. Due(p) + refund_window_secs <= Due(q)
    BY <2>1, <2>2, WindowBetween
  <2>4. /\ Due(p) \in Nat /\ Due(q) \in Nat /\ MaxDrift \in Nat /\ Late \in Nat
        /\ refund_window_secs \in Nat
    BY <2>1, Numbers DEF Late
  <2>5. /\ clock \in Nat /\ height \in Nat /\ tip_slot \in Nat
        /\ InStep(clock, height) /\ tip_slot <= start_slot + clock
        /\ start_slot + clock - tip_slot <= MaxLag
    BY Numbers DEF IInv, TypeOK, ChainsInStep, Slot
  <2> HIDE DEF q
  <2>6. opened[q] \in 0 .. clock /\ Due(q) - MaxDrift <= opened[q]
    BY <2>1 DEF IInv, OpenedWhenDue, q
  <2>7. opened[p] # NotYet
    <3> SUFFICES ASSUME opened[p] = NotYet PROVE FALSE
      OBVIOUS
    <3>1. ~OpenAt(p, height, tip_slot)
      BY <2>1 DEF IInv, OpenedWhenDue, WindowOpen, OpenAt
    <3>2. clock <= Due(p) + Late
      BY <2>1, <2>5, <3>1, OpenAgainstClock
    <3>3. QED
      BY <2>3, <2>4, <2>5, <2>6, <3>2, Tolerated
  <2>8. opened[p] \in 0 .. clock /\ opened[p] <= Due(p) + Late
    BY <2>1, <2>7 DEF IInv, OpenedWhenDue
  <2>9. opened[q] - opened[p] >= refund_window_secs - Tolerance
    BY <2>3, <2>4, <2>5, <2>6, <2>8, Tolerated
  <2>10. QED
    BY <2>7, <2>9 DEF q
<1>2. QED
  BY <1>1, InvariantHolds, PTL

=============================================================================
