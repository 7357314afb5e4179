--------------------------- MODULE SettlementProofs ---------------------------
(***************************************************************************)
(* Theorems of Settlement, for every number of participants and every      *)
(* cyclic arrangement: the barrier and the refinement for every set of     *)
(* faults and any timing of the refund windows, and that nothing is lost   *)
(* when no node refuses a transaction and windows outlast delays.          *)
(***************************************************************************)
EXTENDS Settlement, CycleProofs, TLAPS

Channels == [Participants -> [Participants -> Seq(WireMessages)]]

\* A message of a broadcast leaves the type of the connections alone.
LEMMA CastType ==
    ASSUME NEW channels \in Channels, NEW p \in Participants,
           NEW m \in WireMessages, NEW missed
    PROVE  Cast(channels, p, m, missed) \in Channels
<1> DEFINE sent == [q \in Participants |->
                       IF q = p \/ q \in missed \/ ~Live(q) THEN channels[p][q]
                       ELSE Append(channels[p][q], m)]
<1>1. \A q \in Participants : channels[p][q] \in Seq(WireMessages)
  BY DEF Channels
<1>2. \A q \in Participants : Append(channels[p][q], m) \in Seq(WireMessages)
  BY <1>1
<1>3. sent \in [Participants -> Seq(WireMessages)]
  BY <1>1, <1>2
<1> HIDE DEF sent
<1>4. [channels EXCEPT ![p] = sent] \in Channels
  BY <1>3 DEF Channels
<1>5. QED
  BY <1>4 DEF Cast, sent

\* So does taking a message out of a connection.
LEMMA TakenType ==
    ASSUME chan \in Channels, NEW q \in Participants, NEW p \in Participants,
           chan[q][p] # <<>>
    PROVE  Taken(q, p) \in Channels
<1>1. Tail(chan[q][p]) \in Seq(WireMessages)
  BY DEF Channels
<1>2. QED
  BY <1>1 DEF Taken, Channels

\* Registering the wanted pollers, next to those that are kept.
LEMMA SpawnType ==
    ASSUME SettlementAssumption, TypeOK, NEW p \in Participants,
           NEW kept \in SUBSET ChainPollTargets,
           lock_txs_broadcast' \in [Participants -> SUBSET Participants],
           SpawnPollers(p, kept)
    PROVE  active_pollers' \in [Participants -> SUBSET ChainPollTargets]
<1>1. Wanted(p)' \subseteq ChainPollTargets
  BY DEF SettlementAssumption, Wanted, ChainPollTargets, LockTx, LeaderSpendTx,
         RefundWindow
<1>2. QED
  BY <1>1 DEF SpawnPollers, TypeOK

\* Events that the abort of pollers leaves in the queue are events.
LEMMA LeftQueuedType ==
    ASSUME TypeOK, NEW p \in Participants,
           NEW before \in SUBSET ChainPollTargets,
           LeftQueued(p, before)
    PROVE  stale' \in [Participants -> SUBSET ChainPollTargets]
BY DEF LeftQueued, TypeOK

LEMMA CancelType ==
    ASSUME TypeOK, NEW p \in Participants, CancelPollers(p)
    PROVE  /\ active_pollers' \in [Participants -> SUBSET ChainPollTargets]
           /\ leaked' \in [Participants -> BOOLEAN]
           /\ stale' \in [Participants -> SUBSET ChainPollTargets]
<1>1. stale[p] \in SUBSET ChainPollTargets
  BY DEF TypeOK
<1>2. LeftQueued(p, stale[p])
  BY DEF CancelPollers
<1>3. stale' \in [Participants -> SUBSET ChainPollTargets]
  BY <1>1, <1>2, LeftQueuedType
<1>4. QED
  BY <1>3 DEF CancelPollers, TypeOK

LEMMA KeepPollingType ==
    ASSUME SettlementAssumption, TypeOK, NEW p \in Participants,
           lock_txs_broadcast' \in [Participants -> SUBSET Participants],
           KeepPolling(p)
    PROVE  /\ active_pollers' \in [Participants -> SUBSET ChainPollTargets]
           /\ leaked' \in [Participants -> BOOLEAN]
           /\ stale' \in [Participants -> SUBSET ChainPollTargets]
<1>1. active_pollers[p] \in SUBSET ChainPollTargets
  BY DEF TypeOK
<1>2. active_pollers' \in [Participants -> SUBSET ChainPollTargets]
  BY <1>1, SpawnType DEF KeepPolling
<1>3. QED
  BY <1>2 DEF KeepPolling, TypeOK

\* Submitting a spend or a refund leaves the type of the chains alone.
LEMMA SubmitType ==
    ASSUME TypeOK, NEW p \in Participants, SubmitSpend(p) \/ SubmitRefund(p)
    PROVE  lock' \in [Participants -> LockStates]
<1>1. CASE SubmitSpend(p)
  <2>1. [lock EXCEPT ![Target[p]] = "claimed"] \in [Participants -> LockStates]
    BY DEF TypeOK, LockStates
  <2>2. QED
    BY <1>1, <2>1 DEF SubmitSpend, TypeOK
<1>2. CASE SubmitRefund(p)
  <2>1. [lock EXCEPT ![p] = "refunded"] \in [Participants -> LockStates]
    BY DEF TypeOK, LockStates
  <2>2. QED
    BY <1>2, <2>1 DEF SubmitRefund, TypeOK
<1>3. QED
  BY <1>1, <1>2

-----------------------------------------------------------------------------
\* A step leaves every state of every session, poller table, connection and
\* chain among those declared.
LEMMA TypeStep ==
    ASSUME SettlementAssumption, TypeOK, [Next]_vars
    PROVE  TypeOK'
<1> USE SettlementAssumption
<1> DEFINE SessionType ==
             /\ state \in [Participants -> SwapStates]
             /\ lock_txs_broadcast \in [Participants -> SUBSET Participants]
             /\ confirmed_lock_txs \in [Participants -> SUBSET Participants]
             /\ adaptor_secrets \in [Participants -> SUBSET Participants]
           PollerType ==
             /\ active_pollers \in [Participants -> SUBSET ChainPollTargets]
             /\ leaked \in [Participants -> BOOLEAN]
             /\ stale \in [Participants -> SUBSET ChainPollTargets]
           WorldType ==
             /\ chan \in Channels
             /\ lock \in [Participants -> LockStates]
             /\ now \in Nat
<1>0. TypeOK <=> SessionType /\ PollerType /\ WorldType
  BY DEF TypeOK, Channels
<1> SUFFICES SessionType' /\ PollerType' /\ WorldType'
  BY <1>0 DEF TypeOK, Channels
<1> USE DEF SwapStates, Terminal, Gone, LockStates
<1>1. ASSUME NEW p \in Participants, Fund(p)
      PROVE  SessionType' /\ PollerType' /\ WorldType'
  <2>1. SessionType'
    BY <1>1 DEF Fund, ReadyToFund, TypeOK
  <2>2. PollerType'
    BY <1>1, <2>1, KeepPollingType DEF Fund
  <2>3. PICK missed \in Missed(p) :
            chan' = Cast(chan, p, "LockTxBroadcast", missed)
    BY <1>1 DEF Fund
  <2>4. chan' \in Channels
    BY <2>3, <1>0, CastType DEF WireMessages
  <2>5. QED
    BY <1>1, <2>1, <2>2, <2>4 DEF Fund, TypeOK
<1>2. ASSUME NEW p \in Participants, FundFails(p)
      PROVE  SessionType' /\ PollerType' /\ WorldType'
  <2>1. PollerType'
    BY <1>2, CancelType DEF FundFails
  <2>2. QED
    BY <1>2, <2>1, <1>0 DEF FundFails, ReadyToFund, TypeOK
<1>3. ASSUME NEW p \in Participants, NEW q \in Participants, IgnoreMessage(q, p)
      PROVE  SessionType' /\ PollerType' /\ WorldType'
  <2>1. PollerType'
    BY <1>3, CancelType DEF IgnoreMessage
  <2>2. chan' \in Channels
    BY <1>3, <1>0, TakenType DEF IgnoreMessage, Receive
  <2>3. QED
    BY <1>3, <2>1, <2>2 DEF IgnoreMessage, session, TypeOK
<1>4. ASSUME NEW p \in Participants, NEW q \in Participants,
             \/ HandleLockTxBroadcast(q, p)
             \/ HandleSpendTxBroadcast(q, p)
             \/ HandleSecretReveal(q, p)
      PROVE  SessionType' /\ PollerType' /\ WorldType'
  <2>1. SessionType'
    <3>1. CASE HandleLockTxBroadcast(q, p)
      BY <3>1 DEF HandleLockTxBroadcast, TypeOK
    <3>2. CASE HandleSpendTxBroadcast(q, p)
      BY <3>2 DEF HandleSpendTxBroadcast, session, TypeOK
    <3>3. CASE HandleSecretReveal(q, p)
      BY <3>3 DEF HandleSecretReveal, TypeOK
    <3>4. QED
      BY <1>4, <3>1, <3>2, <3>3
  <2>2. KeepPolling(p)
    BY <1>4 DEF HandleLockTxBroadcast, HandleSpendTxBroadcast, HandleSecretReveal
  <2>3. PollerType'
    BY <2>1, <2>2, KeepPollingType
  <2>4. chan[q][p] # <<>> /\ chan' = Taken(q, p)
    BY <1>4 DEF HandleLockTxBroadcast, HandleSpendTxBroadcast,
                HandleSecretReveal, Receive
  <2>5. chan' \in Channels
    BY <2>4, <1>0, TakenType
  <2>6. QED
    BY <1>4, <2>1, <2>3, <2>5
    DEF HandleLockTxBroadcast, HandleSpendTxBroadcast, HandleSecretReveal, TypeOK
<1>5. ASSUME NEW p \in Participants, NEW q \in Participants, LeaderClaims(q, p)
      PROVE  SessionType' /\ PollerType' /\ WorldType'
  <2>1. PollerType'
    BY <1>5, CancelType DEF LeaderClaims
  <2>2. PICK missed \in Missed(p) :
            chan' = Cast(Taken(q, p), p, "SpendTxBroadcast", missed)
    BY <1>5 DEF LeaderClaims
  <2>3. Taken(q, p) \in Channels
    BY <1>5, <1>0, TakenType DEF LeaderClaims, Receive
  <2>4. chan' \in Channels
    BY <2>2, <2>3, CastType DEF WireMessages
  <2>5. lock' \in [Participants -> LockStates]
    BY <1>5, SubmitType DEF LeaderClaims
  <2>6. QED
    BY <1>5, <2>1, <2>4, <2>5 DEF LeaderClaims, TypeOK
<1>6. ASSUME NEW p \in Participants, NEW q \in Participants, PollLockTx(p, q)
      PROVE  SessionType' /\ PollerType' /\ WorldType'
  <2>1. /\ state' \in [Participants -> SwapStates]
        /\ chan' \in Channels
    <3>1. CASE AllLockTxsConfirmed(confirmed_lock_txs[p] \cup {q}) /\ p # Leader
      <4>1. PICK missed \in Missed(p) :
                chan' = Cast(chan, p, "SecretReveal", missed)
        BY <1>6, <3>1 DEF PollLockTx, PassBarrier
      <4>2. chan' \in Channels
        BY <4>1, <1>0, CastType DEF WireMessages
      <4>3. QED
        BY <1>6, <3>1, <4>2 DEF PollLockTx, PassBarrier, TypeOK
    <3>2. CASE ~(AllLockTxsConfirmed(confirmed_lock_txs[p] \cup {q}) /\ p # Leader)
      BY <1>6, <3>2, <1>0 DEF PollLockTx, PassBarrier, TypeOK
    <3>3. QED
      BY <3>1, <3>2
  <2>2. SessionType'
    BY <1>6, <2>1 DEF PollLockTx, TypeOK
  <2>3. active_pollers[p] \ {LockTx(q)} \in SUBSET ChainPollTargets
    BY DEF TypeOK
  <2>4. active_pollers' \in [Participants -> SUBSET ChainPollTargets]
    BY <1>6, <2>2, <2>3, SpawnType DEF PollLockTx
  <2>5. leaked' \in [Participants -> BOOLEAN]
    <3>1. (leaked[p] \/ LockTx(q) \in active_pollers[p]) \in BOOLEAN
      OBVIOUS
    <3>2. leaked' = [leaked EXCEPT ![p] =
                        leaked[p] \/ LockTx(q) \in active_pollers[p]]
      BY <1>6 DEF PollLockTx
    <3>3. QED
      BY <3>1, <3>2, Zenon DEF TypeOK
  <2>6. stale' \in [Participants -> SUBSET ChainPollTargets]
    BY <1>6 DEF PollLockTx, StaleAfter, TypeOK
  <2>7. QED
    BY <1>6, <2>1, <2>2, <2>4, <2>5, <2>6 DEF PollLockTx, TypeOK
<1>7. ASSUME NEW p \in Participants, PollLeaderSpend(p) \/ PollRefundWindow(p)
      PROVE  SessionType' /\ PollerType' /\ WorldType'
  <2>1. SessionType' /\ lock' \in [Participants -> LockStates]
    <3>1. lock' \in [Participants -> LockStates]
      BY <1>7, SubmitType DEF PollLeaderSpend, ExtractSecret, PollRefundWindow
    <3>2. CASE PollLeaderSpend(p)
      BY <3>1, <3>2 DEF PollLeaderSpend, ExtractSecret, TypeOK, SettlementAssumption
    <3>3. CASE PollRefundWindow(p)
      <4>1. PICK verdict \in {"Refunded", "Failed"} :
                state' = [state EXCEPT ![p] = verdict]
        BY <3>3 DEF PollRefundWindow, SubmitRefund
      <4>2. state' \in [Participants -> SwapStates]
        BY <4>1 DEF TypeOK
      <4>3. QED
        BY <3>1, <3>3, <4>2 DEF PollRefundWindow, TypeOK
    <3>4. QED
      BY <1>7, <3>2, <3>3
  <2>2. active_pollers' \in [Participants -> SUBSET ChainPollTargets]
    BY <1>7, <2>1, SpawnType DEF PollLeaderSpend, ExtractSecret, PollRefundWindow
  <2>3. stale' \in [Participants -> SUBSET ChainPollTargets]
    <3>1. PICK t : LeftQueued(p, StaleAfter(p, t))
      BY <1>7 DEF PollLeaderSpend, ExtractSecret, PollRefundWindow
    <3>2. StaleAfter(p, t) \in SUBSET ChainPollTargets
      BY DEF StaleAfter, TypeOK
    <3>3. QED
      BY <3>1, <3>2, LeftQueuedType
  <2>4. QED
    BY <1>7, <1>0, <2>1, <2>2, <2>3 DEF PollLeaderSpend, ExtractSecret, PollRefundWindow
<1>8. ASSUME NEW p \in Participants, IdlePoll(p)
      PROVE  SessionType' /\ PollerType' /\ WorldType'
  <2>1. SessionType' /\ WorldType' /\ leaked' \in [Participants -> BOOLEAN]
    BY <1>8, <1>0 DEF IdlePoll, session
  <2>2. active_pollers[p] \in SUBSET ChainPollTargets
    BY DEF TypeOK
  <2>3. active_pollers' \in [Participants -> SUBSET ChainPollTargets]
    BY <1>8, <2>1, <2>2, SpawnType DEF IdlePoll
  <2>4. stale' \in [Participants -> SUBSET ChainPollTargets]
    <3>1. CASE UNCHANGED stale
      BY <3>1 DEF TypeOK
    <3>2. ASSUME NEW t, stale' = [stale EXCEPT ![p] = StaleAfter(p, t)]
          PROVE  stale' \in [Participants -> SUBSET ChainPollTargets]
      <4>1. StaleAfter(p, t) \in SUBSET ChainPollTargets
        BY DEF StaleAfter, TypeOK
      <4>2. QED
        BY <3>2, <4>1 DEF TypeOK
    <3>3. QED
      BY <1>8, <3>1, <3>2 DEF IdlePoll
  <2>5. QED
    BY <2>1, <2>3, <2>4
<1>9. ASSUME NEW p \in Participants, Confirm(p)
      PROVE  SessionType' /\ PollerType' /\ WorldType'
  BY <1>9, <1>0 DEF Confirm, session, pollers, TypeOK
<1>10. ASSUME NEW p \in Participants, Crash(p)
       PROVE  SessionType' /\ PollerType' /\ WorldType'
  <2>1. SessionType' /\ PollerType'
    BY <1>10 DEF Crash, TypeOK
  <2>2. chan' \in Channels
    <3>1. \A q \in Participants :
             [chan[q] EXCEPT ![p] = <<>>] \in [Participants -> Seq(WireMessages)]
      BY DEF TypeOK
    <3>2. QED
      BY <1>10, <3>1 DEF Crash, Channels
  <2>3. QED
    BY <1>10, <1>0, <2>1, <2>2 DEF Crash
<1>11. CASE OpenWindow
  BY <1>11, <1>0 DEF OpenWindow, session, pollers
<1>12. CASE UNCHANGED vars
  BY <1>12, <1>0 DEF vars, session, pollers
<1>13. QED
  BY <1>1, <1>2, <1>3, <1>4, <1>5, <1>6, <1>7, <1>8, <1>9, <1>10, <1>11, <1>12
  DEF Next, PeerMessage


\* Every state of every session, poller table, connection and chain is one of
\* those declared.
THEOREM TypeCorrect == Spec => []TypeOK
<1>1. Init => TypeOK
  BY SettlementAssumption
  DEF Init, TypeOK, SwapStates, LockStates, SettlementAssumption
<1>2. TypeOK /\ [Next]_vars => TypeOK'
  BY SettlementAssumption, TypeStep
<1>3. QED
  BY <1>1, <1>2, PTL DEF Spec

-----------------------------------------------------------------------------
(* The inductive invariant.                                                *)

\* Carries(channels, n, q, p): a message n is under way from q to p.
Carries(channels, n, q, p) ==
    \E i \in 1 .. Len(channels[q][p]) : channels[q][p][i] = n

\* A broadcast puts its message behind those under way and no other.
LEMMA CastCarries ==
    ASSUME NEW channels \in Channels, NEW s \in Participants,
           NEW m \in WireMessages, NEW n, NEW missed,
           NEW q \in Participants, NEW p \in Participants,
           Carries(Cast(channels, s, m, missed), n, q, p)
    PROVE  Carries(channels, n, q, p) \/ (q = s /\ m = n)
<1>1. channels[q][p] \in Seq(WireMessages)
  BY DEF Channels
<1>2. \/ Cast(channels, s, m, missed)[q][p] = channels[q][p]
      \/ q = s /\ Cast(channels, s, m, missed)[q][p] = Append(channels[q][p], m)
  BY DEF Cast, Channels
<1>3. CASE Cast(channels, s, m, missed)[q][p] = channels[q][p]
  BY <1>3 DEF Carries
<1>4. CASE q = s /\ Cast(channels, s, m, missed)[q][p] = Append(channels[q][p], m)
  <2>1. PICK i \in 1 .. Len(Append(channels[q][p], m)) :
            Append(channels[q][p], m)[i] = n
    BY <1>4 DEF Carries
  <2>2. CASE i = Len(channels[q][p]) + 1
    BY <1>1, <1>4, <2>1, <2>2
  <2>3. CASE i # Len(channels[q][p]) + 1
    BY <1>1, <2>1, <2>3 DEF Carries
  <2>4. QED
    BY <2>2, <2>3
<1>5. QED
  BY <1>2, <1>3, <1>4

\* What is under way after a message was taken was under way before.
LEMMA TakenCarries ==
    ASSUME chan \in Channels, NEW r \in Participants, NEW s \in Participants,
           chan[r][s] # <<>>,
           NEW q \in Participants, NEW p \in Participants, NEW n,
           Carries(Taken(r, s), n, q, p)
    PROVE  Carries(chan, n, q, p)
<1>1. chan[q][p] \in Seq(WireMessages)
  BY DEF Channels
<1>2. CASE Taken(r, s)[q][p] = chan[q][p]
  BY <1>2 DEF Carries
<1>3. CASE q = r /\ p = s /\ Taken(r, s)[q][p] = Tail(chan[q][p])
  <2>1. PICK i \in 1 .. Len(Tail(chan[q][p])) : Tail(chan[q][p])[i] = n
    BY <1>3 DEF Carries
  <2>2. i + 1 \in 1 .. Len(chan[q][p]) /\ chan[q][p][i + 1] = n
    BY <1>1, <1>3, <2>1
  <2>3. QED
    BY <2>2 DEF Carries
<1>4. QED
  BY <1>2, <1>3 DEF Taken, Channels

\* The message at the head of a connection is under way.
LEMMA HeadUnderWay ==
    ASSUME chan \in Channels, NEW q \in Participants, NEW p \in Participants,
           NEW m, Receive(q, p, m)
    PROVE  UnderWay(m, q, p)
<1>1. chan[q][p] \in Seq(WireMessages) /\ chan[q][p] # <<>>
  BY DEF Channels, Receive
<1>2. 1 \in 1 .. Len(chan[q][p]) /\ chan[q][p][1] = m
  BY <1>1 DEF Receive
<1>3. QED
  BY <1>2 DEF UnderWay

\* Once every lock has been taken for confirmed, every lock is on its chain.
LEMMA BarrierMeansLocked ==
    ASSUME ConfirmedIsOnChain, NEW p \in Participants, NEW q \in Participants,
           LockTxConfirmed(q),
           AllLockTxsConfirmed(confirmed_lock_txs[p] \cup {q})
    PROVE  AllLocked
BY DEF ConfirmedIsOnChain, LockTxConfirmed, AllLockTxsConfirmed, AllLocked

\* How a step may touch the chains: it funds a session that was signing, puts
\* a lock into a block, refunds behind an open window, or claims behind the
\* barrier or the leader's claim; and the clock only ticks alone.
LEMMA LedgerStep ==
    ASSUME SettlementAssumption, TypeOK, SettlementInv, [Next]_vars
    PROVE  \/ lock' = lock /\ now' \in {now, now + 1}
           \/ /\ now' = now
              /\ \E p \in Participants :
                    /\ state[p] = "RefundAndSpendTxsSigning" /\ now <= Slack
                    /\ state' # state /\ state'[p] # "RefundAndSpendTxsSigning"
                    /\ lock[p] = "absent"
                    /\ lock' = [lock EXCEPT ![p] = "mempool"]
           \/ /\ now' = now
              /\ \E p \in Participants :
                    /\ lock[p] = "mempool"
                    /\ lock' = [lock EXCEPT ![p] = "confirmed"]
           \/ /\ now' = now
              /\ \E p \in Participants :
                    /\ PollRefundWindow(p)
                    /\ WindowOpen(p) /\ lock[p] = "confirmed"
                    /\ lock' = [lock EXCEPT ![p] = "refunded"]
           \/ /\ now' = now
              /\ \E p \in Participants :
                    /\ \/ LeaderSpendVisible
                       \/ /\ p = Leader /\ AllLocked
                          /\ \E q \in Participants : LeaderClaims(q, p)
                    /\ lock[Target[p]] = "confirmed"
                    /\ lock' = [lock EXCEPT ![Target[p]] = "claimed"]
<1>1. ASSUME NEW p \in Participants, Fund(p) \/ FundFails(p)
      PROVE  /\ now' = now
             /\ \/ lock' = lock
                \/ /\ state[p] = "RefundAndSpendTxsSigning" /\ now <= Slack
                   /\ state' # state /\ state'[p] # "RefundAndSpendTxsSigning"
                   /\ lock[p] = "absent"
                   /\ lock' = [lock EXCEPT ![p] = "mempool"]
  BY <1>1 DEF Fund, FundFails, ReadyToFund, SettlementInv, UnfundedIsAbsent, TypeOK
<1>2. ASSUME NEW p \in Participants, NEW q \in Participants,
             \/ IgnoreMessage(q, p)
             \/ HandleLockTxBroadcast(q, p)
             \/ HandleSpendTxBroadcast(q, p)
             \/ HandleSecretReveal(q, p)
             \/ PollLockTx(p, q)
      PROVE  UNCHANGED <<lock, now>>
  BY <1>2 DEF IgnoreMessage, HandleLockTxBroadcast, HandleSpendTxBroadcast,
              HandleSecretReveal, PollLockTx
<1>3. ASSUME NEW p \in Participants, NEW q \in Participants, LeaderClaims(q, p)
      PROVE  /\ now' = now
             /\ \/ lock' = lock
                \/ /\ p = Leader /\ AllLocked
                   /\ lock[Target[p]] = "confirmed"
                   /\ lock' = [lock EXCEPT ![Target[p]] = "claimed"]
  <2>1. Revealing(q, p)
    BY <1>3, HeadUnderWay DEF Revealing, LeaderClaims, TypeOK, Channels
  <2>2. AllLocked
    BY <2>1 DEF SettlementInv, LockBarrier
  <2>3. QED
    BY <1>3, <2>2 DEF LeaderClaims, SubmitSpend
<1>4. ASSUME NEW p \in Participants, PollLeaderSpend(p)
      PROVE  /\ now' = now
             /\ \/ lock' = lock
                \/ /\ LeaderSpendVisible
                   /\ lock[Target[p]] = "confirmed"
                   /\ lock' = [lock EXCEPT ![Target[p]] = "claimed"]
  BY <1>4 DEF PollLeaderSpend, ExtractSecret, SubmitSpend
<1>5. ASSUME NEW p \in Participants, PollRefundWindow(p)
      PROVE  /\ now' = now
             /\ \/ lock' = lock
                \/ /\ WindowOpen(p) /\ lock[p] = "confirmed"
                   /\ lock' = [lock EXCEPT ![p] = "refunded"]
  BY <1>5 DEF PollRefundWindow, SubmitRefund
<1>6. ASSUME NEW p \in Participants, IdlePoll(p) \/ Crash(p)
      PROVE  UNCHANGED <<lock, now>>
  BY <1>6 DEF IdlePoll, Crash
<1>7. ASSUME NEW p \in Participants, Confirm(p)
      PROVE  /\ now' = now /\ lock[p] = "mempool"
             /\ lock' = [lock EXCEPT ![p] = "confirmed"]
  BY <1>7 DEF Confirm
<1>8. CASE OpenWindow
  BY <1>8 DEF OpenWindow
<1>9. CASE UNCHANGED vars
  BY <1>9 DEF vars
<1>10. QED
  BY <1>1, <1>2, <1>3, <1>4, <1>5, <1>6, <1>7, <1>8, <1>9 DEF Next, PeerMessage

\* A message is put on a connection by a broadcast of its sender: that of its
\* lock transaction, its secret behind the barrier, or the leader's spend.
LEMMA MessageStep ==
    ASSUME SettlementAssumption, TypeOK, [Next]_vars,
           NEW n, NEW r \in Participants, NEW s \in Participants, UnderWay(n, r, s)'
    PROVE  \/ UnderWay(n, r, s)
           \/ n = "LockTxBroadcast" /\ Fund(r)
           \/ n = "SpendTxBroadcast"
           \/ /\ n = "SecretReveal" /\ r # Leader
              /\ \E q \in Participants :
                    /\ PollLockTx(r, q)
                    /\ AllLockTxsConfirmed(confirmed_lock_txs[r] \cup {q})
<1> DEFINE Before == Carries(chan, n, r, s)
<1>0. /\ Before <=> UnderWay(n, r, s)
      /\ Carries(chan', n, r, s)
      /\ chan \in Channels
  BY DEF UnderWay, Carries, TypeOK, Channels
<1> HIDE DEF Before
<1>1. ASSUME chan' = chan
      PROVE  Before
  BY <1>0, <1>1 DEF Before
<1>2. ASSUME NEW p \in Participants, NEW m \in WireMessages, NEW missed,
             chan' = Cast(chan, p, m, missed)
      PROVE  Before \/ (r = p /\ n = m)
  BY <1>0, <1>2, CastCarries DEF Before
<1>3. ASSUME NEW q \in Participants, NEW p \in Participants, chan[q][p] # <<>>,
             Carries(Taken(q, p), n, r, s)
      PROVE  Before
  BY <1>0, <1>3, TakenCarries DEF Before
<1>4. ASSUME NEW p \in Participants, Fund(p)
      PROVE  Before \/ (r = p /\ n = "LockTxBroadcast")
  BY <1>2, <1>4 DEF Fund, WireMessages
<1>5. ASSUME NEW p \in Participants, NEW q \in Participants,
             \/ IgnoreMessage(q, p)
             \/ HandleLockTxBroadcast(q, p)
             \/ HandleSpendTxBroadcast(q, p)
             \/ HandleSecretReveal(q, p)
      PROVE  Before
  <2>1. chan[q][p] # <<>> /\ chan' = Taken(q, p)
    BY <1>5 DEF IgnoreMessage, HandleLockTxBroadcast, HandleSpendTxBroadcast,
                HandleSecretReveal, Receive
  <2>2. QED
    BY <1>0, <1>3, <2>1
<1>6. ASSUME NEW p \in Participants, NEW q \in Participants, LeaderClaims(q, p)
      PROVE  Before \/ n = "SpendTxBroadcast"
  <2>1. PICK missed : chan' = Cast(Taken(q, p), p, "SpendTxBroadcast", missed)
    BY <1>6 DEF LeaderClaims
  <2>2. chan[q][p] # <<>>
    BY <1>6 DEF LeaderClaims, Receive
  <2>3. Taken(q, p) \in Channels
    BY <1>0, <2>2, TakenType
  <2>4. Carries(Taken(q, p), n, r, s) \/ n = "SpendTxBroadcast"
    BY <1>0, <2>1, <2>3, CastCarries DEF WireMessages
  <2>5. QED
    BY <1>3, <2>2, <2>4
<1>7. ASSUME NEW p \in Participants, NEW q \in Participants, PollLockTx(p, q)
      PROVE  \/ Before
             \/ /\ r = p /\ n = "SecretReveal" /\ r # Leader
                /\ AllLockTxsConfirmed(confirmed_lock_txs[r] \cup {q})
  <2>1. CASE AllLockTxsConfirmed(confirmed_lock_txs[p] \cup {q}) /\ p # Leader
    <3>1. PICK missed : chan' = Cast(chan, p, "SecretReveal", missed)
      BY <1>7, <2>1 DEF PollLockTx, PassBarrier
    <3>2. Before \/ (r = p /\ n = "SecretReveal")
      BY <1>2, <3>1 DEF WireMessages
    <3>3. QED
      BY <2>1, <3>2
  <2>2. CASE ~(AllLockTxsConfirmed(confirmed_lock_txs[p] \cup {q}) /\ p # Leader)
    BY <1>1, <1>7, <2>2 DEF PollLockTx, PassBarrier
  <2>3. QED
    BY <2>1, <2>2
<1>8. ASSUME NEW p \in Participants,
             \/ FundFails(p) \/ PollLeaderSpend(p) \/ PollRefundWindow(p)
             \/ IdlePoll(p) \/ Confirm(p)
      PROVE  Before
  BY <1>1, <1>8 DEF FundFails, PollLeaderSpend, PollRefundWindow, IdlePoll, Confirm
<1>9. ASSUME NEW p \in Participants, Crash(p)
      PROVE  Before
  <2>1. chan' = [q \in Participants |-> [chan[q] EXCEPT ![p] = <<>>]]
    BY <1>9 DEF Crash
  <2>2. chan'[r][s] = chan[r][s] \/ chan'[r][s] = <<>>
    BY <1>0, <2>1 DEF Channels
  <2>3. CASE chan'[r][s] = chan[r][s]
    BY <1>0, <2>3 DEF Carries, Before
  <2>4. CASE chan'[r][s] = <<>>
    BY <1>0, <2>4 DEF Carries
  <2>5. QED
    BY <2>2, <2>3, <2>4
<1>10. CASE OpenWindow
  BY <1>0, <1>1, <1>10 DEF OpenWindow
<1>11. CASE UNCHANGED vars
  BY <1>0, <1>1, <1>11 DEF vars
<1>12. QED
  BY <1>0, <1>4, <1>5, <1>6, <1>7, <1>8, <1>9, <1>10, <1>11 DEF Next, PeerMessage

\* A SecretReveal enters a connection only behind the barrier, and never one
\* of the leader's connections.
LEMMA RevealStep ==
    ASSUME SettlementAssumption, TypeOK, SettlementInv, [Next]_vars,
           NEW r \in Participants, NEW s \in Participants, Revealing(r, s)'
    PROVE  Revealing(r, s) \/ (r # Leader /\ AllLocked)
<1>1. UnderWay("SecretReveal", r, s)'
  BY DEF Revealing
<1>2. ASSUME NEW q \in Participants, PollLockTx(r, q),
             AllLockTxsConfirmed(confirmed_lock_txs[r] \cup {q})
      PROVE  AllLocked
  BY <1>2, BarrierMeansLocked DEF PollLockTx, SettlementInv
<1>3. QED
  BY <1>1, <1>2, MessageStep DEF Revealing

\* A session comes to hold a secret by the reveal of its owner, or the leader's
\* by the leader's claim.
LEMMA SecretStep ==
    ASSUME SettlementAssumption, TypeOK, [Next]_vars,
           NEW r \in Participants, NEW s \in Participants, r \in adaptor_secrets'[s]
    PROVE  \/ r \in adaptor_secrets[s]
           \/ Revealing(r, s)
           \/ r = Leader /\ LeaderSpendVisible
<1>1. ASSUME UNCHANGED adaptor_secrets
      PROVE  r \in adaptor_secrets[s]
  BY <1>1
<1>2. ASSUME NEW p \in Participants, NEW q \in Participants,
             HandleSecretReveal(q, p) \/ LeaderClaims(q, p)
      PROVE  r \in adaptor_secrets[s] \/ Revealing(r, s)
  <2>1. Revealing(q, p)
    BY <1>2, HeadUnderWay
    DEF Revealing, HandleSecretReveal, LeaderClaims, TypeOK, Channels
  <2>2. adaptor_secrets' =
            [adaptor_secrets EXCEPT ![p] = adaptor_secrets[p] \cup {q}]
    BY <1>2 DEF HandleSecretReveal, LeaderClaims
  <2>3. QED
    BY <2>1, <2>2 DEF TypeOK
<1>3. ASSUME NEW p \in Participants, PollLeaderSpend(p)
      PROVE  r \in adaptor_secrets[s] \/ (r = Leader /\ LeaderSpendVisible)
  BY <1>3 DEF PollLeaderSpend, ExtractSecret, TypeOK
<1>4. ASSUME NEW p \in Participants, Crash(p)
      PROVE  r \in adaptor_secrets[s]
  BY <1>4 DEF Crash, TypeOK
<1>5. ASSUME NEW p \in Participants, NEW q \in Participants,
             \/ Fund(p) \/ FundFails(p) \/ PollRefundWindow(p) \/ IdlePoll(p)
             \/ Confirm(p) \/ IgnoreMessage(q, p) \/ HandleLockTxBroadcast(q, p)
             \/ HandleSpendTxBroadcast(q, p) \/ PollLockTx(p, q)
      PROVE  UNCHANGED adaptor_secrets
  BY <1>5 DEF Fund, FundFails, PollRefundWindow, IdlePoll, Confirm, IgnoreMessage,
              HandleLockTxBroadcast, HandleSpendTxBroadcast, PollLockTx, session
<1>6. ASSUME OpenWindow \/ UNCHANGED vars
      PROVE  UNCHANGED adaptor_secrets
  BY <1>6 DEF OpenWindow, vars, session
<1>7. QED
  BY <1>1, <1>2, <1>3, <1>4, <1>5, <1>6 DEF Next, PeerMessage

\* A session takes a lock for confirmed when it is on its chain.
LEMMA ConfirmedStep ==
    ASSUME SettlementAssumption, TypeOK, [Next]_vars,
           NEW r \in Participants, NEW s \in Participants,
           r \in confirmed_lock_txs'[s]
    PROVE  r \in confirmed_lock_txs[s] \/ lock[r] \in OnChain
<1>1. ASSUME NEW p \in Participants, NEW q \in Participants, PollLockTx(p, q)
      PROVE  r \in confirmed_lock_txs[s] \/ lock[r] \in OnChain
  BY <1>1 DEF PollLockTx, LockTxConfirmed, TypeOK
<1>2. ASSUME NEW p \in Participants, Crash(p)
      PROVE  r \in confirmed_lock_txs[s]
  BY <1>2 DEF Crash, TypeOK
<1>3. ASSUME NEW p \in Participants, NEW q \in Participants,
             \/ Fund(p) \/ FundFails(p) \/ PollRefundWindow(p) \/ IdlePoll(p)
             \/ PollLeaderSpend(p) \/ Confirm(p) \/ PeerMessage(q, p)
      PROVE  UNCHANGED confirmed_lock_txs
  BY <1>3 DEF Fund, FundFails, PollRefundWindow, IdlePoll, PollLeaderSpend, ExtractSecret, Confirm,
              PeerMessage, IgnoreMessage, HandleLockTxBroadcast,
              HandleSpendTxBroadcast, HandleSecretReveal, LeaderClaims, session
<1>4. ASSUME OpenWindow \/ UNCHANGED vars
      PROVE  UNCHANGED confirmed_lock_txs
  BY <1>4 DEF OpenWindow, vars, session
<1>5. QED
  BY <1>1, <1>2, <1>3, <1>4 DEF Next

\* No session goes back to signing.
LEMMA SigningStep ==
    ASSUME TypeOK, [Next]_vars, NEW s \in Participants,
           state'[s] = "RefundAndSpendTxsSigning"
    PROVE  state[s] = "RefundAndSpendTxsSigning"
<1>1. ASSUME NEW p \in Participants, NEW v, v # "RefundAndSpendTxsSigning",
             state' = [state EXCEPT ![p] = v]
      PROVE  state[s] = "RefundAndSpendTxsSigning"
  BY <1>1 DEF TypeOK
<1>2. ASSUME NEW p \in Participants,
             \/ Fund(p) \/ FundFails(p) \/ PollLeaderSpend(p) \/ Crash(p)
      PROVE  state[s] = "RefundAndSpendTxsSigning"
  BY <1>1, <1>2 DEF Fund, FundFails, PollLeaderSpend, ExtractSecret, Crash, Gone
<1>3. ASSUME NEW p \in Participants, NEW q \in Participants,
             LeaderClaims(q, p) \/ HandleSecretReveal(q, p) \/ PollLockTx(p, q)
      PROVE  state[s] = "RefundAndSpendTxsSigning"
  BY <1>1, <1>3 DEF LeaderClaims, HandleSecretReveal, PollLockTx, PassBarrier
<1>4. ASSUME NEW p \in Participants, PollRefundWindow(p)
      PROVE  state[s] = "RefundAndSpendTxsSigning"
  BY <1>1, <1>4 DEF PollRefundWindow, SubmitRefund
<1>5. ASSUME NEW p \in Participants, NEW q \in Participants,
             \/ IdlePoll(p) \/ Confirm(p) \/ IgnoreMessage(q, p)
             \/ HandleLockTxBroadcast(q, p) \/ HandleSpendTxBroadcast(q, p)
      PROVE  UNCHANGED state
  BY <1>5 DEF IdlePoll, Confirm, IgnoreMessage, HandleLockTxBroadcast,
              HandleSpendTxBroadcast, session
<1>6. ASSUME OpenWindow \/ UNCHANGED vars
      PROVE  UNCHANGED state
  BY <1>6 DEF OpenWindow, vars, session
<1>7. QED
  BY <1>2, <1>3, <1>4, <1>5, <1>6 DEF Next, PeerMessage

-----------------------------------------------------------------------------
\* The ledgers only move forward: what is on its chain stays there, and what
\* is claimed stays claimed.
LEMMA LocksStay ==
    ASSUME SettlementAssumption, TypeOK, SettlementInv, [Next]_vars,
           NEW q \in Participants
    PROVE  /\ lock[q] \in OnChain => lock'[q] \in OnChain
           /\ lock[q] = "claimed" => lock'[q] = "claimed"
           /\ lock'[q] = "claimed" => lock[q] = "claimed" \/ LeaderSpendVisible
                                        \/ AllLocked
BY LedgerStep DEF TypeOK, OnChain

\* Everything the settlement invariant says is so in every state.
THEOREM SettlementSafe == Spec => []SettlementInv
<1> USE SettlementAssumption
<1>1. Init => SettlementInv
  BY DEF Init, SettlementInv, UnfundedIsAbsent, ConfirmedIsOnChain, LockBarrier,
         LeaderSecretOnlyOnChain, Revealing, UnderWay
<1>2. TypeOK /\ SettlementInv /\ [Next]_vars => SettlementInv'
  <2> SUFFICES ASSUME TypeOK, SettlementInv, [Next]_vars
               PROVE  SettlementInv'
    OBVIOUS
  <2>0. AllLocked => AllLocked'
    BY LocksStay DEF AllLocked
  <2>1. UnfundedIsAbsent'
    <3> SUFFICES ASSUME NEW p \in Participants,
                        state'[p] = "RefundAndSpendTxsSigning"
                 PROVE  lock'[p] = "absent"
      BY DEF UnfundedIsAbsent
    <3>1. lock[p] = "absent"
      BY SigningStep DEF SettlementInv, UnfundedIsAbsent
    <3>2. QED
      BY <3>1, LedgerStep DEF TypeOK
  <2>2. ConfirmedIsOnChain'
    <3>1. confirmed_lock_txs' \in [Participants -> SUBSET Participants]
      BY TypeStep DEF TypeOK
    <3>2. ASSUME NEW p \in Participants, NEW q \in Participants,
                 q \in confirmed_lock_txs'[p]
          PROVE  lock'[q] \in OnChain
      <4>1. lock[q] \in OnChain
        BY <3>2, ConfirmedStep DEF SettlementInv, ConfirmedIsOnChain
      <4>2. QED
        BY <4>1, LocksStay
    <3>3. QED
      BY <3>1, <3>2 DEF ConfirmedIsOnChain
  <2>3. LockBarrier'
    <3>1. ASSUME NEW p \in Participants, lock'[p] = "claimed"
          PROVE  AllLocked
      <4>1. Target[Leader] \in Participants
        BY DEF SettlementAssumption
      <4>2. QED
        BY <3>1, <4>1, LocksStay DEF SettlementInv, LockBarrier, LeaderSpendVisible
    <3>2. ASSUME NEW p \in Participants, NEW q \in Participants, Revealing(q, p)'
          PROVE  AllLocked
      BY <3>2, RevealStep DEF SettlementInv, LockBarrier
    <3>3. ASSUME NEW p \in Participants, NEW q \in Participants, q # p,
                 q \in adaptor_secrets'[p]
          PROVE  AllLocked
      <4>1. Target[Leader] \in Participants
        BY DEF SettlementAssumption
      <4>2. QED
        BY <3>3, <4>1, SecretStep DEF SettlementInv, LockBarrier, LeaderSpendVisible
    <3>4. adaptor_secrets' \in [Participants -> SUBSET Participants]
      BY TypeStep DEF TypeOK
    <3>5. QED
      BY <2>0, <3>1, <3>2, <3>3, <3>4 DEF LockBarrier
  <2>4. LeaderSecretOnlyOnChain'
    <3>1. LeaderSpendVisible => LeaderSpendVisible'
      BY LocksStay DEF LeaderSpendVisible, SettlementAssumption
    <3>2. ASSUME NEW p \in Participants \ {Leader}, Leader \in adaptor_secrets'[p]
          PROVE  LeaderSpendVisible'
      BY <3>1, <3>2, SecretStep
      DEF SettlementInv, LeaderSecretOnlyOnChain, SettlementAssumption
    <3>3. ASSUME NEW p \in Participants
          PROVE  ~Revealing(Leader, p)'
      BY RevealStep DEF SettlementInv, LeaderSecretOnlyOnChain, SettlementAssumption
    <3>4. QED
      BY <3>2, <3>3 DEF LeaderSecretOnlyOnChain
  <2>5. QED
    BY <2>1, <2>2, <2>3, <2>4 DEF SettlementInv
<1>3. QED
  BY <1>1, <1>2, TypeCorrect, PTL DEF Spec

\* The lock barrier holds in every state.
THEOREM BarrierHolds == Spec => []LockBarrier
<1>1. SettlementInv => LockBarrier
  BY DEF SettlementInv
<1>2. QED
  BY <1>1, SettlementSafe, PTL

\* The leader's secret is never in a message, and is held by another daemon
\* only when the leader has claimed.
THEOREM LeaderSecretSafe == Spec => []LeaderSecretOnlyOnChain
<1>1. SettlementInv => LeaderSecretOnlyOnChain
  BY DEF SettlementInv
<1>2. QED
  BY <1>1, SettlementSafe, PTL

-----------------------------------------------------------------------------
(* The daemons implement the atomic swap.                                  *)

\* Whatever the daemons and the network do, the ledgers show an atomic swap.
THEOREM SwapImplemented == Spec => SwapOnLedger
<1> USE SettlementAssumption
<1>1. Init => Ledger!Init
  BY DEF Init, Ledger!Init
<1>2. TypeOK /\ SettlementInv /\ [Next]_vars => [Ledger!Next]_(Ledger!vars)
  <2> SUFFICES ASSUME TypeOK, SettlementInv, [Next]_vars
               PROVE  Ledger!Next \/ UNCHANGED Ledger!vars
    BY DEF Ledger!vars
  <2>1. CASE lock' = lock /\ now' = now
    BY <2>1 DEF Ledger!vars
  <2>2. CASE lock' = lock /\ now' = now + 1
    BY <2>2 DEF Ledger!Next, Ledger!OpenWindow
  <2>3. ASSUME NEW p \in Participants, now' = now, lock[p] = "absent",
               lock' = [lock EXCEPT ![p] = "mempool"]
        PROVE  UNCHANGED Ledger!vars
    BY <2>3 DEF Ledger!vars, TypeOK
  <2>4. ASSUME NEW p \in Participants, now' = now, lock[p] = "mempool",
               lock' = [lock EXCEPT ![p] = "confirmed"]
        PROVE  Ledger!Lock(p)
    BY <2>4 DEF Ledger!Lock, TypeOK
  <2>5. ASSUME NEW p \in Participants, now' = now, WindowOpen(p),
               lock[p] = "confirmed", lock' = [lock EXCEPT ![p] = "refunded"]
        PROVE  Ledger!Refund(p)
    BY <2>5 DEF Ledger!Refund, WindowOpen, TypeOK
  <2>6. ASSUME NEW p \in Participants, now' = now, lock[Target[p]] = "confirmed",
               LeaderSpendVisible \/ (p = Leader /\ AllLocked),
               lock' = [lock EXCEPT ![Target[p]] = "claimed"]
        PROVE  Ledger!LeaderClaim \/ Ledger!FollowerClaim(p)
    <3>1. Target[p] \in Participants /\ Target[Leader] \in Participants
      BY DEF SettlementAssumption
    <3>2. CASE LeaderSpendVisible
      BY <2>6, <3>1, <3>2 DEF Ledger!FollowerClaim, LeaderSpendVisible, TypeOK
    <3>3. CASE p = Leader /\ AllLocked
      BY <2>6, <3>1, <3>3 DEF Ledger!LeaderClaim, AllLocked, OnChain, TypeOK
    <3>4. QED
      BY <2>6, <3>2, <3>3
  <2>7. QED
    BY <2>1, <2>2, <2>3, <2>4, <2>5, <2>6, LedgerStep DEF Ledger!Next
<1>3. QED
  BY <1>1, <1>2, TypeCorrect, SettlementSafe, PTL DEF Spec, SwapOnLedger, Ledger!Spec

-----------------------------------------------------------------------------
(* What one step may do to one daemon: the facts the next invariants share.*)

\* A daemon's session and pollers change by its own events alone.
LEMMA OwnEvents ==
    ASSUME SettlementAssumption, TypeOK, [Next]_vars, NEW x \in Participants
    PROVE  \/ /\ state'[x] = state[x]
              /\ lock_txs_broadcast'[x] = lock_txs_broadcast[x]
              /\ confirmed_lock_txs'[x] = confirmed_lock_txs[x]
              /\ active_pollers'[x] = active_pollers[x]
              /\ stale'[x] = stale[x]
           \/ Fund(x) \/ FundFails(x) \/ Crash(x) \/ IdlePoll(x)
           \/ PollLeaderSpend(x) \/ PollRefundWindow(x)
           \/ \E q \in Participants : PeerMessage(q, x) \/ PollLockTx(x, q)
<1> DEFINE Same ==
             /\ state'[x] = state[x]
             /\ lock_txs_broadcast'[x] = lock_txs_broadcast[x]
             /\ confirmed_lock_txs'[x] = confirmed_lock_txs[x]
             /\ active_pollers'[x] = active_pollers[x]
             /\ stale'[x] = stale[x]
<1>1. ASSUME NEW p \in Participants, p # x,
             Fund(p) \/ FundFails(p) \/ Crash(p) \/ IdlePoll(p) \/ PollLeaderSpend(p)
      PROVE  Same
  <2>1. CASE Fund(p)
    BY <1>1, <2>1 DEF Fund, KeepPolling, SpawnPollers, TypeOK
  <2>2. CASE FundFails(p)
    BY <1>1, <2>2 DEF FundFails, CancelPollers, LeftQueued, TypeOK
  <2>3. CASE Crash(p)
    BY <1>1, <2>3 DEF Crash, TypeOK
  <2>4. CASE IdlePoll(p)
    BY <1>1, <2>4 DEF IdlePoll, SpawnPollers, session, TypeOK
  <2>5. CASE PollLeaderSpend(p)
    BY <1>1, <2>5 DEF PollLeaderSpend, SpawnPollers, LeftQueued, TypeOK
  <2>6. QED
    BY <1>1, <2>1, <2>2, <2>3, <2>4, <2>5
<1>2. ASSUME NEW p \in Participants, p # x, PollRefundWindow(p)
      PROVE  Same
  BY <1>2 DEF PollRefundWindow, SubmitRefund, SpawnPollers, LeftQueued, TypeOK
<1>3. ASSUME NEW p \in Participants, p # x, NEW q \in Participants,
             PeerMessage(q, p)
      PROVE  Same
  <2>1. CASE IgnoreMessage(q, p)
    BY <1>3, <2>1 DEF IgnoreMessage, CancelPollers, LeftQueued, session, TypeOK
  <2>2. CASE HandleLockTxBroadcast(q, p)
    BY <1>3, <2>2 DEF HandleLockTxBroadcast, KeepPolling, SpawnPollers, TypeOK
  <2>3. CASE HandleSpendTxBroadcast(q, p)
    BY <1>3, <2>3 DEF HandleSpendTxBroadcast, KeepPolling, SpawnPollers, session,
                      TypeOK
  <2>4. CASE HandleSecretReveal(q, p)
    BY <1>3, <2>4 DEF HandleSecretReveal, KeepPolling, SpawnPollers, TypeOK
  <2>5. CASE LeaderClaims(q, p)
    BY <1>3, <2>5 DEF LeaderClaims, CancelPollers, LeftQueued, TypeOK
  <2>6. QED
    BY <1>3, <2>1, <2>2, <2>3, <2>4, <2>5 DEF PeerMessage
<1>4. ASSUME NEW p \in Participants, p # x, NEW q \in Participants,
             PollLockTx(p, q)
      PROVE  Same
  BY <1>4 DEF PollLockTx, PassBarrier, SpawnPollers, TypeOK
<1>5. ASSUME NEW p \in Participants, Confirm(p)
      PROVE  Same
  BY <1>5 DEF Confirm, session, pollers
<1>6. ASSUME OpenWindow \/ UNCHANGED vars
      PROVE  Same
  BY <1>6 DEF OpenWindow, vars, session, pollers
<1>7. QED
  BY <1>1, <1>2, <1>3, <1>4, <1>5, <1>6 DEF Next

\* A daemon's set of lock transactions heard of grows by its own funding or by
\* a message to a session that is not over, until the daemon stops.
LEMMA BroadcastStep ==
    ASSUME SettlementAssumption, TypeOK, [Next]_vars, NEW x \in Participants
    PROVE  \/ Crash(x)
           \/ lock_txs_broadcast'[x] = lock_txs_broadcast[x]
           \/ /\ lock_txs_broadcast[x] \subseteq lock_txs_broadcast'[x]
              /\ \/ Fund(x) /\ lock_txs_broadcast'[x] = lock_txs_broadcast[x] \cup {x}
                 \/ \E q \in Participants :
                       /\ UnderWay("LockTxBroadcast", q, x) /\ chan[q][x] # <<>>
                       /\ Live(x) /\ state[x] \notin Terminal /\ state'[x] = state[x]
                       /\ lock_txs_broadcast'[x] = lock_txs_broadcast[x] \cup {q}
<1>1. CASE Fund(x)
  BY <1>1 DEF Fund, TypeOK
<1>2. ASSUME NEW q \in Participants, HandleLockTxBroadcast(q, x)
      PROVE  /\ UnderWay("LockTxBroadcast", q, x) /\ chan[q][x] # <<>>
             /\ Live(x) /\ state[x] \notin Terminal /\ state'[x] = state[x]
             /\ lock_txs_broadcast'[x] = lock_txs_broadcast[x] \cup {q}
  <2>1. UnderWay("LockTxBroadcast", q, x)
    BY <1>2, HeadUnderWay DEF HandleLockTxBroadcast, TypeOK, Channels
  <2>2. QED
    BY <1>2, <2>1 DEF HandleLockTxBroadcast, Receive, TypeOK
<1>3. ASSUME NEW q \in Participants,
             \/ IgnoreMessage(q, x) \/ HandleSpendTxBroadcast(q, x)
             \/ HandleSecretReveal(q, x) \/ LeaderClaims(q, x)
             \/ PollLockTx(x, q)
      PROVE  lock_txs_broadcast' = lock_txs_broadcast
  BY <1>3 DEF IgnoreMessage, HandleSpendTxBroadcast, HandleSecretReveal,
              LeaderClaims, PollLockTx, session
<1>4. ASSUME FundFails(x) \/ IdlePoll(x) \/ PollLeaderSpend(x) \/ PollRefundWindow(x)
      PROVE  lock_txs_broadcast' = lock_txs_broadcast
  BY <1>4 DEF FundFails, IdlePoll, PollLeaderSpend, PollRefundWindow, session
<1>5. QED
  BY <1>1, <1>2, <1>3, <1>4, OwnEvents DEF PeerMessage

\* Its set of confirmed locks grows by a poll that finds one on its chain.
LEMMA ConfirmedGrows ==
    ASSUME SettlementAssumption, TypeOK, [Next]_vars, NEW x \in Participants
    PROVE  \/ Crash(x)
           \/ confirmed_lock_txs'[x] = confirmed_lock_txs[x]
           \/ \E q \in Participants :
                 /\ PollLockTx(x, q)
                 /\ confirmed_lock_txs'[x] = confirmed_lock_txs[x] \cup {q}
<1>1. ASSUME NEW q \in Participants, PollLockTx(x, q)
      PROVE  confirmed_lock_txs'[x] = confirmed_lock_txs[x] \cup {q}
  BY <1>1 DEF PollLockTx, TypeOK
<1>2. ASSUME NEW q \in Participants, PeerMessage(q, x)
      PROVE  confirmed_lock_txs' = confirmed_lock_txs
  BY <1>2 DEF PeerMessage, IgnoreMessage, HandleSpendTxBroadcast,
              HandleSecretReveal, HandleLockTxBroadcast, LeaderClaims, session
<1>3. ASSUME \/ Fund(x) \/ FundFails(x) \/ IdlePoll(x) \/ PollLeaderSpend(x)
             \/ PollRefundWindow(x)
      PROVE  confirmed_lock_txs' = confirmed_lock_txs
  BY <1>3 DEF Fund, FundFails, IdlePoll, PollLeaderSpend, PollRefundWindow, session
<1>4. QED
  BY <1>1, <1>2, <1>3, OwnEvents

\* How a session changes its state.
LEMMA StateStep ==
    ASSUME SettlementAssumption, TypeOK, [Next]_vars, NEW x \in Participants
    PROVE  \/ state'[x] = state[x]
           \/ Crash(x) /\ state'[x] = Gone
           \/ /\ state[x] = "RefundAndSpendTxsSigning"
              /\ \/ Fund(x) /\ state'[x] = "AwaitingLockConfirmations"
                 \/ FundFails(x) /\ state'[x] = "Failed"
           \/ /\ state[x] \notin Terminal /\ Live(x)
              /\ \/ /\ state'[x] = "AwaitingLeaderSpend" /\ x # Leader
                    /\ \E q \in Participants :
                          /\ Revealing(q, x)
                          /\ AllAdaptorSecrets(adaptor_secrets[x] \cup {q})
                 \/ /\ state'[x] = "Completed" /\ x = Leader
                    /\ \E q \in Participants : LeaderClaims(q, x)
                 \/ state'[x] = "Completed" /\ PollLeaderSpend(x)
                 \/ state'[x] \in {"Refunded", "Failed"} /\ PollRefundWindow(x)
           \/ /\ state'[x] = IF x = Leader THEN "AwaitingSecrets"
                                           ELSE "AwaitingLeaderSpend"
              /\ \E q \in Participants :
                    /\ PollLockTx(x, q)
                    /\ AllLockTxsConfirmed(confirmed_lock_txs[x] \cup {q})
<1>1. CASE Fund(x)
  BY <1>1 DEF Fund, ReadyToFund, TypeOK
<1>2. CASE FundFails(x)
  BY <1>2 DEF FundFails, ReadyToFund, TypeOK
<1>3. CASE Crash(x)
  BY <1>3 DEF Crash, TypeOK
<1>4. CASE PollLeaderSpend(x)
  BY <1>4 DEF PollLeaderSpend, Terminal, TypeOK
<1>5. CASE PollRefundWindow(x)
  BY <1>5 DEF PollRefundWindow, SubmitRefund, TypeOK
<1>6. ASSUME NEW q \in Participants, HandleSecretReveal(q, x)
      PROVE  \/ state'[x] = state[x]
             \/ /\ state'[x] = "AwaitingLeaderSpend" /\ x # Leader
                /\ state[x] \notin Terminal /\ Live(x)
                /\ Revealing(q, x)
                /\ AllAdaptorSecrets(adaptor_secrets[x] \cup {q})
  <2>1. Revealing(q, x)
    BY <1>6, HeadUnderWay DEF Revealing, HandleSecretReveal, TypeOK, Channels
  <2>2. QED
    BY <1>6, <2>1 DEF HandleSecretReveal, Receive, TypeOK
<1>7. ASSUME NEW q \in Participants, LeaderClaims(q, x)
      PROVE  /\ state'[x] = "Completed" /\ x = Leader
             /\ state[x] \notin Terminal /\ Live(x)
  BY <1>7 DEF LeaderClaims, Receive, TypeOK
<1>8. ASSUME NEW q \in Participants, PollLockTx(x, q)
      PROVE  \/ state'[x] = state[x]
             \/ /\ state'[x] = IF x = Leader THEN "AwaitingSecrets"
                                             ELSE "AwaitingLeaderSpend"
                /\ AllLockTxsConfirmed(confirmed_lock_txs[x] \cup {q})
  BY <1>8 DEF PollLockTx, PassBarrier, TypeOK
<1>9. ASSUME NEW q \in Participants,
             \/ IgnoreMessage(q, x) \/ HandleSpendTxBroadcast(q, x)
             \/ HandleLockTxBroadcast(q, x) \/ IdlePoll(x)
      PROVE  state' = state
  BY <1>9 DEF IgnoreMessage, HandleSpendTxBroadcast, HandleLockTxBroadcast,
              IdlePoll, session
<1>10. QED
  BY <1>1, <1>2, <1>3, <1>4, <1>5, <1>6, <1>7, <1>8, <1>9, OwnEvents DEF PeerMessage

\* A daemon that has stopped does not come back.
LEMMA GoneForGood ==
    ASSUME SettlementAssumption, TypeOK, [Next]_vars, NEW x \in Participants,
           Live(x)'
    PROVE  Live(x)
BY StateStep DEF Live, Gone, Terminal, PollLockTx

\* A daemon polls for what it polled for, or for what it now wants.
LEMMA PollStep ==
    ASSUME SettlementAssumption, TypeOK, [Next]_vars, NEW x \in Participants,
           NEW t, Polls(x, t)'
    PROVE  \/ t \in Wanted(x)'
           \/ Polls(x, t) /\ ~Crash(x)
<1>1. active_pollers'[x] \subseteq active_pollers[x] \cup Wanted(x)'
  <2>1. ASSUME NEW kept \in SUBSET active_pollers[x], SpawnPollers(x, kept)
        PROVE  active_pollers'[x] \subseteq active_pollers[x] \cup Wanted(x)'
    BY <2>1 DEF SpawnPollers, TypeOK
  <2>2. ASSUME CancelPollers(x)
        PROVE  active_pollers'[x] = {}
    BY <2>2 DEF CancelPollers, TypeOK
  <2>3. CASE Fund(x) \/ IdlePoll(x)
    BY <2>1, <2>3 DEF Fund, IdlePoll, KeepPolling
  <2>4. CASE PollLeaderSpend(x) \/ PollRefundWindow(x)
    BY <2>1, <2>4 DEF PollLeaderSpend, PollRefundWindow
  <2>5. CASE FundFails(x)
    BY <2>2, <2>5 DEF FundFails
  <2>6. CASE Crash(x)
    BY <2>6 DEF Crash, TypeOK
  <2>7. ASSUME NEW q \in Participants, PollLockTx(x, q)
        PROVE  active_pollers'[x] \subseteq active_pollers[x] \cup Wanted(x)'
    BY <2>1, <2>7 DEF PollLockTx
  <2>8. ASSUME NEW q \in Participants, IgnoreMessage(q, x) \/ LeaderClaims(q, x)
        PROVE  active_pollers'[x] = {}
    BY <2>2, <2>8 DEF IgnoreMessage, LeaderClaims
  <2>9. ASSUME NEW q \in Participants,
               \/ HandleLockTxBroadcast(q, x) \/ HandleSpendTxBroadcast(q, x)
               \/ HandleSecretReveal(q, x)
        PROVE  active_pollers'[x] \subseteq active_pollers[x] \cup Wanted(x)'
    BY <2>1, <2>9 DEF HandleLockTxBroadcast, HandleSpendTxBroadcast,
                      HandleSecretReveal, KeepPolling
  <2>10. QED
    BY <2>3, <2>4, <2>5, <2>6, <2>7, <2>8, <2>9, OwnEvents DEF PeerMessage
<1>2. stale'[x] \subseteq stale[x] \cup active_pollers[x]
  <2>1. ASSUME NEW before \in SUBSET stale[x], LeftQueued(x, before)
        PROVE  stale'[x] \subseteq stale[x] \cup active_pollers[x]
    BY <2>1 DEF LeftQueued, TypeOK
  <2>2. ASSUME NEW u
        PROVE  StaleAfter(x, u) \in SUBSET stale[x]
    BY DEF StaleAfter
  <2>3. ASSUME CancelPollers(x)
        PROVE  stale'[x] \subseteq stale[x] \cup active_pollers[x]
    BY <2>1, <2>3 DEF CancelPollers
  <2>4. CASE Fund(x)
    BY <2>4 DEF Fund, KeepPolling
  <2>5. CASE IdlePoll(x)
    BY <2>2, <2>5 DEF IdlePoll, TypeOK
  <2>6. CASE PollLeaderSpend(x) \/ PollRefundWindow(x)
    BY <2>1, <2>2, <2>6 DEF PollLeaderSpend, PollRefundWindow
  <2>7. CASE FundFails(x)
    BY <2>3, <2>7 DEF FundFails
  <2>8. CASE Crash(x)
    BY <2>8 DEF Crash, TypeOK
  <2>9. ASSUME NEW q \in Participants, PollLockTx(x, q)
        PROVE  stale'[x] \subseteq stale[x]
    BY <2>2, <2>9 DEF PollLockTx, TypeOK
  <2>10. ASSUME NEW q \in Participants, IgnoreMessage(q, x) \/ LeaderClaims(q, x)
         PROVE  stale'[x] \subseteq stale[x] \cup active_pollers[x]
    BY <2>3, <2>10 DEF IgnoreMessage, LeaderClaims
  <2>11. ASSUME NEW q \in Participants,
                \/ HandleLockTxBroadcast(q, x) \/ HandleSpendTxBroadcast(q, x)
                \/ HandleSecretReveal(q, x)
         PROVE  stale' = stale
    BY <2>11 DEF HandleLockTxBroadcast, HandleSpendTxBroadcast,
                 HandleSecretReveal, KeepPolling
  <2>12. QED
    BY <2>4, <2>5, <2>6, <2>7, <2>8, <2>9, <2>10, <2>11, OwnEvents DEF PeerMessage
<1>3. CASE Crash(x)
  <2>1. active_pollers'[x] = {} /\ stale'[x] = {}
    BY <1>3 DEF Crash, TypeOK
  <2>2. QED
    BY <2>1 DEF Polls
<1>4. QED
  BY <1>1, <1>2, <1>3 DEF Polls

-----------------------------------------------------------------------------
(* The parts of the timely invariant, each kept by a step.                 *)

\* A deposit that has left its lock stays out of it.
LEMMA SpentStays ==
    ASSUME SettlementAssumption, TypeOK, SettlementInv, [Next]_vars,
           NEW q \in Participants
    PROVE  /\ lock[q] = "claimed" => lock'[q] = "claimed"
           /\ lock[q] = "refunded" => lock'[q] = "refunded"
           /\ lock'[q] = "confirmed" => lock[q] \in {"confirmed", "mempool"}
           /\ lock'[q] \in OnChain => lock[q] \in OnChain \cup {"mempool"}
BY LedgerStep DEF TypeOK, OnChain

\* What a session of daemon x wants polled is registered after every step that
\* leaves it running.
LEMMA PollersKeptStep ==
    ASSUME SettlementAssumption, TypeOK, PollersKept, [Next]_vars
    PROVE  PollersKept'
<1> SUFFICES ASSUME NEW x \in Participants,
                    state'[x] \notin Terminal \cup {Gone}
             PROVE  Wanted(x)' \subseteq active_pollers'[x]
  BY DEF PollersKept
<1>1. ASSUME NEW kept, SpawnPollers(x, kept)
      PROVE  Wanted(x)' \subseteq active_pollers'[x]
  BY <1>1 DEF SpawnPollers, TypeOK
<1>2. CASE /\ state'[x] = state[x]
           /\ lock_txs_broadcast'[x] = lock_txs_broadcast[x]
           /\ confirmed_lock_txs'[x] = confirmed_lock_txs[x]
           /\ active_pollers'[x] = active_pollers[x]
  <2>1. Wanted(x)' = Wanted(x)
    BY <1>2 DEF Wanted
  <2>2. QED
    BY <1>2, <2>1 DEF PollersKept
<1>3. CASE Fund(x) \/ IdlePoll(x)
  BY <1>1, <1>3 DEF Fund, IdlePoll, KeepPolling
<1>4. CASE PollLeaderSpend(x) \/ PollRefundWindow(x)
  BY <1>1, <1>4 DEF PollLeaderSpend, PollRefundWindow
<1>5. CASE FundFails(x) \/ Crash(x)
  BY <1>5 DEF FundFails, Crash, Terminal, TypeOK
<1>6. ASSUME NEW q \in Participants, PollLockTx(x, q)
      PROVE  Wanted(x)' \subseteq active_pollers'[x]
  BY <1>1, <1>6 DEF PollLockTx
<1>7. ASSUME NEW q \in Participants, IgnoreMessage(q, x) \/ LeaderClaims(q, x)
      PROVE  FALSE
  BY <1>7 DEF IgnoreMessage, LeaderClaims, Terminal, TypeOK, session
<1>8. ASSUME NEW q \in Participants,
             \/ HandleLockTxBroadcast(q, x) \/ HandleSpendTxBroadcast(q, x)
             \/ HandleSecretReveal(q, x)
      PROVE  Wanted(x)' \subseteq active_pollers'[x]
  BY <1>1, <1>8 DEF HandleLockTxBroadcast, HandleSpendTxBroadcast,
                    HandleSecretReveal, KeepPolling
<1>9. QED
  BY <1>2, <1>3, <1>4, <1>5, <1>6, <1>7, <1>8, OwnEvents DEF PeerMessage

LEMMA PolledForStep ==
    ASSUME SettlementAssumption, TypeOK, PolledFor, [Next]_vars
    PROVE  PolledFor'
<1> SUFFICES ASSUME NEW p \in Participants, NEW q \in Participants
             PROVE  /\ Polls(p, LockTx(q))' => q \in lock_txs_broadcast'[p]
                    /\ Polls(p, RefundWindow(p))' => p \in confirmed_lock_txs'[p]
                    /\ q \in confirmed_lock_txs'[p] => q \in lock_txs_broadcast'[p]
  BY DEF PolledFor, LockTx, RefundWindow
<1>1. ~Crash(p) => /\ lock_txs_broadcast[p] \subseteq lock_txs_broadcast'[p]
                   /\ confirmed_lock_txs[p] \subseteq confirmed_lock_txs'[p]
  BY BroadcastStep, ConfirmedGrows
<1>2. LockTx(q) \in Wanted(p)' => q \in lock_txs_broadcast'[p]
  BY DEF Wanted, LockTx, LeaderSpendTx, RefundWindow
<1>3. RefundWindow(p) \in Wanted(p)' => p \in confirmed_lock_txs'[p]
  BY DEF Wanted, LockTx, LeaderSpendTx, RefundWindow
<1>4. Polls(p, LockTx(q))' => q \in lock_txs_broadcast'[p]
  <2>1. Polls(p, LockTx(q))' => LockTx(q) \in Wanted(p)' \/ (Polls(p, LockTx(q)) /\ ~Crash(p))
    <3>1. LockTx(q)' = LockTx(q)
      BY DEF LockTx
    <3>2. QED
      BY <3>1, PollStep DEF Polls
  <2>2. QED
    BY <1>1, <1>2, <2>1 DEF PolledFor
<1>5. Polls(p, RefundWindow(p))' => p \in confirmed_lock_txs'[p]
  <2>1. Polls(p, RefundWindow(p))'
           => RefundWindow(p) \in Wanted(p)' \/ (Polls(p, RefundWindow(p)) /\ ~Crash(p))
    <3>1. RefundWindow(p)' = RefundWindow(p)
      BY DEF RefundWindow
    <3>2. QED
      BY <3>1, PollStep DEF Polls
  <2>2. QED
    BY <1>1, <1>3, <2>1 DEF PolledFor
<1>6. q \in confirmed_lock_txs'[p] => q \in lock_txs_broadcast'[p]
  <2>1. CASE Crash(p)
    BY <2>1 DEF Crash, TypeOK
  <2>2. ASSUME NEW r \in Participants, PollLockTx(p, r)
        PROVE  r \in lock_txs_broadcast[p]
    BY <2>2 DEF PollLockTx, PolledFor
  <2>3. QED
    BY <1>1, <2>1, <2>2, ConfirmedGrows DEF PolledFor
<1>7. QED
  BY <1>4, <1>5, <1>6

LEMMA OwnLockStep ==
    ASSUME SettlementAssumption, TypeOK, OwnLock, [Next]_vars
    PROVE  OwnLock'
<1> SUFFICES ASSUME NEW x \in Participants
             PROVE  /\ chan'[x][x] = <<>>
                    /\ state'[x] = "RefundAndSpendTxsSigning"
                          => x \notin lock_txs_broadcast'[x]
  BY DEF OwnLock
<1>0. chan[x][x] = <<>> /\ chan \in Channels
  BY DEF OwnLock, TypeOK, Channels
<1>1. chan'[x][x] = <<>>
  <2>1. ASSUME NEW channels \in Channels, channels[x][x] = <<>>,
               NEW p \in Participants, NEW m, NEW missed
        PROVE  Cast(channels, p, m, missed)[x][x] = <<>>
    BY <2>1 DEF Cast, Channels
  <2>2. ASSUME NEW q \in Participants, NEW p \in Participants, NEW m, Receive(q, p, m)
        PROVE  Taken(q, p) \in Channels /\ Taken(q, p)[x][x] = <<>>
    <3>1. chan[q][p] # <<>>
      BY <2>2 DEF Receive
    <3>2. Taken(q, p)[x][x] = <<>>
      BY <1>0, <3>1 DEF Taken, Channels
    <3>3. QED
      BY <1>0, <3>1, <3>2, TakenType
  <2>3. ASSUME NEW p \in Participants, Fund(p)
        PROVE  chan'[x][x] = <<>>
    BY <1>0, <2>1, <2>3 DEF Fund
  <2>4. ASSUME NEW p \in Participants, NEW q \in Participants, PeerMessage(q, p)
        PROVE  chan'[x][x] = <<>>
    <3>1. \E m : Receive(q, p, m)
      BY <2>4 DEF PeerMessage, IgnoreMessage, HandleLockTxBroadcast,
                  HandleSpendTxBroadcast, HandleSecretReveal, LeaderClaims
    <3>2. Taken(q, p) \in Channels /\ Taken(q, p)[x][x] = <<>>
      BY <2>2, <3>1
    <3>3. CASE chan' = Taken(q, p)
      BY <3>2, <3>3
    <3>4. CASE LeaderClaims(q, p)
      BY <2>1, <3>2, <3>4 DEF LeaderClaims
    <3>5. QED
      BY <2>4, <3>3, <3>4 DEF PeerMessage, IgnoreMessage, HandleLockTxBroadcast,
                  HandleSpendTxBroadcast, HandleSecretReveal
  <2>5. ASSUME NEW p \in Participants, NEW q \in Participants, PollLockTx(p, q)
        PROVE  chan'[x][x] = <<>>
    BY <1>0, <2>1, <2>5 DEF PollLockTx, PassBarrier
  <2>6. ASSUME NEW p \in Participants,
               \/ FundFails(p) \/ PollLeaderSpend(p) \/ PollRefundWindow(p)
               \/ IdlePoll(p) \/ Confirm(p)
        PROVE  chan' = chan
    BY <2>6 DEF FundFails, PollLeaderSpend, PollRefundWindow, IdlePoll, Confirm
  <2>7. ASSUME NEW p \in Participants, Crash(p)
        PROVE  chan'[x][x] = <<>>
    BY <1>0, <2>7 DEF Crash, Channels
  <2>8. ASSUME OpenWindow \/ UNCHANGED vars
        PROVE  chan' = chan
    BY <2>8 DEF OpenWindow, vars
  <2>9. QED
    BY <1>0, <2>3, <2>4, <2>5, <2>6, <2>7, <2>8 DEF Next
<1>2. ASSUME state'[x] = "RefundAndSpendTxsSigning"
      PROVE  x \notin lock_txs_broadcast'[x]
  <2>1. x \notin lock_txs_broadcast[x]
    BY <1>2, SigningStep DEF OwnLock
  <2>2. ~Crash(x) /\ ~Fund(x)
    BY <1>2 DEF Crash, Fund, Gone, TypeOK
  <2>3. QED
    BY <1>0, <2>1, <2>2, BroadcastStep
<1>3. QED
  BY <1>1, <1>2

\* A follower behind the barrier stays there.
LEMMA PassedStays ==
    ASSUME SettlementAssumption, TypeOK, [Next]_vars,
           NEW p \in Followers, Passed(p)
    PROVE  Passed(p)'
<1>1. p \in Participants /\ p # Leader
  BY DEF Followers
<1>2. CASE ~Live(p)
  BY <1>1, <1>2, GoneForGood DEF Passed
<1>3. CASE /\ Live(p) /\ Participants \subseteq confirmed_lock_txs[p]
           /\ state[p] \in {"AwaitingLeaderSpend"} \cup Terminal
  <2>1. ~ \E q \in Participants : PollLockTx(p, q)
    BY <1>3 DEF PollLockTx
  <2>2. CASE Crash(p)
    BY <1>1, <2>2 DEF Crash, Passed, Live, TypeOK
  <2>3. CASE ~Crash(p)
    <3>1. Participants \subseteq confirmed_lock_txs'[p]
      BY <1>1, <1>3, <2>1, <2>3, ConfirmedGrows
    <3>2. state'[p] \in {"AwaitingLeaderSpend"} \cup Terminal
      BY <1>1, <1>3, <2>1, <2>3, StateStep DEF Terminal
    <3>3. QED
      BY <3>1, <3>2 DEF Passed
  <2>4. QED
    BY <2>2, <2>3
<1>4. QED
  BY <1>2, <1>3 DEF Passed

\* Revealing one's secret means having passed the barrier.
LEMMA RevealedPassedStep ==
    ASSUME SettlementAssumption, TypeOK, SettlementInv, RevealedPassed, [Next]_vars
    PROVE  RevealedPassed'
<1>0. Leader \in Participants /\ TheTarget \in Participants
  BY DEF SettlementAssumption, TheTarget
<1>1. state'[Leader] # "AwaitingLeaderSpend"
  BY <1>0, StateStep DEF RevealedPassed, Gone
<1>2. ASSUME NEW p \in Followers,
             \/ state[p] = "AwaitingLeaderSpend"
             \/ Leader \in adaptor_secrets[p]
             \/ \E q \in Participants : Revealing(p, q)
             \/ \E q \in Participants \ {p} : p \in adaptor_secrets[q]
             \/ LeaderSpendVisible
      PROVE  Passed(p)'
  BY <1>2, PassedStays DEF RevealedPassed
<1>3. ASSUME NEW p \in Followers, NEW q \in Participants, PollLockTx(p, q),
             AllLockTxsConfirmed(confirmed_lock_txs[p] \cup {q})
      PROVE  Passed(p)'
  BY <1>3 DEF PollLockTx, PassBarrier, AllLockTxsConfirmed, Passed, Followers, TypeOK
<1>4. ASSUME NEW p \in Followers, state'[p] = "AwaitingLeaderSpend"
      PROVE  Passed(p)'
  <2>1. ASSUME NEW q \in Participants, Revealing(q, p),
               AllAdaptorSecrets(adaptor_secrets[p] \cup {q})
        PROVE  Passed(p)'
    <3>1. q # Leader
      BY <2>1 DEF SettlementInv, LeaderSecretOnlyOnChain, Followers
    <3>2. Leader \in adaptor_secrets[p]
      BY <1>0, <2>1, <3>1 DEF AllAdaptorSecrets
    <3>3. QED
      BY <1>2, <3>2
  <2>2. QED
    BY <1>2, <1>3, <1>4, <2>1, StateStep DEF Followers, Gone
<1>5. ASSUME NEW p \in Followers, Leader \in adaptor_secrets'[p]
      PROVE  Passed(p)'
  <2>1. ~Revealing(Leader, p)
    BY DEF SettlementInv, LeaderSecretOnlyOnChain, Followers
  <2>2. QED
    BY <1>0, <1>2, <1>5, <2>1, SecretStep DEF Followers
<1>6. ASSUME NEW p \in Followers, NEW q \in Participants, Revealing(p, q)'
      PROVE  Passed(p)'
  <2>1. UnderWay("SecretReveal", p, q)'
    BY <1>6 DEF Revealing
  <2>2. QED
    BY <1>2, <1>3, <2>1, MessageStep DEF Followers, Revealing
<1>7. ASSUME NEW p \in Followers, NEW q \in Participants \ {p}, p \in adaptor_secrets'[q]
      PROVE  Passed(p)'
  BY <1>2, <1>7, SecretStep DEF Followers
<1>8. ASSUME NEW p \in Followers, LeaderSpendVisible'
      PROVE  Passed(p)'
  <2>1. ASSUME NEW q \in Participants, LeaderClaims(q, Leader)
        PROVE  Passed(p)'
    <3>1. Revealing(q, Leader)
      BY <1>0, <2>1, HeadUnderWay DEF Revealing, LeaderClaims, TypeOK, Channels
    <3>2. p = q \/ p \in adaptor_secrets[Leader]
      BY <2>1 DEF LeaderClaims, AllAdaptorSecrets, Followers
    <3>3. QED
      BY <1>0, <1>2, <3>1, <3>2 DEF Followers
  <2>2. LeaderSpendVisible \/ \E q \in Participants : LeaderClaims(q, Leader)
    BY <1>0, <1>8, LedgerStep DEF LeaderSpendVisible, TheTarget, TypeOK
  <2>3. QED
    BY <1>2, <2>1, <2>2
<1>9. QED
  BY <1>1, <1>4, <1>5, <1>6, <1>7, <1>8 DEF RevealedPassed, Followers

\* Nothing is claimed before the leader has claimed.
LEMMA ClaimsFollowStep ==
    ASSUME SettlementAssumption, TypeOK, SettlementInv, ClaimsFollow, [Next]_vars
    PROVE  ClaimsFollow'
<1>1. TheTarget \in Participants
  BY DEF SettlementAssumption, TheTarget
<1>2. LeaderSpendVisible => LeaderSpendVisible'
  BY <1>1, SpentStays DEF LeaderSpendVisible, TheTarget
<1>3. ASSUME NEW q \in Participants, lock'[q] = "claimed"
      PROVE  LeaderSpendVisible'
  BY <1>1, <1>2, <1>3, LedgerStep
  DEF LeaderSpendVisible, TheTarget, ClaimsFollow, TypeOK, SettlementAssumption
<1>4. QED
  BY <1>3 DEF ClaimsFollow

\* The refund windows open along the cycle, from the leader's target to the
\* leader.
LEMMA DistanceFacts ==
    ASSUME SettlementAssumption
    PROVE  /\ Leader \in Participants /\ TheTarget \in Participants
           /\ \A p \in Participants : Target[p] \in Participants
           /\ Cardinality(Participants) \in Nat
           /\ Distance[Leader] = Cardinality(Participants)
           /\ \A p \in Participants : Distance[p] \in 1 .. Cardinality(Participants)
           /\ \A p \in Participants : Distance[p] = 1 => p = TheTarget
           /\ \A p \in Followers : Distance[Target[p]] = Distance[p] + 1
<1> DEFINE D(p) == DistanceFromLeader(Participants, Target, p, Leader)
<1>1. /\ Leader \in Participants /\ TheTarget \in Participants
      /\ \A p \in Participants : Target[p] \in Participants
  BY DEF SettlementAssumption, TheTarget
<1>2. Cardinality(Participants) \in Nat
  BY FS_CardinalityType DEF SettlementAssumption
<1>3. /\ D(Leader) = Cardinality(Participants)
      /\ D(Target[Leader]) = 1
      /\ \A p \in Participants : D(p) \in 1 .. Cardinality(Participants)
      /\ \A p, q \in Participants : D(p) = D(q) => p = q
      /\ \A p \in Participants \ {Leader} : D(Target[p]) = D(p) + 1
  BY <1>1, HopByHop DEF SettlementAssumption
<1>4. \A p \in Participants : Distance[p] = D(p)
  BY DEF Distance
<1> HIDE DEF D
<1>5. QED
  BY <1>1, <1>2, <1>3, <1>4 DEF Followers, TheTarget

\* A session that gave up or completed had cause to, and the output it went
\* for is gone, as long as no node refuses a transaction.
LEMMA EndedForCauseStep ==
    ASSUME SettlementAssumption, "reject" \notin Faults, TypeOK, SettlementInv,
           PolledFor, OwnLock, EndedForCause, [Next]_vars
    PROVE  EndedForCause'
<1>0. now \in Nat /\ now' \in Nat /\ now <= now'
  <2>1. now \in Nat
    BY DEF TypeOK
  <2>2. now' = now \/ now' = now + 1
    BY LedgerStep
  <2>3. QED
    BY <2>1, <2>2
<1>1. ASSUME NEW p \in Participants, WindowOpen(p)
      PROVE  WindowOpen(p)'
  <2>1. Distance[p] \in Nat
    BY DistanceFacts
  <2>2. QED
    BY <1>0, <1>1, <2>1 DEF WindowOpen, Distance
<1>2. ASSUME NEW p \in Participants, lock'[p] = "refunded"
      PROVE  WindowOpen(p)'
  <2>1. lock[p] = "refunded" \/ WindowOpen(p)
    BY <1>2, LedgerStep DEF TypeOK
  <2>2. QED
    BY <1>1, <2>1 DEF EndedForCause
<1>3. ASSUME NEW p \in Participants, Spent(p)
      PROVE  Spent(p)'
  BY <1>3, SpentStays DEF Spent
<1>4. ASSUME NEW p \in Followers, GaveUp(p)'
      PROVE  WindowOpen(p)' /\ Spent(p)'
  <2>0. /\ p \in Participants /\ p \in lock_txs_broadcast'[p]
        /\ state'[p] \in {"Refunded", "Failed"}
    BY <1>4 DEF GaveUp, Followers
  <2>1. CASE GaveUp(p)
    BY <1>1, <1>3, <2>0, <2>1 DEF EndedForCause
  <2>2. CASE p \notin lock_txs_broadcast[p]
    <3>1. chan[p][p] = <<>>
      BY <2>0 DEF OwnLock
    <3>2. ~Crash(p)
      BY <2>0 DEF Crash, Gone, TypeOK
    <3>3. ~Fund(p)
      BY <2>0 DEF Fund, TypeOK
    <3>4. QED
      BY <2>0, <2>2, <3>1, <3>2, <3>3, BroadcastStep
  <2>3. CASE PollRefundWindow(p)
    <3>1. WindowOpen(p) /\ p \in confirmed_lock_txs[p]
      BY <2>0, <2>3 DEF PollRefundWindow, PolledFor
    <3>2. Spent(p)'
      <4>1. lock[p] \in OnChain
        BY <2>0, <3>1 DEF SettlementInv, ConfirmedIsOnChain
      <4>2. lock'[p] = "refunded" \/ lock[p] # "confirmed"
        BY <2>0, <2>3 DEF PollRefundWindow, SubmitRefund, TypeOK
      <4>3. QED
        BY <1>3, <2>0, <4>1, <4>2 DEF Spent, OnChain
    <3>3. QED
      BY <1>1, <2>0, <3>1, <3>2
  <2>4. CASE FundFails(p)
    BY <2>0, <2>4 DEF FundFails, ReadyToFund, OwnLock
  <2>5. state'[p] = state[p] \/ FundFails(p) \/ PollRefundWindow(p)
    BY <2>0, StateStep DEF Gone
  <2>6. QED
    BY <2>0, <2>1, <2>2, <2>3, <2>4, <2>5 DEF GaveUp
<1>5. ASSUME NEW p \in Followers, state'[p] = "Completed"
      PROVE  LeaderSpendVisible' /\ Spent(Target[p])'
  <2>0. p \in Participants /\ p # Leader /\ Target[p] \in Participants
    BY DistanceFacts DEF Followers
  <2>1. LeaderSpendVisible => LeaderSpendVisible'
    BY DistanceFacts, SpentStays DEF LeaderSpendVisible, TheTarget
  <2>2. CASE state[p] = "Completed"
    <3>1. LeaderSpendVisible /\ Spent(Target[p])
      BY <2>2 DEF EndedForCause
    <3>2. QED
      BY <1>3, <2>0, <2>1, <3>1 DEF Spent
  <2>3. CASE PollLeaderSpend(p)
    <3>1. LeaderSpendVisible /\ SubmitSpend(p)
      BY <2>3 DEF PollLeaderSpend
    <3>2. lock[Target[p]] \in OnChain
      BY <2>0, <3>1, DistanceFacts
      DEF LeaderSpendVisible, TheTarget, SettlementInv, LockBarrier, AllLocked
    <3>3. Spent(Target[p])'
      <4>1. CASE lock[Target[p]] = "confirmed"
        BY <2>0, <3>1, <4>1 DEF SubmitSpend, Spent, TypeOK
      <4>2. CASE lock[Target[p]] # "confirmed"
        BY <1>3, <2>0, <3>2, <4>2 DEF Spent, OnChain
      <4>3. QED
        BY <4>1, <4>2
    <3>4. QED
      BY <2>1, <3>1, <3>3
  <2>4. QED
    BY <1>5, <2>0, <2>2, <2>3, StateStep DEF Gone
<1>6. QED
  BY <1>2, <1>4, <1>5 DEF EndedForCause, Followers

\* A window that opens late finds the swap decided: nobody was behind.
LEMMA DecidedBegins ==
    ASSUME SettlementAssumption, Slack <= 1, TypeOK, PollersKept, PolledFor,
           RevealedPassed, EndedForCause, OpenWindow, now = Slack
    PROVE  Decided'
<1>1. /\ \A p \in Participants : lock[p] # "mempool" /\ ~Behind(p)
      /\ UNCHANGED <<session, pollers, chan, lock>>
  BY DEF OpenWindow, SettlementAssumption
<1>2. chan \in Channels
  BY DEF TypeOK, Channels
<1>3. ASSUME NEW p \in Participants, NEW q \in Participants, NEW m, Live(p)
      PROVE  ~UnderWay(m, q, p)
  BY <1>1, <1>3 DEF Behind, UnderWay
<1>4. ASSUME NEW p \in Followers, GaveUp(p)
      PROVE  Distance[p] <= Slack /\ p = TheTarget /\ Spent(p)
  <2>1. Distance[p] \in Nat /\ 1 <= Distance[p]
    BY DistanceFacts DEF Followers
  <2>2. now >= Distance[p] /\ Spent(p)
    BY <1>4 DEF EndedForCause, WindowOpen
  <2>3. Distance[p] <= Slack /\ Distance[p] = 1
    BY <2>1, <2>2 DEF SettlementAssumption
  <2>4. QED
    BY <2>2, <2>3, DistanceFacts DEF Followers
<1>5. ASSUME LeaderSpendVisible, NEW p \in Followers, Live(p), state[p] # "Completed"
      PROVE  state[p] \in Terminal /\ Distance[p] <= Slack
  <2>1. /\ p \in Participants /\ p \in lock_txs_broadcast[p]
        /\ state[p] \in {"AwaitingLeaderSpend"} \cup Terminal
    BY <1>5 DEF RevealedPassed, Passed, PolledFor, Followers
  <2>2. state[p] # "AwaitingLeaderSpend"
    <3> SUFFICES ASSUME state[p] = "AwaitingLeaderSpend"
                 PROVE  FALSE
      OBVIOUS
    <3>1. LeaderSpendTx \in active_pollers[p]
      BY <2>1 DEF PollersKept, Wanted, Terminal, Gone
    <3>2. Behind(p)
      BY <1>5, <3>1 DEF Behind, Polls
    <3>3. QED
      BY <1>1, <2>1, <3>2
  <2>3. GaveUp(p)
    BY <1>5, <2>1, <2>2 DEF GaveUp, Terminal
  <2>4. QED
    BY <1>4, <2>1, <2>2, <2>3
<1>6. ASSUME ~LeaderSpendVisible, lock[TheTarget] = "confirmed",
             NEW p \in Followers, Live(p)
      PROVE  Settled(p) \/ (state[p] \in Terminal /\ p \notin lock_txs_broadcast[p])
  <2>0. p \in Participants
    BY DEF Followers
  <2>1. CASE state[p] \in Terminal
    <3>1. state[p] # "Completed"
      BY <1>6 DEF EndedForCause
    <3>2. ~GaveUp(p)
      BY <1>4, <1>6 DEF Spent
    <3>3. QED
      BY <2>1, <3>1, <3>2 DEF GaveUp, Terminal
  <2>2. CASE state[p] \notin Terminal
    <3>1. ASSUME NEW q \in lock_txs_broadcast[p], lock[q] \in OnChain,
                 q \notin confirmed_lock_txs[p]
          PROVE  FALSE
      <4>1. q \in Participants
        BY <2>0 DEF TypeOK
      <4>2. LockTx(q) \in active_pollers[p]
        BY <1>6, <2>0, <2>2, <3>1 DEF PollersKept, Wanted, Live
      <4>3. Behind(p)
        BY <1>6, <3>1, <4>1, <4>2 DEF Behind, Polls, LockTxConfirmed
      <4>4. QED
        BY <1>1, <2>0, <4>3
    <3>2. QED
      BY <3>1 DEF Settled
  <2>3. QED
    BY <2>1, <2>2
<1>7. ~LeaderSpendVisible => Stalled
  BY <1>3, <1>6, DistanceFacts DEF Stalled, Revealing
<1>8. /\ \A p \in Participants : lock[p] # "mempool"
      /\ \A p, q \in Participants : Live(p) => ~UnderWay("LockTxBroadcast", q, p)
      /\ IF LeaderSpendVisible
         THEN \A p \in Followers :
                 \/ ~Live(p)
                 \/ state[p] = "Completed"
                 \/ state[p] \in Terminal /\ Distance[p] <= Slack
         ELSE Stalled
  BY <1>1, <1>3, <1>5, <1>7
<1>9. QED
  BY <1>1, <1>8
  DEF Decided, LeaderSpendVisible, Live, UnderWay, Distance, session, Stalled,
      Revealing, Settled

\* When the swap is stalled late, a follower hears of no lock, sees none
\* confirmed and does not pass the barrier.
LEMMA NobodyPasses ==
    ASSUME SettlementAssumption, TypeOK, SettlementInv, PolledFor, [Next]_vars,
           Late, Decided, NEW p \in Participants, Live(p),
           Settled(p) \/ (state[p] \in Terminal /\ p \notin lock_txs_broadcast[p])
    PROVE  /\ ~ \E q \in Participants :
                   /\ PollLockTx(p, q)
                   /\ AllLockTxsConfirmed(confirmed_lock_txs[p] \cup {q})
           /\ Crash(p) \/ lock_txs_broadcast'[p] = lock_txs_broadcast[p]
<1>1. ASSUME NEW q \in Participants, PollLockTx(p, q),
             AllLockTxsConfirmed(confirmed_lock_txs[p] \cup {q})
      PROVE  FALSE
  <2>1. /\ q \in lock_txs_broadcast[p] /\ q \notin confirmed_lock_txs[p]
        /\ lock[q] \in OnChain
    BY <1>1 DEF PollLockTx, PolledFor, LockTxConfirmed
  <2>2. p = q \/ p \in confirmed_lock_txs[p]
    BY <1>1 DEF AllLockTxsConfirmed
  <2>3. p \in lock_txs_broadcast[p]
    BY <2>1, <2>2 DEF PolledFor
  <2>4. QED
    BY <2>1, <2>3 DEF Settled
<1>2. ~Fund(p)
  BY DEF Late, Fund, ReadyToFund, TypeOK, SettlementAssumption
<1>3. \A q \in Participants : ~UnderWay("LockTxBroadcast", q, p)
  BY DEF Decided
<1>4. QED
  BY <1>1, <1>2, <1>3, BroadcastStep

\* While the swap is stalled, late, the leader does not come to claim.
LEMMA StalledStep ==
    ASSUME SettlementAssumption, TypeOK, SettlementInv, PolledFor, [Next]_vars,
           Late, Decided, ~LeaderSpendVisible
    PROVE  Stalled' /\ ~LeaderSpendVisible'
<1>0. Stalled /\ \A p \in Participants : lock[p] # "mempool"
  BY DEF Decided
<1>1. /\ Leader \in Participants /\ TheTarget \in Participants
      /\ \A p \in Followers : p \in Participants
  BY DistanceFacts DEF Followers
<1>2. ~LeaderSpendVisible'
  <2> SUFFICES ASSUME lock'[TheTarget] = "claimed"
               PROVE  FALSE
    BY DEF LeaderSpendVisible, TheTarget
  <2>1. /\ lock[TheTarget] = "confirmed"
        /\ \E q \in Participants : LeaderClaims(q, Leader)
    BY <1>1, LedgerStep DEF LeaderSpendVisible, TheTarget, TypeOK
  <2>2. PICK q \in Participants : LeaderClaims(q, Leader)
    BY <2>1
  <2>3. Revealing(q, Leader) /\ Live(Leader)
    BY <1>1, <2>2, HeadUnderWay
    DEF LeaderClaims, Receive, Revealing, TypeOK, Channels
  <2>4. QED
    BY <1>0, <2>1, <2>3 DEF Stalled
<1>3. CASE lock[TheTarget] # "confirmed"
  <2>1. lock'[TheTarget] # "confirmed"
    BY <1>0, <1>1, <1>3, SpentStays
  <2>2. QED
    BY <1>2, <2>1 DEF Stalled, TheTarget
<1>4. CASE lock[TheTarget] = "confirmed"
  <2>0. \A p \in Followers : Live(p) =>
            Settled(p) \/ (state[p] \in Terminal /\ p \notin lock_txs_broadcast[p])
    BY <1>0, <1>4 DEF Stalled
  <2>1. ASSUME NEW p \in Participants, Live(Leader)', Revealing(p, Leader)'
        PROVE  FALSE
    <3>1. Live(Leader) /\ ~Revealing(p, Leader)
      BY <1>0, <1>1, <1>4, <2>1, GoneForGood DEF Stalled
    <3>2. UnderWay("SecretReveal", p, Leader)'
      BY <2>1 DEF Revealing
    <3>3. PICK q \in Participants :
              /\ p # Leader /\ PollLockTx(p, q)
              /\ AllLockTxsConfirmed(confirmed_lock_txs[p] \cup {q})
      BY <1>1, <3>1, <3>2, MessageStep DEF Revealing
    <3>4. p \in Followers /\ Live(p)
      BY <3>3 DEF Followers, PollLockTx
    <3>5. QED
      BY <2>0, <3>3, <3>4, NobodyPasses
  <2>2. ASSUME NEW p \in Followers, Live(p)'
        PROVE  Settled(p)' \/ (state'[p] \in Terminal /\ p \notin lock_txs_broadcast'[p])
    <3>0. p \in Participants /\ Live(p) /\ ~Crash(p)
      BY <1>1, <2>2, GoneForGood DEF Crash, Live, TypeOK
    <3>1. Settled(p) \/ (state[p] \in Terminal /\ p \notin lock_txs_broadcast[p])
      BY <2>0, <3>0
    <3>2. /\ ~ \E q \in Participants :
                 /\ PollLockTx(p, q)
                 /\ AllLockTxsConfirmed(confirmed_lock_txs[p] \cup {q})
          /\ lock_txs_broadcast'[p] = lock_txs_broadcast[p]
      BY <3>0, <3>1, NobodyPasses
    <3>3. CASE Settled(p)
      <4>1. confirmed_lock_txs[p] \subseteq confirmed_lock_txs'[p]
        BY <3>0, ConfirmedGrows
      <4>2. lock_txs_broadcast[p] \subseteq Participants
        BY <3>0 DEF TypeOK
      <4>3. \A q \in Participants : lock'[q] \in OnChain => lock[q] \in OnChain
        BY <1>0, SpentStays
      <4>4. Settled(p)'
        BY <3>2, <3>3, <4>1, <4>2, <4>3 DEF Settled
      <4>5. QED
        BY <4>4
    <3>4. CASE state[p] \in Terminal /\ p \notin lock_txs_broadcast[p]
      <4>1. state'[p] = state[p]
        BY <3>0, <3>2, <3>4, StateStep DEF Terminal
      <4>2. QED
        BY <3>2, <3>4, <4>1
    <3>5. QED
      BY <3>1, <3>3, <3>4
  <2>3. Stalled'
    BY <2>1, <2>2 DEF Stalled, Live
  <2>4. QED
    BY <1>2, <2>3
<1>5. QED
  BY <1>2, <1>3, <1>4

\* Once decided, the swap stays decided.
LEMMA DecidedStays ==
    ASSUME SettlementAssumption, TypeOK, SettlementInv, PolledFor,
           RevealedPassed, [Next]_vars, Late, Decided
    PROVE  Decided'
<1>1. \A p \in Participants : lock'[p] # "mempool"
  BY LedgerStep DEF Decided, Late, TypeOK, SettlementAssumption
<1>2. ASSUME NEW p \in Participants, NEW q \in Participants, Live(p)',
             UnderWay("LockTxBroadcast", q, p)'
      PROVE  FALSE
  <2>1. ~Fund(q)
    BY DEF Fund, ReadyToFund, Late, TypeOK, SettlementAssumption
  <2>2. QED
    BY <1>2, <2>1, GoneForGood, MessageStep DEF Decided
<1>3. CASE LeaderSpendVisible
  <2>1. LeaderSpendVisible'
    BY <1>3, DistanceFacts, SpentStays DEF LeaderSpendVisible, TheTarget
  <2>2. ASSUME NEW p \in Followers, Live(p)'
        PROVE  \/ state'[p] = "Completed"
               \/ state'[p] \in Terminal /\ Distance[p] <= Slack
    <3>0. p \in Participants /\ Live(p)
      BY <2>2, GoneForGood DEF Followers
    <3>1. Participants \subseteq confirmed_lock_txs[p]
      BY <1>3, <3>0 DEF RevealedPassed, Passed
    <3>2. \/ state[p] = "Completed"
          \/ state[p] \in Terminal /\ Distance[p] <= Slack
      BY <1>3, <3>0 DEF Decided
    <3>3. state'[p] = state[p]
      <4>1. ~ \E q \in Participants : PollLockTx(p, q)
        BY <3>1 DEF PollLockTx
      <4>2. QED
        BY <2>2, <3>0, <3>2, <4>1, StateStep DEF Terminal, Live
    <3>4. QED
      BY <3>2, <3>3
  <2>3. QED
    BY <1>1, <1>2, <2>1, <2>2 DEF Decided, Live, Distance
<1>4. CASE ~LeaderSpendVisible
  BY <1>1, <1>2, <1>4, StalledStep DEF Decided, Live
<1>5. QED
  BY <1>3, <1>4

LEMMA DecidedStep ==
    ASSUME SettlementAssumption, Slack <= 1, TypeOK, SettlementInv, PollersKept,
           PolledFor, RevealedPassed, EndedForCause, Decided, [Next]_vars
    PROVE  Decided'
<1>1. CASE Late
  BY <1>1, DecidedStays
<1>2. CASE OpenWindow /\ now = Slack
  BY <1>2, DecidedBegins
<1>3. CASE ~Late /\ ~(OpenWindow /\ now = Slack)
  <2>1. ~Late'
    <3>1. now' = now \/ OpenWindow
      BY DEF Next, PeerMessage, Fund, FundFails, PollLeaderSpend, PollRefundWindow,
             IdlePoll, Confirm, Crash, IgnoreMessage, HandleLockTxBroadcast,
             HandleSpendTxBroadcast, HandleSecretReveal, LeaderClaims, PollLockTx,
             vars
    <3>2. CASE now' = now
      BY <1>3, <3>2 DEF Late
    <3>3. CASE OpenWindow
      BY <1>3, <3>3 DEF Late, OpenWindow, TypeOK, SettlementAssumption
    <3>4. QED
      BY <3>1, <3>2, <3>3
  <2>2. QED
    BY <2>1 DEF Decided
<1>4. QED
  BY <1>1, <1>2, <1>3

\* Once the leader has claimed, no refund takes a deposit that a running
\* follower may claim.
LEMMA ClaimStaysOpenStep ==
    ASSUME SettlementAssumption, Slack <= 1, Slack + 2 <= Cardinality(Participants),
           TypeOK, SettlementInv, EndedForCause, Decided, ClaimStaysOpen, [Next]_vars
    PROVE  ClaimStaysOpen'
<1> SUFFICES ASSUME LeaderSpendVisible', NEW p \in Followers, Live(p)',
                    lock'[Target[p]] = "refunded"
             PROVE  FALSE
  BY DEF ClaimStaysOpen, Live
<1> DEFINE r == Target[p]
<1>1. /\ p \in Participants /\ p # Leader /\ Live(p)
      /\ r \in Participants
  BY DistanceFacts, GoneForGood DEF Followers
<1>2. /\ Distance[p] \in Nat /\ Distance[p] >= 1 /\ Distance[r] = Distance[p] + 1
      /\ Slack \in Nat /\ now \in Nat /\ Cardinality(Participants) \in Nat
  <2>1. /\ Cardinality(Participants) \in Nat
        /\ Distance[p] \in 1 .. Cardinality(Participants)
        /\ Distance[Target[p]] = Distance[p] + 1
    BY <1>1, DistanceFacts
  <2>2. Slack \in Nat /\ now \in Nat
    BY DEF TypeOK, SettlementAssumption
  <2>3. QED
    BY <2>1, <2>2
<1> HIDE DEF r
<1>3. lock'[r] = "refunded"
  BY DEF r
<1>4. CASE LeaderSpendVisible
  <2>1. lock[r] # "refunded"
    BY <1>1, <1>4 DEF ClaimStaysOpen, r
  <2>2. PollRefundWindow(r) /\ WindowOpen(r) /\ lock[r] = "confirmed"
    BY <1>1, <1>3, <2>1, LedgerStep DEF TypeOK
  <2>3. Late
    BY <1>2, <2>2 DEF WindowOpen, Late
  <2>4. CASE r = Leader
    <3>1. Distance[p] > Slack
      BY <1>2, <2>4, DistanceFacts
    <3>2. state[p] = "Completed"
      BY <1>1, <1>2, <1>4, <2>3, <3>1 DEF Decided
    <3>3. Spent(r)
      BY <3>2 DEF EndedForCause, r
    <3>4. QED
      BY <2>2, <3>3 DEF Spent
  <2>5. CASE r # Leader
    <3>1. r \in Followers /\ Live(r) /\ state[r] \notin Terminal
      BY <1>1, <2>2, <2>5 DEF Followers, PollRefundWindow
    <3>2. QED
      BY <1>4, <2>3, <3>1 DEF Decided, Terminal
  <2>6. QED
    BY <2>4, <2>5
<1>5. CASE ~LeaderSpendVisible
  <2>0. lock[TheTarget] # "claimed" /\ lock'[TheTarget] = "claimed"
    BY <1>5 DEF LeaderSpendVisible, TheTarget
  <2>1. /\ lock[TheTarget] = "confirmed"
        /\ \E q \in Participants : LeaderClaims(q, Leader)
        /\ lock' = [lock EXCEPT ![TheTarget] = "claimed"]
    <3>1. TheTarget \in Participants /\ lock \in [Participants -> LockStates]
      BY DistanceFacts DEF TypeOK
    <3>2. ~LeaderSpendVisible
      BY <1>5
    <3>3. \/ \E x \in Participants : \E st \in {"mempool", "confirmed", "refunded"} :
                lock' = [lock EXCEPT ![x] = st]
          \/ \E x \in Participants :
                /\ x = Leader /\ \E q \in Participants : LeaderClaims(q, x)
                /\ lock[Target[x]] = "confirmed"
                /\ lock' = [lock EXCEPT ![Target[x]] = "claimed"]
          \/ lock' = lock
      BY <3>2, LedgerStep
    <3>4. ASSUME NEW x \in Participants, NEW st \in {"mempool", "confirmed", "refunded"},
                 lock' = [lock EXCEPT ![x] = st]
          PROVE  FALSE
      BY <2>0, <3>1, <3>4
    <3>5. QED
      BY <2>0, <3>3, <3>4 DEF TheTarget
  <2>2. PICK q \in Participants : LeaderClaims(q, Leader)
    BY <2>1
  <2>3. Revealing(q, Leader) /\ Live(Leader)
    BY <2>2, DistanceFacts, HeadUnderWay
    DEF LeaderClaims, Receive, Revealing, TypeOK, Channels
  <2>4. now >= 2
    <3>1. lock[r] = "refunded"
      BY <1>1, <1>3, <2>1 DEF TypeOK
    <3>2. QED
      BY <1>1, <1>2, <3>1 DEF EndedForCause, WindowOpen
  <2>5. Stalled
    BY <1>2, <1>5, <2>4 DEF Decided, Late
  <2>6. QED
    BY <2>1, <2>3, <2>5 DEF Stalled
<1>6. QED
  BY <1>4, <1>5

-----------------------------------------------------------------------------
(* Nobody pays without being paid.                                         *)

\* When no node refuses a transaction, at most one window opens before delays
\* are made up for, and the cycle is longer than that, the timely invariant
\* holds in every state, whatever is lost and whoever crashes.
THEOREM TimelySafe ==
    ASSUME "reject" \notin Faults, Slack <= 1,
           Slack + 2 <= Cardinality(Participants)
    PROVE  Spec => []TimelyInv
<1> USE SettlementAssumption
<1>1. Init => TimelyInv
  <2> SUFFICES ASSUME Init
               PROVE  TimelyInv
    OBVIOUS
  <2>1. PollersKept /\ PolledFor /\ OwnLock
    BY DEF Init, PollersKept, Wanted, PolledFor, Polls, OwnLock
  <2>2. /\ RevealedPassed /\ ClaimsFollow /\ ClaimStaysOpen
    BY DistanceFacts
    DEF Init, RevealedPassed, Revealing, UnderWay, Followers, LeaderSpendVisible,
        TheTarget, ClaimsFollow, ClaimStaysOpen
  <2>3. EndedForCause
    BY DEF Init, EndedForCause, GaveUp, Followers
  <2>4. Decided
    BY DEF Init, Decided, Late, SettlementAssumption
  <2>5. QED
    BY <2>1, <2>2, <2>3, <2>4 DEF TimelyInv
<1>2. TypeOK /\ SettlementInv /\ TimelyInv /\ [Next]_vars => TimelyInv'
  <2> SUFFICES ASSUME TypeOK, SettlementInv, TimelyInv, [Next]_vars
               PROVE  TimelyInv'
    OBVIOUS
  <2>1. /\ PollersKept /\ PolledFor /\ OwnLock /\ RevealedPassed /\ ClaimsFollow
        /\ EndedForCause /\ Decided /\ ClaimStaysOpen
    BY DEF TimelyInv
  <2>2. PollersKept' /\ PolledFor' /\ OwnLock'
    BY <2>1, PollersKeptStep, PolledForStep, OwnLockStep
  <2>3. RevealedPassed' /\ ClaimsFollow'
    BY <2>1, RevealedPassedStep, ClaimsFollowStep
  <2>4. EndedForCause'
    BY <2>1, EndedForCauseStep
  <2>5. Decided'
    BY <2>1, DecidedStep
  <2>6. ClaimStaysOpen'
    BY <2>1, ClaimStaysOpenStep
  <2>7. QED
    BY <2>2, <2>3, <2>4, <2>5, <2>6 DEF TimelyInv
<1>3. QED
  BY <1>1, <1>2, TypeCorrect, SettlementSafe, PTL DEF Spec

\* Under these conditions nobody whose daemon keeps running loses its deposit
\* to a claim while its own claim is taken back.
THEOREM NothingLost ==
    ASSUME "reject" \notin Faults, Slack <= 1,
           Slack + 2 <= Cardinality(Participants)
    PROVE  Spec => []NoLoss
<1>1. TimelyInv => NoLoss
  <2> SUFFICES ASSUME TimelyInv, NEW p \in Participants, Live(p),
                      lock[p] = "claimed"
               PROVE  lock[Target[p]] # "refunded"
    BY DEF NoLoss
  <2>1. LeaderSpendVisible
    BY DEF TimelyInv, ClaimsFollow
  <2>2. CASE p = Leader
    BY <2>1, <2>2 DEF LeaderSpendVisible
  <2>3. CASE p # Leader
    BY <2>1, <2>3 DEF TimelyInv, ClaimStaysOpen, Followers
  <2>4. QED
    BY <2>2, <2>3
<1>2. QED
  BY <1>1, TimelySafe, PTL

\* When moreover no daemon crashes, all deposits are claimed or none is.
THEOREM AllOrNothingHolds ==
    ASSUME "reject" \notin Faults, "crash" \notin Faults, Slack <= 1,
           Slack + 2 <= Cardinality(Participants)
    PROVE  Spec => []AllOrNothing
<1> USE SettlementAssumption
<1> DEFINE AllLive == \A p \in Participants : Live(p)
<1>1. Init => AllLive
  BY DEF Init, Live, Gone
<1>2. TypeOK /\ AllLive /\ [Next]_vars => AllLive'
  <2> SUFFICES ASSUME TypeOK, AllLive, [Next]_vars, NEW p \in Participants
               PROVE  Live(p)'
    OBVIOUS
  <2>1. ~Crash(p)
    BY DEF Crash
  <2>2. QED
    BY <2>1, StateStep DEF Live, Gone
<1>3. AllLive /\ TimelyInv => AllOrNothing
  <2> SUFFICES ASSUME AllLive, TimelyInv, NEW x \in Participants,
                      NEW q \in Participants, lock[x] = "claimed",
                      lock[q] = "refunded"
               PROVE  FALSE
    BY DEF AllOrNothing
  <2>1. LeaderSpendVisible
    BY DEF TimelyInv, ClaimsFollow
  <2>2. PICK p \in Participants : Target[p] = q
    BY EveryoneTargeted DEF SettlementAssumption
  <2>3. p # Leader
    BY <2>1, <2>2 DEF LeaderSpendVisible
  <2>4. QED
    BY <2>1, <2>2, <2>3 DEF TimelyInv, ClaimStaysOpen, Followers
<1>4. QED
  BY <1>1, <1>2, <1>3, TypeCorrect, TimelySafe, PTL DEF Spec

=============================================================================
