------------------------------ MODULE Settlement ------------------------------
(***************************************************************************)
(* A swap session from the end of signing to its settlement: funding, lock *)
(* confirmations, secret reveal, claims and refunds, as run by one daemon  *)
(* per participant (swap-daemon/src/daemon.rs, protocol/session.rs,        *)
(* lock_funds.rs, chain_monitor.rs, secret.rs, spend.rs, refund.rs).       *)
(*                                                                         *)
(* A daemon handles one event at a time while it holds its sessions, so    *)
(* each event is one action: a peer message taken from a FIFO connection,  *)
(* or a ChainPoll of a poller.  The chains are external: a lock transaction*)
(* goes from the mempool to a block, and its output is spent once.         *)
(***************************************************************************)
EXTENDS Cycle, Sequences

CONSTANTS
    Participants,   \* the parties of the swap
    Leader,         \* the outcome of the leader election
    Target,         \* Target[p]: the participant whose lock p claims
    Faults,         \* which faults the environment may commit
    Slack,          \* how many windows may open before delays are made up for
    MaxStale        \* how many queued events the abort of pollers leaves behind

\* "lose": a message is lost on a failed connect or write; "reject": a node
\* refuses a transaction; "noack": a node takes a transaction but its answer
\* is lost; "crash": a daemon stops, and nothing of a session is persisted.
FaultKinds == {"lose", "reject", "noack", "crash"}

ASSUME SettlementAssumption ==
    /\ IsFiniteSet(Participants)
    /\ Leader \in Participants
    /\ Target \in [Participants -> Participants]
    /\ CheckCyclic(Participants, Target)
    /\ Faults \subseteq FaultKinds
    /\ Slack \in Nat
    /\ MaxStale \in Nat

VARIABLES
    state,              \* SwapSession.state of each daemon
    lock_txs_broadcast, \* whose lock transaction each daemon has heard of
    confirmed_lock_txs, \* whose lock transaction each daemon saw confirmed
    adaptor_secrets,    \* whose adaptor secret each daemon holds
    active_pollers,     \* Daemon.active_pollers: the registered poller tasks
    leaked,             \* an unregistered poller task keeps ticking
    stale,              \* ChainPoll events still queued by aborted pollers
    chan,               \* chan[q][p]: the connection from q to p
    lock,               \* each participant's lock transaction on its chain
    now                 \* how many refund windows have opened

session == <<state, lock_txs_broadcast, confirmed_lock_txs, adaptor_secrets>>
pollers == <<active_pollers, leaked, stale>>
vars == <<session, pollers, chan, lock, now>>

Terminal == {"Completed", "Refunded", "Failed"}
Gone == "Crashed"
SwapStates == Terminal \cup
    {"RefundAndSpendTxsSigning", "AwaitingLockConfirmations",
     "AwaitingSecrets", "AwaitingLeaderSpend", Gone}
WireMessages == {"LockTxBroadcast", "SecretReveal", "SpendTxBroadcast"}
LockStates == {"absent", "mempool", "confirmed", "claimed", "refunded"}
OnChain == {"confirmed", "claimed", "refunded"}

LockTx(q) == <<"LockTx", q>>
LeaderSpendTx == <<"LeaderSpendTx", Leader>>
RefundWindow(p) == <<"RefundWindow", p>>
ChainPollTargets ==
    {"LockTx", "LeaderSpendTx", "RefundWindow"} \X Participants

\* Variant: every refund window opens at once.
DistanceUnstaggered == [p \in Participants |-> 1]

Distance ==
    [p \in Participants |-> DistanceFromLeader(Participants, Target, p, Leader)]

Live(p) == state[p] # Gone

-----------------------------------------------------------------------------
(* Sending, and the pollers an event leaves behind.                        *)

\* broadcast: one write per peer; a failed connect or write is only logged.
Cast(channels, p, m, missed) ==
    [channels EXCEPT ![p] = [q \in Participants |->
        IF q = p \/ q \in missed \/ ~Live(q) THEN channels[p][q]
        ELSE Append(channels[p][q], m)]]

Missed(p) ==
    IF "lose" \in Faults THEN SUBSET (Participants \ {p}) ELSE {{}}

Taken(q, p) == [chan EXCEPT ![q][p] = Tail(@)]

\* Variant: the refund window is watched only once the barrier is passed.
WantedRefundLate(p) ==
    {LockTx(q) : q \in lock_txs_broadcast[p] \ confirmed_lock_txs[p]}
    \cup {t \in {LeaderSpendTx} : state[p] = "AwaitingLeaderSpend"}
    \cup {t \in {RefundWindow(p)} :
            /\ Participants \subseteq confirmed_lock_txs[p]
            /\ state[p] \notin Terminal}

\* Variant: the leader's spend is watched by the leader.
WantedSpendByLeader(p) ==
    {LockTx(q) : q \in lock_txs_broadcast[p] \ confirmed_lock_txs[p]}
    \cup {t \in {LeaderSpendTx} : state[p] = "AwaitingSecrets"}
    \cup {t \in {RefundWindow(p)} :
            p \in confirmed_lock_txs[p] /\ state[p] \notin Terminal}

\* Variant: a participant does not watch its own lock transaction.
WantedOthersLocks(p) ==
    {LockTx(q) : q \in lock_txs_broadcast[p] \ (confirmed_lock_txs[p] \cup {p})}
    \cup {t \in {LeaderSpendTx} : state[p] = "AwaitingLeaderSpend"}
    \cup {t \in {RefundWindow(p)} :
            p \in confirmed_lock_txs[p] /\ state[p] \notin Terminal}

\* maybe_spawn_pollers: the targets it finds missing from active_pollers.
Wanted(p) ==
    {LockTx(q) : q \in lock_txs_broadcast[p] \ confirmed_lock_txs[p]}
    \cup {t \in {LeaderSpendTx} : state[p] = "AwaitingLeaderSpend"}
    \cup {t \in {RefundWindow(p)} :
            p \in confirmed_lock_txs[p] /\ state[p] \notin Terminal}

SpawnPollers(p, kept) ==
    active_pollers' = [active_pollers EXCEPT ![p] = kept \cup Wanted(p)']

\* cancel_session_pollers: the tasks are aborted, but an event that one of
\* them has put in the queue stays there.
LeftQueued(p, before) ==
    \E queued \in {s \in SUBSET active_pollers[p] : Cardinality(s) <= MaxStale} :
        stale' = [stale EXCEPT ![p] = before \cup queued]

CancelPollers(p) ==
    /\ active_pollers' = [active_pollers EXCEPT ![p] = {}]
    /\ LeftQueued(p, stale[p])
    /\ UNCHANGED leaked

KeepPolling(p) ==
    /\ SpawnPollers(p, active_pollers[p])
    /\ UNCHANGED <<leaked, stale>>

-----------------------------------------------------------------------------
(* Funding: the PartialSignature that completes all_partial_sigs_received_ *)
(* for_all_refund_and_spend_txs.                                           *)

ReadyToFund(p) ==
    /\ state[p] = "RefundAndSpendTxsSigning"
    /\ now <= Slack

\* broadcast_my_lock_tx succeeds.
Fund(p) ==
    /\ ReadyToFund(p)
    /\ lock' = [lock EXCEPT ![p] = "mempool"]
    /\ lock_txs_broadcast' = [lock_txs_broadcast EXCEPT ![p] = @ \cup {p}]
    /\ \E missed \in Missed(p) :
          chan' = Cast(chan, p, "LockTxBroadcast", missed)
    /\ state' = [state EXCEPT ![p] = "AwaitingLockConfirmations"]
    /\ UNCHANGED <<confirmed_lock_txs, adaptor_secrets, now>>
    /\ KeepPolling(p)

\* broadcast_my_lock_tx returns false; the transaction may be out all the same.
FundFails(p) ==
    /\ ReadyToFund(p)
    /\ \/ "reject" \in Faults /\ UNCHANGED lock
       \/ "noack" \in Faults /\ lock' = [lock EXCEPT ![p] = "mempool"]
    /\ state' = [state EXCEPT ![p] = "Failed"]
    /\ CancelPollers(p)
    /\ UNCHANGED <<lock_txs_broadcast, confirmed_lock_txs, adaptor_secrets,
                   chan, now>>

-----------------------------------------------------------------------------
(* Peer messages: handle_session_message and what handle_event does after. *)

Receive(q, p, m) ==
    /\ Live(p)
    /\ chan[q][p] # <<>>
    /\ Head(chan[q][p]) = m

\* A session in a terminal state takes no message, but pollers are cancelled.
IgnoreMessage(q, p) ==
    /\ \E m \in WireMessages : Receive(q, p, m)
    /\ state[p] \in Terminal
    /\ chan' = Taken(q, p)
    /\ CancelPollers(p)
    /\ UNCHANGED <<session, lock, now>>

HandleLockTxBroadcast(q, p) ==
    /\ Receive(q, p, "LockTxBroadcast")
    /\ state[p] \notin Terminal
    /\ chan' = Taken(q, p)
    /\ lock_txs_broadcast' = [lock_txs_broadcast EXCEPT ![p] = @ \cup {q}]
    /\ UNCHANGED <<state, confirmed_lock_txs, adaptor_secrets, lock, now>>
    /\ KeepPolling(p)

HandleSpendTxBroadcast(q, p) ==
    /\ Receive(q, p, "SpendTxBroadcast")
    /\ state[p] \notin Terminal
    /\ chan' = Taken(q, p)
    /\ UNCHANGED <<session, lock, now>>
    /\ KeepPolling(p)

AllAdaptorSecrets(secrets) == Participants \subseteq secrets

\* A reveal that does not complete the secrets, or completes those of another
\* participant than the leader.
HandleSecretReveal(q, p) ==
    /\ Receive(q, p, "SecretReveal")
    /\ state[p] \notin Terminal
    /\ chan' = Taken(q, p)
    /\ adaptor_secrets' = [adaptor_secrets EXCEPT ![p] = @ \cup {q}]
    /\ IF AllAdaptorSecrets(adaptor_secrets[p] \cup {q})
       THEN /\ p # Leader
            /\ state' = [state EXCEPT ![p] = "AwaitingLeaderSpend"]
       ELSE UNCHANGED state
    /\ UNCHANGED <<lock_txs_broadcast, confirmed_lock_txs, lock, now>>
    /\ KeepPolling(p)

\* broadcast_my_spend_tx: the node accepts the spend if the output is there.
\* Its answer goes nowhere, so a refusal leaves no trace in the session.
SubmitSpend(p) ==
    \/ /\ lock[Target[p]] = "confirmed"
       /\ lock' = [lock EXCEPT ![Target[p]] = "claimed"]
    \/ /\ lock[Target[p]] # "confirmed" \/ "reject" \in Faults
       /\ UNCHANGED lock

\* The reveal that completes the leader's secrets: the leader
\* claims, tells the others and is done, whatever its state and the time.
LeaderClaims(q, p) ==
    /\ Receive(q, p, "SecretReveal")
    /\ state[p] \notin Terminal
    /\ AllAdaptorSecrets(adaptor_secrets[p] \cup {q})
    /\ p = Leader
    /\ adaptor_secrets' = [adaptor_secrets EXCEPT ![p] = @ \cup {q}]
    /\ SubmitSpend(p)
    /\ \E missed \in Missed(p) :
          chan' = Cast(Taken(q, p), p, "SpendTxBroadcast", missed)
    /\ state' = [state EXCEPT ![p] = "Completed"]
    /\ CancelPollers(p)
    /\ UNCHANGED <<lock_txs_broadcast, confirmed_lock_txs, now>>

-----------------------------------------------------------------------------
(* ChainPoll events.                                                       *)

\* An event of poller t can be next in the queue of p.
Polls(p, t) == t \in active_pollers[p] \cup stale[p]

StaleAfter(p, t) ==
    IF t \in active_pollers[p] THEN stale[p] ELSE stale[p] \ {t}

\* Variant: a lock transaction in the mempool will do.
LockTxSeen(q) == lock[q] # "absent"

\* check_lock_tx_confirmed: a block has the transaction.
LockTxConfirmed(q) == lock[q] \in OnChain

\* Variant: one lock transaction may be missing.
AllLockTxsConfirmedButOne(confirmed) ==
    Cardinality(Participants \ confirmed) <= 1

AllLockTxsConfirmed(confirmed) == Participants \subseteq confirmed

\* Variant: the leader enters a state that SwapState does not have.
PassBarrierUnknownState(p) ==
    IF p = Leader
    THEN /\ state' = [state EXCEPT ![p] = "AwaitingReveals"]
         /\ UNCHANGED chan
    ELSE /\ state' = [state EXCEPT ![p] = "AwaitingLeaderSpend"]
         /\ \E missed \in Missed(p) :
               chan' = Cast(chan, p, "SecretReveal", missed)

\* Variant: the leader reveals like everybody else.
PassBarrierAllReveal(p) ==
    /\ state' = [state EXCEPT ![p] =
                    IF p = Leader THEN "AwaitingSecrets" ELSE "AwaitingLeaderSpend"]
    /\ \E missed \in Missed(p) :
          chan' = Cast(chan, p, "SecretReveal", missed)

\* The lock barrier has been passed, as handle_event reacts to it: the leader
\* waits for the secrets, everybody else reveals.  No state is looked at.
PassBarrier(p) ==
    IF p = Leader
    THEN /\ state' = [state EXCEPT ![p] = "AwaitingSecrets"]
         /\ UNCHANGED chan
    ELSE /\ state' = [state EXCEPT ![p] = "AwaitingLeaderSpend"]
         /\ \E missed \in Missed(p) :
               chan' = Cast(chan, p, "SecretReveal", missed)

\* check_lock_tx_confirmed finds the lock of q confirmed.  Its poller leaves
\* the map without being aborted, so it keeps ticking.
PollLockTx(p, q) ==
    /\ Live(p)
    /\ Polls(p, LockTx(q))
    /\ q \notin confirmed_lock_txs[p]
    /\ LockTxConfirmed(q)
    /\ confirmed_lock_txs' = [confirmed_lock_txs EXCEPT ![p] = @ \cup {q}]
    /\ IF AllLockTxsConfirmed(confirmed_lock_txs[p] \cup {q})
       THEN PassBarrier(p)
       ELSE UNCHANGED <<state, chan>>
    /\ leaked' = [leaked EXCEPT ![p] = @ \/ LockTx(q) \in active_pollers[p]]
    /\ stale' = [stale EXCEPT ![p] = StaleAfter(p, LockTx(q))]
    /\ UNCHANGED <<lock_txs_broadcast, adaptor_secrets, lock, now>>
    /\ SpawnPollers(p, active_pollers[p] \ {LockTx(q)})

\* check_leader_spend_confirmed: the output that the leader claims is gone.
LeaderOutputSpent == lock[Target[Leader]] \in {"claimed", "refunded"}

\* What consumed it is the leader's spend: a refund holds no signature that
\* extract_secret_and_adapt could use, and the poller goes on.
LeaderSpendVisible == lock[Target[Leader]] = "claimed"

\* extract_secret_and_adapt: the leader's secret, out of its signature.
ExtractSecret(p) ==
    adaptor_secrets' = [adaptor_secrets EXCEPT ![p] = @ \cup {Leader}]

PollLeaderSpend(p) ==
    /\ Live(p)
    /\ Polls(p, LeaderSpendTx)
    /\ state[p] = "AwaitingLeaderSpend"
    /\ LeaderOutputSpent
    /\ LeaderSpendVisible
    /\ ExtractSecret(p)
    /\ SubmitSpend(p)
    /\ state' = [state EXCEPT ![p] = "Completed"]
    /\ LeftQueued(p, StaleAfter(p, LeaderSpendTx))
    /\ UNCHANGED <<lock_txs_broadcast, confirmed_lock_txs, leaked, chan, now>>
    /\ SpawnPollers(p, {})

\* Variant: the window opens one early.
WindowOpenEarly(p) == now + 1 >= Distance[p]

\* check_refund_window_open.
WindowOpen(p) == now >= Distance[p]

\* broadcast_my_refund_tx and the verdict the session gets.
SubmitRefund(p) ==
    \/ /\ lock[p] = "confirmed"
       /\ lock' = [lock EXCEPT ![p] = "refunded"]
       /\ state' = [state EXCEPT ![p] = "Refunded"]
    \/ /\ lock[p] = "confirmed" /\ "noack" \in Faults
       /\ lock' = [lock EXCEPT ![p] = "refunded"]
       /\ state' = [state EXCEPT ![p] = "Failed"]
    \/ /\ lock[p] # "confirmed" \/ "reject" \in Faults
       /\ state' = [state EXCEPT ![p] = "Failed"]
       /\ UNCHANGED lock

PollRefundWindow(p) ==
    /\ Live(p)
    /\ Polls(p, RefundWindow(p))
    /\ state[p] \notin Terminal
    /\ WindowOpen(p)
    /\ SubmitRefund(p)
    /\ LeftQueued(p, StaleAfter(p, RefundWindow(p)))
    /\ UNCHANGED <<lock_txs_broadcast, confirmed_lock_txs, adaptor_secrets,
                   leaked, chan, now>>
    /\ SpawnPollers(p, {})

\* An event that changes nothing in the session: its check fails or finds
\* nothing, or a leaked poller ticks.  maybe_spawn_pollers runs even so.
IdlePoll(p) ==
    /\ Live(p)
    /\ \/ \E t \in stale[p] :
             stale' = [stale EXCEPT ![p] = StaleAfter(p, t)]
       \/ leaked[p] /\ UNCHANGED stale
    /\ UNCHANGED <<session, leaked, chan, lock, now>>
    /\ SpawnPollers(p, active_pollers[p])

-----------------------------------------------------------------------------
(* The environment.                                                        *)

\* A block takes the lock transaction of p.
Confirm(p) ==
    /\ lock[p] = "mempool"
    /\ lock' = [lock EXCEPT ![p] = "confirmed"]
    /\ UNCHANGED <<session, pollers, chan, now>>

\* The daemon of p stops for good: with it go the session and its peers'
\* connections.
Crash(p) ==
    /\ "crash" \in Faults
    /\ Live(p)
    /\ state' = [state EXCEPT ![p] = Gone]
    /\ lock_txs_broadcast' = [lock_txs_broadcast EXCEPT ![p] = {}]
    /\ confirmed_lock_txs' = [confirmed_lock_txs EXCEPT ![p] = {}]
    /\ adaptor_secrets' = [adaptor_secrets EXCEPT ![p] = {}]
    /\ active_pollers' = [active_pollers EXCEPT ![p] = {}]
    /\ leaked' = [leaked EXCEPT ![p] = FALSE]
    /\ stale' = [stale EXCEPT ![p] = {}]
    /\ chan' = [q \in Participants |-> [chan[q] EXCEPT ![p] = <<>>]]
    /\ UNCHANGED <<lock, now>>

\* What the daemon of p still has to catch up with.
Behind(p) ==
    /\ Live(p)
    /\ \/ \E q \in Participants : chan[q][p] # <<>>
       \/ \E q \in Participants :
             /\ Polls(p, LockTx(q))
             /\ q \notin confirmed_lock_txs[p] /\ LockTxConfirmed(q)
       \/ /\ Polls(p, LeaderSpendTx)
          /\ state[p] = "AwaitingLeaderSpend" /\ LeaderSpendVisible
       \/ /\ RefundWindow(p) \in active_pollers[p]
          /\ state[p] \notin Terminal /\ WindowOpen(p)

\* Another refund window opens.  Windows are long (7 days): from the Slack-th
\* on, none opens while something that could have been done is undone.
OpenWindow ==
    /\ now < Cardinality(Participants)
    /\ now >= Slack => \A p \in Participants : lock[p] # "mempool" /\ ~Behind(p)
    /\ now' = now + 1
    /\ UNCHANGED <<session, pollers, chan, lock>>

-----------------------------------------------------------------------------
Init ==
    /\ state = [p \in Participants |-> "RefundAndSpendTxsSigning"]
    /\ lock_txs_broadcast = [p \in Participants |-> {}]
    /\ confirmed_lock_txs = [p \in Participants |-> {}]
    /\ adaptor_secrets = [p \in Participants |-> {p}]
    /\ active_pollers = [p \in Participants |-> {}]
    /\ leaked = [p \in Participants |-> FALSE]
    /\ stale = [p \in Participants |-> {}]
    /\ chan = [q \in Participants |-> [p \in Participants |-> <<>>]]
    /\ lock = [p \in Participants |-> "absent"]
    /\ now = 0

PeerMessage(q, p) ==
    \/ IgnoreMessage(q, p)
    \/ HandleLockTxBroadcast(q, p)
    \/ HandleSpendTxBroadcast(q, p)
    \/ HandleSecretReveal(q, p)
    \/ LeaderClaims(q, p)

Next ==
    \/ \E p \in Participants :
          \/ Fund(p) \/ FundFails(p)
          \/ PollLeaderSpend(p) \/ PollRefundWindow(p) \/ IdlePoll(p)
          \/ Confirm(p) \/ Crash(p)
    \/ \E p, q \in Participants : PeerMessage(q, p) \/ PollLockTx(p, q)
    \/ OpenWindow

Spec == Init /\ [][Next]_vars

\* The event loop takes every queued event, a registered poller ticks for
\* ever, blocks are made and time passes.  Whether signing ends, and so
\* whether a participant funds, is up to the peers; faults need not happen.
Fairness ==
    /\ \A p \in Participants :
          /\ WF_vars(PollLeaderSpend(p))
          /\ WF_vars(PollRefundWindow(p))
          /\ WF_vars(Confirm(p))
    /\ \A p, q \in Participants :
          /\ WF_vars(PeerMessage(q, p))
          /\ WF_vars(PollLockTx(p, q))
    /\ WF_vars(OpenWindow)

FairSpec == Spec /\ Fairness

-----------------------------------------------------------------------------
(* Properties.                                                             *)

TypeOK ==
    /\ state \in [Participants -> SwapStates]
    /\ lock_txs_broadcast \in [Participants -> SUBSET Participants]
    /\ confirmed_lock_txs \in [Participants -> SUBSET Participants]
    /\ adaptor_secrets \in [Participants -> SUBSET Participants]
    /\ active_pollers \in [Participants -> SUBSET ChainPollTargets]
    /\ leaked \in [Participants -> BOOLEAN]
    /\ stale \in [Participants -> SUBSET ChainPollTargets]
    /\ chan \in [Participants -> [Participants -> Seq(WireMessages)]]
    /\ lock \in [Participants -> LockStates]
    /\ now \in Nat

AllLocked == \A q \in Participants : lock[q] \in OnChain

\* A message m under way from q to p, above all a SecretReveal.
UnderWay(m, q, p) == \E i \in 1 .. Len(chan[q][p]) : chan[q][p][i] = m
Revealing(q, p) == UnderWay("SecretReveal", q, p)

\* The lock barrier: nobody's adaptor secret leaves its daemon, on the wire or
\* into another session, and nothing is claimed, before every participant's
\* lock transaction is in a block (daemon.rs:373-390, session.rs:347-369).
LockBarrier ==
    (\/ \E p \in Participants : lock[p] = "claimed"
     \/ \E p, q \in Participants : Revealing(q, p)
     \/ \E p \in Participants : adaptor_secrets[p] \ {p} # {})
       => AllLocked

\* What a daemon takes for confirmed stays on its chain, also when the lock is
\* spent before the daemon has looked (chain_monitor.rs:491, daemon.rs:366).
ConfirmedIsOnChain ==
    \A p \in Participants : \A q \in confirmed_lock_txs[p] : lock[q] \in OnChain

\* The leader's adaptor secret travels by its on-chain spend alone: no other
\* daemon holds it, or a message with it, before the leader has claimed.
LeaderSecretOnlyOnChain ==
    /\ \A p \in Participants \ {Leader} :
          Leader \in adaptor_secrets[p] => LeaderSpendVisible
    /\ \A p \in Participants : ~Revealing(Leader, p)

\* A session that is still signing has nothing on its chain (session.rs:300-343).
UnfundedIsAbsent ==
    \A p \in Participants :
        state[p] = "RefundAndSpendTxsSigning" => lock[p] = "absent"

\* The four above hold together: the inductive invariant behind the theorems.
SettlementInv ==
    /\ UnfundedIsAbsent
    /\ ConfirmedIsOnChain
    /\ LockBarrier
    /\ LeaderSecretOnlyOnChain

-----------------------------------------------------------------------------
(* Why nothing is lost when delays are short: the parts of an inductive    *)
(* invariant, from what each daemon watches to what a quiet window means.  *)

Followers == Participants \ {Leader}
TheTarget == Target[Leader]

\* A running session has registered every poller it wants, and polls only for
\* what it has heard of (maybe_spawn_pollers, daemon.rs:237-315).
PollersKept ==
    \A p \in Participants :
        state[p] \notin Terminal \cup {Gone} => Wanted(p) \subseteq active_pollers[p]

PolledFor ==
    \A p, q \in Participants :
        /\ Polls(p, LockTx(q)) => q \in lock_txs_broadcast[p]
        /\ Polls(p, RefundWindow(p)) => p \in confirmed_lock_txs[p]
        /\ q \in confirmed_lock_txs[p] => q \in lock_txs_broadcast[p]

\* A daemon hears of its own lock transaction from itself alone.
OwnLock ==
    \A p \in Participants :
        /\ chan[p][p] = <<>>
        /\ state[p] = "RefundAndSpendTxsSigning" => p \notin lock_txs_broadcast[p]

\* The follower p is behind the barrier for good.
Passed(p) ==
    \/ ~Live(p)
    \/ /\ Participants \subseteq confirmed_lock_txs[p]
       /\ state[p] \in {"AwaitingLeaderSpend"} \cup Terminal

\* Whatever shows that a follower has revealed shows that it is behind the
\* barrier; and the leader's claim shows it of all of them.
RevealedPassed ==
    /\ state[Leader] # "AwaitingLeaderSpend"
    /\ \A p \in Followers :
          \/ state[p] = "AwaitingLeaderSpend"
          \/ Leader \in adaptor_secrets[p]
          \/ \E q \in Participants : Revealing(p, q)
          \/ \E q \in Participants \ {p} : p \in adaptor_secrets[q]
          \/ LeaderSpendVisible
          => Passed(p)

ClaimsFollow == \A q \in Participants : lock[q] = "claimed" => LeaderSpendVisible

\* p has funded, and ended without a claim of its own.
GaveUp(p) == p \in lock_txs_broadcast[p] /\ state[p] \in {"Refunded", "Failed"}

Spent(q) == lock[q] \in {"claimed", "refunded"}

\* A session that ended did so because its window had opened or because the
\* leader had claimed, and the output it went for is gone.
EndedForCause ==
    /\ \A p \in Participants : lock[p] = "refunded" => WindowOpen(p)
    /\ \A p \in Followers :
          /\ GaveUp(p) => WindowOpen(p) /\ Spent(p)
          /\ state[p] = "Completed" => LeaderSpendVisible /\ Spent(Target[p])

\* p has seen the confirmation of every lock that it will hear of.
Settled(p) ==
    \A q \in lock_txs_broadcast[p] : lock[q] \in OnChain => q \in confirmed_lock_txs[p]

\* The leader cannot claim any more: its target's deposit is not there, or no
\* secret is on its way and nobody will pass the barrier and reveal another.
Stalled ==
    \/ lock[TheTarget] # "confirmed"
    \/ /\ \A p \in Participants : Live(Leader) => ~Revealing(p, Leader)
       /\ \A p \in Followers :
             \/ ~Live(p)
             \/ Settled(p)
             \/ state[p] \in Terminal /\ p \notin lock_txs_broadcast[p]

\* A window has opened in which nobody was behind.
Late == now > Slack

\* From then on the swap is decided: the leader has claimed and the followers
\* have ended, those whose window had not opened by a claim; or the leader
\* never will claim (daemon.rs:365-425, chain_monitor.rs:84-113).
Decided ==
    Late =>
        /\ \A p \in Participants : lock[p] # "mempool"
        /\ \A p, q \in Participants : Live(p) => ~UnderWay("LockTxBroadcast", q, p)
        /\ IF LeaderSpendVisible
           THEN \A p \in Followers :
                   \/ ~Live(p)
                   \/ state[p] = "Completed"
                   \/ state[p] \in Terminal /\ Distance[p] <= Slack
           ELSE Stalled

\* Once the leader has claimed, what a running follower may claim is not taken
\* back, not even by a leader that a late lock confirmation has revived.
ClaimStaysOpen ==
    LeaderSpendVisible =>
        \A p \in Followers : Live(p) => lock[Target[p]] # "refunded"

\* All of it together.
TimelyInv ==
    /\ PollersKept
    /\ PolledFor
    /\ OwnLock
    /\ RevealedPassed
    /\ ClaimsFollow
    /\ EndedForCause
    /\ Decided
    /\ ClaimStaysOpen

-----------------------------------------------------------------------------
\* What the ledgers show is an atomic swap: each step of the daemons is a step
\* of AtomicSwap on the deposits or leaves them alone.
Ledger == INSTANCE AtomicSwap WITH
    deposit <- [p \in Participants |->
                   CASE lock[p] = "mempool" -> "absent"
                     [] lock[p] = "confirmed" -> "locked"
                     [] OTHER -> lock[p]]

SwapOnLedger == Ledger!Spec

\* Nobody whose daemon keeps running pays without being paid, when windows
\* outlast delays: if p's deposit is claimed, its target's is not refunded.
NoLoss ==
    \A p \in Participants :
        Live(p) /\ lock[p] = "claimed" => lock[Target[p]] # "refunded"

\* A deposit that reaches the chain is paid for in the end: its owner gets it
\* back or gets the deposit it was swapped for, unless the daemon crashes.
MadeWhole ==
    \A p \in Participants :
        lock[p] = "confirmed" ~>
            \/ lock[p] = "refunded"
            \/ lock[Target[p]] = "claimed"
            \/ ~Live(p)

\* All deposits are claimed or none is.
AllOrNothing ==
    \A p, q \in Participants : ~(lock[p] = "claimed" /\ lock[q] = "refunded")

\* When all have locked in time the swap goes through to the last claim.
AllClaimedOnceLocked ==
    AllLocked ~> \A p \in Participants : lock[p] = "claimed"

\* docs/arc42/12_glossary.md:80 and 5_bbw_protocol.md:1353 call Completed,
\* Refunded and Failed terminal: a session in one of them stays there.
TerminalIsFinal ==
    [][\A p \in Participants :
          state[p] \in Terminal => state'[p] \in {state[p], Gone}]_vars

\* utils.rs:533: whoever loses its deposit to its claimant can still claim,
\* for the window of its own target has not opened; it does not give up then.
StillClaims ==
    \A p \in Participants :
        (/\ lock[p] = "claimed" /\ lock[Target[p]] = "confirmed"
         /\ now < Distance[Target[p]])
            => state[p] # "Failed"

=============================================================================
