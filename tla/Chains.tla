-------------------------------- MODULE Chains --------------------------------
(***************************************************************************)
(* A swap on its two kinds of chain, from the check of the funding outputs *)
(* to the last claim or refund: the transactions of module Transactions in *)
(* mempools and blocks, blocks that are reorganised, protocol parameters   *)
(* that are raised and queries that fail (swap-daemon/src/protocol/        *)
(* lock_funds.rs, chain_monitor.rs, secret.rs, spend.rs, refund.rs and     *)
(* cryptography/multisig.rs).                                              *)
(*                                                                         *)
(* The rounds of signing are those of module Setup and the messages, tasks *)
(* and crashes those of module Settlement; here a session signs in one     *)
(* step, and a revealed secret reaches the leader at some later step.      *)
(***************************************************************************)
EXTENDS Transactions

CONSTANTS
    Swaps,          \* the swaps to start from
    Terms,          \* the fees the daemons are given, each its own
    Fallback,       \* the hardcoded protocol parameters
    Raised,         \* the protocol parameters after the next epoch
    MaxReorgs       \* how many blocks are dropped

ASSUME ChainsAssumption ==
    /\ MaxReorgs \in Nat
    /\ \A swp \in Swaps :
          /\ swp.chain \in [Participants -> {"Bitcoin", "Cardano"}]
          /\ swp.amount \in [Participants -> Nat]
          /\ swp.funding \in [Participants -> {"exact", "excess", "short", "spent"}]
          /\ swp.budgets \subseteq Budgets
    /\ Terms \subseteq [Participants -> [bitcoin_fee : Nat, cardano_fee : Nat]]
    /\ {Fallback, Raised} \subseteq [min_fee_a : Nat, min_fee_b : Nat, price : Nat]

VARIABLES
    swap,           \* chains, amounts, funding outputs, budgets to be had
    terms,          \* SwapSession.bitcoin_fee and .cardano_fee of each daemon
    params,         \* the protocol parameters of Cardano
    state,          \* SwapSession.state of each daemon
    joined,         \* the daemons whose session was started and signs
    refund_tx,      \* SwapSession.signed_txs of each daemon's own refund
    confirmed,      \* SwapSession.confirmed_lock_txs of each daemon
    secrets,        \* SwapSession.adaptor_secrets of each daemon
    revealed,       \* the daemons that have broadcast SecretReveal
    lock,           \* where each lock transaction is
    taken,          \* the transaction that spends each lock, and where it is
    refused,        \* why a node has refused a transaction of each daemon
    now,            \* how many refund windows have opened
    reorgs          \* how often a block has been dropped

given == <<swap, terms>>
sessions == <<state, joined, refund_tx, confirmed, secrets, revealed>>
ledgers == <<lock, taken, refused>>
vars == <<given, params, sessions, ledgers, now, reorgs>>

Terminal == {"Completed", "Refunded", "Failed"}
SwapStates == Terminal \cup
    {"Initialized", "RefundAndSpendTxsSigning", "Funding",
     "AwaitingLockConfirmations", "AwaitingSecrets", "AwaitingLeaderSpend",
     "Panicked"}
Places == {"nowhere", "mempool", "block"}
Untaken == [by |-> <<"nobody">>, place |-> "nowhere"]
UnsignedYet == [role |-> <<"nobody">>]

\* One step of a daemon in state s takes it to another one of these.
Goes(p, s) == state' = [state EXCEPT ![p] = s]

Running(p) == state[p] \notin Terminal \cup {"Initialized", "Panicked"}

TheTarget == Target[Leader]

-----------------------------------------------------------------------------
(* Signing.                                                                *)

BitcoinFundingValid(q) == swap.funding[q] \notin {"short", "spent"}

\* Neither whether the output is spent nor whether it is too much is looked at.
CardanoFundingValid(q) == swap.funding[q] # "short"

FundingLooksValid(q) ==
    IF swap.chain[q] = "Bitcoin" THEN BitcoinFundingValid(q)
                                 ELSE CardanoFundingValid(q)

\* Variant: a session whose funding is invalid goes to an unknown state.
StartUnknownState(p) ==
    /\ state[p] = "Initialized"
    /\ IF \A q \in Participants : FundingLooksValid(q)
       THEN Goes(p, "RefundAndSpendTxsSigning") /\ joined' = joined \cup {p}
       ELSE Goes(p, "Invalid") /\ UNCHANGED joined
    /\ UNCHANGED <<given, params, refund_tx, confirmed, secrets, revealed,
                   ledgers, now, reorgs>>

\* start_swap_session with validate_funding_utxos.
Start(p) ==
    /\ state[p] = "Initialized"
    /\ IF \A q \in Participants : FundingLooksValid(q)
       THEN Goes(p, "RefundAndSpendTxsSigning") /\ joined' = joined \cup {p}
       ELSE Goes(p, "Failed") /\ UNCHANGED joined
    /\ UNCHANGED <<given, params, refund_tx, confirmed, secrets, revealed,
                   ledgers, now, reorgs>>

\* Partial signatures over one message combine; others make the unwrap of
\* aggregate_partial_signatures panic, which ends the daemon's event loop.
SameMessage(role) ==
    \A p, q \in Participants :
        MessageOf(swap, terms[p], role) = MessageOf(swap, terms[q], role)

\* The hardcoded parameters stand in for a query that fails, the ceiling for
\* an evaluation that fails; a custom network has the ceiling only.
FetchedParams == {params, Fallback}
RedeemerUnits == swap.budgets

\* What attach_final_sig may make of p's transaction of a role.
FinalTxs(p, role) ==
    {Signed(swap, terms[p], role, fetched, budget) :
        fetched \in FetchedParams, budget \in RedeemerUnits}

\* finalize_role of every transaction, once all have signed.  The refund is
\* ready to submit from here on, its fee included.
Finalize(p) ==
    /\ state[p] = "RefundAndSpendTxsSigning"
    /\ joined = Participants
    /\ IF \A role \in Roles : SameMessage(role)
       THEN /\ \E tx \in FinalTxs(p, Refund(p)) :
                   refund_tx' = [refund_tx EXCEPT ![p] = tx]
            /\ Goes(p, "Funding")
       ELSE Goes(p, "Panicked") /\ UNCHANGED refund_tx
    /\ UNCHANGED <<given, params, joined, confirmed, secrets, revealed,
                   ledgers, now, reorgs>>

-----------------------------------------------------------------------------
(* Submitting.                                                             *)

When(condition, rule) == IF condition THEN {rule} ELSE {}

\* A Cardano lock has no change output: its input must be the amount.
BrokenByLock(p) ==
    When(swap.funding[p] = "spent", "input")
    \cup When(swap.chain[p] = "Cardano" /\ swap.funding[p] = "excess", "value")

\* broadcast_my_lock_tx, and what the last PartialSignature makes of its
\* result: this is done in time, or not at all.
Fund(p) ==
    /\ state[p] = "Funding"
    /\ now = 0
    /\ IF BrokenByLock(p) = {}
       THEN /\ lock' = [lock EXCEPT ![p] = "mempool"]
            /\ Goes(p, "AwaitingLockConfirmations")
            /\ UNCHANGED refused
       ELSE /\ refused' = [refused EXCEPT ![p] =
                              @ \cup {<<"Lock", r>> : r \in BrokenByLock(p)}]
            /\ Goes(p, "Failed")
            /\ UNCHANGED lock
    /\ UNCHANGED <<given, params, joined, refund_tx, confirmed, secrets,
                   revealed, taken, now, reorgs>>

\* The lock transaction of q as it is on its chain.
OnChainLock(q) == LockTx(swap, terms[q], q)

\* What a node finds wrong with p's transaction tx, which has the signature
\* of its role: an output is there once, and the first transaction gets it.
Broken(p, tx) ==
    LET q == Locker(tx.role)
    IN  When(lock[q] = "nowhere" \/ taken[q] # Untaken, "input")
        \cup BrokenRules(swap.chain[q], OnChainLock(q), tx,
                         MessageOf(swap, terms[p], tx.role), params, now)

\* submit_bitcoin_tx, submit_cardano_tx: into the mempool, or refused.
Submit(p, tx) ==
    IF Broken(p, tx) = {}
    THEN /\ taken' = [taken EXCEPT ![Locker(tx.role)] =
                         [by |-> tx.role, place |-> "mempool"]]
         /\ UNCHANGED <<lock, refused>>
    ELSE /\ refused' = [refused EXCEPT ![p] =
                           @ \cup {<<tx.role[1], r>> : r \in Broken(p, tx)}]
         /\ UNCHANGED <<lock, taken>>

\* adapt_role_with and broadcast_my_spend_tx: the spend is priced and goes out
\* in one handler; its verdict is dropped.
AdaptAndSpend(p) ==
    \E tx \in FinalTxs(p, Spend(p)) : Submit(p, tx)

-----------------------------------------------------------------------------
(* What the pollers see.                                                   *)

\* check_tx_confirmed: the lock is in a block now.
LockTxConfirmed(q) == lock[q] = "block"

PassBarrier(p) ==
    IF p = Leader
    THEN Goes(p, "AwaitingSecrets") /\ UNCHANGED revealed
    ELSE Goes(p, "AwaitingLeaderSpend") /\ revealed' = revealed \cup {p}

\* A LockTx poll; which of them a terminal session still has is a question of
\* module Settlement, here it may have any.
PollLockTx(p, q) ==
    /\ Running(p) \/ state[p] \in Terminal
    /\ q \notin confirmed[p]
    /\ LockTxConfirmed(q)
    /\ confirmed' = [confirmed EXCEPT ![p] = @ \cup {q}]
    /\ IF confirmed[p] \cup {q} = Participants
       THEN PassBarrier(p)
       ELSE UNCHANGED <<state, revealed>>
    /\ UNCHANGED <<given, params, joined, refund_tx, secrets, ledgers, now,
                   reorgs>>

\* The leader takes in the secret of q; the last one makes it claim.
HandleSecretReveal(q) ==
    /\ Running(Leader)
    /\ q \in revealed \ secrets[Leader]
    /\ secrets' = [secrets EXCEPT ![Leader] = @ \cup {q}]
    /\ IF secrets[Leader] \cup {q} = Participants
       THEN AdaptAndSpend(Leader) /\ Goes(Leader, "Completed")
       ELSE UNCHANGED <<state, ledgers>>
    /\ UNCHANGED <<given, params, joined, refund_tx, confirmed, revealed, now,
                   reorgs>>

\* A spend in the mempool counts.
BitcoinOutputSpent == taken[TheTarget] # Untaken

\* Both Cardano checks look for the output in blocks, and take an answer that
\* is no success for a spent one.
CardanoOutputSpent(unreachable) ==
    unreachable \/ lock[TheTarget] # "block" \/ taken[TheTarget].place = "block"

SeemsSpent(unreachable) ==
    IF swap.chain[TheTarget] = "Bitcoin"
    THEN BitcoinOutputSpent
    ELSE CardanoOutputSpent(unreachable)

\* Variant: a Bitcoin node without an index knows its mempool only.
BitcoinSignatureUnindexed ==
    {r \in {taken[TheTarget].by} :
        r = Spend(Leader) /\ taken[TheTarget].place = "mempool"}

\* Signatures are named by the transaction they are for.  Bitcoin is asked for
\* the leader's spend by its identifier.
BitcoinSignature == {r \in {taken[TheTarget].by} : r = Spend(Leader)}

\* The redeemer of a transaction can be read, and says Refund.
UsedRefundRedeemer(role, redeemerKnown) == redeemerKnown /\ role[1] = "Refund"

\* Cardano is searched for the transaction in a block that spends the lock.
CardanoSignature(redeemerKnown) ==
    {r \in {taken[TheTarget].by} :
        taken[TheTarget].place = "block" /\ ~UsedRefundRedeemer(r, redeemerKnown)}

FetchedSignature(redeemerKnown) ==
    IF swap.chain[TheTarget] = "Bitcoin"
    THEN BitcoinSignature
    ELSE CardanoSignature(redeemerKnown)

\* Variant: the secret computed is not held against the adaptor point.
YieldsAnySecret(role) == TRUE

\* compute_adaptor_secret: the adaptor signature was made for this role.
YieldsSecret(role) == role = Spend(Leader)

\* check_leader_spend_confirmed and extract_secret_and_adapt succeed, whatever
\* the chain's servers leave out.
LeaderSecretVisible ==
    \E unreachable, redeemerKnown \in BOOLEAN :
        /\ SeemsSpent(unreachable)
        /\ \E role \in FetchedSignature(redeemerKnown) : YieldsSecret(role)

\* A LeaderSpendTx poll: the secret, then the spend.
PollLeaderSpend(p) ==
    /\ state[p] = "AwaitingLeaderSpend"
    /\ LeaderSecretVisible
    /\ secrets' = [secrets EXCEPT ![p] = @ \cup {Leader}]
    /\ AdaptAndSpend(p)
    /\ Goes(p, "Completed")
    /\ UNCHANGED <<given, params, joined, refund_tx, confirmed, revealed, now,
                   reorgs>>

\* Variant: the refund is watched once the barrier is passed.
WatchesRefundLate(p) == Running(p) /\ confirmed[p] = Participants

WatchesRefund(p) == Running(p) /\ p \in confirmed[p]

\* A RefundWindow poll: check_refund_window_open, broadcast_my_refund_tx with
\* the transaction that was finished when it was signed.
PollRefundWindow(p) ==
    /\ WatchesRefund(p)
    /\ now >= Distance[p]
    /\ Submit(p, refund_tx[p])
    /\ Goes(p, IF Broken(p, refund_tx[p]) = {} THEN "Refunded" ELSE "Failed")
    /\ UNCHANGED <<given, params, joined, refund_tx, confirmed, secrets,
                   revealed, now, reorgs>>

-----------------------------------------------------------------------------
(* The chains and time.                                                    *)

\* A block takes a lock from the mempool, or the spend of a lock in a block.
MineLock(q) ==
    /\ lock[q] = "mempool"
    /\ lock' = [lock EXCEPT ![q] = "block"]
    /\ UNCHANGED <<given, params, sessions, taken, refused, now, reorgs>>

MineTaken(q) ==
    /\ lock[q] = "block"
    /\ taken[q].place = "mempool"
    /\ taken' = [taken EXCEPT ![q].place = "block"]
    /\ UNCHANGED <<given, params, sessions, lock, refused, now, reorgs>>

\* A block is dropped and what it held is in the mempool again; with a lock
\* falls what spends it.
Reorganise(q) ==
    /\ reorgs < MaxReorgs
    /\ reorgs' = reorgs + 1
    /\ \/ /\ taken[q].place = "block"
          /\ taken' = [taken EXCEPT ![q].place = "mempool"]
          /\ UNCHANGED lock
       \/ /\ lock[q] = "block"
          /\ lock' = [lock EXCEPT ![q] = "mempool"]
          /\ taken' = IF taken[q] = Untaken THEN taken
                      ELSE [taken EXCEPT ![q].place = "mempool"]
    /\ UNCHANGED <<given, params, sessions, refused, now>>

RaiseParams ==
    /\ params # Raised
    /\ params' = Raised
    /\ UNCHANGED <<given, sessions, ledgers, now, reorgs>>

\* What a daemon would still do at this time.
Behind(p) ==
    \/ \E q \in Participants : /\ Running(p) \/ state[p] \in Terminal
                               /\ q \notin confirmed[p] /\ LockTxConfirmed(q)
    \/ p = Leader /\ Running(p) /\ revealed \ secrets[p] # {}
    \/ state[p] = "AwaitingLeaderSpend" /\ LeaderSecretVisible
    \/ WatchesRefund(p) /\ now >= Distance[p]

\* Windows are long: one opens when nothing is under way any more.
OpenWindow ==
    /\ now < Cardinality(Participants)
    /\ \A q \in Participants :
          /\ lock[q] # "mempool" /\ taken[q].place # "mempool"
          /\ ~Behind(q)
    /\ now' = now + 1
    /\ UNCHANGED <<given, params, sessions, ledgers, reorgs>>

-----------------------------------------------------------------------------
Init ==
    /\ swap \in Swaps
    /\ terms \in Terms
    /\ params = Fallback
    /\ state = [p \in Participants |-> "Initialized"]
    /\ joined = {}
    /\ refund_tx = [p \in Participants |-> UnsignedYet]
    /\ confirmed = [p \in Participants |-> {}]
    /\ secrets = [p \in Participants |-> {p}]
    /\ revealed = {}
    /\ lock = [p \in Participants |-> "nowhere"]
    /\ taken = [p \in Participants |-> Untaken]
    /\ refused = [p \in Participants |-> {}]
    /\ now = 0
    /\ reorgs = 0

\* What comes up in the event loop of p once its session has signed.
Event(p) ==
    \/ \E q \in Participants : PollLockTx(p, q)
    \/ p = Leader /\ \E q \in Participants : HandleSecretReveal(q)
    \/ PollLeaderSpend(p)
    \/ PollRefundWindow(p)

MakeBlock == \E q \in Participants : MineLock(q) \/ MineTaken(q)

Next ==
    \/ \E p \in Participants :
          Start(p) \/ Finalize(p) \/ Fund(p) \/ Event(p) \/ Reorganise(p)
    \/ MakeBlock
    \/ RaiseParams
    \/ OpenWindow

\* The event loop goes on, blocks are made and time passes; whether a session
\* is started and funds is up to the participants.
Fairness ==
    /\ \A p \in Participants : WF_vars(Event(p))
    /\ WF_vars(MakeBlock)
    /\ WF_vars(OpenWindow)

FairSpec == Init /\ [][Next]_vars /\ Fairness

-----------------------------------------------------------------------------
(* Properties.                                                             *)

TypeOK ==
    /\ swap \in Swaps /\ terms \in Terms /\ params \in {Fallback, Raised}
    /\ state \in [Participants -> SwapStates]
    /\ joined \subseteq Participants /\ revealed \subseteq Participants
    /\ confirmed \in [Participants -> SUBSET Participants]
    /\ secrets \in [Participants -> SUBSET Participants]
    /\ lock \in [Participants -> Places]
    /\ \A p \in Participants :
          \/ taken[p] = Untaken
          \/ taken[p].by \in Roles /\ taken[p].place \in {"mempool", "block"}
    /\ now \in 0 .. Cardinality(Participants) /\ reorgs \in 0 .. MaxReorgs

\* Nobody funds a swap in which two daemons would claim or refund something
\* else for a role: fees that differ stop the signing exactly where README.md
\* of swap-daemon, lines 219-228, calls them consensus-critical.
FundedOnSameTerms ==
    (\E q \in Participants : lock[q] # "nowhere") =>
        \A role \in Roles, p, q \in Participants :
            LET a == Unsigned(swap, terms[p], role)
                b == Unsigned(swap, terms[q], role)
            IN  a.spends = b.spends /\ a.pays = b.pays /\ a.locktime = b.locktime

Claimed(q) == \E p \in Participants : taken[q].by = Spend(p)
Refunded(q) == taken[q].by = Refund(q)

\* A node refuses a transaction for causes outside of the daemons alone: the
\* output is spent, the funding output was not what Cardano needs, or the fee
\* was raised after it was looked up or could not be looked up.  Never for its
\* balance, its signature or its timelock.
RefusedForCause ==
    \A p \in Participants : \A r \in refused[p] :
        \/ r = <<"Lock", "input">> /\ swap.funding[p] = "spent"
        \/ r = <<"Lock", "value">> /\ swap.funding[p] = "excess"
        \/ r[2] = "fee" /\ params = Raised
        \/ r = <<"Refund", "input">> /\ Claimed(p)

\* Who holds the leader's secret got it from the leader's spend, and can rely
\* on it: reorganised or not, no other transaction takes its output.
SecretFromLeaderSpend ==
    \A p \in Participants \ {Leader} :
        Leader \in secrets[p] => taken[TheTarget].by = Spend(Leader)

\* A fee was refused to p: parameters were raised after it was set.
FeeRefused(p) == \E kind \in {"Refund", "Spend"} : <<kind, "fee">> \in refused[p]

\* A claim and a refund do not both take place, whatever is reorganised, unless
\* a claim failed for its fee: then its deposit may go back to an owner who has
\* claimed, even a Completed one that a late lock poll has revived.
AllOrNothing ==
    (\A p \in Participants : <<"Spend", "fee">> \notin refused[p]) =>
        \A p, q \in Participants : ~(Claimed(p) /\ Refunded(q))

\* A deposit in a block does not stay there: it is claimed or refunded for
\* good, unless its owner or its claimant had a fee refused.
EveryDepositLeaves ==
    \A p \in Participants :
        lock[p] = "block" ~>
            \/ taken[p].place = "block"
            \/ \E q \in Participants : FeeRefused(q)

-----------------------------------------------------------------------------
(* Why claims and refunds exclude each other: the parts of an inductive    *)
(* invariant, from who may take a lock to what an open window means.       *)

Followers == Participants \ {Leader}

AllSubmitted == \A q \in Participants : lock[q] # "nowhere"
SpendFeeRefused(p) == <<"Spend", "fee">> \in refused[p]

\* A lock is taken by a transaction of a role that spends it.
TakenByRole ==
    \A q \in Participants :
        taken[q] # Untaken => lock[q] # "nowhere" /\ Locker(taken[q].by) = q

\* Nobody funds before all have joined, and nobody panics once one may fund.
JoinedFirst ==
    /\ \A p \in joined : state[p] # "Initialized"
    /\ \A p \in Participants :
          /\ state[p] \in {"Initialized", "RefundAndSpendTxsSigning", "Funding"}
                => lock[p] = "nowhere"
          /\ state[p] = "Funding" \/ lock[p] # "nowhere" => joined = Participants
          /\ state[p] = "Panicked" => ~ \A role \in Roles : SameMessage(role)

\* A daemon that may fund, or has, holds its own refund with its final fee.
RefundSigned ==
    \A p \in Participants :
        state[p] = "Funding" \/ lock[p] # "nowhere" =>
            refund_tx[p] \in FinalTxs(p, Refund(p))

\* Nobody reveals or claims before all locks are submitted; the followers
\* behind this barrier have revealed.
BehindBarrier ==
    /\ state[Leader] # "AwaitingLeaderSpend" /\ Leader \in secrets[Leader]
    /\ revealed # {} \/ (\E q \in Participants : Claimed(q)) => AllSubmitted
    /\ \A p \in Followers :
          /\ confirmed[p] = Participants => p \in revealed
          /\ state[p] \in {"AwaitingLeaderSpend", "Completed"}
                => confirmed[p] = Participants

\* Who has claimed is done, and did so after the leader; who was refunded is
\* done, and its window had opened.
DoneTaking ==
    \A q, p \in Participants :
        /\ taken[q].by = Spend(p) =>
              /\ taken[TheTarget].by = Spend(Leader)
              /\ IF p = Leader THEN secrets[Leader] = Participants
                               ELSE state[p] = "Completed"
        /\ taken[q].by = Refund(p) => now >= Distance[p] /\ state[p] \in Terminal

\* A claim got its output unless its fee was refused.
ClaimsGoThrough ==
    /\ state[Leader] = "Completed" => secrets[Leader] = Participants
    /\ secrets[Leader] = Participants =>
          taken[TheTarget].by = Spend(Leader) \/ SpendFeeRefused(Leader)
    /\ \A p \in Followers :
          state[p] = "Completed" =>
              taken[Target[p]].by = Spend(p) \/ SpendFeeRefused(p)

\* Before the first window opens, a session is given up only unfunded.
InTime ==
    now = 0 =>
        \A p \in Participants :
            /\ state[p] \in {"Refunded", "Failed"} => lock[p] = "nowhere"
            /\ p # Leader /\ confirmed[p] = Participants =>
                  state[p] \in {"AwaitingLeaderSpend", "Completed"}

\* Afterwards everything there was to see has been seen.
Quiet ==
    now > 0 =>
        /\ \A p, q \in Participants : lock[q] # "nowhere" => q \in confirmed[p]
        /\ Running(Leader) => revealed \subseteq secrets[Leader]
        /\ \A p \in Participants :
              state[p] = "AwaitingLeaderSpend" => taken[TheTarget].by # Spend(Leader)

\* And the swap is decided: somebody never funded, or a claim was refused for
\* its fee, or all have claimed.
Decided ==
    now > 0 =>
        \/ ~AllSubmitted
        \/ \E p \in Participants : SpendFeeRefused(p)
        \/ \A p \in Participants : taken[Target[p]].by = Spend(p)

\* The parts that hold whatever the fees are.
OrderedInv ==
    /\ TakenByRole /\ JoinedFirst /\ RefundSigned /\ BehindBarrier
    /\ DoneTaking /\ InTime /\ Quiet

\* All of it together; a claim is refused for nothing but its fee.
QuietInv == OrderedInv /\ ClaimsGoThrough /\ Decided

\* Both chains together are the ledger of an atomic swap: blocks may be dropped,
\* queries fail and parameters change, yet each step takes a lock as AtomicSwap
\* allows or leaves it alone (daemon.rs:365-425, spend.rs:225, refund.rs:186).
Ledgers == INSTANCE AtomicSwap WITH
    deposit <- [q \in Participants |->
                   CASE lock[q] = "nowhere" -> "absent"
                     [] lock[q] # "nowhere" /\ taken[q] = Untaken -> "locked"
                     [] taken[q].by = Refund(q) -> "refunded"
                     [] OTHER -> "claimed"]

SwapOnLedgers == Ledgers!Spec

-----------------------------------------------------------------------------
(* What the daemons are given, and do not check.                           *)

\* Every deposit is worth more than the fees that come off it.
DepositsCoverFees ==
    \A swp \in Swaps, trms \in Terms, p \in Participants, role \in Roles,
       prms \in {Fallback, Raised} :
        \A budget \in swp.budgets :
            Signed(swp, trms[p], role, prms, budget).pays > 0

\* A Cardano transaction is not longer than what its fee was computed for: the
\* session's fee, which stands in while it is measured, is no shorter.
MeasuredInFull ==
    \A swp \in Swaps, trms \in Terms, p \in Participants, role \in Roles,
       prms \in {Fallback, Raised} :
        \A budget \in swp.budgets :
            swp.chain[Locker(role)] = "Cardano" =>
                Size(Signed(swp, trms[p], role, prms, budget))
                  <= Size(WithUnits(Unsigned(swp, trms[p], role), budget,
                                    trms[p].cardano_fee))

=============================================================================
