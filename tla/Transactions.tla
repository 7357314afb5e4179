----------------------------- MODULE Transactions -----------------------------
(***************************************************************************)
(* The transactions of a swap as the daemons build, sign and price them:   *)
(* what each spends and pays, what a signature over it commits to, and how *)
(* a Cardano fee is found (swap-daemon/src/blockchains/bitcoin_utils.rs,   *)
(* cardano_utils.rs, protocol/lock_funds.rs, refund.rs, spend.rs).         *)
(*                                                                         *)
(* Keys, scripts and addresses are named by the participant they belong    *)
(* to; a transaction identifier is the transaction.  A swap gives each     *)
(* participant's chain and amount; the two session fees are the terms of   *)
(* one daemon, which its peers need not share.                             *)
(***************************************************************************)
EXTENDS Cycle, Integers

CONSTANTS
    Participants,       \* the parties of the swap
    Leader,             \* the outcome of the leader election
    Target,             \* Target[p]: the participant whose lock p claims
    SpendFee,           \* the placeholder fee of a Cardano spend
    WidthSteps,         \* the numbers at which a CBOR integer takes more bytes
    WitnessBytes,       \* COLLATERAL_WITNESS_CBOR_BYTES
    ExecUnits           \* ExecUnits[u]: what the script's budget u amounts to

Budgets == {"evaluated", "ceiling"}

ASSUME TransactionsAssumption ==
    /\ IsFiniteSet(Participants)
    /\ Leader \in Participants
    /\ Target \in [Participants -> Participants]
    /\ CheckCyclic(Participants, Target)
    /\ SpendFee \in Nat
    /\ WidthSteps \subseteq Nat /\ IsFiniteSet(WidthSteps)
    /\ WitnessBytes \in Nat
    /\ ExecUnits \in [Budgets -> Nat]
    /\ ExecUnits["evaluated"] <= ExecUnits["ceiling"]

Distance ==
    [p \in Participants |-> DistanceFromLeader(Participants, Target, p, Leader)]

\* A Bitcoin transaction has no fee field, and neither chain's lock a budget.
NoFee == 0
NoBudget == "none"

Refund(p) == <<"Refund", p>>
Spend(p) == <<"Spend", p>>
Roles == {"Refund", "Spend"} \X Participants

-----------------------------------------------------------------------------
(* Building: build_lock_tx, build_refund_tx, build_spend_tx on each chain. *)

BitcoinLockTx(amount) == [pays |-> amount, fee |-> NoFee, datum |-> 0]

\* A Cardano lock pays its fee out of the amount and carries the deadline of
\* the refund in its datum.
CardanoLockTx(amount, fee, distance) ==
    [pays |-> amount - fee, fee |-> fee, datum |-> distance]

LockTx(swap, terms, p) ==
    IF swap.chain[p] = "Bitcoin"
    THEN BitcoinLockTx(swap.amount[p])
    ELSE CardanoLockTx(swap.amount[p], terms.cardano_fee, Distance[p])

\* The lock that the transaction of a role spends is that of this participant.
Locker(role) == IF role[1] = "Refund" THEN role[2] ELSE Target[role[2]]

BitcoinRefundTx(amount, fee, distance) ==
    [pays |-> amount - fee, fee |-> NoFee, locktime |-> distance]

\* Two fees come off the amount: the lock's and the refund's own.
CardanoRefundTx(amount, fee, distance) ==
    [pays |-> amount - 2 * fee, fee |-> fee, locktime |-> distance]

BitcoinSpendTx(amount, fee) ==
    [pays |-> amount - fee, fee |-> NoFee, locktime |-> 0]

CardanoSpendTx(lock) ==
    [pays |-> lock.pays - SpendFee, fee |-> SpendFee, locktime |-> 0]

Spending(role, lock, tx) ==
    [role |-> role, spends |-> lock, pays |-> tx.pays, fee |-> tx.fee,
     locktime |-> tx.locktime, budget |-> NoBudget]

\* begin_refund_signing, for one participant.
UnsignedRefund(swap, terms, p) ==
    Spending(Refund(p), LockTx(swap, terms, p),
        IF swap.chain[p] = "Bitcoin"
        THEN BitcoinRefundTx(swap.amount[p], terms.bitcoin_fee, Distance[p])
        ELSE CardanoRefundTx(swap.amount[p], terms.cardano_fee, Distance[p]))

\* begin_spend_signing, for one participant.
UnsignedSpend(swap, terms, p) ==
    LET lock == LockTx(swap, terms, Target[p])
    IN  Spending(Spend(p), lock,
            IF swap.chain[Target[p]] = "Bitcoin"
            THEN BitcoinSpendTx(swap.amount[Target[p]], terms.bitcoin_fee)
            ELSE CardanoSpendTx(lock))

Unsigned(swap, terms, role) ==
    IF role[1] = "Refund" THEN UnsignedRefund(swap, terms, role[2])
                          ELSE UnsignedSpend(swap, terms, role[2])

-----------------------------------------------------------------------------
(* Signing.                                                                *)

\* Variant: a signature commits to the outpoint, not to what locks or pays.
MessageOfOutpoint(chain, tx) == tx.role

\* A Bitcoin sighash covers all of the transaction.
BitcoinSighash(tx) == tx

\* The script on Cardano checks a signature over the identifier of the lock,
\* tagged for a refund: neither fee nor payment nor validity interval.
CardanoSighash(tx) == [role |-> tx.role[1], spends |-> tx.spends]

Message(chain, tx) ==
    IF chain = "Bitcoin" THEN BitcoinSighash(tx) ELSE CardanoSighash(tx)

MessageOf(swap, terms, role) ==
    Message(swap.chain[Locker(role)], Unsigned(swap, terms, role))

-----------------------------------------------------------------------------
(* Pricing a Cardano transaction.  Its size is that of its two numbers that*)
(* vary; the rest is in the constant part of the fee.                      *)

Width(n) == 1 + Cardinality({s \in WidthSteps : s <= n})

Size(tx) == Width(tx.pays) + Width(tx.fee)

\* add_collateral_witness: what is submitted is longer by a witness.
SubmittedSize(tx) == Size(tx) + WitnessBytes

\* Variant: the witness that is added last is not counted.
MinFeeUnwitnessed(tx, params) ==
    params.min_fee_a * Size(tx) + params.min_fee_b
        + params.price * ExecUnits[tx.budget]

\* compute_min_fee: the collateral witness is not attached yet.
MinFee(tx, params) ==
    params.min_fee_a * (Size(tx) + WitnessBytes) + params.min_fee_b
        + params.price * ExecUnits[tx.budget]

\* attach_final_sig_with_units: what output and fee amount to stays the same.
WithUnits(tx, budget, fee) ==
    [tx EXCEPT !.pays = tx.pays + tx.fee - fee, !.fee = fee, !.budget = budget]

\* attach_final_sig: the session's fee stands in for the fee while the
\* transaction is measured.
AttachFinalSig(tx, terms, params, budget) ==
    LET sized == WithUnits(tx, budget, terms.cardano_fee)
    IN  WithUnits(tx, budget, MinFee(sized, params))

\* The transaction of a role with its final signature; on Bitcoin this only
\* fills in the witness.
Signed(swap, terms, role, params, budget) ==
    LET tx == Unsigned(swap, terms, role)
    IN  IF swap.chain[Locker(role)] = "Bitcoin" THEN tx
        ELSE AttachFinalSig(tx, terms, params, budget)

-----------------------------------------------------------------------------
(* What a node checks of a transaction that spends the output of lock.     *)

\* The fee that the ledger asks for: that of the transaction as submitted,
\* with the collateral's witness.
RequiredFee(tx, params) ==
    params.min_fee_a * SubmittedSize(tx) + params.min_fee_b
        + params.price * ExecUnits[tx.budget]

\* The rules that a transaction with a signature over msg breaks at a time
\* when now windows have opened.
BrokenRules(chain, lock, tx, msg, params, now) ==
    LET balanced == IF chain = "Bitcoin" THEN tx.pays \in 1 .. lock.pays
                    ELSE tx.pays > 0 /\ tx.pays + tx.fee = lock.pays
        onchain == [tx EXCEPT !.spends = lock]
    IN  {rule \in {"value", "fee", "signature", "timelock"} :
            \/ rule = "value" /\ ~balanced
            \/ rule = "fee" /\ chain = "Cardano" /\ tx.fee < RequiredFee(tx, params)
            \/ rule = "signature" /\ Message(chain, onchain) # msg
            \/ rule = "timelock" /\ now < tx.locktime}

=============================================================================
