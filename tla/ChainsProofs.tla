----------------------------- MODULE ChainsProofs -----------------------------
(***************************************************************************)
(* Theorems of Chains, for every cycle of participants, all amounts, fees  *)
(* and protocol parameters, and any number of reorganised blocks.  What is *)
(* refused, and what all claim, supposes that DepositsCoverFees and, where *)
(* a fee is at stake, that transactions are MeasuredInFull.                *)
(***************************************************************************)
EXTENDS Chains, CycleProofs, TLAPS

TakenType ==
    taken \in [Participants -> [by : Roles \cup {<<"nobody">>}, place : Places]]

RefundType == refund_tx = [p \in Participants |-> refund_tx[p]]

\* A daemon that may fund, or has, holds its own refund.
RefundReady ==
    \A p \in Participants :
        state[p] = "Funding" \/ lock[p] # "nowhere" => refund_tx[p].role = Refund(p)

\* Only a lock that has been submitted is confirmed.
ConfirmedSubmitted ==
    \A p, q \in Participants : q \in confirmed[p] => lock[q] # "nowhere"

\* A daemon that may fund, or has, has signed what all the others signed.
SignedAlike ==
    \A p \in Participants :
        state[p] = "Funding" \/ lock[p] # "nowhere" =>
            \A role \in Roles : SameMessage(role)

IInv ==
    /\ TypeOK /\ TakenType /\ RefundType
    /\ RefundReady /\ ConfirmedSubmitted /\ SignedAlike
    /\ SecretFromLeaderSpend

-----------------------------------------------------------------------------
(* Transactions and their roles.                                           *)

LEMMA RoleForms ==
    ASSUME NEW role \in Roles
    PROVE  /\ role[2] \in Participants
           /\ \/ role = Refund(role[2]) /\ role[1] = "Refund"
              \/ role = Spend(role[2]) /\ role[1] = "Spend"
           /\ Locker(role) \in Participants
<1>1. /\ role[2] \in Participants
      /\ \/ role = Refund(role[2]) /\ role[1] = "Refund"
         \/ role = Spend(role[2]) /\ role[1] = "Spend"
  BY DEF Roles, Refund, Spend
<1>2. Target \in [Participants -> Participants]
  BY TransactionsAssumption
<1>3. QED
  BY <1>1, <1>2 DEF Locker

LEMMA UnitsRole ==
    ASSUME NEW tx, "role" \in DOMAIN tx, tx = [f \in DOMAIN tx |-> tx[f]],
           NEW budget, NEW fee
    PROVE  WithUnits(tx, budget, fee).role = tx.role
<1> DEFINE paid == [tx EXCEPT !.pays = tx.pays + tx.fee - fee]
           priced == [paid EXCEPT !.fee = fee]
           new == [priced EXCEPT !.budget = budget]
<1>1. /\ DOMAIN paid = DOMAIN tx
      /\ paid = [f \in DOMAIN paid |-> paid[f]]
      /\ paid.role = tx.role
  BY Zenon
<1> HIDE DEF paid
<1>2. /\ DOMAIN priced = DOMAIN tx
      /\ priced = [f \in DOMAIN priced |-> priced[f]]
      /\ priced.role = tx.role
  BY <1>1
<1> HIDE DEF priced
<1>3. new.role = tx.role
  BY <1>2
<1>4. WithUnits(tx, budget, fee) = new
  BY DEF WithUnits, new, priced, paid
<1>5. QED
  BY <1>3, <1>4

\* The final signature leaves a transaction that of its role.
LEMMA SignedRole ==
    ASSUME NEW role \in Roles, NEW swp, NEW trms, NEW prms, NEW budget
    PROVE  Signed(swp, trms, role, prms, budget).role = role
<1> DEFINE tx == Unsigned(swp, trms, role)
<1>1. /\ "role" \in DOMAIN tx
      /\ tx = [f \in DOMAIN tx |-> tx[f]]
      /\ tx.role = role
  BY RoleForms DEF Unsigned, UnsignedRefund, UnsignedSpend, Spending
<1> HIDE DEF tx
<1>2. ASSUME NEW fee PROVE WithUnits(tx, budget, fee).role = role
  BY <1>1, UnitsRole
<1>3. AttachFinalSig(tx, trms, prms, budget).role = role
  BY <1>2 DEF AttachFinalSig
<1>4. QED
  BY <1>1, <1>3 DEF Signed, tx

\* A transaction gets the output of a lock that nobody has spent, or nothing.
LEMMA SubmitTakes ==
    ASSUME TakenType, NEW p \in Participants, NEW tx, tx.role \in Roles,
           Submit(p, tx)
    PROVE  /\ lock' = lock
           /\ TakenType'
           /\ \A q \in Participants :
                 \/ taken'[q] = taken[q]
                 \/ taken[q] = Untaken /\ taken'[q].by \in Roles
                    /\ taken'[q].place = "mempool"
<1>1. CASE Broken(p, tx) = {}
  <2> DEFINE q == Locker(tx.role)
  <2>1. q \in Participants
    BY RoleForms
  <2>2. taken[q] = Untaken
    <3>1. ~(lock[q] = "nowhere" \/ taken[q] # Untaken)
      BY <1>1 DEF Broken, When
    <3>2. QED
      BY <3>1
  <2>3. lock' = lock /\ taken' = [taken EXCEPT ![q] = [by |-> tx.role, place |-> "mempool"]]
    BY <1>1 DEF Submit
  <2> HIDE DEF q
  <2>4. QED
    BY <2>1, <2>2, <2>3 DEF TakenType, Places
<1>2. CASE Broken(p, tx) # {}
  BY <1>2 DEF Submit, TakenType
<1>3. QED
  BY <1>1, <1>2

LEMMA AdaptTakes ==
    ASSUME TakenType, NEW p \in Participants, AdaptAndSpend(p)
    PROVE  /\ lock' = lock
           /\ TakenType'
           /\ \A q \in Participants :
                 \/ taken'[q] = taken[q]
                 \/ taken[q] = Untaken /\ taken'[q].by \in Roles
                    /\ taken'[q].place = "mempool"
<1>1. Spend(p) \in Roles
  BY DEF Roles, Spend
<1>2. PICK tx \in FinalTxs(p, Spend(p)) : Submit(p, tx)
  BY DEF AdaptAndSpend
<1>3. tx.role = Spend(p)
  BY <1>1, SignedRole DEF FinalTxs
<1>4. QED
  BY <1>1, <1>2, <1>3, SubmitTakes

-----------------------------------------------------------------------------
(* The inductive invariant.                                                *)

LEMMA InvariantInit == Init => IInv
<1> SUFFICES ASSUME Init PROVE IInv
  OBVIOUS
<1>1. /\ state = [p \in Participants |-> "Initialized"]
      /\ lock = [p \in Participants |-> "nowhere"]
      /\ taken = [p \in Participants |-> Untaken]
      /\ secrets = [p \in Participants |-> {p}]
      /\ confirmed = [p \in Participants |-> {}]
      /\ refund_tx = [p \in Participants |-> UnsignedYet]
      /\ swap \in Swaps /\ terms \in Terms /\ params = Fallback
      /\ joined = {} /\ revealed = {} /\ now = 0 /\ reorgs = 0
  BY DEF Init
<1>2. 0 \in 0 .. Cardinality(Participants) /\ 0 \in 0 .. MaxReorgs
  <2>1. Cardinality(Participants) \in Nat
    BY FS_CardinalityType, TransactionsAssumption
  <2>2. MaxReorgs \in Nat
    BY ChainsAssumption
  <2>3. QED
    BY <2>1, <2>2
<1>3. TypeOK
  BY <1>1, <1>2 DEF TypeOK, SwapStates, Places
<1>4. TakenType /\ RefundType
  BY <1>1 DEF TakenType, RefundType, Untaken, Places
<1>5. RefundReady /\ ConfirmedSubmitted /\ SignedAlike
  BY <1>1 DEF RefundReady, ConfirmedSubmitted, SignedAlike
<1>6. SecretFromLeaderSpend
  BY <1>1 DEF SecretFromLeaderSpend
<1>7. QED
  BY <1>3, <1>4, <1>5, <1>6 DEF IInv

\* An output changes hands once, and its transaction stays the same one.
OneTaker ==
    /\ TakenType'
    /\ \A q \in Participants :
          \/ taken'[q].by = taken[q].by
          \/ taken[q] = Untaken /\ taken'[q].by \in Roles
    /\ \A q \in Participants :
          \/ taken'[q] = Untaken
          \/ taken'[q].by \in Roles /\ taken'[q].place \in {"mempool", "block"}

LEMMA TakenForms ==
    ASSUME TypeOK, TakenType, NEW q \in Participants
    PROVE  /\ taken[q] \in [by : Roles \cup {<<"nobody">>}, place : Places]
           /\ taken[q].place # "nowhere" => taken[q].by \in Roles
           /\ taken[q].place = "nowhere" => taken[q] = Untaken
<1>1. taken[q] \in [by : Roles \cup {<<"nobody">>}, place : Places]
  BY DEF TakenType
<1>2. taken[q] = Untaken \/ (taken[q].by \in Roles /\ taken[q].place \in {"mempool", "block"})
  BY DEF TypeOK
<1>3. Untaken.place = "nowhere"
  BY DEF Untaken
<1>4. QED
  BY <1>1, <1>2, <1>3

LEMMA SubmitOnce ==
    ASSUME TypeOK, TakenType, TakenType',
           \A q \in Participants :
               \/ taken'[q] = taken[q]
               \/ taken[q] = Untaken /\ taken'[q].by \in Roles
                  /\ taken'[q].place = "mempool"
    PROVE  OneTaker
  BY DEF TypeOK, OneTaker

LEMMA PlaceOnce ==
    ASSUME TypeOK, TakenType, NEW q \in Participants, NEW place \in {"mempool", "block"},
           taken[q] # Untaken,
           taken' = [taken EXCEPT ![q].place = place]
    PROVE  OneTaker
<1>1. /\ taken[q] \in [by : Roles \cup {<<"nobody">>}, place : Places]
      /\ taken[q].by \in Roles
  BY TakenForms DEF TypeOK
<1>2. taken'[q].by = taken[q].by /\ taken'[q].place = place
  BY <1>1 DEF TakenType
<1>3. \A x \in Participants : x # q => taken'[x] = taken[x]
  BY DEF TakenType
<1>4. TakenType'
  BY <1>1 DEF TakenType, Places
<1>5. QED
  BY <1>1, <1>2, <1>3, <1>4 DEF OneTaker, TypeOK

LEMMA SameOnce ==
    ASSUME TypeOK, TakenType, UNCHANGED taken
    PROVE  OneTaker
  BY DEF TypeOK, TakenType, OneTaker

LEMMA TakenStep ==
    ASSUME TypeOK, TakenType, RefundReady, ConfirmedSubmitted, [Next]_vars
    PROVE  OneTaker
<1>1. ASSUME NEW q \in Participants, HandleSecretReveal(q) PROVE OneTaker
  <2>1. AdaptAndSpend(Leader) \/ UNCHANGED taken
    BY <1>1 DEF HandleSecretReveal, ledgers
  <2>2. Leader \in Participants
    BY TransactionsAssumption
  <2>3. QED
    BY <2>1, <2>2, AdaptTakes, SubmitOnce, SameOnce
<1>2. ASSUME NEW p \in Participants, PollLeaderSpend(p) PROVE OneTaker
  BY <1>2, AdaptTakes, SubmitOnce DEF PollLeaderSpend
<1>3. ASSUME NEW p \in Participants, PollRefundWindow(p) PROVE OneTaker
  <2>1. refund_tx[p].role = Refund(p)
    BY <1>3 DEF PollRefundWindow, WatchesRefund, RefundReady, ConfirmedSubmitted
  <2>2. refund_tx[p].role \in Roles
    BY <2>1 DEF Roles, Refund
  <2>3. Submit(p, refund_tx[p])
    BY <1>3 DEF PollRefundWindow
  <2>4. QED
    BY <2>2, <2>3, SubmitTakes, SubmitOnce
<1>4. ASSUME NEW q \in Participants, MineTaken(q) PROVE OneTaker
  <2>1. taken[q] # Untaken
    BY <1>4 DEF MineTaken, Untaken
  <2>2. QED
    BY <1>4, <2>1, PlaceOnce DEF MineTaken
<1>5. ASSUME NEW q \in Participants, Reorganise(q) PROVE OneTaker
  <2>1. CASE taken[q].place = "block" /\ taken' = [taken EXCEPT ![q].place = "mempool"]
    <3>1. taken[q] # Untaken
      BY <2>1 DEF Untaken
    <3>2. QED
      BY <2>1, <3>1, PlaceOnce
  <2>2. CASE taken' = IF taken[q] = Untaken THEN taken
                      ELSE [taken EXCEPT ![q].place = "mempool"]
    BY <2>2, PlaceOnce, SameOnce
  <2>3. QED
    BY <1>5, <2>1, <2>2 DEF Reorganise
<1>6. CASE UNCHANGED taken
  BY <1>6, SameOnce
<1>7. QED
  BY <1>1, <1>2, <1>3, <1>4, <1>5, <1>6
  DEF Next, vars, Event, MakeBlock, ledgers, Start, Finalize, Fund, PollLockTx,
      MineLock, RaiseParams, OpenWindow

\* A lock is submitted by a daemon that may fund, and it stays submitted.
LocksStay ==
    /\ lock' \in [Participants -> Places]
    /\ \A q \in Participants :
          /\ lock[q] # "nowhere" => lock'[q] # "nowhere"
          /\ lock'[q] # "nowhere" => lock[q] # "nowhere" \/ state[q] = "Funding"

LEMMA LockStep ==
    ASSUME TypeOK, TakenType, RefundReady, ConfirmedSubmitted, [Next]_vars
    PROVE  LocksStay
<1>0. lock \in [Participants -> Places]
  BY DEF TypeOK
<1>1. CASE UNCHANGED lock
  BY <1>0, <1>1 DEF LocksStay
<1>2. ASSUME NEW q \in Participants, HandleSecretReveal(q) PROVE UNCHANGED lock
  <2>1. Leader \in Participants
    BY TransactionsAssumption
  <2>2. QED
    BY <1>2, <2>1, AdaptTakes DEF HandleSecretReveal, ledgers
<1>3. ASSUME NEW p \in Participants, PollLeaderSpend(p) PROVE UNCHANGED lock
  BY <1>3, AdaptTakes DEF PollLeaderSpend
<1>4. ASSUME NEW p \in Participants, PollRefundWindow(p) PROVE UNCHANGED lock
  BY <1>4 DEF PollRefundWindow, Submit
<1>5. ASSUME NEW p \in Participants, Fund(p) PROVE LocksStay
  <2>1. state[p] = "Funding"
    BY <1>5 DEF Fund
  <2>2. \/ lock' = [lock EXCEPT ![p] = "mempool"]
        \/ UNCHANGED lock
    BY <1>5 DEF Fund
  <2>3. QED
    BY <1>0, <2>1, <2>2 DEF LocksStay, Places
<1>6. ASSUME NEW q \in Participants, MineLock(q) PROVE LocksStay
  BY <1>0, <1>6 DEF MineLock, LocksStay, Places
<1>7. ASSUME NEW q \in Participants, Reorganise(q) PROVE LocksStay
  <2>1. CASE lock[q] = "block" /\ lock' = [lock EXCEPT ![q] = "mempool"]
    BY <1>0, <2>1 DEF LocksStay, Places
  <2>2. QED
    BY <1>1, <1>7, <2>1 DEF Reorganise
<1>8. QED
  BY <1>1, <1>2, <1>3, <1>4, <1>5, <1>6, <1>7
  DEF Next, vars, Event, MakeBlock, ledgers, Start, Finalize, PollLockTx,
      MineTaken, RaiseParams, OpenWindow

\* A daemon that comes to fund has its refund, and has signed what all signed.
ComesToFund(p) ==
    /\ refund_tx'[p].role = Refund(p)
    /\ \A role \in Roles : SameMessage(role)

FundsAfterSigning ==
    /\ state' \in [Participants -> SwapStates]
    /\ RefundType'
    /\ \A p \in Participants :
          \/ ComesToFund(p)
          \/ /\ refund_tx'[p] = refund_tx[p]
             /\ state'[p] = "Funding" => state[p] = "Funding"

LEMMA GoesOn ==
    ASSUME TypeOK, RefundType, UNCHANGED refund_tx, NEW p \in Participants,
           NEW s \in SwapStates \ {"Funding"}, Goes(p, s) \/ UNCHANGED state
    PROVE  FundsAfterSigning
<1>1. state \in [Participants -> SwapStates]
  BY DEF TypeOK
<1>2. RefundType'
  BY DEF RefundType
<1>3. state' \in [Participants -> SwapStates]
  BY <1>1 DEF Goes
<1>4. \A q \in Participants : state'[q] = "Funding" => state[q] = "Funding"
  BY <1>1 DEF Goes
<1>5. QED
  BY <1>2, <1>3, <1>4 DEF FundsAfterSigning

LEMMA StateStep ==
    ASSUME TypeOK, RefundType, [Next]_vars
    PROVE  FundsAfterSigning
<1>0. /\ {"Initialized", "RefundAndSpendTxsSigning", "AwaitingLockConfirmations",
          "AwaitingSecrets", "AwaitingLeaderSpend", "Panicked", "Completed",
          "Refunded", "Failed"} \subseteq SwapStates \ {"Funding"}
  BY DEF SwapStates, Terminal
<1>1. ASSUME NEW p \in Participants, Start(p) PROVE FundsAfterSigning
  BY <1>0, <1>1, GoesOn DEF Start
<1>2. ASSUME NEW p \in Participants, Finalize(p) PROVE FundsAfterSigning
  <2>1. CASE \A role \in Roles : SameMessage(role)
    <3>1. PICK tx \in FinalTxs(p, Refund(p)) : refund_tx' = [refund_tx EXCEPT ![p] = tx]
      BY <1>2, <2>1 DEF Finalize
    <3>2. state' = [state EXCEPT ![p] = "Funding"]
      BY <1>2, <2>1 DEF Finalize, Goes
    <3>3. Refund(p) \in Roles
      BY DEF Roles, Refund
    <3>4. tx.role = Refund(p)
      BY <3>1, <3>3, SignedRole DEF FinalTxs
    <3>5. refund_tx'[p] = tx /\ RefundType'
      BY <3>1 DEF RefundType
    <3>6. ComesToFund(p)
      BY <2>1, <3>4, <3>5 DEF ComesToFund
    <3>7. \A q \in Participants : q # p =>
              refund_tx'[q] = refund_tx[q] /\ state'[q] = state[q]
      BY <3>1, <3>2 DEF RefundType, TypeOK
    <3>8. state' \in [Participants -> SwapStates]
      BY <3>2 DEF TypeOK, SwapStates
    <3>9. QED
      BY <3>5, <3>6, <3>7, <3>8 DEF FundsAfterSigning
  <2>2. CASE ~(\A role \in Roles : SameMessage(role))
    <3>1. Goes(p, "Panicked") /\ UNCHANGED refund_tx
      BY <1>2, <2>2 DEF Finalize
    <3>2. QED
      BY <1>0, <3>1, GoesOn
  <2>3. QED
    BY <2>1, <2>2
<1>3. ASSUME NEW p \in Participants, Fund(p) PROVE FundsAfterSigning
  <2>1. (Goes(p, "AwaitingLockConfirmations") \/ Goes(p, "Failed"))
            /\ UNCHANGED refund_tx
    BY <1>3 DEF Fund
  <2>2. QED
    BY <1>0, <2>1, GoesOn
<1>4. ASSUME NEW p \in Participants, NEW q \in Participants, PollLockTx(p, q)
      PROVE  FundsAfterSigning
  <2>1. /\ \/ Goes(p, "AwaitingSecrets") \/ Goes(p, "AwaitingLeaderSpend")
           \/ UNCHANGED state
        /\ UNCHANGED refund_tx
    BY <1>4 DEF PollLockTx, PassBarrier
  <2>2. QED
    BY <1>0, <2>1, GoesOn
<1>5. ASSUME NEW q \in Participants, HandleSecretReveal(q) PROVE FundsAfterSigning
  <2>1. Leader \in Participants
    BY TransactionsAssumption
  <2>2. (Goes(Leader, "Completed") \/ UNCHANGED state) /\ UNCHANGED refund_tx
    BY <1>5 DEF HandleSecretReveal
  <2>3. QED
    BY <1>0, <2>1, <2>2, GoesOn
<1>6. ASSUME NEW p \in Participants, PollLeaderSpend(p) PROVE FundsAfterSigning
  BY <1>0, <1>6, GoesOn DEF PollLeaderSpend
<1>7. ASSUME NEW p \in Participants, PollRefundWindow(p) PROVE FundsAfterSigning
  <2>1. (Goes(p, "Refunded") \/ Goes(p, "Failed")) /\ UNCHANGED refund_tx
    BY <1>7 DEF PollRefundWindow
  <2>2. QED
    BY <1>0, <2>1, GoesOn
<1>8. CASE UNCHANGED <<state, refund_tx>>
  BY <1>8 DEF FundsAfterSigning, TypeOK, RefundType
<1>9. QED
  BY <1>1, <1>2, <1>3, <1>4, <1>5, <1>6, <1>7, <1>8
  DEF Next, vars, sessions, Event, MakeBlock, MineLock, MineTaken, Reorganise,
      RaiseParams, OpenWindow

\* What a daemon knows of the others grows from what has happened: a lock that
\* is in a block, and the leader's secret from the leader's spend.
KnowledgeStep ==
    /\ confirmed' \in [Participants -> SUBSET Participants]
    /\ secrets' \in [Participants -> SUBSET Participants]
    /\ \A p, q \in Participants :
          q \in confirmed'[p] => q \in confirmed[p] \/ lock[q] = "block"
    /\ \A p \in Participants \ {Leader} :
          Leader \in secrets'[p] =>
              Leader \in secrets[p] \/ taken[TheTarget].by = Spend(Leader)

LEMMA Learns ==
    ASSUME TypeOK, [Next]_vars
    PROVE  KnowledgeStep
<1>0. /\ confirmed \in [Participants -> SUBSET Participants]
      /\ secrets \in [Participants -> SUBSET Participants]
      /\ Leader \in Participants
  BY TransactionsAssumption DEF TypeOK
<1>1. ASSUME NEW p \in Participants, NEW q \in Participants, PollLockTx(p, q)
      PROVE  KnowledgeStep
  <2>1. /\ confirmed' = [confirmed EXCEPT ![p] = @ \cup {q}]
        /\ lock[q] = "block"
        /\ UNCHANGED secrets
    BY <1>1 DEF PollLockTx, LockTxConfirmed
  <2>2. QED
    BY <1>0, <2>1 DEF KnowledgeStep
<1>2. ASSUME NEW q \in Participants, HandleSecretReveal(q) PROVE KnowledgeStep
  <2>1. /\ secrets' = [secrets EXCEPT ![Leader] = @ \cup {q}]
        /\ UNCHANGED confirmed
    BY <1>2 DEF HandleSecretReveal
  <2>2. QED
    BY <1>0, <2>1 DEF KnowledgeStep
<1>3. ASSUME NEW p \in Participants, PollLeaderSpend(p) PROVE KnowledgeStep
  <2>1. /\ secrets' = [secrets EXCEPT ![p] = @ \cup {Leader}]
        /\ UNCHANGED confirmed
        /\ LeaderSecretVisible
    BY <1>3 DEF PollLeaderSpend
  <2>2. taken[TheTarget].by = Spend(Leader)
    BY <2>1 DEF LeaderSecretVisible, FetchedSignature, BitcoinSignature,
                CardanoSignature, YieldsSecret
  <2>3. QED
    BY <1>0, <2>1, <2>2 DEF KnowledgeStep
<1>4. CASE UNCHANGED <<confirmed, secrets>>
  BY <1>0, <1>4 DEF KnowledgeStep
<1>5. QED
  BY <1>1, <1>2, <1>3, <1>4
  DEF Next, vars, sessions, Event, MakeBlock, Start, Finalize, Fund,
      PollRefundWindow, MineLock, MineTaken, Reorganise, RaiseParams, OpenWindow

\* The rest: the swap stays as it was given, and counters in their bounds.
LEMMA RestStep ==
    ASSUME TypeOK, [Next]_vars
    PROVE  /\ UNCHANGED given
           /\ params' \in {Fallback, Raised}
           /\ joined' \subseteq Participants /\ revealed' \subseteq Participants
           /\ now' \in 0 .. Cardinality(Participants) /\ reorgs' \in 0 .. MaxReorgs
<1> DEFINE Rest ==
        /\ UNCHANGED given
        /\ params' \in {Fallback, Raised}
        /\ joined' \subseteq Participants /\ revealed' \subseteq Participants
        /\ now' \in 0 .. Cardinality(Participants) /\ reorgs' \in 0 .. MaxReorgs
<1> SUFFICES Rest
  OBVIOUS
<1>0. /\ params \in {Fallback, Raised}
      /\ joined \subseteq Participants /\ revealed \subseteq Participants
      /\ now \in 0 .. Cardinality(Participants) /\ reorgs \in 0 .. MaxReorgs
      /\ Cardinality(Participants) \in Nat /\ MaxReorgs \in Nat
  BY FS_CardinalityType, TransactionsAssumption, ChainsAssumption DEF TypeOK
<1>1. ASSUME NEW p \in Participants, Start(p) PROVE Rest
  BY <1>0, <1>1 DEF Start
<1>2. ASSUME NEW p \in Participants, NEW q \in Participants, PollLockTx(p, q)
      PROVE  Rest
  <2>1. revealed' = revealed \/ revealed' = revealed \cup {p}
    BY <1>2 DEF PollLockTx, PassBarrier
  <2>2. QED
    BY <1>0, <1>2, <2>1 DEF PollLockTx
<1>3. ASSUME NEW q \in Participants, Reorganise(q) PROVE Rest
  BY <1>0, <1>3 DEF Reorganise, sessions
<1>4. CASE RaiseParams
  BY <1>0, <1>4 DEF RaiseParams, sessions
<1>5. CASE OpenWindow
  BY <1>0, <1>5 DEF OpenWindow, sessions
<1>6. CASE UNCHANGED <<given, params, joined, revealed, now, reorgs>>
  BY <1>0, <1>6
<1> HIDE DEF Rest
<1>7. ASSUME NEW p \in Participants,
             Finalize(p) \/ Fund(p) \/ PollLeaderSpend(p) \/ PollRefundWindow(p)
      PROVE  Rest
  BY <1>6, <1>7 DEF Finalize, Fund, PollLeaderSpend, PollRefundWindow
<1>8. ASSUME NEW q \in Participants,
             HandleSecretReveal(q) \/ MineLock(q) \/ MineTaken(q)
      PROVE  Rest
  BY <1>6, <1>8 DEF HandleSecretReveal, MineLock, MineTaken, sessions
<1>9. CASE UNCHANGED vars
  BY <1>6, <1>9 DEF vars, sessions
<1>10. QED
  BY <1>1, <1>2, <1>3, <1>4, <1>5, <1>7, <1>8, <1>9 DEF Next, Event, MakeBlock

LEMMA InvariantStep ==
    ASSUME IInv, [Next]_vars
    PROVE  IInv'
<1> USE DEF IInv
<1>1. OneTaker /\ LocksStay /\ FundsAfterSigning /\ KnowledgeStep
  BY TakenStep, LockStep, StateStep, Learns
<1>2. UNCHANGED given
  BY RestStep
<1>3. TypeOK'
  <2>1. /\ swap' \in Swaps /\ terms' \in Terms /\ params' \in {Fallback, Raised}
        /\ joined' \subseteq Participants /\ revealed' \subseteq Participants
        /\ now' \in 0 .. Cardinality(Participants) /\ reorgs' \in 0 .. MaxReorgs
    BY <1>2, RestStep DEF given, TypeOK
  <2>2. /\ state' \in [Participants -> SwapStates]
        /\ lock' \in [Participants -> Places]
        /\ confirmed' \in [Participants -> SUBSET Participants]
        /\ secrets' \in [Participants -> SUBSET Participants]
    BY <1>1 DEF FundsAfterSigning, LocksStay, KnowledgeStep
  <2>3. QED
    BY <1>1, <2>1, <2>2 DEF TypeOK, OneTaker
<1>4. TakenType' /\ RefundType'
  BY <1>1 DEF OneTaker, FundsAfterSigning
<1>5. RefundReady'
  BY <1>1 DEF RefundReady, FundsAfterSigning, LocksStay, ComesToFund
<1>6. ConfirmedSubmitted'
  BY <1>1 DEF ConfirmedSubmitted, KnowledgeStep, LocksStay
<1>7. SignedAlike'
  <2>1. ASSUME NEW role PROVE SameMessage(role)' <=> SameMessage(role)
    BY <1>2 DEF given, SameMessage
  <2>2. ASSUME NEW p \in Participants, state'[p] = "Funding" \/ lock'[p] # "nowhere"
        PROVE  \A role \in Roles : SameMessage(role)
    BY <1>1, <2>2 DEF SignedAlike, FundsAfterSigning, LocksStay, ComesToFund
  <2>3. QED
    BY <2>1, <2>2 DEF SignedAlike
<1>8. SecretFromLeaderSpend'
  <2>1. TheTarget \in Participants
    BY TransactionsAssumption DEF TheTarget
  <2>2. Untaken.by # Spend(Leader)
    BY DEF Untaken, Spend
  <2>3. ASSUME NEW p \in Participants \ {Leader}, Leader \in secrets'[p]
        PROVE  taken'[TheTarget].by = Spend(Leader)
    <3>1. taken[TheTarget].by = Spend(Leader)
      BY <1>1, <2>3 DEF SecretFromLeaderSpend, KnowledgeStep
    <3>2. QED
      BY <1>1, <2>1, <2>2, <3>1 DEF OneTaker
  <2>4. QED
    BY <2>3 DEF SecretFromLeaderSpend
<1>9. QED
  BY <1>3, <1>4, <1>5, <1>6, <1>7, <1>8

-----------------------------------------------------------------------------
(* What follows.                                                           *)

LEMMA InvariantHolds == FairSpec => []IInv
<1>1. Init => IInv
  BY InvariantInit
<1>2. IInv /\ [Next]_vars => IInv'
  BY InvariantStep
<1>3. QED
  BY <1>1, <1>2, PTL DEF FairSpec

\* The state keeps its type: above all, a daemon submits no transaction but a
\* refund or a spend, and only with a refund in hand (finalize_role).
THEOREM TypeCorrect == FairSpec => []TypeOK
<1>1. IInv => TypeOK
  BY DEF IInv
<1>2. QED
  BY <1>1, InvariantHolds, PTL

\* Messages that are equal come from transactions that are equal in what they
\* spend and pay and when they are valid: on Bitcoin the sighash covers all of
\* it, on Cardano the lock that is named has the fee and thus the payments.
LEMMA SameTerms ==
    ASSUME NEW swp, NEW t, NEW u, NEW role \in Roles,
           MessageOf(swp, t, role) = MessageOf(swp, u, role)
    PROVE  LET a == Unsigned(swp, t, role)
               b == Unsigned(swp, u, role)
           IN  a.spends = b.spends /\ a.pays = b.pays /\ a.locktime = b.locktime
<1> DEFINE a == Unsigned(swp, t, role)
           b == Unsigned(swp, u, role)
<1> SUFFICES a.spends = b.spends /\ a.pays = b.pays /\ a.locktime = b.locktime
  OBVIOUS
<1>1. CASE swp.chain[Locker(role)] = "Bitcoin"
  <2>1. a = b
    BY <1>1 DEF MessageOf, Message, BitcoinSighash
  <2>2. QED
    BY <2>1
<1>2. CASE swp.chain[Locker(role)] # "Bitcoin"
  <2>1. a.spends = b.spends
    <3> HIDE DEF a, b
    <3>1. CardanoSighash(a) = CardanoSighash(b)
      BY <1>2 DEF MessageOf, Message, a, b
    <3>2. QED
      BY <3>1 DEF CardanoSighash
  <2>2. CASE role[1] = "Refund"
    <3>1. Locker(role) = role[2] /\ swp.chain[role[2]] # "Bitcoin"
      BY <1>2, <2>2 DEF Locker
    <3>2. /\ a = UnsignedRefund(swp, t, role[2])
          /\ b = UnsignedRefund(swp, u, role[2])
      BY <2>2 DEF Unsigned
    <3>3. /\ a.spends = LockTx(swp, t, role[2])
          /\ b.spends = LockTx(swp, u, role[2])
      BY <3>2 DEF UnsignedRefund, Spending
    <3>4. /\ LockTx(swp, t, role[2]).fee = t.cardano_fee
          /\ LockTx(swp, u, role[2]).fee = u.cardano_fee
      BY <3>1 DEF LockTx, CardanoLockTx
    <3>5. t.cardano_fee = u.cardano_fee
      BY <2>1, <3>3, <3>4
    <3>6. /\ a.pays = swp.amount[role[2]] - 2 * t.cardano_fee
          /\ b.pays = swp.amount[role[2]] - 2 * u.cardano_fee
          /\ a.locktime = b.locktime
      BY <3>1, <3>2 DEF UnsignedRefund, Spending, CardanoRefundTx
    <3>7. QED
      BY <2>1, <3>5, <3>6
  <2>3. CASE role[1] = "Spend"
    <3>1. Locker(role) = Target[role[2]] /\ swp.chain[Target[role[2]]] # "Bitcoin"
      BY <1>2, <2>3 DEF Locker
    <3>2. /\ a = UnsignedSpend(swp, t, role[2])
          /\ b = UnsignedSpend(swp, u, role[2])
      BY <2>3 DEF Unsigned
    <3>3. /\ a.pays = a.spends.pays - SpendFee
          /\ b.pays = b.spends.pays - SpendFee
          /\ a.locktime = b.locktime
      BY <3>1, <3>2 DEF UnsignedSpend, Spending, CardanoSpendTx
    <3>4. QED
      BY <2>1, <3>3
  <2>4. QED
    BY <2>2, <2>3, RoleForms
<1>3. QED
  BY <1>1, <1>2

\* Whatever fees the daemons are given, nobody funds unless all of them would
\* claim and refund the same: signatures over different terms do not combine
\* (finalize_role, aggregate_partial_signatures).
THEOREM FundedAlike == FairSpec => []FundedOnSameTerms
<1>1. IInv => FundedOnSameTerms
  <2> SUFFICES ASSUME IInv, NEW x \in Participants, lock[x] # "nowhere",
                      NEW role \in Roles, NEW p \in Participants, NEW q \in Participants
               PROVE  LET a == Unsigned(swap, terms[p], role)
                          b == Unsigned(swap, terms[q], role)
                      IN  a.spends = b.spends /\ a.pays = b.pays /\ a.locktime = b.locktime
    BY DEF FundedOnSameTerms
  <2>1. MessageOf(swap, terms[p], role) = MessageOf(swap, terms[q], role)
    BY DEF IInv, SignedAlike, SameMessage
  <2>2. QED
    BY <2>1, SameTerms
<1>2. QED
  BY <1>1, InvariantHolds, PTL

\* Reorganised blocks or not, whoever holds the leader's secret has it from the
\* leader's spend, and no other transaction gets that output: mempool or block,
\* Bitcoin or Cardano (extract_secret_and_adapt, check_leader_spend_confirmed).
THEOREM SecretComesFromSpend == FairSpec => []SecretFromLeaderSpend
<1>1. IInv => SecretFromLeaderSpend
  BY DEF IInv
<1>2. QED
  BY <1>1, InvariantHolds, PTL

-----------------------------------------------------------------------------
(* A step: who takes a lock, where a session goes, what it knows.          *)

LEMMA CycleFacts ==
    /\ Leader \in Participants /\ TheTarget \in Participants
    /\ \A p \in Participants : Target[p] \in Participants
    /\ \A p, q \in Participants : Target[p] = Target[q] => p = q
    /\ \A q \in Participants : \E p \in Participants : Target[p] = q
    /\ \A p \in Participants : Distance[p] \in Nat /\ Distance[p] > 0
    /\ Cardinality(Participants) \in Nat
<1> DEFINE D(p) == DistanceFromLeader(Participants, Target, p, Leader)
<1> USE TransactionsAssumption
<1>1. /\ Leader \in Participants /\ TheTarget \in Participants
      /\ \A p \in Participants : Target[p] \in Participants
  BY DEF TheTarget
<1>2. Cardinality(Participants) \in Nat
  BY FS_CardinalityType
<1>3. /\ D(Target[Leader]) = 1
      /\ \A p \in Participants : D(p) \in 1 .. Cardinality(Participants)
      /\ \A p, q \in Participants : D(p) = D(q) => p = q
      /\ \A p \in Participants \ {Leader} : D(Target[p]) = D(p) + 1
  BY <1>1, HopByHop
<1>4. \A p \in Participants : Distance[p] = D(p)
  BY DEF Distance
<1>5. \A q \in Participants : \E p \in Participants : Target[p] = q
  BY EveryoneTargeted
<1> HIDE DEF D
<1>6. ASSUME NEW p \in Participants, NEW q \in Participants, Target[p] = Target[q]
      PROVE  p = q
  <2>1. CASE p # Leader /\ q # Leader
    BY <1>2, <1>3, <1>6, <2>1
  <2>2. CASE p = Leader /\ q # Leader
    BY <1>2, <1>3, <1>6, <2>2
  <2>3. CASE p # Leader /\ q = Leader
    BY <1>2, <1>3, <1>6, <2>3
  <2>4. QED
    BY <2>1, <2>2, <2>3
<1>7. \A p \in Participants : Distance[p] \in Nat /\ Distance[p] > 0
  BY <1>2, <1>3, <1>4
<1>8. QED
  BY <1>1, <1>2, <1>5, <1>6, <1>7

\* A submission takes an output that nobody has taken, or is refused.
Gets(role) ==
    /\ lock[Locker(role)] # "nowhere"
    /\ taken[Locker(role)] = Untaken
    /\ taken' = [taken EXCEPT ![Locker(role)] = [by |-> role, place |-> "mempool"]]
    /\ UNCHANGED refused

Misses(p, tx) ==
    /\ UNCHANGED taken
    /\ Broken(p, tx) # {}
    /\ refused' = [refused EXCEPT ![p] = @ \cup {<<tx.role[1], r>> : r \in Broken(p, tx)}]

LEMMA SubmitCases ==
    ASSUME NEW p, NEW tx, Submit(p, tx)
    PROVE  /\ lock' = lock
           /\ Broken(p, tx) = {} => Gets(tx.role)
           /\ Broken(p, tx) # {} => Misses(p, tx)
<1>1. ASSUME Broken(p, tx) = {}
      PROVE  lock[Locker(tx.role)] # "nowhere" /\ taken[Locker(tx.role)] = Untaken
  <2>1. ~(lock[Locker(tx.role)] = "nowhere" \/ taken[Locker(tx.role)] # Untaken)
    BY <1>1 DEF Broken, When
  <2>2. QED
    BY <2>1
<1>2. QED
  BY <1>1 DEF Submit, Gets, Misses

\* A claim is the transaction that the session signed, at some price.
LEMMA ClaimCases ==
    ASSUME NEW p \in Participants, AdaptAndSpend(p)
    PROVE  /\ lock' = lock
           /\ \E tx \in FinalTxs(p, Spend(p)) :
                 /\ tx.role = Spend(p)
                 /\ Gets(Spend(p)) \/ Misses(p, tx)
<1>1. PICK tx \in FinalTxs(p, Spend(p)) : Submit(p, tx)
  BY DEF AdaptAndSpend
<1>2. tx.role = Spend(p)
  <2>1. Spend(p) \in Roles
    BY DEF Roles, Spend
  <2>2. QED
    BY <1>1, <2>1, SignedRole DEF FinalTxs
<1>3. lock' = lock /\ (Gets(tx.role) \/ Misses(p, tx))
  BY <1>1, SubmitCases
<1>4. QED
  BY <1>2, <1>3

\* The leader claims with the last secret.
LeaderClaims ==
    \E q \in Participants :
        /\ HandleSecretReveal(q)
        /\ secrets[Leader] \cup {q} = Participants

\* The transaction that takes the lock of q stays, or a daemon takes it now.
Takes(q) ==
    \/ taken'[q].by = taken[q].by /\ (taken'[q] = Untaken <=> taken[q] = Untaken)
    \/ /\ taken[q] = Untaken /\ lock[q] # "nowhere" /\ lock' = lock
       /\ taken'[q] # Untaken
       /\ \A x \in Participants : x # q => taken'[x] = taken[x]
       /\ \/ q = TheTarget /\ taken'[q].by = Spend(Leader) /\ LeaderClaims
          \/ \E p \in Participants :
                q = Target[p] /\ taken'[q].by = Spend(p) /\ PollLeaderSpend(p)
          \/ taken'[q].by = Refund(q) /\ PollRefundWindow(q)

LEMMA GetsTakes ==
    ASSUME TypeOK, TakenType, NEW role \in Roles, Gets(role), lock' = lock,
           NEW q \in Participants
    PROVE  \/ taken'[q] = taken[q]
           \/ /\ taken[q] = Untaken /\ lock[q] # "nowhere" /\ lock' = lock
              /\ taken'[q] # Untaken
              /\ \A x \in Participants : x # q => taken'[x] = taken[x]
              /\ q = Locker(role) /\ taken'[q].by = role
<1>1. Locker(role) \in Participants
  BY RoleForms
<1>2. CASE q = Locker(role)
  <2>1. taken'[q] = [by |-> role, place |-> "mempool"]
    BY <1>1, <1>2 DEF Gets, TakenType
  <2>2. taken'[q] # Untaken
    BY <2>1 DEF Untaken
  <2>3. \A x \in Participants : x # q => taken'[x] = taken[x]
    BY <1>1, <1>2 DEF Gets, TakenType
  <2>4. QED
    BY <1>2, <2>1, <2>2, <2>3 DEF Gets
<1>3. CASE q # Locker(role)
  BY <1>1, <1>3 DEF Gets, TakenType
<1>4. QED
  BY <1>2, <1>3

LEMMA TakesStep ==
    ASSUME IInv, [Next]_vars, NEW q \in Participants
    PROVE  Takes(q)
<1>0. TypeOK /\ TakenType /\ RefundReady /\ ConfirmedSubmitted
  BY DEF IInv
<1>1. CASE UNCHANGED taken
  BY <1>1 DEF Takes
<1>2. ASSUME NEW x \in Participants, HandleSecretReveal(x) PROVE Takes(q)
  <2>1. CASE secrets[Leader] \cup {x} = Participants
    <3>1. LeaderClaims /\ AdaptAndSpend(Leader)
      BY <1>2, <2>1 DEF LeaderClaims, HandleSecretReveal
    <3>2. lock' = lock /\ (Gets(Spend(Leader)) \/ UNCHANGED taken)
      BY <3>1, CycleFacts, ClaimCases DEF Misses
    <3>3. Spend(Leader) \in Roles /\ Locker(Spend(Leader)) = TheTarget
      BY CycleFacts DEF Roles, Spend, Locker, TheTarget
    <3>4. QED
      BY <1>0, <1>1, <3>1, <3>2, <3>3, GetsTakes DEF Takes
  <2>2. CASE secrets[Leader] \cup {x} # Participants
    BY <1>1, <1>2, <2>2 DEF HandleSecretReveal, ledgers
  <2>3. QED
    BY <2>1, <2>2
<1>3. ASSUME NEW p \in Participants, PollLeaderSpend(p) PROVE Takes(q)
  <2>1. lock' = lock /\ (Gets(Spend(p)) \/ UNCHANGED taken)
    BY <1>3, ClaimCases DEF Misses, PollLeaderSpend
  <2>2. Spend(p) \in Roles /\ Locker(Spend(p)) = Target[p]
    BY DEF Roles, Spend, Locker
  <2>3. QED
    BY <1>0, <1>1, <1>3, <2>1, <2>2, GetsTakes DEF Takes
<1>4. ASSUME NEW p \in Participants, PollRefundWindow(p) PROVE Takes(q)
  <2>1. refund_tx[p].role = Refund(p)
    BY <1>0, <1>4 DEF PollRefundWindow, WatchesRefund, RefundReady, ConfirmedSubmitted
  <2>2. lock' = lock /\ (Gets(Refund(p)) \/ UNCHANGED taken)
    BY <1>4, <2>1, SubmitCases DEF Misses, PollRefundWindow
  <2>3. Refund(p) \in Roles /\ Locker(Refund(p)) = p
    BY DEF Roles, Refund, Locker
  <2>4. QED
    BY <1>0, <1>1, <1>4, <2>2, <2>3, GetsTakes DEF Takes
<1>5. ASSUME NEW x \in Participants, MineTaken(x) \/ Reorganise(x) PROVE Takes(q)
  <2>0. /\ taken[q] \in [by : Roles \cup {<<"nobody">>}, place : Places]
        /\ taken[x] \in [by : Roles \cup {<<"nobody">>}, place : Places]
    BY <1>0 DEF TakenType
  <2>1. ASSUME NEW place \in {"mempool", "block"},
               taken' = [taken EXCEPT ![x].place = place], taken[x] # Untaken
        PROVE  Takes(q)
    <3>1. taken'[x].by = taken[x].by /\ taken'[x].place = place
      BY <1>0, <2>0, <2>1 DEF TakenType
    <3>2. taken'[x] # Untaken
      BY <3>1 DEF Untaken
    <3>3. q # x => taken'[q] = taken[q]
      BY <1>0, <2>1 DEF TakenType
    <3>4. QED
      BY <2>1, <3>1, <3>2, <3>3 DEF Takes
  <2>3. taken[x].place \in {"mempool", "block"} => taken[x] # Untaken
    BY DEF Untaken
  <2>4. QED
    BY <1>1, <1>5, <2>1, <2>3 DEF MineTaken, Reorganise
<1>6. QED
  BY <1>1, <1>2, <1>3, <1>4, <1>5
  DEF Next, vars, Event, MakeBlock, ledgers, Start, Finalize, Fund, PollLockTx,
      MineLock, RaiseParams, OpenWindow

RefusedType == refused = [p \in Participants |-> refused[p]]

\* Where a step takes the session of p, and on what occasion.
Moves(p) ==
    \/ state'[p] = state[p]
    \/ /\ state[p] = "Initialized" /\ lock' = lock
       /\ state'[p] \in {"RefundAndSpendTxsSigning", "Failed"}
    \/ /\ state[p] = "RefundAndSpendTxsSigning" /\ joined = Participants
       /\ lock' = lock
       /\ \/ state'[p] = "Funding" /\ refund_tx'[p] \in FinalTxs(p, Refund(p))
          \/ state'[p] = "Panicked" /\ ~ \A role \in Roles : SameMessage(role)
    \/ /\ state[p] = "Funding" /\ now = 0
       /\ \/ state'[p] = "AwaitingLockConfirmations"
          \/ state'[p] = "Failed" /\ lock' = lock
    \/ /\ \E q \in Participants : PollLockTx(p, q) /\ confirmed[p] \cup {q} = Participants
       /\ state'[p] = IF p = Leader THEN "AwaitingSecrets" ELSE "AwaitingLeaderSpend"
    \/ p = Leader /\ LeaderClaims /\ state'[p] = "Completed"
    \/ PollLeaderSpend(p) /\ state'[p] = "Completed"
    \/ PollRefundWindow(p) /\ state'[p] \in {"Refunded", "Failed"}

\* Only p's session goes anywhere.
Alone(p) == \A q \in Participants : q = p \/ state'[q] = state[q]

LEMMA GoesAlone ==
    ASSUME TypeOK, NEW p \in Participants, NEW s, Goes(p, s)
    PROVE  state'[p] = s /\ Alone(p)
BY DEF TypeOK, Goes, Alone

LEMMA MovesStep ==
    ASSUME TypeOK, RefundType, [Next]_vars, NEW x \in Participants
    PROVE  Moves(x)
<1>1. CASE UNCHANGED state
  BY <1>1 DEF Moves
<1>2. ASSUME NEW p \in Participants, Start(p) PROVE Moves(x)
  <2>1. /\ state[p] = "Initialized" /\ lock' = lock
        /\ Goes(p, "RefundAndSpendTxsSigning") \/ Goes(p, "Failed")
    BY <1>2 DEF Start, ledgers
  <2>2. Alone(p) /\ state'[p] \in {"RefundAndSpendTxsSigning", "Failed"}
    BY <2>1, GoesAlone
  <2>3. QED
    BY <2>1, <2>2 DEF Moves, Alone
<1>3. ASSUME NEW p \in Participants, Finalize(p) PROVE Moves(x)
  <2>1. /\ state[p] = "RefundAndSpendTxsSigning" /\ joined = Participants /\ lock' = lock
        /\ \/ /\ Goes(p, "Funding")
              /\ \E tx \in FinalTxs(p, Refund(p)) : refund_tx' = [refund_tx EXCEPT ![p] = tx]
           \/ Goes(p, "Panicked") /\ ~ \A role \in Roles : SameMessage(role)
    BY <1>3 DEF Finalize, ledgers
  <2>2. CASE /\ Goes(p, "Funding")
             /\ \E tx \in FinalTxs(p, Refund(p)) : refund_tx' = [refund_tx EXCEPT ![p] = tx]
    <3>1. PICK tx \in FinalTxs(p, Refund(p)) : refund_tx' = [refund_tx EXCEPT ![p] = tx]
      BY <2>2
    <3>2. refund_tx'[p] \in FinalTxs(p, Refund(p))
      BY <3>1 DEF RefundType
    <3>3. Alone(p) /\ state'[p] = "Funding"
      BY <2>2, GoesAlone
    <3>4. QED
      BY <2>1, <3>2, <3>3 DEF Moves, Alone
  <2>3. CASE Goes(p, "Panicked") /\ ~ \A role \in Roles : SameMessage(role)
    <3>1. Alone(p) /\ state'[p] = "Panicked"
      BY <2>3, GoesAlone
    <3>2. QED
      BY <2>1, <2>3, <3>1 DEF Moves, Alone
  <2>4. QED
    BY <2>1, <2>2, <2>3
<1>4. ASSUME NEW p \in Participants, Fund(p) PROVE Moves(x)
  <2>1. /\ state[p] = "Funding" /\ now = 0
        /\ \/ Goes(p, "AwaitingLockConfirmations")
           \/ Goes(p, "Failed") /\ lock' = lock
    BY <1>4 DEF Fund
  <2>2. /\ Alone(p)
        /\ \/ state'[p] = "AwaitingLockConfirmations"
           \/ state'[p] = "Failed" /\ lock' = lock
    BY <2>1, GoesAlone
  <2>3. QED
    BY <2>1, <2>2 DEF Moves, Alone
<1>5. ASSUME NEW p \in Participants, NEW q \in Participants, PollLockTx(p, q)
      PROVE  Moves(x)
  <2>1. CASE confirmed[p] \cup {q} = Participants
    <3>1. Goes(p, IF p = Leader THEN "AwaitingSecrets" ELSE "AwaitingLeaderSpend")
      BY <1>5, <2>1 DEF PollLockTx, PassBarrier
    <3>2. /\ Alone(p)
          /\ state'[p] = IF p = Leader THEN "AwaitingSecrets" ELSE "AwaitingLeaderSpend"
      BY <3>1, GoesAlone
    <3>3. QED
      BY <1>5, <2>1, <3>2 DEF Moves, Alone
  <2>2. CASE confirmed[p] \cup {q} # Participants
    BY <1>1, <1>5, <2>2 DEF PollLockTx
  <2>3. QED
    BY <2>1, <2>2
<1>6. ASSUME NEW q \in Participants, HandleSecretReveal(q) PROVE Moves(x)
  <2>1. CASE secrets[Leader] \cup {q} = Participants
    <3>1. LeaderClaims /\ Goes(Leader, "Completed")
      BY <1>6, <2>1 DEF HandleSecretReveal, LeaderClaims
    <3>2. Alone(Leader) /\ state'[Leader] = "Completed"
      BY <3>1, GoesAlone, CycleFacts
    <3>3. QED
      BY <3>1, <3>2 DEF Moves, Alone
  <2>2. CASE secrets[Leader] \cup {q} # Participants
    BY <1>1, <1>6, <2>2 DEF HandleSecretReveal
  <2>3. QED
    BY <2>1, <2>2
<1>7. ASSUME NEW p \in Participants, PollLeaderSpend(p) PROVE Moves(x)
  <2>1. Alone(p) /\ state'[p] = "Completed"
    BY <1>7, GoesAlone DEF PollLeaderSpend
  <2>2. QED
    BY <1>7, <2>1 DEF Moves, Alone
<1>8. ASSUME NEW p \in Participants, PollRefundWindow(p) PROVE Moves(x)
  <2>1. Goes(p, "Refunded") \/ Goes(p, "Failed")
    BY <1>8 DEF PollRefundWindow
  <2>2. Alone(p) /\ state'[p] \in {"Refunded", "Failed"}
    BY <2>1, GoesAlone
  <2>3. QED
    BY <1>8, <2>2 DEF Moves, Alone
<1>9. QED
  BY <1>1, <1>2, <1>3, <1>4, <1>5, <1>6, <1>7, <1>8
  DEF Next, vars, sessions, Event, MakeBlock, MineLock, MineTaken, Reorganise,
      RaiseParams, OpenWindow

\* What joins, is signed and is submitted in a step.
SigningFacts ==
    /\ joined \subseteq joined'
    /\ \A p \in joined' : p \in joined \/ state'[p] = "RefundAndSpendTxsSigning"
    /\ \A p \in Participants :
          /\ \/ refund_tx'[p] = refund_tx[p]
             \/ refund_tx'[p] \in FinalTxs(p, Refund(p))
          /\ lock'[p] # "nowhere" =>
                \/ lock[p] # "nowhere"
                \/ /\ state[p] = "Funding" /\ now = 0
                   /\ state'[p] = "AwaitingLockConfirmations"

LEMMA LockKept ==
    ASSUME TypeOK, NEW q \in Participants, NEW place,
           lock[q] # "nowhere", lock' = [lock EXCEPT ![q] = place]
    PROVE  \A p \in Participants : lock'[p] # "nowhere" => lock[p] # "nowhere"
BY DEF TypeOK

LEMMA SigningStep ==
    ASSUME IInv, [Next]_vars
    PROVE  SigningFacts
<1>0. TypeOK /\ RefundType
  BY DEF IInv
<1>1. ASSUME joined' = joined, refund_tx' = refund_tx,
             \A p \in Participants : lock'[p] # "nowhere" => lock[p] # "nowhere"
      PROVE  SigningFacts
  BY <1>1 DEF SigningFacts
<1>2. ASSUME NEW p \in Participants, Start(p) PROVE SigningFacts
  <2>1. /\ refund_tx' = refund_tx /\ lock' = lock
        /\ \/ joined' = joined
           \/ joined' = joined \cup {p} /\ Goes(p, "RefundAndSpendTxsSigning")
    BY <1>2 DEF Start, ledgers
  <2>2. \/ joined' = joined
        \/ joined' = joined \cup {p} /\ state'[p] = "RefundAndSpendTxsSigning"
    BY <1>0, <2>1, GoesAlone
  <2>3. QED
    BY <2>1, <2>2 DEF SigningFacts
<1>3. ASSUME NEW p \in Participants, Finalize(p) PROVE SigningFacts
  <2>1. /\ joined' = joined /\ lock' = lock
        /\ \/ refund_tx' = refund_tx
           \/ \E tx \in FinalTxs(p, Refund(p)) : refund_tx' = [refund_tx EXCEPT ![p] = tx]
    BY <1>3 DEF Finalize, ledgers
  <2>2. \A q \in Participants : \/ refund_tx'[q] = refund_tx[q]
                                \/ refund_tx'[q] \in FinalTxs(q, Refund(q))
    BY <1>0, <2>1 DEF RefundType
  <2>3. QED
    BY <2>1, <2>2 DEF SigningFacts
<1>4. ASSUME NEW p \in Participants, Fund(p) PROVE SigningFacts
  <2>1. /\ state[p] = "Funding" /\ now = 0 /\ joined' = joined /\ refund_tx' = refund_tx
        /\ \/ /\ lock' = [lock EXCEPT ![p] = "mempool"]
              /\ Goes(p, "AwaitingLockConfirmations")
           \/ lock' = lock
    BY <1>4 DEF Fund
  <2>2. CASE /\ lock' = [lock EXCEPT ![p] = "mempool"]
             /\ Goes(p, "AwaitingLockConfirmations")
    <3>1. state'[p] = "AwaitingLockConfirmations"
      BY <1>0, <2>2, GoesAlone
    <3>2. \A q \in Participants \ {p} : lock'[q] = lock[q]
      BY <1>0, <2>2 DEF TypeOK
    <3>3. QED
      BY <2>1, <3>1, <3>2 DEF SigningFacts
  <2>3. QED
    BY <1>1, <2>1, <2>2
<1>5. ASSUME NEW q \in Participants, MineLock(q) \/ Reorganise(q) PROVE SigningFacts
  <2>1. /\ joined' = joined /\ refund_tx' = refund_tx
        /\ \/ lock' = lock
           \/ lock[q] # "nowhere" /\ lock' = [lock EXCEPT ![q] = "mempool"]
           \/ lock[q] # "nowhere" /\ lock' = [lock EXCEPT ![q] = "block"]
    BY <1>5 DEF MineLock, Reorganise, sessions
  <2>2. QED
    BY <1>0, <1>1, <2>1, LockKept
<1>6. ASSUME NEW q \in Participants, HandleSecretReveal(q) PROVE SigningFacts
  <2>1. lock' = lock
    BY <1>6, ClaimCases, CycleFacts DEF HandleSecretReveal, ledgers
  <2>2. QED
    BY <1>1, <1>6, <2>1 DEF HandleSecretReveal
<1>7. ASSUME NEW p \in Participants, PollLeaderSpend(p) PROVE SigningFacts
  BY <1>1, <1>7, ClaimCases DEF PollLeaderSpend
<1>8. ASSUME NEW p \in Participants, PollRefundWindow(p) PROVE SigningFacts
  BY <1>1, <1>8, SubmitCases DEF PollRefundWindow
<1>9. CASE UNCHANGED <<joined, refund_tx, lock>>
  BY <1>1, <1>9
<1>10. QED
  BY <1>2, <1>3, <1>4, <1>5, <1>6, <1>7, <1>8, <1>9
  DEF Next, vars, sessions, ledgers, Event, MakeBlock, PollLockTx, MineTaken,
      RaiseParams, OpenWindow

\* What a step lets the daemons know and, of time, the chains.
KnowingFacts ==
    /\ revealed \subseteq revealed'
    /\ \A p \in Participants :
          /\ \/ confirmed'[p] = confirmed[p]
             \/ \E q \in Participants :
                   PollLockTx(p, q) /\ confirmed'[p] = confirmed[p] \cup {q}
          /\ p \in revealed' =>
                \/ p \in revealed
                \/ \E q \in Participants :
                      PollLockTx(p, q) /\ confirmed[p] \cup {q} = Participants
          /\ \A q \in Participants :
                PollLockTx(p, q) /\ p # Leader /\ confirmed[p] \cup {q} = Participants
                    => p \in revealed' /\ state'[p] = "AwaitingLeaderSpend"
    /\ \/ secrets'[Leader] = secrets[Leader]
       \/ \E q \in Participants :
             HandleSecretReveal(q) /\ secrets'[Leader] = secrets[Leader] \cup {q}
       \/ PollLeaderSpend(Leader)
    /\ \/ now' = now
       \/ OpenWindow

LEMMA KnowingStep ==
    ASSUME TypeOK, [Next]_vars
    PROVE  KnowingFacts
<1>0. /\ confirmed \in [Participants -> SUBSET Participants]
      /\ secrets \in [Participants -> SUBSET Participants]
      /\ Leader \in Participants
  BY CycleFacts DEF TypeOK
<1> DEFINE Passes == \A p, q \in Participants :
        PollLockTx(p, q) /\ p # Leader /\ confirmed[p] \cup {q} = Participants
            => p \in revealed' /\ state'[p] = "AwaitingLeaderSpend"
<1>1. Passes
  <2> SUFFICES ASSUME NEW p \in Participants, NEW q \in Participants,
                      PollLockTx(p, q), p # Leader,
                      confirmed[p] \cup {q} = Participants
               PROVE  p \in revealed' /\ state'[p] = "AwaitingLeaderSpend"
    OBVIOUS
  <2>1. Goes(p, "AwaitingLeaderSpend") /\ revealed' = revealed \cup {p}
    BY DEF PollLockTx, PassBarrier
  <2>2. QED
    BY <2>1, GoesAlone
<1>2. ASSUME NEW p \in Participants, NEW q \in Participants, PollLockTx(p, q)
      PROVE  KnowingFacts
  <2>1. /\ confirmed' = [confirmed EXCEPT ![p] = @ \cup {q}]
        /\ secrets' = secrets /\ now' = now
        /\ \/ revealed' = revealed
           \/ revealed' = revealed \cup {p} /\ confirmed[p] \cup {q} = Participants
    BY <1>2 DEF PollLockTx, PassBarrier
  <2>2. confirmed'[p] = confirmed[p] \cup {q}
    BY <1>0, <2>1
  <2>3. \A x \in Participants : x # p => confirmed'[x] = confirmed[x]
    BY <1>0, <2>1
  <2>4. QED
    BY <1>1, <1>2, <2>1, <2>2, <2>3 DEF KnowingFacts
<1>3. ASSUME NEW q \in Participants, HandleSecretReveal(q) PROVE KnowingFacts
  <2>1. /\ secrets' = [secrets EXCEPT ![Leader] = @ \cup {q}]
        /\ confirmed' = confirmed /\ revealed' = revealed /\ now' = now
    BY <1>3 DEF HandleSecretReveal
  <2>2. secrets'[Leader] = secrets[Leader] \cup {q}
    BY <1>0, <2>1
  <2>3. QED
    BY <1>1, <1>3, <2>1, <2>2 DEF KnowingFacts
<1>4. ASSUME NEW p \in Participants, PollLeaderSpend(p) PROVE KnowingFacts
  <2>1. /\ secrets' = [secrets EXCEPT ![p] = @ \cup {Leader}]
        /\ confirmed' = confirmed /\ revealed' = revealed /\ now' = now
    BY <1>4 DEF PollLeaderSpend
  <2>2. p # Leader => secrets'[Leader] = secrets[Leader]
    BY <1>0, <2>1
  <2>3. QED
    BY <1>1, <1>4, <2>1, <2>2 DEF KnowingFacts
<1>5. CASE UNCHANGED <<confirmed, revealed, secrets>> /\ (now' = now \/ OpenWindow)
  BY <1>1, <1>5 DEF KnowingFacts
<1> HIDE DEF Passes
<1>6. QED
  BY <1>2, <1>3, <1>4, <1>5
  DEF Next, vars, sessions, Event, MakeBlock, Start, Finalize, Fund,
      PollRefundWindow, MineLock, MineTaken, Reorganise, RaiseParams, OpenWindow

-----------------------------------------------------------------------------
(* Claims and refunds are ordered, whatever the fees are.                  *)

LEMMA RoleFacts ==
    /\ \A p : Locker(Spend(p)) = Target[p] /\ Locker(Refund(p)) = p
    /\ \A p, q : /\ Spend(p) # Refund(q)
                 /\ Spend(p) = Spend(q) => p = q
                 /\ Refund(p) = Refund(q) => p = q
    /\ \A p : Untaken.by # Spend(p) /\ Untaken.by # Refund(p)
BY DEF Spend, Refund, Locker, Untaken

\* The secret that a follower finds is in the leader's spend.
LEMMA VisibleSpend ==
    ASSUME LeaderSecretVisible
    PROVE  taken[TheTarget].by = Spend(Leader)
BY DEF LeaderSecretVisible, FetchedSignature, BitcoinSignature,
       CardanoSignature, YieldsSecret

\* When a window has opened there is nothing left to see.
LEMMA NothingLate ==
    ASSUME Quiet, now > 0, NEW p \in Participants, NEW q \in Participants
    PROVE  /\ ~PollLockTx(p, q)
           /\ ~HandleSecretReveal(q)
           /\ ~PollLeaderSpend(p)
<1>1. ~PollLockTx(p, q)
  BY DEF Quiet, PollLockTx, LockTxConfirmed
<1>2. ~HandleSecretReveal(q)
  BY DEF Quiet, HandleSecretReveal
<1>3. ~PollLeaderSpend(p)
  BY VisibleSpend DEF Quiet, PollLeaderSpend
<1>4. QED
  BY <1>1, <1>2, <1>3

\* What a refund poll and a claim presume.
LEMMA RefundLate ==
    ASSUME TypeOK, NEW p \in Participants, PollRefundWindow(p)
    PROVE  now \in Nat /\ now > 0 /\ now >= Distance[p] /\ now' = now /\ Running(p)
<1>1. now \in Nat /\ Distance[p] \in Nat /\ Distance[p] > 0
  BY CycleFacts DEF TypeOK
<1>2. now >= Distance[p] /\ now' = now /\ Running(p)
  BY DEF PollRefundWindow, WatchesRefund
<1>3. QED
  BY <1>1, <1>2

LEMMA TimeStep ==
    ASSUME TypeOK, [Next]_vars
    PROVE  now \in Nat /\ now' \in Nat /\ now <= now'
<1>1. now \in Nat
  BY CycleFacts DEF TypeOK
<1>2. now' = now \/ OpenWindow
  BY KnowingStep DEF KnowingFacts
<1>3. now' = now \/ now' = now + 1
  BY <1>2 DEF OpenWindow
<1>4. QED
  BY <1>1, <1>3

\* Refusals are not forgotten.
RefusedGrows ==
    /\ RefusedType'
    /\ \A p \in Participants : refused[p] \subseteq refused'[p]

LEMMA RefusedStep ==
    ASSUME TypeOK, RefusedType, [Next]_vars
    PROVE  RefusedGrows
<1>1. ASSUME NEW p \in Participants, NEW more,
             refused' = [refused EXCEPT ![p] = @ \cup more]
      PROVE  RefusedGrows
  BY <1>1 DEF RefusedType, RefusedGrows
<1>2. CASE UNCHANGED refused
  BY <1>2 DEF RefusedType, RefusedGrows
<1>3. ASSUME NEW p \in Participants, NEW tx, Gets(tx) \/ Misses(p, tx)
      PROVE  RefusedGrows
  BY <1>1, <1>2, <1>3 DEF Gets, Misses, RefusedGrows
<1>4. ASSUME NEW p \in Participants, AdaptAndSpend(p) PROVE RefusedGrows
  <2>1. PICK tx \in FinalTxs(p, Spend(p)) : Submit(p, tx)
    BY <1>4 DEF AdaptAndSpend
  <2>2. Gets(tx.role) \/ Misses(p, tx)
    BY <2>1, SubmitCases
  <2>3. UNCHANGED refused \/ Misses(p, tx)
    BY <2>2 DEF Gets
  <2>4. QED
    BY <1>2, <1>3, <2>3
<1>5. ASSUME NEW p \in Participants, Fund(p) PROVE RefusedGrows
  <2>1. \/ UNCHANGED refused
        \/ refused' = [refused EXCEPT ![p] = @ \cup {<<"Lock", r>> : r \in BrokenByLock(p)}]
    BY <1>5 DEF Fund
  <2>2. QED
    BY <1>1, <1>2, <2>1
<1>6. ASSUME NEW q \in Participants, HandleSecretReveal(q) PROVE RefusedGrows
  BY <1>2, <1>4, <1>6, CycleFacts DEF HandleSecretReveal, ledgers
<1>7. ASSUME NEW p \in Participants, PollLeaderSpend(p) PROVE RefusedGrows
  BY <1>4, <1>7 DEF PollLeaderSpend
<1>8. ASSUME NEW p \in Participants, PollRefundWindow(p) PROVE RefusedGrows
  <2>1. Gets(refund_tx[p].role) \/ Misses(p, refund_tx[p])
    BY <1>8, SubmitCases DEF PollRefundWindow
  <2>2. UNCHANGED refused \/ Misses(p, refund_tx[p])
    BY <2>1 DEF Gets
  <2>3. QED
    BY <1>2, <1>3, <2>2
<1>9. QED
  BY <1>2, <1>5, <1>6, <1>7, <1>8
  DEF Next, vars, sessions, ledgers, Event, MakeBlock, Start, Finalize,
      PollLockTx, MineLock, MineTaken, Reorganise, RaiseParams, OpenWindow

LEMMA TakenByRoleStep ==
    ASSUME IInv, TakenByRole, [Next]_vars
    PROVE  TakenByRole'
<1> SUFFICES ASSUME NEW q \in Participants, taken'[q] # Untaken
             PROVE  lock'[q] # "nowhere" /\ Locker(taken'[q].by) = q
  BY DEF TakenByRole
<1>1. lock[q] # "nowhere" => lock'[q] # "nowhere"
  BY LockStep DEF IInv, LocksStay
<1>2. Takes(q)
  BY TakesStep
<1>3. CASE taken[q] # Untaken /\ taken'[q].by = taken[q].by
  BY <1>1, <1>3 DEF TakenByRole
<1>4. CASE /\ lock[q] # "nowhere"
           /\ \/ q = TheTarget /\ taken'[q].by = Spend(Leader)
              \/ \E p \in Participants : q = Target[p] /\ taken'[q].by = Spend(p)
              \/ taken'[q].by = Refund(q)
  BY <1>1, <1>4, RoleFacts DEF TheTarget
<1>5. QED
  BY <1>2, <1>3, <1>4 DEF Takes

LEMMA JoinedFirstStep ==
    ASSUME IInv, JoinedFirst, [Next]_vars
    PROVE  JoinedFirst'
<1>0. /\ \A p \in Participants : Moves(p)
      /\ SigningFacts
      /\ joined \subseteq Participants /\ joined' \subseteq Participants
      /\ UNCHANGED given
  BY MovesStep, SigningStep, RestStep DEF IInv, TypeOK
<1>1. ASSUME NEW p \in joined', state'[p] = "Initialized" PROVE FALSE
  <2>1. p \in joined /\ state[p] # "Initialized"
    BY <1>0, <1>1 DEF SigningFacts, JoinedFirst
  <2>2. Moves(p)
    BY <1>0, <1>1
  <2>3. QED
    BY <1>1, <2>1, <2>2 DEF Moves
<1>2. ASSUME NEW p \in Participants,
             state'[p] \in {"Initialized", "RefundAndSpendTxsSigning", "Funding"}
      PROVE  lock'[p] = "nowhere"
  <2>1. state[p] \in {"Initialized", "RefundAndSpendTxsSigning", "Funding"}
    BY <1>0, <1>2 DEF Moves
  <2>2. QED
    BY <1>0, <1>2, <2>1 DEF SigningFacts, JoinedFirst
<1>3. ASSUME NEW p \in Participants, state'[p] = "Funding" \/ lock'[p] # "nowhere"
      PROVE  joined' = Participants
  <2>1. joined = Participants
    BY <1>0, <1>3 DEF SigningFacts, JoinedFirst, Moves
  <2>2. QED
    BY <1>0, <2>1 DEF SigningFacts
<1>4. ASSUME NEW p \in Participants, state'[p] = "Panicked"
      PROVE  ~ \A role \in Roles : SameMessage(role)'
  <2>1. ~ \A role \in Roles : SameMessage(role)
    BY <1>0, <1>4 DEF Moves, JoinedFirst
  <2>2. ASSUME NEW role PROVE SameMessage(role)' <=> SameMessage(role)
    BY <1>0 DEF given, SameMessage
  <2>3. QED
    BY <2>1, <2>2
<1>5. QED
  BY <1>1, <1>2, <1>3, <1>4 DEF JoinedFirst

\* The final transactions of before can be had after a step.
LEMMA FinalTxsStay ==
    ASSUME TypeOK, [Next]_vars, NEW p, NEW role
    PROVE  FinalTxs(p, role) \subseteq FinalTxs(p, role)'
<1>1. UNCHANGED given
  BY RestStep
<1>2. params' = params \/ params = Fallback
  BY DEF Next, vars, sessions, ledgers, Event, MakeBlock, Start, Finalize, Fund,
         PollLockTx, HandleSecretReveal, PollLeaderSpend, PollRefundWindow,
         MineLock, MineTaken, Reorganise, RaiseParams, OpenWindow, TypeOK
<1>3. FetchedParams \subseteq FetchedParams'
  BY <1>2 DEF FetchedParams
<1>4. RedeemerUnits' = RedeemerUnits
  BY <1>1 DEF given, RedeemerUnits
<1>5. QED
  BY <1>1, <1>3, <1>4 DEF FinalTxs, given

LEMMA RefundSignedStep ==
    ASSUME IInv, RefundSigned, [Next]_vars
    PROVE  RefundSigned'
<1> SUFFICES ASSUME NEW p \in Participants,
                    state'[p] = "Funding" \/ lock'[p] # "nowhere"
             PROVE  refund_tx'[p] \in FinalTxs(p, Refund(p))'
  BY DEF RefundSigned
<1>1. Moves(p) /\ SigningFacts
  BY MovesStep, SigningStep DEF IInv
<1>2. \/ refund_tx'[p] \in FinalTxs(p, Refund(p))
      \/ /\ refund_tx'[p] = refund_tx[p]
         /\ state[p] = "Funding" \/ lock[p] # "nowhere"
  BY <1>1 DEF Moves, SigningFacts
<1>3. refund_tx'[p] \in FinalTxs(p, Refund(p))
  BY <1>2 DEF RefundSigned
<1>4. QED
  BY <1>3, FinalTxsStay DEF IInv

\* The leader has claimed once anybody has.
LEMMA ClaimedSubmitted ==
    ASSUME BehindBarrier, NEW q \in Participants, NEW p \in Participants,
           taken[q].by = Spend(p)
    PROVE  AllSubmitted
BY DEF BehindBarrier, Claimed

\* To pass the barrier is to have seen all locks.
LEMMA PassSubmitted ==
    ASSUME ConfirmedSubmitted, NEW p \in Participants, NEW q \in Participants,
           PollLockTx(p, q), confirmed[p] \cup {q} = Participants
    PROVE  AllSubmitted
<1>1. lock[q] # "nowhere"
  BY DEF PollLockTx, LockTxConfirmed
<1>2. ASSUME NEW x \in Participants PROVE lock[x] # "nowhere"
  BY <1>1 DEF ConfirmedSubmitted
<1>3. QED
  BY <1>2 DEF AllSubmitted

LEMMA BehindBarrierStep ==
    ASSUME IInv, BehindBarrier, [Next]_vars
    PROVE  BehindBarrier'
<1>0. /\ \A p \in Participants : Moves(p)
      /\ KnowingFacts
      /\ Leader \in Participants /\ TheTarget \in Participants
  BY MovesStep, KnowingStep, CycleFacts DEF IInv
<1>1. state'[Leader] # "AwaitingLeaderSpend"
  BY <1>0 DEF Moves, BehindBarrier
<1>2. Leader \in secrets'[Leader]
  <2>1. ~PollLeaderSpend(Leader)
    BY DEF BehindBarrier, PollLeaderSpend
  <2>2. QED
    BY <1>0, <2>1 DEF KnowingFacts, BehindBarrier
<1>3. AllSubmitted => AllSubmitted'
  BY LockStep DEF IInv, LocksStay, AllSubmitted
<1>4. ASSUME revealed' # {} PROVE AllSubmitted
  <2>1. PICK p \in revealed' : TRUE
    BY <1>4
  <2>2. p \in Participants
    BY <2>1, RestStep DEF IInv
  <2>3. CASE p \in revealed
    BY <2>3 DEF BehindBarrier
  <2>4. CASE \E q \in Participants : PollLockTx(p, q) /\ confirmed[p] \cup {q} = Participants
    BY <2>2, <2>4, PassSubmitted DEF IInv
  <2>5. QED
    BY <1>0, <2>1, <2>2, <2>3, <2>4 DEF KnowingFacts
<1>5. ASSUME NEW q \in Participants, NEW p \in Participants, taken'[q].by = Spend(p)
      PROVE  AllSubmitted
  <2>1. CASE taken'[q].by = taken[q].by
    BY <1>5, <2>1, ClaimedSubmitted
  <2>2. CASE LeaderClaims
    <3>1. revealed # {}
      BY <2>2 DEF LeaderClaims, HandleSecretReveal
    <3>2. QED
      BY <3>1 DEF BehindBarrier
  <2>3. CASE \E x \in Participants : PollLeaderSpend(x)
    BY <1>0, <2>3, VisibleSpend, ClaimedSubmitted DEF PollLeaderSpend
  <2>4. CASE taken'[q].by = Refund(q)
    BY <1>5, <2>4, RoleFacts
  <2>5. QED
    BY <2>1, <2>2, <2>3, <2>4, TakesStep DEF Takes
<1>6. ASSUME NEW p \in Followers, confirmed'[p] = Participants
      PROVE  p \in revealed'
  <2>1. p \in Participants /\ p # Leader
    BY DEF Followers
  <2>2. QED
    BY <1>0, <1>6, <2>1 DEF KnowingFacts, BehindBarrier
<1>7. ASSUME NEW p \in Followers, state'[p] \in {"AwaitingLeaderSpend", "Completed"}
      PROVE  confirmed'[p] = Participants
  <2>1. p \in Participants /\ p # Leader /\ Moves(p)
    BY <1>0 DEF Followers
  <2>2. CASE confirmed[p] = Participants
    <3>1. ~ \E q \in Participants : PollLockTx(p, q)
      BY <2>2 DEF PollLockTx
    <3>2. QED
      BY <1>0, <2>1, <2>2, <3>1 DEF KnowingFacts
  <2>3. CASE confirmed[p] # Participants
    <3>1. state[p] \notin {"AwaitingLeaderSpend", "Completed"}
      BY <2>1, <2>3 DEF BehindBarrier
    <3>2. ~PollLeaderSpend(p)
      BY <3>1 DEF PollLeaderSpend
    <3>3. PICK q \in Participants : PollLockTx(p, q) /\ confirmed[p] \cup {q} = Participants
      BY <1>7, <2>1, <3>1, <3>2 DEF Moves
    <3>4. confirmed'[p] = confirmed[p] \cup {q}
      <4>1. confirmed' = [confirmed EXCEPT ![p] = @ \cup {q}]
        BY <3>3 DEF PollLockTx
      <4>2. QED
        BY <2>1, <4>1 DEF IInv, TypeOK
    <3>5. QED
      BY <3>3, <3>4
  <2>4. QED
    BY <2>2, <2>3
<1>8. (\E q \in Participants : Claimed(q)') => AllSubmitted
  BY <1>5 DEF Claimed
<1>9. QED
  BY <1>1, <1>2, <1>3, <1>4, <1>6, <1>7, <1>8 DEF BehindBarrier

\* A transaction that has taken a lock is not another one after a step.
LEMMA TakenStays ==
    ASSUME IInv, [Next]_vars, NEW q \in Participants, NEW p,
           taken[q].by = Spend(p) \/ taken[q].by = Refund(p)
    PROVE  taken'[q].by = taken[q].by
<1>1. taken[q] # Untaken
  BY RoleFacts
<1>2. QED
  BY <1>1, TakesStep DEF Takes

LEMMA CompletedStays ==
    ASSUME IInv, BehindBarrier, [Next]_vars, NEW p \in Followers,
           state[p] = "Completed"
    PROVE  state'[p] = "Completed"
<1>1. p \in Participants /\ p # Leader /\ Moves(p)
  BY MovesStep DEF Followers, IInv
<1>2. ~ \E q \in Participants : PollLockTx(p, q)
  BY DEF BehindBarrier, PollLockTx
<1>3. ~PollRefundWindow(p)
  BY DEF PollRefundWindow, WatchesRefund, Running, Terminal
<1>4. QED
  BY <1>1, <1>2, <1>3 DEF Moves

LEMMA DoneTakingStep ==
    ASSUME IInv, BehindBarrier, Quiet, DoneTaking, [Next]_vars
    PROVE  DoneTaking'
<1>0. /\ Leader \in Participants /\ TheTarget \in Participants
      /\ TypeOK /\ TypeOK' /\ \A x \in Participants : Takes(x) /\ Moves(x)
      /\ KnowingFacts
      /\ ~PollLeaderSpend(Leader)
  BY CycleFacts, TakesStep, MovesStep, KnowingStep, InvariantStep
  DEF IInv, BehindBarrier, PollLeaderSpend
<1>1. taken[TheTarget].by = Spend(Leader) => taken'[TheTarget].by = Spend(Leader)
  BY <1>0, TakenStays
<1>2. ASSUME NEW q \in Participants, NEW p \in Participants, taken'[q].by = Spend(p)
      PROVE  /\ taken'[TheTarget].by = Spend(Leader)
             /\ IF p = Leader THEN secrets'[Leader] = Participants
                              ELSE state'[p] = "Completed"
  <2>1. CASE taken[q].by = Spend(p)
    <3>1. taken'[TheTarget].by = Spend(Leader)
      BY <1>1, <2>1 DEF DoneTaking
    <3>2. ASSUME p = Leader PROVE secrets'[Leader] = Participants
      <4>1. secrets[Leader] = Participants
        BY <2>1, <3>2 DEF DoneTaking
      <4>2. secrets[Leader] \subseteq secrets'[Leader]
        BY <1>0 DEF KnowingFacts
      <4>3. QED
        BY <1>0, <4>1, <4>2 DEF TypeOK
    <3>3. ASSUME p # Leader PROVE state'[p] = "Completed"
      BY <2>1, <3>3, CompletedStays DEF DoneTaking, Followers
    <3>4. QED
      BY <3>1, <3>2, <3>3
  <2>2. CASE q = TheTarget /\ taken'[q].by = Spend(Leader) /\ LeaderClaims
    <3>1. p = Leader
      BY <1>2, <2>2, RoleFacts
    <3>2. PICK x \in Participants :
              /\ secrets' = [secrets EXCEPT ![Leader] = @ \cup {x}]
              /\ secrets[Leader] \cup {x} = Participants
      BY <2>2 DEF LeaderClaims, HandleSecretReveal
    <3>3. secrets'[Leader] = Participants
      BY <1>0, <3>2 DEF TypeOK
    <3>4. QED
      BY <2>2, <3>1, <3>3
  <2>3. ASSUME NEW x \in Participants, taken'[q].by = Spend(x), PollLeaderSpend(x)
        PROVE  p # Leader /\ taken'[TheTarget].by = Spend(Leader)
                   /\ state'[p] = "Completed"
    <3>1. x = p
      BY <1>2, <2>3, RoleFacts
    <3>2. p # Leader
      BY <1>0, <2>3, <3>1
    <3>3. taken[TheTarget].by = Spend(Leader)
      BY <2>3, VisibleSpend DEF PollLeaderSpend
    <3>4. state'[p] = "Completed"
      BY <1>0, <2>3, <3>1, GoesAlone DEF PollLeaderSpend
    <3>5. QED
      BY <1>1, <3>2, <3>3, <3>4
  <2>4. taken'[q].by # Refund(q)
    BY <1>2, RoleFacts
  <2>5. QED
    BY <1>0, <1>2, <2>1, <2>2, <2>3, <2>4 DEF Takes
<1>3. ASSUME NEW q \in Participants, NEW p \in Participants, taken'[q].by = Refund(p)
      PROVE  now' >= Distance[p] /\ state'[p] \in Terminal
  <2>1. CASE taken[q].by = Refund(p)
    <3>1. now >= Distance[p] /\ state[p] \in Terminal
      BY <2>1 DEF DoneTaking
    <3>2. /\ Distance[p] \in Nat /\ Distance[p] > 0
          /\ now \in Nat /\ now' \in Nat /\ now <= now'
      BY <1>0, CycleFacts, TimeStep
    <3>3. now > 0 /\ now' >= Distance[p]
      BY <3>1, <3>2
    <3>4. ~ \E x \in Participants : PollLockTx(p, x)
      BY <3>3, NothingLate
    <3>5. state'[p] \in Terminal
      BY <1>0, <3>1, <3>4 DEF Moves, Terminal
    <3>6. QED
      BY <3>3, <3>5
  <2>2. CASE taken[q].by # Refund(p)
    <3>1. taken'[q].by = Refund(q) /\ PollRefundWindow(q)
      BY <1>0, <1>3, <2>2, RoleFacts DEF Takes
    <3>2. q = p
      BY <1>3, <3>1, RoleFacts
    <3>3. Goes(p, "Refunded") \/ Goes(p, "Failed")
      BY <3>1, <3>2 DEF PollRefundWindow
    <3>4. state'[p] \in Terminal
      BY <1>0, <3>3, GoesAlone DEF Terminal
    <3>5. QED
      BY <1>0, <3>1, <3>2, <3>4, RefundLate
  <2>3. QED
    BY <2>1, <2>2
<1>4. QED
  BY <1>2, <1>3 DEF DoneTaking

LEMMA InTimeStep ==
    ASSUME IInv, JoinedFirst, InTime, [Next]_vars
    PROVE  InTime'
<1> SUFFICES ASSUME now' = 0, NEW p \in Participants
             PROVE  /\ state'[p] \in {"Refunded", "Failed"} => lock'[p] = "nowhere"
                    /\ p # Leader /\ confirmed'[p] = Participants =>
                          state'[p] \in {"AwaitingLeaderSpend", "Completed"}
  BY DEF InTime
<1>0. now = 0
  BY TimeStep DEF IInv
<1>1. Moves(p) /\ SigningFacts /\ KnowingFacts
  BY MovesStep, SigningStep, KnowingStep DEF IInv
<1>2. ~PollRefundWindow(p)
  BY <1>0, RefundLate DEF IInv
<1>3. ASSUME state'[p] \in {"Refunded", "Failed"} PROVE lock'[p] = "nowhere"
  <2>1. CASE state'[p] = state[p]
    BY <1>0, <1>1, <1>3, <2>1 DEF InTime, SigningFacts
  <2>2. CASE state[p] \in {"Initialized", "Funding"} /\ lock' = lock
    BY <2>2 DEF JoinedFirst
  <2>3. QED
    BY <1>1, <1>2, <1>3, <2>1, <2>2 DEF Moves
<1>4. ASSUME p # Leader, confirmed'[p] = Participants
      PROVE  state'[p] \in {"AwaitingLeaderSpend", "Completed"}
  <2>1. CASE confirmed[p] = Participants
    <3>1. state[p] \in {"AwaitingLeaderSpend", "Completed"}
      BY <1>0, <1>4, <2>1 DEF InTime
    <3>2. QED
      BY <1>1, <1>2, <1>4, <3>1 DEF Moves
  <2>2. CASE confirmed[p] # Participants
    BY <1>1, <1>4, <2>2 DEF KnowingFacts
  <2>3. QED
    BY <2>1, <2>2
<1>5. QED
  BY <1>3, <1>4

\* The leader's spend in a block is there to see for all that look.
LEMMA SpendVisible ==
    ASSUME TypeOK, TakenType, taken[TheTarget].by = Spend(Leader),
           taken[TheTarget].place # "mempool"
    PROVE  LeaderSecretVisible
<1>1. TheTarget \in Participants /\ taken[TheTarget] # Untaken
  BY CycleFacts, RoleFacts
<1>2. taken[TheTarget].place = "block"
  BY <1>1, TakenForms DEF Places
<1>3. SeemsSpent(TRUE)
  BY <1>1 DEF SeemsSpent, BitcoinOutputSpent, CardanoOutputSpent
<1>4. Spend(Leader) \in FetchedSignature(FALSE)
  BY <1>2 DEF FetchedSignature, BitcoinSignature, CardanoSignature, UsedRefundRedeemer
<1>5. QED
  BY <1>3, <1>4 DEF LeaderSecretVisible, YieldsSecret

\* When a window opens, all have seen what was submitted.
LEMMA AllSeen ==
    ASSUME IInv, JoinedFirst, OpenWindow, NEW p \in Participants,
           NEW q \in Participants, lock[q] # "nowhere"
    PROVE  q \in confirmed[p] /\ (Running(p) \/ state[p] \in Terminal)
<1>1. LockTxConfirmed(q)
  BY DEF OpenWindow, IInv, TypeOK, Places, LockTxConfirmed
<1>2. state[p] # "Initialized" /\ state[p] # "Panicked"
  BY DEF JoinedFirst, IInv, SignedAlike
<1>3. Running(p) \/ state[p] \in Terminal
  BY <1>2 DEF Running
<1>4. ~Behind(p)
  BY DEF OpenWindow
<1>5. QED
  BY <1>1, <1>3, <1>4 DEF Behind

LEMMA QuietStep ==
    ASSUME IInv, JoinedFirst, BehindBarrier, Quiet, [Next]_vars
    PROVE  Quiet'
<1> SUFFICES ASSUME now' > 0
             PROVE  /\ \A p, q \in Participants : lock'[q] # "nowhere" => q \in confirmed'[p]
                    /\ Running(Leader)' => revealed' \subseteq secrets'[Leader]
                    /\ \A p \in Participants :
                          state'[p] = "AwaitingLeaderSpend" =>
                              taken'[TheTarget].by # Spend(Leader)
  BY DEF Quiet, Running, TheTarget
<1>0. /\ Leader \in Participants /\ TheTarget \in Participants
      /\ \A p \in Participants : Moves(p)
      /\ SigningFacts /\ KnowingFacts /\ Takes(TheTarget)
      /\ now \in Nat /\ now' \in Nat
      /\ revealed' \subseteq Participants
  BY CycleFacts, MovesStep, SigningStep, KnowingStep, TakesStep, TimeStep, RestStep
  DEF IInv
<1>1. CASE now > 0
  <2>0. \A p, q \in Participants :
            ~PollLockTx(p, q) /\ ~HandleSecretReveal(q) /\ ~PollLeaderSpend(p)
    BY <1>1, NothingLate
  <2>1. ASSUME NEW p \in Participants, NEW q \in Participants, lock'[q] # "nowhere"
        PROVE  q \in confirmed'[p]
    <3>1. lock[q] # "nowhere"
      BY <1>0, <1>1, <2>1 DEF SigningFacts
    <3>2. QED
      BY <1>0, <1>1, <2>0, <3>1 DEF Quiet, KnowingFacts
  <2>2. ASSUME Running(Leader)' PROVE revealed' \subseteq secrets'[Leader]
    <3>1. revealed' = revealed /\ secrets'[Leader] = secrets[Leader]
      BY <1>0, <2>0 DEF KnowingFacts
    <3>2. CASE Running(Leader)
      BY <1>1, <3>1, <3>2 DEF Quiet
    <3>3. CASE state[Leader] = "Initialized"
      <4>1. lock[Leader] = "nowhere"
        BY <1>0, <3>3 DEF JoinedFirst
      <4>2. revealed = {}
        BY <1>0, <4>1 DEF BehindBarrier, AllSubmitted
      <4>3. QED
        BY <3>1, <4>2
    <3>4. state[Leader] = "Initialized" \/ Running(Leader)
      <4>1. Moves(Leader)
        BY <1>0
      <4>2. state'[Leader] \notin Terminal \cup {"Initialized", "Panicked"}
        BY <2>2 DEF Running
      <4>3. ASSUME state[Leader] \in Terminal \cup {"Panicked"} PROVE FALSE
        <5>1. ~ \E q \in Participants : PollLockTx(Leader, q)
          BY <1>0, <2>0
        <5>2. state'[Leader] \in Terminal \/ state'[Leader] = state[Leader]
          BY <4>1, <4>3, <5>1 DEF Moves, Terminal
        <5>3. QED
          BY <4>2, <4>3, <5>2
      <4>4. QED
        BY <4>3 DEF Running
    <3>5. QED
      BY <3>2, <3>3, <3>4
  <2>3. ASSUME NEW p \in Participants, state'[p] = "AwaitingLeaderSpend"
        PROVE  taken'[TheTarget].by # Spend(Leader)
    <3>1. state[p] = "AwaitingLeaderSpend"
      BY <1>0, <2>0, <2>3 DEF Moves
    <3>2. taken[TheTarget].by # Spend(Leader)
      BY <1>1, <3>1 DEF Quiet
    <3>3. ~LeaderClaims
      BY <2>0 DEF LeaderClaims
    <3>4. QED
      BY <1>0, <2>0, <3>2, <3>3, RoleFacts DEF Takes
  <2>4. QED
    BY <2>1, <2>2, <2>3
<1>2. CASE now = 0
  <2>1. OpenWindow /\ UNCHANGED <<sessions, ledgers>>
    BY <1>0, <1>2 DEF KnowingFacts, OpenWindow
  <2>2. ASSUME NEW p \in Participants, NEW q \in Participants, lock[q] # "nowhere"
        PROVE  q \in confirmed[p]
    BY <2>1, <2>2, AllSeen
  <2>3. Running(Leader) => revealed \subseteq secrets[Leader]
    BY <1>0, <2>1 DEF OpenWindow, Behind
  <2>4. ASSUME NEW p \in Participants, state[p] = "AwaitingLeaderSpend"
        PROVE  taken[TheTarget].by # Spend(Leader)
    <3>1. ~LeaderSecretVisible /\ taken[TheTarget].place # "mempool"
      BY <1>0, <2>1, <2>4 DEF OpenWindow, Behind
    <3>2. QED
      BY <3>1, SpendVisible DEF IInv
  <2>5. QED
    BY <2>1, <2>2, <2>3, <2>4 DEF sessions, ledgers, Running
<1>3. QED
  BY <1>0, <1>1, <1>2

LEMMA OrderedInit == Init => OrderedInv /\ RefusedType
<1> SUFFICES ASSUME Init PROVE OrderedInv /\ RefusedType
  OBVIOUS
<1>1. /\ state = [p \in Participants |-> "Initialized"]
      /\ lock = [p \in Participants |-> "nowhere"]
      /\ taken = [p \in Participants |-> Untaken]
      /\ secrets = [p \in Participants |-> {p}]
      /\ confirmed = [p \in Participants |-> {}]
      /\ refused = [p \in Participants |-> {}]
      /\ joined = {} /\ revealed = {} /\ now = 0
  BY DEF Init
<1>2. TakenByRole /\ JoinedFirst /\ RefundSigned /\ InTime /\ Quiet /\ RefusedType
  BY <1>1, CycleFacts
  DEF TakenByRole, JoinedFirst, RefundSigned, InTime, Quiet, RefusedType
<1>3. BehindBarrier /\ DoneTaking
  BY <1>1, CycleFacts, RoleFacts DEF BehindBarrier, DoneTaking, Claimed, Followers
<1>4. QED
  BY <1>2, <1>3 DEF OrderedInv

LEMMA OrderedStep ==
    ASSUME IInv, OrderedInv, [Next]_vars
    PROVE  OrderedInv'
BY TakenByRoleStep, JoinedFirstStep, RefundSignedStep, BehindBarrierStep,
   DoneTakingStep, InTimeStep, QuietStep DEF OrderedInv

LEMMA OrderedHolds == FairSpec => [](IInv /\ OrderedInv /\ RefusedType)
<1>1. Init => IInv /\ OrderedInv /\ RefusedType
  BY InvariantInit, OrderedInit
<1>2. IInv /\ OrderedInv /\ RefusedType /\ [Next]_vars
          => IInv' /\ OrderedInv' /\ RefusedType'
  BY InvariantStep, OrderedStep, RefusedStep DEF IInv, RefusedGrows
<1>3. QED
  BY <1>1, <1>2, PTL DEF FairSpec

-----------------------------------------------------------------------------
(* The two kinds of chain implement the atomic swap.                       *)

\* One lock is submitted at a time, and apart from what takes a lock.
LEMMA LockMoves ==
    ASSUME IInv, JoinedFirst, [Next]_vars
    PROVE  \/ \A q \in Participants : lock'[q] = "nowhere" <=> lock[q] = "nowhere"
           \/ /\ taken' = taken /\ now' = now
              /\ \E p \in Participants :
                    lock[p] = "nowhere" /\ lock' = [lock EXCEPT ![p] = "mempool"]
<1>1. CASE \E p \in Participants : Fund(p)
  <2>1. PICK p \in Participants : Fund(p)
    BY <1>1
  <2>2. lock[p] = "nowhere" /\ taken' = taken /\ now' = now
    BY <2>1 DEF Fund, JoinedFirst
  <2>3. lock' = [lock EXCEPT ![p] = "mempool"] \/ lock' = lock
    BY <2>1 DEF Fund
  <2>4. QED
    BY <2>2, <2>3
<1>2. CASE ~ \E p \in Participants : Fund(p)
  <2>1. ASSUME NEW q \in Participants, lock'[q] # "nowhere", lock[q] = "nowhere"
        PROVE  FALSE
    <3>1. state[q] = "Funding" /\ state'[q] = "AwaitingLockConfirmations"
      BY <2>1, SigningStep DEF SigningFacts
    <3>2. lock' # lock /\ state' # state
      BY <2>1, <3>1
    <3>3. ASSUME NEW x \in Participants, HandleSecretReveal(x) PROVE lock' = lock
      BY <3>3, ClaimCases, CycleFacts DEF HandleSecretReveal, ledgers
    <3>4. ASSUME NEW p \in Participants, PollLeaderSpend(p) PROVE lock' = lock
      BY <3>4, ClaimCases DEF PollLeaderSpend
    <3>5. ASSUME NEW p \in Participants, PollRefundWindow(p) PROVE lock' = lock
      BY <3>5, SubmitCases DEF PollRefundWindow
    <3>6. lock' = lock \/ state' = state
      BY <1>2, <3>3, <3>4, <3>5
      DEF Next, vars, sessions, ledgers, Event, MakeBlock, Start, Finalize,
          PollLockTx, MineLock, MineTaken, Reorganise, RaiseParams, OpenWindow
    <3>7. QED
      BY <3>2, <3>6
  <2>2. \A q \in Participants : lock[q] # "nowhere" => lock'[q] # "nowhere"
    BY LockStep DEF IInv, LocksStay
  <2>3. QED
    BY <2>1, <2>2
<1>3. QED
  BY <1>1, <1>2

\* What the ledgers say of the deposit of q.
Deposit(q) ==
    CASE lock[q] = "nowhere" -> "absent"
      [] lock[q] # "nowhere" /\ taken[q] = Untaken -> "locked"
      [] taken[q].by = Refund(q) -> "refunded"
      [] OTHER -> "claimed"

Deposits == [q \in Participants |-> Deposit(q)]

LEMMA DepositCases ==
    ASSUME TakenByRole, NEW q \in Participants
    PROVE  /\ lock[q] = "nowhere" => Deposit(q) = "absent"
           /\ lock[q] # "nowhere" /\ taken[q] = Untaken => Deposit(q) = "locked"
           /\ \A p : taken[q].by = Spend(p) => Deposit(q) = "claimed"
           /\ taken[q].by = Refund(q) => Deposit(q) = "refunded"
<1>1. CASE lock[q] = "nowhere"
  <2>1. taken[q] = Untaken
    BY <1>1 DEF TakenByRole
  <2>2. Deposit(q) = "absent"
    BY <1>1, <2>1, RoleFacts DEF Deposit
  <2>3. QED
    BY <1>1, <2>1, <2>2, RoleFacts
<1>2. CASE lock[q] # "nowhere" /\ taken[q] = Untaken
  <2>1. Deposit(q) = "locked"
    BY <1>2, RoleFacts DEF Deposit
  <2>2. QED
    BY <1>2, <2>1, RoleFacts
<1>3. CASE lock[q] # "nowhere" /\ taken[q] # Untaken
  BY <1>3, RoleFacts DEF Deposit
<1>4. QED
  BY <1>1, <1>2, <1>3

LEMMA DepositSame ==
    ASSUME NEW q \in Participants, lock'[q] = "nowhere" <=> lock[q] = "nowhere",
           taken'[q].by = taken[q].by, taken'[q] = Untaken <=> taken[q] = Untaken
    PROVE  Deposit(q)' = Deposit(q)
BY DEF Deposit

\* A step takes one deposit along AtomicSwap, or none.
LEMMA LedgersStep ==
    ASSUME IInv, OrderedInv, [Next]_vars
    PROVE  [Ledgers!Next]_(Ledgers!vars)
<1> USE DEF OrderedInv
<1>0. /\ Leader \in Participants /\ TheTarget \in Participants
      /\ TakenByRole' /\ BehindBarrier'
      /\ \A p \in Participants : Target[p] \in Participants
  BY CycleFacts, OrderedStep
<1> SUFFICES \/ Ledgers!Next
             \/ Deposits' = Deposits /\ now' = now
  BY DEF Ledgers!vars, Deposits, Deposit
<1>1. ASSUME NEW q \in Participants, NEW p \in Participants, now' = now,
             taken[q] = Untaken, lock[q] # "nowhere", lock' = lock,
             \A x \in Participants : x # q => taken'[x] = taken[x],
             \/ p = Leader /\ AllSubmitted
             \/ taken[TheTarget].by = Spend(Leader),
             q = Target[p], taken'[q].by = Spend(p)
      PROVE  Ledgers!Next
  <2>1. Deposits' = [Deposits EXCEPT ![Target[p]] = "claimed"]
    <3>1. \A x \in Participants : x # q => Deposit(x)' = Deposit(x)
      BY <1>1, DepositSame
    <3>2. Deposit(q)' = "claimed"
      <4>1. taken'[q] # Untaken /\ lock'[q] # "nowhere"
        BY <1>1, RoleFacts
      <4>2. taken'[q].by # Refund(q)
        BY <1>1, RoleFacts
      <4>3. QED
        BY <4>1, <4>2 DEF Deposit
    <3>3. QED
      BY <1>1, <3>1, <3>2 DEF Deposits
  <2>2. Deposits[Target[p]] = "locked"
    BY <1>1, DepositCases DEF Deposits
  <2>3. CASE p = Leader /\ AllSubmitted
    <3>1. \A x \in Participants : Deposits[x] # "absent"
      BY <2>3 DEF AllSubmitted, Deposits, Deposit
    <3>2. Ledgers!LeaderClaim
      BY <1>1, <2>1, <2>2, <2>3, <3>1 DEF Ledgers!LeaderClaim, Deposits, Deposit
    <3>3. QED
      BY <3>2 DEF Ledgers!Next
  <2>4. CASE taken[TheTarget].by = Spend(Leader)
    <3>1. Deposits[Target[Leader]] = "claimed"
      BY <1>0, <2>4, DepositCases DEF Deposits, TheTarget
    <3>2. Ledgers!FollowerClaim(p)
      BY <1>1, <2>1, <2>2, <3>1 DEF Ledgers!FollowerClaim, Deposits, Deposit
    <3>3. QED
      BY <3>2 DEF Ledgers!Next
  <2>5. QED
    BY <1>1, <2>3, <2>4
<1>2. ASSUME NEW q \in Participants, now' = now,
             taken[q] = Untaken, lock[q] # "nowhere", lock' = lock,
             \A x \in Participants : x # q => taken'[x] = taken[x],
             now >= Distance[q], taken'[q].by = Refund(q)
      PROVE  Ledgers!Next
  <2>1. Deposits' = [Deposits EXCEPT ![q] = "refunded"]
    <3>1. \A x \in Participants : x # q => Deposit(x)' = Deposit(x)
      BY <1>2, DepositSame
    <3>2. Deposit(q)' = "refunded"
      <4>1. taken'[q] # Untaken /\ lock'[q] # "nowhere"
        BY <1>2, RoleFacts
      <4>2. QED
        BY <1>2, <4>1 DEF Deposit
    <3>3. QED
      BY <3>1, <3>2 DEF Deposits
  <2>2. Deposits[q] = "locked"
    BY <1>2, DepositCases DEF Deposits
  <2>3. Ledgers!Refund(q)
    BY <1>2, <2>1, <2>2 DEF Ledgers!Refund, Deposits, Deposit
  <2>4. QED
    BY <2>3 DEF Ledgers!Next
<1>3. ASSUME NEW p \in Participants, lock[p] = "nowhere", taken' = taken, now' = now,
             lock' = [lock EXCEPT ![p] = "mempool"]
      PROVE  Ledgers!Next
  <2>1. taken[p] = Untaken /\ lock \in [Participants -> Places]
    BY <1>3 DEF TakenByRole, IInv, TypeOK
  <2>2. Deposits' = [Deposits EXCEPT ![p] = "locked"]
    <3>1. \A x \in Participants : x # p => Deposit(x)' = Deposit(x)
      BY <1>3, <2>1, DepositSame
    <3>2. Deposit(p)' = "locked"
      BY <1>3, <2>1, RoleFacts DEF Deposit
    <3>3. QED
      BY <3>1, <3>2 DEF Deposits
  <2>3. Deposits[p] = "absent"
    BY <1>3, DepositCases DEF Deposits
  <2>4. Ledgers!Lock(p)
    BY <1>3, <2>2, <2>3 DEF Ledgers!Lock, Deposits, Deposit
  <2>5. QED
    BY <2>4 DEF Ledgers!Next
<1>4. CASE \E q \in Participants :
              ~(taken'[q].by = taken[q].by /\ (taken'[q] = Untaken <=> taken[q] = Untaken))
  <2>1. PICK q \in Participants :
            /\ taken[q] = Untaken /\ lock[q] # "nowhere" /\ lock' = lock
            /\ \A x \in Participants : x # q => taken'[x] = taken[x]
            /\ \/ q = TheTarget /\ taken'[q].by = Spend(Leader) /\ LeaderClaims
               \/ \E p \in Participants :
                     q = Target[p] /\ taken'[q].by = Spend(p) /\ PollLeaderSpend(p)
               \/ taken'[q].by = Refund(q) /\ PollRefundWindow(q)
    BY <1>4, TakesStep DEF Takes
  <2>2. CASE q = TheTarget /\ taken'[q].by = Spend(Leader) /\ LeaderClaims
    <3>1. now' = now /\ revealed # {}
      BY <2>2 DEF LeaderClaims, HandleSecretReveal
    <3>2. AllSubmitted
      BY <3>1 DEF BehindBarrier
    <3>3. QED
      BY <1>0, <1>1, <2>1, <2>2, <3>1, <3>2 DEF TheTarget
  <2>3. ASSUME NEW p \in Participants, q = Target[p], taken'[q].by = Spend(p),
               PollLeaderSpend(p)
        PROVE  Ledgers!Next
    <3>1. now' = now /\ taken[TheTarget].by = Spend(Leader)
      BY <2>3, VisibleSpend DEF PollLeaderSpend
    <3>2. QED
      BY <1>1, <2>1, <2>3, <3>1
  <2>4. CASE taken'[q].by = Refund(q) /\ PollRefundWindow(q)
    BY <1>2, <2>1, <2>4 DEF PollRefundWindow
  <2>5. QED
    BY <2>1, <2>2, <2>3, <2>4
<1>5. CASE /\ \A q \in Participants :
                 taken'[q].by = taken[q].by /\ (taken'[q] = Untaken <=> taken[q] = Untaken)
           /\ \A q \in Participants : lock'[q] = "nowhere" <=> lock[q] = "nowhere"
  <2>1. Deposits' = Deposits
    BY <1>5, DepositSame DEF Deposits
  <2>2. CASE now' = now
    BY <2>1, <2>2
  <2>3. CASE OpenWindow
    BY <2>1, <2>3 DEF OpenWindow, Ledgers!Next, Ledgers!OpenWindow, Deposits, Deposit
  <2>4. QED
    BY <2>2, <2>3, KnowingStep DEF KnowingFacts, IInv
<1>6. QED
  BY <1>3, <1>4, <1>5, LockMoves

\* Each run of the chains is one of an atomic swap: only when all have locked
\* does the leader claim, the others only after it, and an owner takes back
\* only what is still there, behind its window (daemon.rs:365-425, spend.rs:225,
\* refund.rs:186).
THEOREM SwapOnBothChains == FairSpec => SwapOnLedgers
<1>1. Init => Ledgers!Init
  <2> SUFFICES ASSUME Init PROVE Ledgers!Init
    OBVIOUS
  <2>1. now = 0 /\ \A q \in Participants : Deposit(q) = "absent"
    BY RoleFacts DEF Init, Deposit
  <2>2. QED
    BY <2>1 DEF Ledgers!Init, Deposit
<1>2. IInv /\ OrderedInv /\ [Next]_vars => [Ledgers!Next]_(Ledgers!vars)
  BY LedgersStep
<1>3. QED
  BY <1>1, <1>2, OrderedHolds, PTL DEF FairSpec, SwapOnLedgers, Ledgers!Spec

-----------------------------------------------------------------------------
(* What a node can find wrong with a transaction that was signed in time.  *)

\* The fields of a transaction that spends a lock.
Fields(role, spends, pays, fee, locktime, budget) ==
    [role |-> role, spends |-> spends, pays |-> pays, fee |-> fee,
     locktime |-> locktime, budget |-> budget]

\* From when on a transaction of a role is valid.
Locktime(role) == IF role[1] = "Refund" THEN Distance[role[2]] ELSE 0

LEMMA UnsignedFields ==
    ASSUME NEW swp \in Swaps, NEW t \in [bitcoin_fee : Nat, cardano_fee : Nat],
           NEW role \in Roles
    PROVE  LET lck == LockTx(swp, t, Locker(role))
               amount == swp.amount[Locker(role)]
           IN  /\ amount \in Nat /\ lck.pays \in Int
               /\ \E pays \in Int, fee \in Nat :
                     /\ Unsigned(swp, t, role) =
                           Fields(role, lck, pays, fee, Locktime(role), NoBudget)
                     /\ IF swp.chain[Locker(role)] = "Bitcoin"
                        THEN lck.pays = amount /\ pays = amount - t.bitcoin_fee
                        ELSE pays + fee = lck.pays
<1> DEFINE q == Locker(role)
           lck == LockTx(swp, t, q)
           amount == swp.amount[q]
           bf == t.bitcoin_fee
           cf == t.cardano_fee
<1>1. /\ q \in Participants /\ role[2] \in Participants
      /\ \/ role = Refund(role[2]) /\ role[1] = "Refund"
         \/ role = Spend(role[2]) /\ role[1] = "Spend"
  BY RoleForms
<1>2. amount \in Nat /\ bf \in Nat /\ cf \in Nat /\ SpendFee \in Nat
  BY <1>1, ChainsAssumption, TransactionsAssumption
<1>3. CASE swp.chain[q] = "Bitcoin"
  <2>1. lck.pays = amount
    BY <1>3 DEF LockTx, BitcoinLockTx
  <2>2. Unsigned(swp, t, role) =
            Fields(role, lck, amount - bf, NoFee, Locktime(role), NoBudget)
    <3>1. CASE role[1] = "Refund"
      <4>1. q = role[2]
        BY <3>1 DEF Locker
      <4>2. QED
        BY <1>1, <1>3, <3>1, <4>1
        DEF Unsigned, UnsignedRefund, Spending, BitcoinRefundTx, Fields, Locktime
    <3>2. CASE role[1] = "Spend"
      <4>1. q = Target[role[2]]
        BY <3>2 DEF Locker
      <4>2. QED
        BY <1>1, <1>3, <3>2, <4>1
        DEF Unsigned, UnsignedSpend, Spending, BitcoinSpendTx, Fields, Locktime
    <3>3. QED
      BY <1>1, <3>1, <3>2
  <2>3. amount - bf \in Int /\ NoFee \in Nat
    BY <1>2 DEF NoFee
  <2> HIDE DEF q, lck, amount, bf
  <2>4. QED
    BY <1>2, <1>3, <2>1, <2>2, <2>3 DEF q, lck, amount, bf
<1>4. CASE swp.chain[q] # "Bitcoin"
  <2>1. lck.pays = amount - cf
    BY <1>4 DEF LockTx, CardanoLockTx
  <2>2. CASE role[1] = "Refund"
    <3>1. q = role[2]
      BY <2>2 DEF Locker
    <3>2. Unsigned(swp, t, role) =
              Fields(role, lck, amount - 2 * cf, cf, Locktime(role), NoBudget)
      BY <1>1, <1>4, <2>2, <3>1
      DEF Unsigned, UnsignedRefund, Spending, CardanoRefundTx, Fields, Locktime
    <3> HIDE DEF q, lck, amount, cf
    <3>3. lck.pays \in Int /\ amount - 2 * cf \in Int /\ (amount - 2 * cf) + cf = lck.pays
      BY <1>2, <2>1
    <3>4. QED
      BY <1>2, <1>4, <3>2, <3>3 DEF q, lck, amount
  <2>3. CASE role[1] = "Spend"
    <3>1. q = Target[role[2]]
      BY <2>3 DEF Locker
    <3>2. Unsigned(swp, t, role) =
              Fields(role, lck, lck.pays - SpendFee, SpendFee, Locktime(role), NoBudget)
      BY <1>1, <1>4, <2>3, <3>1
      DEF Unsigned, UnsignedSpend, Spending, CardanoSpendTx, Fields, Locktime
    <3> HIDE DEF q, lck, amount, cf
    <3>3. /\ lck.pays \in Int /\ lck.pays - SpendFee \in Int
          /\ (lck.pays - SpendFee) + SpendFee = lck.pays
      BY <1>2, <2>1
    <3>4. QED
      BY <1>2, <1>4, <3>2, <3>3 DEF q, lck, amount
  <2>4. QED
    BY <1>1, <2>2, <2>3
<1>5. QED
  BY <1>3, <1>4

\* What is signed spends the lock of its funder.
LEMMA UnsignedSpends ==
    ASSUME NEW swp \in Swaps, NEW t \in [bitcoin_fee : Nat, cardano_fee : Nat],
           NEW role \in Roles
    PROVE  Unsigned(swp, t, role).spends = LockTx(swp, t, Locker(role))
<1> DEFINE lck == LockTx(swp, t, Locker(role))
<1>1. PICK pays \in Int, fee \in Nat :
          Unsigned(swp, t, role) = Fields(role, lck, pays, fee, Locktime(role), NoBudget)
  BY UnsignedFields
<1>2. QED
  BY <1>1 DEF Fields

LEMMA UnitsFields ==
    ASSUME NEW role, NEW spends, NEW pays, NEW paid, NEW locktime, NEW none,
           NEW budget, NEW fee
    PROVE  WithUnits(Fields(role, spends, pays, paid, locktime, none), budget, fee)
               = Fields(role, spends, pays + paid - fee, fee, locktime, budget)
<1> DEFINE tx == Fields(role, spends, pays, paid, locktime, none)
           rest == pays + paid - fee
<1>1. tx.pays = pays /\ tx.fee = paid
  BY DEF Fields
<1>2. tx.pays + tx.fee - fee = rest
  BY <1>1
<1> HIDE DEF rest
<1>3. [tx EXCEPT !.pays = rest] = Fields(role, spends, rest, paid, locktime, none)
  BY DEF Fields
<1>4. [Fields(role, spends, rest, paid, locktime, none) EXCEPT !.fee = fee]
          = Fields(role, spends, rest, fee, locktime, none)
  BY DEF Fields
<1>5. [Fields(role, spends, rest, fee, locktime, none) EXCEPT !.budget = budget]
          = Fields(role, spends, rest, fee, locktime, budget)
  BY DEF Fields
<1>6. WithUnits(tx, budget, fee)
          = [[[tx EXCEPT !.pays = rest] EXCEPT !.fee = fee] EXCEPT !.budget = budget]
  BY <1>2 DEF WithUnits
<1>7. QED
  BY <1>3, <1>4, <1>5, <1>6 DEF rest

\* Numbers have a width, and fees a value.
LEMMA SizeType ==
    ASSUME NEW tx
    PROVE  Size(tx) \in Nat
<1>1. ASSUME NEW n PROVE Width(n) \in Nat
  <2>1. IsFiniteSet({s \in WidthSteps : s <= n})
    BY TransactionsAssumption, FS_Subset
  <2>2. Cardinality({s \in WidthSteps : s <= n}) \in Nat
    BY <2>1, FS_CardinalityType
  <2>3. QED
    BY <2>2 DEF Width
<1>2. QED
  BY <1>1 DEF Size

LEMMA MinFeeType ==
    ASSUME NEW tx, tx.budget \in Budgets,
           NEW prms \in [min_fee_a : Nat, min_fee_b : Nat, price : Nat]
    PROVE  MinFee(tx, prms) \in Nat
<1> DEFINE a == prms.min_fee_a
           b == prms.min_fee_b
           c == prms.price
           s == Size(tx) + WitnessBytes
           x == ExecUnits[tx.budget]
<1>1. a \in Nat /\ b \in Nat /\ c \in Nat /\ s \in Nat /\ x \in Nat
  BY SizeType, TransactionsAssumption
<1>2. MinFee(tx, prms) = a * s + b + c * x
  BY DEF MinFee
<1> HIDE DEF a, b, c, s, x
<1>3. a * s \in Nat /\ c * x \in Nat
  BY <1>1
<1>4. QED
  BY <1>1, <1>2, <1>3

\* A longer transaction needs no lower fee.
LEMMA LongerCostsMore ==
    ASSUME NEW a \in Nat, NEW m \in Nat, NEW n \in Nat, m <= n
    PROVE  a * m <= a * n
<1>1. PICK d \in Nat : n = m + d
  <2>1. n - m \in Nat /\ n = m + (n - m)
    OBVIOUS
  <2>2. QED
    BY <2>1
<1>2. a * n = a * m + a * d /\ a * m \in Nat /\ a * d \in Nat
  BY <1>1
<1>3. QED
  BY <1>2

\* A final transaction: on Bitcoin that which was signed, on Cardano with the
\* fee that was computed for it and the output that this leaves.
LEMMA SignedFields ==
    ASSUME NEW swp \in Swaps, NEW t \in [bitcoin_fee : Nat, cardano_fee : Nat],
           NEW role \in Roles,
           NEW prms \in [min_fee_a : Nat, min_fee_b : Nat, price : Nat],
           NEW budget \in Budgets
    PROVE  LET lck == LockTx(swp, t, Locker(role))
               amount == swp.amount[Locker(role)]
               tx == Signed(swp, t, role, prms, budget)
           IN  /\ amount \in Nat /\ lck.pays \in Int
               /\ \E pays \in Int, fee \in Nat, b \in Budgets \cup {NoBudget} :
                     /\ tx = Fields(role, lck, pays, fee, Locktime(role), b)
                     /\ IF swp.chain[Locker(role)] = "Bitcoin"
                        THEN /\ tx = Unsigned(swp, t, role)
                             /\ lck.pays = amount /\ pays = amount - t.bitcoin_fee
                        ELSE /\ pays + fee = lck.pays /\ b = budget
                             /\ fee = MinFee(WithUnits(Unsigned(swp, t, role), budget,
                                                       t.cardano_fee), prms)
<1> DEFINE q == Locker(role)
           lck == LockTx(swp, t, q)
           amount == swp.amount[q]
           tx == Signed(swp, t, role, prms, budget)
           cf == t.cardano_fee
<1>1. PICK pays \in Int, fee \in Nat :
          /\ Unsigned(swp, t, role) =
                Fields(role, lck, pays, fee, Locktime(role), NoBudget)
          /\ IF swp.chain[q] = "Bitcoin"
             THEN lck.pays = amount /\ pays = amount - t.bitcoin_fee
             ELSE pays + fee = lck.pays
  BY UnsignedFields
<1>2. amount \in Nat /\ lck.pays \in Int /\ cf \in Nat
  BY UnsignedFields
<1>3. CASE swp.chain[q] = "Bitcoin"
  <2>1. tx = Unsigned(swp, t, role)
    BY <1>3 DEF Signed
  <2> HIDE DEF q, lck, amount, tx
  <2>2. QED
    BY <1>1, <1>2, <1>3, <2>1 DEF q, lck, amount, tx
<1>4. CASE swp.chain[q] # "Bitcoin"
  <2> DEFINE sized == WithUnits(Unsigned(swp, t, role), budget, cf)
             paid == MinFee(sized, prms)
  <2>1. sized = Fields(role, lck, pays + fee - cf, cf, Locktime(role), budget)
    BY <1>1, UnitsFields
  <2>2. paid \in Nat
    <3>1. sized.budget = budget
      BY <2>1 DEF Fields
    <3> HIDE DEF sized
    <3>2. QED
      BY <3>1, MinFeeType
  <2>3. tx = WithUnits(Unsigned(swp, t, role), budget, paid)
    BY <1>4 DEF Signed, AttachFinalSig
  <2>4. tx = Fields(role, lck, pays + fee - paid, paid, Locktime(role), budget)
    BY <1>1, <2>3, UnitsFields
  <2> HIDE DEF tx, paid, lck, amount, q
  <2>5. pays + fee - paid \in Int /\ (pays + fee - paid) + paid = lck.pays
    BY <1>1, <1>4, <2>2
  <2>6. QED
    BY <1>2, <1>4, <2>2, <2>4, <2>5 DEF tx, paid, lck, amount, q
<1>5. QED
  BY <1>3, <1>4

\* Who funded alike and covers the fees has nothing refused but for its fee, as
\* long as the transaction's time has come.
LEMMA RulesKept ==
    ASSUME DepositsCoverFees, TypeOK, NEW p \in Participants, NEW role \in Roles,
           \A r \in Roles : SameMessage(r), NEW tx \in FinalTxs(p, role),
           now >= Locktime(role)
    PROVE  BrokenRules(swap.chain[Locker(role)], OnChainLock(Locker(role)), tx,
                       MessageOf(swap, terms[p], role), params, now) \subseteq {"fee"}
<1> DEFINE q == Locker(role)
           t == terms[p]
           chain == swap.chain[q]
           lck == LockTx(swap, t, q)
           msg == MessageOf(swap, t, role)
<1>1. /\ q \in Participants
      /\ t \in [bitcoin_fee : Nat, cardano_fee : Nat]
      /\ terms[q] \in [bitcoin_fee : Nat, cardano_fee : Nat]
      /\ swap \in Swaps /\ terms \in Terms /\ chain \in {"Bitcoin", "Cardano"}
      /\ Locktime(role) \in Nat /\ now \in Nat
  BY RoleForms, ChainsAssumption, CycleFacts DEF TypeOK, Locktime
<1>2. PICK fetched \in FetchedParams, budget \in RedeemerUnits :
          tx = Signed(swap, t, role, fetched, budget)
  BY DEF FinalTxs
<1>3. /\ fetched \in {Fallback, Raised}
      /\ fetched \in [min_fee_a : Nat, min_fee_b : Nat, price : Nat]
      /\ budget \in swap.budgets /\ budget \in Budgets
  BY <1>1, ChainsAssumption DEF FetchedParams, RedeemerUnits, TypeOK
<1>4. PICK pays \in Int, fee \in Nat, b \in Budgets \cup {NoBudget} :
          /\ tx = Fields(role, lck, pays, fee, Locktime(role), b)
          /\ IF chain = "Bitcoin"
             THEN /\ tx = Unsigned(swap, t, role)
                  /\ lck.pays = swap.amount[q] /\ pays = swap.amount[q] - t.bitcoin_fee
             ELSE pays + fee = lck.pays
  BY <1>1, <1>2, <1>3, SignedFields
<1>5. swap.amount[q] \in Nat /\ lck.pays \in Int
  BY <1>1, UnsignedFields
<1>6. tx.pays = pays /\ tx.fee = fee /\ tx.locktime = Locktime(role)
  BY <1>4 DEF Fields
<1>7. pays > 0
  <2>1. Signed(swap, t, role, fetched, budget).pays > 0
    BY <1>1, <1>3 DEF DepositsCoverFees
  <2>2. QED
    BY <1>2, <1>6, <2>1
<1>8. OnChainLock(q) = lck
  <2>1. MessageOf(swap, t, role) = MessageOf(swap, terms[q], role)
    BY <1>1 DEF SameMessage
  <2>2. Unsigned(swap, t, role).spends = Unsigned(swap, terms[q], role).spends
    BY <2>1, SameTerms
  <2>3. Unsigned(swap, t, role).spends = lck
    BY <1>1, UnsignedSpends
  <2>4. Unsigned(swap, terms[q], role).spends = LockTx(swap, terms[q], q)
    BY <1>1, UnsignedSpends
  <2>5. QED
    BY <2>2, <2>3, <2>4 DEF OnChainLock
<1>9. [tx EXCEPT !.spends = lck] = tx
  <2>1. [Fields(role, lck, pays, fee, Locktime(role), b) EXCEPT !.spends = lck]
            = Fields(role, lck, pays, fee, Locktime(role), b)
    BY DEF Fields
  <2>2. QED
    BY <1>4, <2>1
<1>10. Message(chain, tx) = msg
  <2>1. CASE chain = "Bitcoin"
    BY <1>4, <2>1 DEF MessageOf
  <2>2. CASE chain # "Bitcoin"
    <3>1. PICK x \in Int, y \in Nat : Unsigned(swap, t, role) =
              Fields(role, lck, x, y, Locktime(role), NoBudget)
      BY <1>1, UnsignedFields
    <3>2. /\ Unsigned(swap, t, role).role = role /\ Unsigned(swap, t, role).spends = lck
          /\ tx.role = role /\ tx.spends = lck
      BY <1>4, <3>1 DEF Fields
    <3>3. QED
      BY <2>2, <3>2 DEF MessageOf, Message, CardanoSighash
  <2>3. QED
    BY <2>1, <2>2
<1>11. IF chain = "Bitcoin" THEN tx.pays \in 1 .. lck.pays
       ELSE tx.pays > 0 /\ tx.pays + tx.fee = lck.pays
  <2>1. CASE chain = "Bitcoin"
    <3>1. t.bitcoin_fee \in Nat
      BY <1>1
    <3> HIDE DEF t, q, lck, chain
    <3>2. pays \in 1 .. lck.pays
      BY <1>4, <1>5, <1>7, <2>1, <3>1
    <3>3. QED
      BY <1>6, <2>1, <3>2
  <2>2. CASE chain # "Bitcoin"
    BY <1>4, <1>6, <1>7, <2>2
  <2>3. QED
    BY <2>1, <2>2
<1>12. ~(now < tx.locktime)
  BY <1>1, <1>6
<1> HIDE DEF q, t, chain, lck, msg
<1>13. BrokenRules(chain, lck, tx, msg, params, now) \subseteq {"fee"}
  BY <1>9, <1>10, <1>11, <1>12 DEF BrokenRules
<1>14. QED
  BY <1>8, <1>13 DEF q, t, chain, lck, msg

\* A fee is too low only when parameters were raised after it was computed.
LEMMA FeeKept ==
    ASSUME MeasuredInFull, TypeOK, NEW p \in Participants, NEW role \in Roles,
           NEW tx \in FinalTxs(p, role), NEW lck, NEW msg,
           "fee" \in BrokenRules(swap.chain[Locker(role)], lck, tx, msg, params, now)
    PROVE  params = Raised
<1> SUFFICES ASSUME params # Raised PROVE FALSE
  OBVIOUS
<1> DEFINE q == Locker(role)
           t == terms[p]
<1>1. /\ q \in Participants
      /\ t \in [bitcoin_fee : Nat, cardano_fee : Nat]
      /\ swap \in Swaps /\ terms \in Terms /\ params = Fallback
      /\ Fallback \in [min_fee_a : Nat, min_fee_b : Nat, price : Nat]
  BY RoleForms, ChainsAssumption DEF TypeOK
<1>2. PICK budget \in swap.budgets : tx = Signed(swap, t, role, Fallback, budget)
  BY <1>1 DEF FinalTxs, FetchedParams, RedeemerUnits
<1>3. budget \in Budgets
  BY <1>1, ChainsAssumption
<1>4. swap.chain[q] = "Cardano" /\ tx.fee < RequiredFee(tx, Fallback)
  BY <1>1 DEF BrokenRules
<1> DEFINE sized == WithUnits(Unsigned(swap, t, role), budget, t.cardano_fee)
<1>5. tx.fee = MinFee(sized, Fallback) /\ tx.budget = budget
  <2>1. PICK pays \in Int, fee \in Nat, b \in Budgets \cup {NoBudget} :
            /\ tx = Fields(role, LockTx(swap, t, q), pays, fee, Locktime(role), b)
            /\ b = budget /\ fee = MinFee(sized, Fallback)
    BY <1>1, <1>2, <1>3, <1>4, SignedFields
  <2>2. QED
    BY <2>1 DEF Fields
<1>6. sized.budget = budget
  <2>1. PICK pays \in Int, fee \in Nat :
            Unsigned(swap, t, role) =
                Fields(role, LockTx(swap, t, q), pays, fee, Locktime(role), NoBudget)
    BY <1>1, UnsignedFields
  <2>2. sized = Fields(role, LockTx(swap, t, q), pays + fee - t.cardano_fee,
                       t.cardano_fee, Locktime(role), budget)
    BY <2>1, UnitsFields
  <2>3. QED
    BY <2>2 DEF Fields
<1>7. Size(tx) <= Size(sized) /\ Size(tx) \in Nat /\ Size(sized) \in Nat
  BY <1>1, <1>2, <1>4, SizeType DEF MeasuredInFull
<1> DEFINE a == Fallback.min_fee_a
           c == Fallback.min_fee_b
           x == Fallback.price * ExecUnits[budget]
<1>8. a \in Nat /\ c \in Nat /\ WitnessBytes \in Nat
  BY <1>1, TransactionsAssumption
<1>9. x \in Nat
  <2>1. Fallback.price \in Nat /\ ExecUnits[budget] \in Nat
    BY <1>1, <1>3, TransactionsAssumption
  <2>2. QED
    BY <2>1
<1>10. /\ tx.fee = a * (Size(sized) + WitnessBytes) + c + x
       /\ RequiredFee(tx, Fallback) = a * (Size(tx) + WitnessBytes) + c + x
  BY <1>5, <1>6 DEF MinFee, RequiredFee, SubmittedSize
<1> DEFINE m == Size(tx) + WitnessBytes
           n == Size(sized) + WitnessBytes
<1>11. m \in Nat /\ n \in Nat /\ m <= n
  BY <1>7, <1>8
<1> HIDE DEF a, c, x, m, n, sized, t, q
<1>12. a * m <= a * n /\ a * m \in Nat /\ a * n \in Nat
  BY <1>8, <1>11, LongerCostsMore
<1>13. RequiredFee(tx, Fallback) <= tx.fee
       /\ tx.fee \in Nat /\ RequiredFee(tx, Fallback) \in Nat
  BY <1>8, <1>9, <1>10, <1>12 DEF m, n
<1>14. QED
  BY <1>4, <1>13

-----------------------------------------------------------------------------
(* Refusals and outcomes, when every deposit covers its fees.              *)

Claims(p) == (p = Leader /\ LeaderClaims) \/ PollLeaderSpend(p)

LEMMA ClaimAdapts ==
    ASSUME NEW p \in Participants, Claims(p)
    PROVE  AdaptAndSpend(p)
BY DEF Claims, LeaderClaims, HandleSecretReveal, PollLeaderSpend

\* Who claims finds its output there.
LEMMA ClaimOpen ==
    ASSUME IInv, OrderedInv, NEW p \in Participants, Claims(p)
    PROVE  AllSubmitted /\ taken[Target[p]] = Untaken
<1> USE DEF OrderedInv
<1>0. /\ Leader \in Participants /\ TheTarget \in Participants
      /\ Target[p] \in Participants
      /\ p = Leader => LeaderClaims
  BY CycleFacts DEF Claims, BehindBarrier, PollLeaderSpend
<1>1. AllSubmitted
  <2>1. CASE LeaderClaims
    <3>1. revealed # {}
      BY <2>1 DEF LeaderClaims, HandleSecretReveal
    <3>2. QED
      BY <3>1 DEF BehindBarrier
  <2>2. CASE PollLeaderSpend(p)
    BY <1>0, <2>2, VisibleSpend, ClaimedSubmitted DEF PollLeaderSpend
  <2>3. QED
    BY <2>1, <2>2 DEF Claims
<1>2. ASSUME taken[Target[p]] # Untaken PROVE FALSE
  <2>1. /\ taken[Target[p]].by \in Roles
        /\ Locker(taken[Target[p]].by) = Target[p]
    BY <1>0, <1>2 DEF IInv, TypeOK, TakenByRole
  <2>2. PICK x \in Participants : taken[Target[p]].by \in {Spend(x), Refund(x)}
    BY <2>1, RoleForms
  <2>3. CASE taken[Target[p]].by = Spend(x)
    <3>1. x = p
      BY <2>1, <2>3, RoleFacts, CycleFacts
    <3>2. CASE p = Leader
      <4>1. secrets[Leader] = Participants
        BY <1>0, <2>3, <3>1, <3>2 DEF DoneTaking
      <4>2. QED
        BY <1>0, <3>2, <4>1 DEF LeaderClaims, HandleSecretReveal
    <3>3. CASE p # Leader
      <4>1. state[p] = "Completed"
        BY <1>0, <2>3, <3>1, <3>3 DEF DoneTaking
      <4>2. QED
        BY <3>3, <4>1 DEF Claims, PollLeaderSpend
    <3>4. QED
      BY <3>2, <3>3
  <2>4. CASE taken[Target[p]].by = Refund(x)
    <3>1. now >= Distance[x]
      BY <1>0, <2>4 DEF DoneTaking
    <3>2. now \in Nat /\ Distance[x] \in Nat /\ Distance[x] > 0
      BY CycleFacts DEF IInv, TypeOK
    <3>3. now > 0
      BY <3>1, <3>2
    <3>4. QED
      BY <1>0, <3>3, NothingLate DEF Claims, LeaderClaims
  <2>5. QED
    BY <2>2, <2>3, <2>4
<1>3. QED
  BY <1>1, <1>2

LEMMA ClaimRefused ==
    ASSUME DepositsCoverFees, IInv, OrderedInv, NEW p \in Participants, Claims(p),
           NEW tx \in FinalTxs(p, Spend(p)), tx.role = Spend(p)
    PROVE  Broken(p, tx) \subseteq {"fee"}
<1>1. AllSubmitted /\ taken[Target[p]] = Untaken /\ Target[p] \in Participants
  BY ClaimOpen, CycleFacts
<1>2. /\ Spend(p) \in Roles /\ Locker(Spend(p)) = Target[p]
      /\ Locktime(Spend(p)) = 0
  BY DEF Roles, Spend, Locker, Locktime
<1>3. \A r \in Roles : SameMessage(r)
  BY <1>1 DEF AllSubmitted, IInv, SignedAlike
<1>4. now >= 0
  BY CycleFacts DEF IInv, TypeOK
<1>5. BrokenRules(swap.chain[Target[p]], OnChainLock(Target[p]), tx,
                  MessageOf(swap, terms[p], Spend(p)), params, now) \subseteq {"fee"}
  BY <1>2, <1>3, <1>4, RulesKept DEF IInv
<1>6. QED
  BY <1>1, <1>2, <1>5 DEF Broken, When, AllSubmitted

LEMMA RefundRefused ==
    ASSUME DepositsCoverFees, IInv, OrderedInv, NEW p \in Participants,
           PollRefundWindow(p)
    PROVE  /\ refund_tx[p] \in FinalTxs(p, Refund(p))
           /\ refund_tx[p].role = Refund(p)
           /\ Broken(p, refund_tx[p]) \subseteq {"fee", "input"}
           /\ "input" \in Broken(p, refund_tx[p]) => Claimed(p)
<1>1. lock[p] # "nowhere" /\ Running(p) /\ now >= Distance[p]
  BY DEF PollRefundWindow, WatchesRefund, IInv, ConfirmedSubmitted
<1>2. /\ refund_tx[p] \in FinalTxs(p, Refund(p)) /\ refund_tx[p].role = Refund(p)
      /\ \A r \in Roles : SameMessage(r)
  BY <1>1 DEF OrderedInv, RefundSigned, IInv, RefundReady, SignedAlike
<1>3. /\ Refund(p) \in Roles /\ Locker(Refund(p)) = p
      /\ Locktime(Refund(p)) = Distance[p]
  BY DEF Roles, Refund, Locker, Locktime
<1> DEFINE rules == BrokenRules(swap.chain[p], OnChainLock(p), refund_tx[p],
                                MessageOf(swap, terms[p], Refund(p)), params, now)
<1>4. rules \subseteq {"fee"}
  BY <1>1, <1>2, <1>3, RulesKept DEF IInv
<1>5. Broken(p, refund_tx[p]) = When(lock[p] = "nowhere" \/ taken[p] # Untaken, "input")
                                    \cup rules
  BY <1>2, <1>3 DEF Broken
<1> HIDE DEF rules
<1>6. Broken(p, refund_tx[p]) \subseteq {"fee", "input"}
  BY <1>4, <1>5 DEF When
<1>7. ASSUME "input" \in Broken(p, refund_tx[p]) PROVE Claimed(p)
  <2>1. taken[p] # Untaken
    BY <1>1, <1>4, <1>5, <1>7 DEF When
  <2>2. taken[p].by \in Roles /\ Locker(taken[p].by) = p
    BY <2>1 DEF IInv, TypeOK, OrderedInv, TakenByRole
  <2>3. PICK x \in Participants : taken[p].by \in {Spend(x), Refund(x)}
    BY <2>2, RoleForms
  <2>4. taken[p].by # Refund(x)
    <3>1. taken[p].by = Refund(x) => x = p
      BY <2>2, RoleFacts
    <3>2. QED
      BY <1>1, <3>1 DEF OrderedInv, DoneTaking, Running
  <2>5. QED
    BY <2>3, <2>4 DEF Claimed
<1>8. QED
  BY <1>2, <1>6, <1>7

\* A claim gets its output, or its fee was refused.
LEMMA ClaimOutcome ==
    ASSUME DepositsCoverFees, IInv, OrderedInv, RefusedType,
           NEW p \in Participants, Claims(p)
    PROVE  taken'[Target[p]].by = Spend(p) \/ SpendFeeRefused(p)'
<1>1. PICK tx \in FinalTxs(p, Spend(p)) :
          /\ tx.role = Spend(p)
          /\ Gets(Spend(p)) \/ Misses(p, tx)
  BY ClaimAdapts, ClaimCases
<1>2. CASE Gets(Spend(p))
  <2>1. taken' = [taken EXCEPT ![Target[p]] = [by |-> Spend(p), place |-> "mempool"]]
    BY <1>2, RoleFacts DEF Gets
  <2>2. taken'[Target[p]] = [by |-> Spend(p), place |-> "mempool"]
    BY <2>1, CycleFacts DEF IInv, TakenType
  <2>3. QED
    BY <2>2
<1>3. CASE Misses(p, tx)
  <2>1. Broken(p, tx) = {"fee"}
    BY <1>1, <1>3, ClaimRefused DEF Misses
  <2>2. tx.role[1] = "Spend"
    BY <1>1 DEF Spend
  <2>3. <<"Spend", "fee">> \in {<<tx.role[1], r>> : r \in Broken(p, tx)}
    BY <2>1, <2>2
  <2>4. <<"Spend", "fee">> \in refused'[p]
    BY <1>3, <2>3 DEF Misses, RefusedType
  <2>5. QED
    BY <2>4 DEF SpendFeeRefused
<1>4. QED
  BY <1>1, <1>2, <1>3

LEMMA ClaimsGoThroughStep ==
    ASSUME DepositsCoverFees, IInv, OrderedInv, RefusedType, ClaimsGoThrough,
           [Next]_vars
    PROVE  ClaimsGoThrough'
<1>0. /\ Leader \in Participants /\ TheTarget = Target[Leader]
      /\ TypeOK /\ TypeOK' /\ BehindBarrier
      /\ \A p \in Participants : Moves(p)
      /\ KnowingFacts
      /\ ~PollLeaderSpend(Leader)
  BY CycleFacts, MovesStep, KnowingStep, InvariantStep
  DEF IInv, OrderedInv, BehindBarrier, PollLeaderSpend, TheTarget
<1>1. ASSUME NEW p \in Participants,
             taken[Target[p]].by = Spend(p) \/ SpendFeeRefused(p)
      PROVE  taken'[Target[p]].by = Spend(p) \/ SpendFeeRefused(p)'
  BY <1>1, TakenStays, RefusedStep, CycleFacts
  DEF IInv, RefusedGrows, SpendFeeRefused
<1>2. ASSUME state'[Leader] = "Completed" PROVE secrets'[Leader] = Participants
  <2>1. CASE state[Leader] = "Completed"
    <3>1. secrets[Leader] = Participants
      BY <2>1 DEF ClaimsGoThrough
    <3>2. secrets[Leader] \subseteq secrets'[Leader]
      BY <1>0 DEF KnowingFacts
    <3>3. secrets'[Leader] \subseteq Participants
      BY <1>0 DEF TypeOK
    <3>4. QED
      BY <3>1, <3>2, <3>3
  <2>2. CASE LeaderClaims
    <3>1. PICK x \in Participants :
              /\ secrets' = [secrets EXCEPT ![Leader] = @ \cup {x}]
              /\ secrets[Leader] \cup {x} = Participants
      BY <2>2 DEF LeaderClaims, HandleSecretReveal
    <3>2. QED
      BY <1>0, <3>1 DEF TypeOK
  <2>3. QED
    BY <1>0, <1>2, <2>1, <2>2 DEF Moves
<1>3. ASSUME secrets'[Leader] = Participants
      PROVE  taken'[TheTarget].by = Spend(Leader) \/ SpendFeeRefused(Leader)'
  <2>1. CASE secrets[Leader] = Participants
    BY <1>0, <1>1, <2>1 DEF ClaimsGoThrough
  <2>2. CASE secrets[Leader] # Participants
    <3>1. LeaderClaims
      BY <1>0, <1>3, <2>2 DEF KnowingFacts, LeaderClaims
    <3>2. QED
      BY <1>0, <3>1, ClaimOutcome DEF Claims
  <2>3. QED
    BY <2>1, <2>2
<1>4. ASSUME NEW p \in Followers, state'[p] = "Completed"
      PROVE  taken'[Target[p]].by = Spend(p) \/ SpendFeeRefused(p)'
  <2>1. p \in Participants /\ p # Leader
    BY DEF Followers
  <2>2. CASE state[p] = "Completed"
    BY <1>1, <2>1, <2>2 DEF ClaimsGoThrough
  <2>3. CASE state[p] # "Completed"
    <3>1. PollLeaderSpend(p)
      BY <1>0, <1>4, <2>1, <2>3 DEF Moves
    <3>2. QED
      BY <2>1, <3>1, ClaimOutcome DEF Claims
  <2>4. QED
    BY <2>2, <2>3
<1>5. QED
  BY <1>2, <1>3, <1>4 DEF ClaimsGoThrough, TheTarget

LEMMA DecidedStep ==
    ASSUME IInv, OrderedInv, RefusedType, ClaimsGoThrough, Decided, [Next]_vars
    PROVE  Decided'
<1> SUFFICES ASSUME now' > 0
             PROVE  \/ ~AllSubmitted'
                    \/ \E p \in Participants : SpendFeeRefused(p)'
                    \/ \A p \in Participants : taken'[Target[p]].by = Spend(p)
  BY DEF Decided
<1>0. /\ Leader \in Participants /\ TheTarget = Target[Leader]
      /\ SigningFacts /\ KnowingFacts /\ now \in Nat
      /\ \A p \in Participants : Target[p] \in Participants
  BY CycleFacts, SigningStep, KnowingStep, TimeStep DEF IInv, TheTarget
<1>1. ASSUME NEW p \in Participants, taken[Target[p]].by = Spend(p)
      PROVE  taken'[Target[p]].by = Spend(p)
  BY <1>0, <1>1, TakenStays
<1>2. ASSUME NEW p \in Participants, SpendFeeRefused(p) PROVE SpendFeeRefused(p)'
  BY <1>2, RefusedStep DEF IInv, RefusedGrows, SpendFeeRefused
<1>3. CASE now > 0
  <2>1. ~AllSubmitted => ~AllSubmitted'
    BY <1>0, <1>3 DEF AllSubmitted, SigningFacts
  <2>2. QED
    BY <1>1, <1>2, <1>3, <2>1 DEF Decided
<1>4. CASE now = 0
  <2>0. OpenWindow /\ JoinedFirst /\ BehindBarrier /\ InTime
    BY <1>0, <1>4 DEF KnowingFacts, OrderedInv
  <2>1. SUFFICES ASSUME AllSubmitted, \A p \in Participants : ~SpendFeeRefused(p)
                 PROVE  \A p \in Participants : taken[Target[p]].by = Spend(p)
    BY <2>0, <1>1, <1>2 DEF OpenWindow, ledgers, AllSubmitted
  <2>2. ASSUME NEW p \in Participants
        PROVE  /\ confirmed[p] = Participants
               /\ Running(p) \/ state[p] = "Completed"
    <3>1. \A q \in Participants : q \in confirmed[p]
      BY <2>0, <2>1, AllSeen DEF AllSubmitted
    <3>2. confirmed[p] = Participants
      BY <3>1 DEF IInv, TypeOK
    <3>3. Running(p) \/ state[p] \in Terminal
      BY <2>0, <2>1, AllSeen DEF AllSubmitted
    <3>4. state[p] \notin {"Refunded", "Failed"}
      BY <1>4, <2>0, <2>1 DEF InTime, AllSubmitted
    <3>5. QED
      BY <3>2, <3>3, <3>4 DEF Terminal
  <2>3. secrets[Leader] = Participants
    <3>1. CASE state[Leader] = "Completed"
      BY <3>1 DEF ClaimsGoThrough
    <3>2. CASE Running(Leader)
      <4>1. revealed \subseteq secrets[Leader]
        BY <1>0, <2>0, <3>2 DEF OpenWindow, Behind
      <4>2. \A p \in Followers : p \in revealed
        BY <2>0, <2>2 DEF BehindBarrier, Followers
      <4>3. Leader \in secrets[Leader] /\ secrets[Leader] \subseteq Participants
        BY <1>0, <2>0 DEF BehindBarrier, IInv, TypeOK
      <4>4. QED
        BY <4>1, <4>2, <4>3 DEF Followers
    <3>3. QED
      BY <1>0, <2>2, <3>1, <3>2
  <2>4. taken[TheTarget].by = Spend(Leader)
    BY <1>0, <2>1, <2>3 DEF ClaimsGoThrough
  <2>5. ASSUME NEW p \in Followers PROVE taken[Target[p]].by = Spend(p)
    <3>1. p \in Participants /\ p # Leader
      BY DEF Followers
    <3>2. state[p] \in {"AwaitingLeaderSpend", "Completed"}
      BY <1>4, <2>0, <2>2, <3>1 DEF InTime
    <3>3. LeaderSecretVisible
      BY <1>0, <2>0, <2>4, SpendVisible DEF IInv, OpenWindow
    <3>4. state[p] # "AwaitingLeaderSpend"
      BY <2>0, <3>1, <3>3 DEF OpenWindow, Behind
    <3>5. QED
      BY <2>1, <3>1, <3>2, <3>4 DEF ClaimsGoThrough
  <2>6. QED
    BY <1>0, <2>4, <2>5 DEF Followers
<1>5. QED
  BY <1>0, <1>3, <1>4

\* All that has been refused was refused when the parameters had been raised, or
\* for what the participants did.
Cause(p, r) ==
    \/ r = <<"Lock", "input">> /\ swap.funding[p] = "spent"
    \/ r = <<"Lock", "value">> /\ swap.funding[p] = "excess"
    \/ r[2] = "fee" /\ params = Raised
    \/ r = <<"Refund", "input">> /\ Claimed(p)

\* What is refused in a step, and to whom.
RefusedNow(p, r) ==
    \/ Fund(p) /\ \E rule \in BrokenByLock(p) : r = <<"Lock", rule>>
    \/ /\ Claims(p)
       /\ \E tx \in FinalTxs(p, Spend(p)) :
             /\ tx.role = Spend(p)
             /\ \E rule \in Broken(p, tx) : r = <<"Spend", rule>>
    \/ /\ PollRefundWindow(p)
       /\ \E rule \in Broken(p, refund_tx[p]) : r = <<refund_tx[p].role[1], rule>>

LEMMA ClaimMisses ==
    ASSUME RefusedType, NEW x \in Participants, Claims(x), NEW p \in Participants,
           NEW r \in refused'[p], r \notin refused[p]
    PROVE  RefusedNow(p, r)
<1>1. PICK tx \in FinalTxs(x, Spend(x)) :
          /\ tx.role = Spend(x)
          /\ Gets(Spend(x)) \/ Misses(x, tx)
  BY ClaimAdapts, ClaimCases
<1>2. Misses(x, tx)
  BY <1>1 DEF Gets
<1>3. /\ refused' = [refused EXCEPT ![x] =
                        @ \cup {<<tx.role[1], rule>> : rule \in Broken(x, tx)}]
      /\ tx.role[1] = "Spend"
  BY <1>1, <1>2 DEF Misses, Spend
<1>4. p = x /\ \E rule \in Broken(x, tx) : r = <<"Spend", rule>>
  BY <1>3 DEF RefusedType
<1>5. QED
  BY <1>1, <1>4 DEF RefusedNow

LEMMA RefusedByStep ==
    ASSUME TypeOK, RefusedType, [Next]_vars, NEW p \in Participants,
           NEW r \in refused'[p], r \notin refused[p]
    PROVE  RefusedNow(p, r)
<1>1. CASE UNCHANGED refused
  BY <1>1
<1>2. ASSUME NEW x \in Participants, Claims(x) PROVE RefusedNow(p, r)
  BY <1>2, ClaimMisses
<1>3. ASSUME NEW x \in Participants, Fund(x) PROVE RefusedNow(p, r)
  <2>1. refused' = [refused EXCEPT ![x] =
                       @ \cup {<<"Lock", rule>> : rule \in BrokenByLock(x)}]
    BY <1>1, <1>3 DEF Fund
  <2>2. p = x /\ \E rule \in BrokenByLock(x) : r = <<"Lock", rule>>
    BY <2>1 DEF RefusedType
  <2>3. QED
    BY <1>3, <2>2 DEF RefusedNow
<1>4. ASSUME NEW q \in Participants, HandleSecretReveal(q) PROVE RefusedNow(p, r)
  <2>1. CASE secrets[Leader] \cup {q} = Participants
    BY <1>2, <1>4, <2>1, CycleFacts DEF Claims, LeaderClaims
  <2>2. CASE secrets[Leader] \cup {q} # Participants
    BY <1>1, <1>4, <2>2 DEF HandleSecretReveal, ledgers
  <2>3. QED
    BY <2>1, <2>2
<1>5. ASSUME NEW x \in Participants, PollLeaderSpend(x) PROVE RefusedNow(p, r)
  BY <1>2, <1>5 DEF Claims
<1>6. ASSUME NEW x \in Participants, PollRefundWindow(x) PROVE RefusedNow(p, r)
  <2> DEFINE tx == refund_tx[x]
  <2>1. Gets(tx.role) \/ Misses(x, tx)
    BY <1>6, SubmitCases DEF PollRefundWindow
  <2>2. Misses(x, tx)
    BY <2>1 DEF Gets
  <2>3. refused' = [refused EXCEPT ![x] =
                       @ \cup {<<tx.role[1], rule>> : rule \in Broken(x, tx)}]
    BY <2>2 DEF Misses
  <2>4. p = x /\ \E rule \in Broken(x, tx) : r = <<tx.role[1], rule>>
    BY <2>3 DEF RefusedType
  <2>5. QED
    BY <1>6, <2>4 DEF RefusedNow
<1>7. QED
  BY <1>1, <1>3, <1>4, <1>5, <1>6
  DEF Next, vars, sessions, ledgers, Event, MakeBlock, Start, Finalize,
      PollLockTx, MineLock, MineTaken, Reorganise, RaiseParams, OpenWindow

LEMMA CauseStays ==
    ASSUME IInv, [Next]_vars, NEW p \in Participants, NEW r, Cause(p, r)
    PROVE  Cause(p, r)'
<1>1. UNCHANGED swap /\ (params = Raised => params' = Raised)
  BY RestStep DEF given, IInv, TypeOK, Next, vars, sessions, ledgers, Event,
      MakeBlock, Start, Finalize, Fund, PollLockTx, HandleSecretReveal,
      PollLeaderSpend, PollRefundWindow, MineLock, MineTaken, Reorganise,
      RaiseParams, OpenWindow
<1>2. Claimed(p) => Claimed(p)'
  BY TakenStays DEF Claimed
<1>3. QED
  BY <1>1, <1>2 DEF Cause

LEMMA CauseNow ==
    ASSUME DepositsCoverFees, MeasuredInFull, IInv, OrderedInv,
           NEW p \in Participants, NEW r, RefusedNow(p, r)
    PROVE  Cause(p, r)
<1>1. ASSUME NEW rule \in BrokenByLock(p), r = <<"Lock", rule>>
      PROVE  Cause(p, r)
  BY <1>1 DEF BrokenByLock, When, Cause
<1>2. ASSUME NEW role \in Roles, NEW tx \in FinalTxs(p, role), tx.role = role,
             "fee" \in Broken(p, tx)
      PROVE  params = Raised
  <2>1. "fee" \in BrokenRules(swap.chain[Locker(role)], OnChainLock(Locker(role)), tx,
                              MessageOf(swap, terms[p], role), params, now)
    BY <1>2 DEF Broken, When
  <2>2. QED
    BY <2>1, FeeKept DEF IInv
<1>3. ASSUME Claims(p), NEW tx \in FinalTxs(p, Spend(p)), tx.role = Spend(p),
             NEW rule \in Broken(p, tx), r = <<"Spend", rule>>
      PROVE  Cause(p, r)
  <2>1. rule = "fee"
    BY <1>3, ClaimRefused
  <2>2. Spend(p) \in Roles
    BY DEF Roles, Spend
  <2>3. params = Raised
    BY <1>2, <1>3, <2>1, <2>2
  <2>4. QED
    BY <1>3, <2>1, <2>3 DEF Cause
<1>4. ASSUME PollRefundWindow(p), NEW rule \in Broken(p, refund_tx[p]),
             r = <<refund_tx[p].role[1], rule>>
      PROVE  Cause(p, r)
  <2>1. /\ refund_tx[p] \in FinalTxs(p, Refund(p))
        /\ refund_tx[p].role = Refund(p) /\ Refund(p) \in Roles
        /\ Broken(p, refund_tx[p]) \subseteq {"fee", "input"}
        /\ "input" \in Broken(p, refund_tx[p]) => Claimed(p)
    BY <1>4, RefundRefused DEF Roles, Refund
  <2>2. r = <<"Refund", rule>>
    BY <1>4, <2>1 DEF Refund
  <2>3. CASE rule = "fee"
    <3>1. params = Raised
      BY <1>2, <1>4, <2>1, <2>3
    <3>2. QED
      BY <2>2, <2>3, <3>1 DEF Cause
  <2>4. CASE rule = "input"
    BY <1>4, <2>1, <2>2, <2>4 DEF Cause
  <2>5. QED
    BY <1>4, <2>1, <2>3, <2>4
<1>5. QED
  BY <1>1, <1>3, <1>4 DEF RefusedNow

LEMMA RefusedForCauseStep ==
    ASSUME DepositsCoverFees, MeasuredInFull, IInv, OrderedInv, RefusedType,
           RefusedForCause, [Next]_vars
    PROVE  RefusedForCause'
<1> SUFFICES ASSUME NEW p \in Participants, NEW r \in refused'[p]
             PROVE  Cause(p, r)'
  BY DEF RefusedForCause, Cause
<1>1. CASE r \in refused[p]
  BY <1>1, CauseStays DEF RefusedForCause, Cause
<1>2. CASE r \notin refused[p]
  BY <1>2, RefusedByStep, CauseNow, CauseStays DEF IInv
<1>3. QED
  BY <1>1, <1>2

\* A node refuses a transaction for causes outside of the daemons alone: the
\* funding output was spent or too much, the fee was raised, or the deposit was
\* claimed before its refund was tried (what submit_bitcoin_tx and
\* submit_cardano_tx return to lock_funds.rs, spend.rs and refund.rs).
THEOREM RefusedForCauseHolds ==
    ASSUME DepositsCoverFees, MeasuredInFull
    PROVE  FairSpec => []RefusedForCause
<1>1. Init => RefusedForCause
  BY DEF Init, RefusedForCause
<1>2. /\ IInv /\ OrderedInv /\ RefusedType /\ RefusedForCause /\ [Next]_vars
      => RefusedForCause'
  BY RefusedForCauseStep
<1>3. QED
  BY <1>1, <1>2, OrderedHolds, PTL DEF FairSpec

\* Before the first refund window opens the swap is decided: somebody never
\* funded, a claim was refused for its fee, or all have claimed.  Who is behind
\* the barrier of locks and Completed has claimed, unless its fee was refused
\* (broadcast_my_spend_tx, whose verdict the SecretReveal and LeaderSpendTx
\* handlers of daemon.rs drop).
THEOREM QuietHolds ==
    ASSUME DepositsCoverFees
    PROVE  FairSpec => []QuietInv
<1>1. Init => ClaimsGoThrough /\ Decided
  <2> SUFFICES ASSUME Init PROVE ClaimsGoThrough /\ Decided
    OBVIOUS
  <2>1. /\ \A p \in Participants : state[p] = "Initialized"
        /\ secrets[Leader] = {Leader} /\ now = 0
    BY CycleFacts DEF Init
  <2>2. Target[Leader] \in Participants \ {Leader}
    BY TransactionsAssumption DEF CheckCyclic
  <2>3. QED
    BY <2>1, <2>2, CycleFacts DEF ClaimsGoThrough, Decided, Followers
<1>2. /\ IInv /\ OrderedInv /\ RefusedType /\ ClaimsGoThrough /\ Decided
      /\ [Next]_vars
      => ClaimsGoThrough' /\ Decided'
  BY ClaimsGoThroughStep, DecidedStep
<1>3. OrderedInv /\ ClaimsGoThrough /\ Decided => QuietInv
  BY DEF QuietInv
<1>4. QED
  BY <1>1, <1>2, <1>3, OrderedHolds, PTL DEF FairSpec

\* A claim and a refund do not both take place, whatever is reorganised, unless
\* a claim failed for its fee (broadcast_my_spend_tx and broadcast_my_refund_tx).
THEOREM AllOrNothingOnBothChains ==
    ASSUME DepositsCoverFees
    PROVE  FairSpec => []AllOrNothing
<1>1. IInv /\ QuietInv => AllOrNothing
  <2> SUFFICES ASSUME IInv, QuietInv,
                      \A p \in Participants : <<"Spend", "fee">> \notin refused[p],
                      NEW p \in Participants, NEW q \in Participants,
                      Claimed(p), Refunded(q)
               PROVE  FALSE
    BY DEF AllOrNothing
  <2>1. now >= Distance[q] /\ now \in Nat /\ Distance[q] \in Nat /\ Distance[q] > 0
    BY CycleFacts DEF QuietInv, OrderedInv, DoneTaking, Refunded, IInv, TypeOK
  <2>2. now > 0
    BY <2>1
  <2>3. AllSubmitted
    BY DEF QuietInv, OrderedInv, BehindBarrier, Claimed
  <2>4. \A x \in Participants : taken[Target[x]].by = Spend(x)
    BY <2>2, <2>3 DEF QuietInv, Decided, SpendFeeRefused
  <2>5. PICK x \in Participants : Target[x] = q
    BY CycleFacts
  <2>6. QED
    BY <2>4, <2>5, RoleFacts DEF Refunded
<1>2. QED
  BY <1>1, QuietHolds, InvariantHolds, PTL

=============================================================================
