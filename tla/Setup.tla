-------------------------------- MODULE Setup --------------------------------
(***************************************************************************)
(* A swap session from its start to funding: adaptor points, the commit-   *)
(* reveal election of the leader, and the two MuSig2 rounds that sign every*)
(* refund and spend transaction (swap-daemon/src/daemon.rs,                *)
(* protocol/session.rs, adaptor_nonce.rs, leader_election.rs, refund.rs,   *)
(* spend.rs, cryptography/multisig.rs).  A daemon handles one event at a   *)
(* time; messages of one peer arrive in order, those of several in any.    *)
(* After a loss a peer opens another connection, and what it sends there   *)
(* may overtake what the one before still carries (module Channel).        *)
(*                                                                         *)
(* Points, commitments, nonces and signatures are represented by whose they*)
(* are; a partial signature also carries the adaptor points it was made    *)
(* under, for it combines only with those made under the same ones.        *)
(***************************************************************************)
EXTENDS Naturals, FiniteSets, Sequences

CONSTANTS
    Participants,   \* the parties of the swap
    Order,          \* whose transactions are signed, in the order of their ids
    MaxLosses,      \* how many messages the connections may lose
    Refusals        \* whether a UTXO check or a node may turn a session down

ASSUME SetupAssumption ==
    /\ IsFiniteSet(Participants)
    /\ Cardinality(Participants) > 1
    /\ Order \in Seq(Participants)
    /\ MaxLosses \in Nat
    /\ Refusals \in BOOLEAN

VARIABLES
    started,            \* start_swap_session has been called
    state,              \* SwapSession.state
    adaptor_points,     \* whose adaptor point each session holds
    leader_commitments, \* whose commitment each session holds
    leader_nonces,      \* whose election nonce each session holds
    musig_sessions,     \* the MuSig2 round of each transaction
    schnorr_nonces,     \* whose public nonce is held for each transaction
    partial_sigs,       \* the partial signatures held for each transaction
    signed,             \* signed_txs and adaptor_sigs: what has been finalized
    chan,               \* chan[q][p]: the connections from q to p, oldest first
    losses              \* how many messages have been lost

election == <<adaptor_points, leader_commitments, leader_nonces>>
signing == <<musig_sessions, schnorr_nonces, partial_sigs, signed>>
vars == <<started, state, election, signing, chan, losses>>

Refund(p) == <<"Refund", p>>
Spend(p) == <<"Spend", p>>

\* The order in which begin_refund_signing and then begin_spend_signing go
\* through the transactions: the keys of a BTreeMap.
RoleOrder ==
    [i \in 1 .. Len(Order) |-> Refund(Order[i])]
        \o [i \in 1 .. Len(Order) |-> Spend(Order[i])]
Roles == {RoleOrder[i] : i \in 1 .. Len(RoleOrder)}

SwapStates ==
    {"Initialized", "AwaitingAdaptorPoints", "AwaitingLeaderElectionCommitments",
     "AwaitingLeaderElectionNonces", "RefundAndSpendTxsSigning",
     "AwaitingLockConfirmations", "Failed", "Panicked"}

\* A failed session takes no message; a panic ends the daemon's event loop.
Listening(p) == state[p] \notin {"Failed", "Panicked"}
Others(p) == Participants \ {p}

-----------------------------------------------------------------------------
(* Messages.                                                               *)

AdaptorPoint == [type |-> "AdaptorPoint"]
LeaderElectionCommitment == [type |-> "LeaderElectionCommitment"]
LeaderElectionNonce == [type |-> "LeaderElectionNonce"]
SchnorrNonce(role) == [type |-> "SchnorrNonce", role |-> role]
PartialSignature(role, points) ==
    [type |-> "PartialSignature", role |-> role, points |-> points]

WireMessages ==
    {AdaptorPoint, LeaderElectionCommitment, LeaderElectionNonce}
    \cup {SchnorrNonce(role) : role \in Roles}
    \cup {PartialSignature(role, points) :
            role \in Roles, points \in SUBSET Participants}

\* A failed connect or write: the next message takes another connection.
Reconnect(conns) ==
    IF conns[Len(conns)] = <<>> THEN conns ELSE Append(conns, <<>>)

\* The connections to q after the messages have been written to them, but for
\* those that are lost.
Written(conns, q, messages, lost) ==
    LET after[i \in 0 .. Len(messages)] ==
            IF i = 0 THEN conns
            ELSE IF <<q, messages[i]>> \in lost THEN Reconnect(after[i - 1])
            ELSE [after[i - 1] EXCEPT ![Len(after[i - 1])] = Append(@, messages[i])]
    IN  after[Len(messages)]

\* broadcast, called for each of the messages: what cannot be written to a
\* peer is logged and lost.
Cast(channels, p, messages) ==
    \E lost \in SUBSET (Others(p) \X {messages[i] : i \in 1 .. Len(messages)}) :
        /\ losses' = losses + Cardinality(lost)
        /\ losses' <= MaxLosses
        /\ chan' = [channels EXCEPT ![p] = [q \in Participants |->
               IF q = p THEN channels[p][q]
               ELSE Written(channels[p][q], q, messages, lost)]]

CastNothing(channels) == chan' = channels /\ UNCHANGED losses

\* handle_connection takes the next line of connection c; one that has been
\* given up and is read to its end is gone.
Taken(q, p, c) ==
    LET conns == chan[q][p]
    IN  [chan EXCEPT ![q][p] =
            IF c < Len(conns) /\ Len(conns[c]) = 1
            THEN SubSeq(conns, 1, c - 1) \o SubSeq(conns, c + 1, Len(conns))
            ELSE [conns EXCEPT ![c] = Tail(@)]]

Receive(q, p, c, type) ==
    /\ Listening(p)
    /\ chan[q][p][c] # <<>>
    /\ Head(chan[q][p][c]).type = type

-----------------------------------------------------------------------------
(* Start, adaptor points and leader election.                              *)

\* Variant: start_swap_session enters a state that SwapState does not have.
StartUnknownState(p) ==
    /\ ~started[p]
    /\ started' = [started EXCEPT ![p] = TRUE]
    /\ Cast(chan, p, <<AdaptorPoint>>)
    /\ state' = [state EXCEPT ![p] = "Started"]
    /\ UNCHANGED <<election, signing>>

\* start_swap_session; peers may have advanced the session before.
Start(p) ==
    /\ ~started[p]
    /\ started' = [started EXCEPT ![p] = TRUE]
    /\ Cast(chan, p, <<AdaptorPoint>>)
    /\ state' = [state EXCEPT ![p] =
                    IF @ = "Initialized" THEN "AwaitingAdaptorPoints" ELSE @]
    /\ UNCHANGED <<election, signing>>

\* validate_funding_utxos turns the session down.
StartFails(p) ==
    /\ Refusals
    /\ ~started[p]
    /\ started' = [started EXCEPT ![p] = TRUE]
    /\ state' = [state EXCEPT ![p] = "Failed"]
    /\ UNCHANGED <<election, signing, chan, losses>>

\* Variants: one point may be missing; one more is waited for.
AllAdaptorPointsButOne(points) == Cardinality(Participants \ points) <= 1
AllAdaptorPointsAndOne(points) == Cardinality(points) > Cardinality(Participants)

AllAdaptorPoints(points) == Participants \subseteq points

\* start_leader_election is called once: what it sends.
StartElection(p) ==
    IF p \in leader_commitments[p] THEN <<>> ELSE <<LeaderElectionCommitment>>

\* The point that completes the set opens the election, but only in a session
\* that waits for it.
HandleAdaptorPoint(q, p, c) ==
    /\ Receive(q, p, c, "AdaptorPoint")
    /\ adaptor_points' = [adaptor_points EXCEPT ![p] = @ \cup {q}]
    /\ IF AllAdaptorPoints(adaptor_points[p] \cup {q})
            /\ state[p] = "AwaitingAdaptorPoints"
       THEN /\ state' = [state EXCEPT ![p] = "AwaitingLeaderElectionCommitments"]
            /\ leader_commitments' = [leader_commitments EXCEPT ![p] = @ \cup {p}]
            /\ leader_nonces' = [leader_nonces EXCEPT ![p] = @ \cup {p}]
            /\ Cast(Taken(q, p, c), p, StartElection(p))
       ELSE /\ CastNothing(Taken(q, p, c))
            /\ UNCHANGED <<state, leader_commitments, leader_nonces>>
    /\ UNCHANGED <<started, signing>>

\* Variant: one commitment may be missing.
AllCommitmentsButOne(commitments) == Cardinality(Participants \ commitments) <= 1

AllCommitments(commitments) == Participants \subseteq commitments

\* broadcast_leader_nonce, when it is time.
RevealNonce(reveals) == IF reveals THEN <<LeaderElectionNonce>> ELSE <<>>

\* The first commitment makes a session commit too, whatever it waits for; the
\* last one makes it reveal its nonce.
HandleLeaderElectionCommitment(q, p, c) ==
    LET starts == p \notin leader_commitments[p]
        commitments == leader_commitments[p] \cup {p, q}
        reveals == /\ AllCommitments(commitments)
                   /\ starts \/ state[p] # "AwaitingLeaderElectionNonces"
    IN  /\ Receive(q, p, c, "LeaderElectionCommitment")
        /\ leader_commitments' = [leader_commitments EXCEPT ![p] = commitments]
        /\ leader_nonces' = [leader_nonces EXCEPT ![p] = @ \cup {p}]
        /\ state' = [state EXCEPT ![p] =
                        IF reveals THEN "AwaitingLeaderElectionNonces"
                        ELSE IF starts THEN "AwaitingLeaderElectionCommitments"
                        ELSE @]
        /\ Cast(Taken(q, p, c), p,
                StartElection(p) \o RevealNonce(reveals))
        /\ UNCHANGED <<started, adaptor_points, signing>>

\* begin_refund_signing and begin_spend_signing: every transaction enters the
\* first round with a nonce of p.
BeginSigning(q, p, c) ==
    /\ musig_sessions' = [musig_sessions EXCEPT ![p] = [role \in Roles |-> "RoundOne"]]
    /\ schnorr_nonces' = [schnorr_nonces EXCEPT ![p] =
            [role \in Roles |-> schnorr_nonces[p][role] \cup {p}]]
    /\ Cast(Taken(q, p, c), p,
            [i \in 1 .. Len(RoleOrder) |-> SchnorrNonce(RoleOrder[i])])

\* received_leader_nonce expects the commitment of the nonce.
Expected(q, p) == q \in leader_commitments[p]

\* An unexpected nonce panics; the last nonce gives the leader, and signing
\* begins unless it has.
HandleLeaderElectionNonce(q, p, c) ==
    /\ Receive(q, p, c, "LeaderElectionNonce")
    /\ IF ~Expected(q, p)
       THEN /\ state' = [state EXCEPT ![p] = "Panicked"]
            /\ CastNothing(Taken(q, p, c))
            /\ UNCHANGED <<leader_nonces, musig_sessions, schnorr_nonces>>
       ELSE /\ leader_nonces' = [leader_nonces EXCEPT ![p] = @ \cup {q}]
            /\ IF /\ Participants \subseteq leader_nonces[p] \cup {q}
                  /\ \A role \in Roles : musig_sessions[p][role] = "None"
               THEN /\ state' = [state EXCEPT ![p] = "RefundAndSpendTxsSigning"]
                    /\ BeginSigning(q, p, c)
               ELSE /\ CastNothing(Taken(q, p, c))
                    /\ UNCHANGED <<state, musig_sessions, schnorr_nonces>>
    /\ UNCHANGED <<started, adaptor_points, leader_commitments, partial_sigs, signed>>

-----------------------------------------------------------------------------
(* The two rounds of signing.                                              *)

\* Variant: a spend is signed under the signer's point alone.
SigningPointsOwn(p, role) == IF role[1] = "Spend" THEN {p} ELSE {}

\* The adaptor points a signature for the transaction is made under.
SigningPoints(p, role) == IF role[1] = "Spend" THEN adaptor_points[p] ELSE {}

AllNonces(p, holders) == Others(p) \subseteq holders

\* transition_to_round_two returns at once unless the transaction is in the
\* first round.
TransitionToRoundTwo(q, p, c, role) ==
    IF musig_sessions[p][role] = "RoundOne"
    THEN LET points == SigningPoints(p, role)
         IN  /\ musig_sessions' = [musig_sessions EXCEPT ![p][role] = "RoundTwo"]
             /\ partial_sigs' = [partial_sigs EXCEPT ![p][role] = @ \cup {<<p, points>>}]
             /\ Cast(Taken(q, p, c), p, <<PartialSignature(role, points)>>)
    ELSE /\ CastNothing(Taken(q, p, c))
         /\ UNCHANGED <<musig_sessions, partial_sigs>>

\* The last nonce for a transaction leads to the second round.
HandleSchnorrNonce(q, p, c) ==
    LET role == Head(chan[q][p][c]).role
        holders == schnorr_nonces[p][role] \cup {q}
    IN  /\ Receive(q, p, c, "SchnorrNonce")
        /\ schnorr_nonces' = [schnorr_nonces EXCEPT ![p][role] = holders]
        /\ IF AllNonces(p, holders)
           THEN TransitionToRoundTwo(q, p, c, role)
           ELSE /\ CastNothing(Taken(q, p, c))
                /\ UNCHANGED <<musig_sessions, partial_sigs>>
        /\ UNCHANGED <<started, state, election, signed>>

SignedByOthers(p, sigs) == \A r \in Others(p) : \E sig \in sigs : sig[1] = r

\* Variant: the signatures of one peer will do.
AllSignedByOne(p, sigs, finalized) ==
    \E r \in Others(p) : \A role \in Roles : \E sig \in sigs[role] : sig[1] = r

\* Variant: the spends are not asked for.
AllRefundsSigned(p, sigs, finalized) ==
    \A r \in Participants : Refund(r) \in Roles => SignedByOthers(p, sigs[Refund(r)])

\* all_partial_sigs_received_for_all_refund_and_spend_txs: for refunds it asks
\* for the partial signatures, for spends for the finalized adaptor signature.
AllSigned(p, sigs, finalized) ==
    /\ \A r \in Participants : Refund(r) \in Roles => SignedByOthers(p, sigs[Refund(r)])
    /\ \A r \in Participants : Spend(r) \in Roles => Spend(r) \in finalized

\* finalize_role returns at once unless the transaction is in the second round,
\* and panics when the signatures do not combine.
Finalizes(p, role, sigs) ==
    SignedByOthers(p, sigs) /\ musig_sessions[p][role] = "RoundTwo"
Combine(p, role, sigs) == \A sig \in sigs : sig[2] = SigningPoints(p, role)

\* The last partial signature for a transaction finalizes it; the last of all
\* leads to funding.
HandlePartialSignature(q, p, c) ==
    LET m == Head(chan[q][p][c])
        role == m.role
        sigs == [partial_sigs[p] EXCEPT ![role] = @ \cup {<<q, m.points>>}]
        finalizes == Finalizes(p, role, sigs[role])
        finalized == IF finalizes THEN signed[p] \cup {role} ELSE signed[p]
    IN  /\ Receive(q, p, c, "PartialSignature")
        /\ partial_sigs' = [partial_sigs EXCEPT ![p] = sigs]
        /\ IF finalizes /\ ~Combine(p, role, sigs[role])
           THEN /\ state' = [state EXCEPT ![p] = "Panicked"]
                /\ UNCHANGED signed
           ELSE /\ signed' = [signed EXCEPT ![p] = finalized]
                /\ IF AllSigned(p, sigs, finalized)
                   THEN \/ state' = [state EXCEPT ![p] = "AwaitingLockConfirmations"]
                        \/ Refusals /\ state' = [state EXCEPT ![p] = "Failed"]
                   ELSE UNCHANGED state
        /\ CastNothing(Taken(q, p, c))
        /\ UNCHANGED <<started, election, musig_sessions, schnorr_nonces>>

-----------------------------------------------------------------------------
Init ==
    /\ started = [p \in Participants |-> FALSE]
    /\ state = [p \in Participants |-> "Initialized"]
    /\ adaptor_points = [p \in Participants |-> {p}]
    /\ leader_commitments = [p \in Participants |-> {}]
    /\ leader_nonces = [p \in Participants |-> {}]
    /\ musig_sessions = [p \in Participants |-> [role \in Roles |-> "None"]]
    /\ schnorr_nonces = [p \in Participants |-> [role \in Roles |-> {}]]
    /\ partial_sigs = [p \in Participants |-> [role \in Roles |-> {}]]
    /\ signed = [p \in Participants |-> {}]
    /\ chan = [q \in Participants |-> [p \in Participants |-> << <<>> >>]]
    /\ losses = 0

PeerMessage(q, p) ==
    \E c \in DOMAIN chan[q][p] :
        \/ HandleAdaptorPoint(q, p, c)
        \/ HandleLeaderElectionCommitment(q, p, c)
        \/ HandleLeaderElectionNonce(q, p, c)
        \/ HandleSchnorrNonce(q, p, c)
        \/ HandlePartialSignature(q, p, c)

Next ==
    \/ \E p \in Participants : Start(p) \/ StartFails(p)
    \/ \E p, q \in Participants : PeerMessage(q, p)

Spec == Init /\ [][Next]_vars

\* The operator starts every session once and the event loop takes every
\* message; nothing here has a timeout.
Fairness ==
    /\ \A p \in Participants : WF_vars(Start(p))
    /\ \A p, q \in Participants : WF_vars(PeerMessage(q, p))

FairSpec == Spec /\ Fairness

-----------------------------------------------------------------------------
(* Properties.                                                             *)

TypeOK ==
    /\ started \in [Participants -> BOOLEAN]
    /\ state \in [Participants -> SwapStates]
    /\ adaptor_points \in [Participants -> SUBSET Participants]
    /\ leader_commitments \in [Participants -> SUBSET Participants]
    /\ leader_nonces \in [Participants -> SUBSET Participants]
    /\ musig_sessions \in [Participants -> [Roles -> {"None", "RoundOne", "RoundTwo"}]]
    /\ schnorr_nonces \in [Participants -> [Roles -> SUBSET Participants]]
    /\ partial_sigs \in
          [Participants -> [Roles -> SUBSET (Participants \X SUBSET Participants)]]
    /\ signed \in [Participants -> SUBSET Roles]
    /\ chan \in [Participants -> [Participants -> Seq(Seq(WireMessages))]]
    /\ losses \in 0 .. MaxLosses

InSigning(p) == \E role \in Roles : musig_sessions[p][role] # "None"

UnderWay(q, p, m) ==
    \E c \in DOMAIN chan[q][p] : \E i \in DOMAIN chan[q][p][c] : chan[q][p][c][i] = m

\* A nonce of the election leaves its daemon only when all have committed:
\* commit, then reveal (leader_election.rs, session.rs:236-252).
CommitBeforeReveal ==
    (\E q, p \in Participants :
        q # p /\ (q \in leader_nonces[p] \/ UnderWay(q, p, LeaderElectionNonce)))
      => \A p \in Participants : p \in leader_commitments[p]

\* README.md:564, "Adaptor point guard": nobody signs before holding the
\* adaptor points of all, although a first commitment may open the election in
\* a session that waits for points or has not been started.
AdaptorPointGuard ==
    \A p \in Participants : InSigning(p) => adaptor_points[p] = Participants

\* README.md:561: who has funded holds the signed refund of its own deposit.
FundedIsRefundable ==
    \A p \in Participants :
        state[p] = "AwaitingLockConfirmations" /\ Refund(p) \in Roles
            => Refund(p) \in signed[p]

\* Who has funded can count on the whole cycle: everybody holds everybody's
\* signature for every transaction, or is about to.
FundedMeansAllSign ==
    \A p, q \in Participants :
        state[p] = "AwaitingLockConfirmations"
            => \A role \in Roles : musig_sessions[q][role] = "RoundTwo"

\* Messages in order of their connection meet none of the expectations that
\* panic: the commitment of a nonce is there, and signatures combine.
NoPanic == \A p \in Participants : state[p] # "Panicked"

\* Nobody is left waiting in setup: all started sessions get to fund.
AllFund == <>(\A p \in Participants : state[p] = "AwaitingLockConfirmations")

=============================================================================
