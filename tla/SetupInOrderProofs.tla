--------------------------- MODULE SetupInOrderProofs ---------------------------
(***************************************************************************)
(* Theorems of Setup when no message is lost, for every number of          *)
(* participants: each pair then has one connection, which keeps the order  *)
(* of everything its sender has written.  What p sends comes in phases:    *)
(* its point, its commitment, its election nonce, then what signing needs; *)
(* so the head of a line says what of its sender has been recorded before. *)
(*                                                                         *)
(* Every step of a daemon Extends: it takes at most one message, records   *)
(* it, and tells of its own progress by what it sends.  FlowKept shows once*)
(* that such a step keeps what relates the lines to the sessions; each     *)
(* action is then shown to be such a step and to keep what relates the     *)
(* fields of a session to each other.                                      *)
(***************************************************************************)
EXTENDS SetupProofs

Line(q, p) == chan[q][p][1]

\* The order in which a daemon sends: its point, its commitment and its nonce
\* once, then the nonces and the signatures for the transactions.
Before(m, k) ==
    \/ m.type = "AdaptorPoint" /\ k.type # "AdaptorPoint"
    \/ /\ m.type = "LeaderElectionCommitment"
       /\ k.type \notin {"AdaptorPoint", "LeaderElectionCommitment"}
    \/ /\ m.type \in {"LeaderElectionNonce", "SchnorrNonce"}
       /\ k.type \in {"SchnorrNonce", "PartialSignature"}
    \/ m.type = "PartialSignature" /\ k.type = "PartialSignature"

InOrder(line) == \A i, j \in DOMAIN line : i < j => Before(line[i], line[j])

OneLine ==
    \A q, p \in Participants :
        Len(chan[q][p]) = 1 /\ (q = p => Line(q, p) = <<>>)

Sorted == \A q, p \in Participants : InOrder(Line(q, p))

Revealed(p) == Participants \subseteq leader_commitments[p]
Began(p) == Participants \subseteq leader_nonces[p]

\* The point of q has been sent and is held or on its way everywhere.
PointOut(q) ==
    /\ started[q]
    /\ \A p \in Others(q) : q \in adaptor_points[p] \/ UnderWay(q, p, AdaptorPoint)

\* The points that all signatures for a transaction are made under.
Full(role) == IF role[1] = "Spend" THEN Participants ELSE {}

\* What a message that is under way tells of its sender.
OnLine ==
    \A q, p \in Participants :
        /\ UnderWay(q, p, AdaptorPoint) => PointOut(q)
        /\ UnderWay(q, p, LeaderElectionCommitment) =>
              q \in leader_commitments[q] /\ q \notin leader_commitments[p]
        /\ UnderWay(q, p, LeaderElectionNonce) => Revealed(q)
        /\ \A role \in Roles :
              /\ UnderWay(q, p, SchnorrNonce(role)) => Began(q)
              /\ \A points \in SUBSET Participants :
                    UnderWay(q, p, PartialSignature(role, points)) =>
                        musig_sessions[q][role] = "RoundTwo" /\ points = Full(role)

\* What has been sent is held or on its way.
Delivered ==
    \A q, p \in Participants : q # p =>
        /\ q \in leader_commitments[q] =>
              q \in leader_commitments[p] \/ UnderWay(q, p, LeaderElectionCommitment)
        /\ Revealed(q) =>
              q \in leader_nonces[p] \/ UnderWay(q, p, LeaderElectionNonce)
        /\ Began(q) => \A role \in Roles :
              q \in schnorr_nonces[p][role] \/ UnderWay(q, p, SchnorrNonce(role))

\* Points go out before anybody commits.
Points ==
    \A p, q \in Participants :
        /\ p # q /\ q \in adaptor_points[p] => PointOut(q)
        /\ p \in adaptor_points[p]
        /\ state[p] = "AwaitingAdaptorPoints" => PointOut(p)
        /\ leader_commitments[p] # {} => PointOut(q)

\* Nonces follow commitments, and commitments follow points.
Election ==
    \A p, q \in Participants :
        /\ leader_commitments[p] # {} => p \in leader_commitments[p] /\ p \in leader_nonces[p]
        /\ leader_nonces[p] \subseteq leader_commitments[p]
        /\ q # p /\ q \in leader_commitments[p] => q \in adaptor_points[p]
        /\ state[p] = "AwaitingLeaderElectionNonces" => Revealed(p)

\* The rounds of each transaction go along with what is held for it.
Signing ==
    \A p \in Participants : \A role \in Roles :
        /\ musig_sessions[p][role] # "None" <=> Began(p)
        /\ \A r \in Others(p) : r \in schnorr_nonces[p][role] => r \in leader_nonces[p]
        /\ AllNonces(p, schnorr_nonces[p][role]) => musig_sessions[p][role] = "RoundTwo"
        /\ \A sig \in partial_sigs[p][role] :
              /\ sig[2] = Full(role)
              /\ musig_sessions[sig[1]][role] = "RoundTwo"
              /\ sig[1] # p => sig[1] \in schnorr_nonces[p][role]
        /\ role \in signed[p] <=> SignedByOthers(p, partial_sigs[p][role])

\* A session that funds has everything signed.
Funded ==
    \A p \in Participants :
        state[p] = "AwaitingLockConfirmations" => AllSigned(p, partial_sigs[p], signed[p])

JInv ==
    /\ IInv /\ OneLine /\ Sorted /\ OnLine /\ Delivered /\ Points /\ Election
    /\ Signing /\ NoPanic /\ Funded

-----------------------------------------------------------------------------
(* Lines.                                                                  *)

\* Without a loss all messages go on the same connection.
LEMMA WritingInOrder ==
    ASSUME NEW line \in Seq(WireMessages), NEW q, NEW messages \in Seq(WireMessages)
    PROVE  Written(<<line>>, q, messages, {}) = <<line \o messages>>
<1> DEFINE n == Len(messages)
           Part(i) == line \o SubSeq(messages, 1, i)
<1>1. PICK f : Progress(f, <<line>>, q, messages, {})
  BY WritingProgresses
<1>2. n \in Nat
  OBVIOUS
<1>3. ASSUME NEW i \in 0 .. n
      PROVE  Part(i) \in Seq(WireMessages)
  OBVIOUS
<1>4. ASSUME NEW i \in 0 .. n - 1
      PROVE  Part(i + 1) = Append(Part(i), messages[i + 1])
  <2>1. SubSeq(messages, 1, i + 1) = Append(SubSeq(messages, 1, i), messages[i + 1])
    BY <1>2
  <2>2. SubSeq(messages, 1, i) \in Seq(WireMessages) /\ messages[i + 1] \in WireMessages
    BY <1>2
  <2> DEFINE s == SubSeq(messages, 1, i)
             m == messages[i + 1]
  <2> HIDE DEF s, m
  <2>3. s \in Seq(WireMessages) /\ m \in WireMessages
    BY <2>2 DEF s, m
  <2>4. line \o Append(s, m) = Append(line \o s, m)
    BY <2>3
  <2>5. QED
    BY <2>1, <2>4 DEF s, m
<1>5. Part(0) = line /\ Part(n) = line \o messages
  BY <1>2
<1> HIDE DEF n, Part
<1>6. /\ f[0] = <<line>>
      /\ \A i \in 1 .. n : f[i] = NextConns(f[i - 1], q, messages[i], {})
      /\ Written(<<line>>, q, messages, {}) = f[n]
  BY <1>1 DEF Progress, n
<1> DEFINE S == {i \in Nat : i <= n => f[i] = <<Part(i)>>}
<1>7. 0 \in S
  BY <1>5, <1>6
<1>8. ASSUME NEW i \in Nat, i \in S PROVE i + 1 \in S
  <2> SUFFICES ASSUME i + 1 <= n PROVE f[i + 1] = <<Part(i + 1)>>
    OBVIOUS
  <2>1. f[i] = <<Part(i)>> /\ i \in 0 .. n - 1
    BY <1>2, <1>8
  <2>2. f[i + 1] = NextConns(<<Part(i)>>, q, messages[i + 1], {})
    <3>1. i + 1 \in 1 .. n /\ (i + 1) - 1 = i
      BY <1>2
    <3>2. f[i + 1] = NextConns(f[(i + 1) - 1], q, messages[i + 1], {})
      BY <1>6, <3>1
    <3>3. QED
      BY <2>1, <3>1, <3>2
  <2>3. NextConns(<<Part(i)>>, q, messages[i + 1], {}) = <<Append(Part(i), messages[i + 1])>>
    BY DEF NextConns
  <2>4. QED
    BY <1>4, <2>1, <2>2, <2>3
<1>9. Nat \subseteq S
  BY <1>7, <1>8, Induct
<1>10. f[n] = <<Part(n)>>
  BY <1>2, <1>9
<1>11. QED
  BY <1>5, <1>6, <1>10

LEMMA Single == \A x : Len(<<x>>) = 1 /\ <<x>>[1] = x
  OBVIOUS

\* What a step does to the lines: messages that p takes leave the head of
\* theirs, and messages that p sends go to the end of all of p's own.
Moves(taken, p, messages) ==
    /\ OneLine'
    /\ \A a, b \in Participants :
          /\ Line(a, b) \in Seq(WireMessages)
          /\ <<a, b>> \in taken => a # p /\ b = p /\ Line(a, b) # <<>>
          /\ Line(a, b)' =
                IF <<a, b>> \in taken THEN Tail(Line(a, b))
                ELSE IF a = p /\ b # p THEN Line(a, b) \o messages
                ELSE Line(a, b)

LEMMA OnlyLines ==
    ASSUME IInv, OneLine, NEW a \in Participants, NEW b \in Participants
    PROVE  /\ chan[a][b] = <<Line(a, b)>> /\ Line(a, b) \in Seq(WireMessages)
           /\ DOMAIN chan[a][b] = {1}
           /\ \A m : UnderWay(a, b, m) <=> Among(Line(a, b), m)
<1>1. chan[a][b] \in Seq(Seq(WireMessages)) /\ Len(chan[a][b]) = 1
  BY DEF IInv, Channels, Conns, OneLine
<1>2. chan[a][b] = <<Line(a, b)>> /\ DOMAIN chan[a][b] = {1}
  BY <1>1 DEF Line
<1>3. QED
  BY <1>1, <1>2 DEF Line, UnderWay, Among

LEMMA NothingLost ==
    ASSUME MaxLosses = 0, losses = 0, NEW channels, NEW p \in Participants,
           NEW messages \in Seq(WireMessages), Cast(channels, p, messages)
    PROVE  chan' = [channels EXCEPT ![p] = [q \in Participants |->
               IF q = p THEN channels[p][q]
               ELSE Written(channels[p][q], q, messages, {})]]
<1>1. PICK lost \in SUBSET (Others(p) \X {messages[i] : i \in 1 .. Len(messages)}) :
          /\ losses' = losses + Cardinality(lost)
          /\ losses' <= MaxLosses
          /\ chan' = [channels EXCEPT ![p] = [q \in Participants |->
                 IF q = p THEN channels[p][q]
                 ELSE Written(channels[p][q], q, messages, lost)]]
  BY DEF Cast
<1>2. IsFiniteSet(lost)
  <2> DEFINE D == 1 .. Len(messages)
             T == {messages[i] : i \in D}
  <2>1. IsFiniteSet(D)
    <3>1. Len(messages) \in Int
      OBVIOUS
    <3>2. QED
      BY <3>1, FS_Interval
  <2>2. IsFiniteSet(T)
    <3>1. [i \in D |-> messages[i]] \in Surjection(D, T)
      BY DEF Surjection
    <3>2. QED
      BY <2>1, <3>1, FS_Surjection
  <2>3. IsFiniteSet(Others(p))
    BY SetupAssumption, FS_Subset DEF Others
  <2>4. IsFiniteSet(Others(p) \X T)
    BY <2>2, <2>3, FS_Product
  <2>5. QED
    BY <1>1, <2>4, FS_Subset
<1>3. Cardinality(lost) = 0
  BY <1>1, <1>2, FS_CardinalityType
<1>4. lost = {}
  BY <1>2, <1>3, FS_EmptySet
<1>5. QED
  BY <1>1, <1>4

LEMMA StartMoves ==
    ASSUME MaxLosses = 0, IInv, OneLine, NEW p \in Participants,
           NEW messages \in Seq(WireMessages), Cast(chan, p, messages)
    PROVE  Moves({}, p, messages)
<1>1. losses = 0
  BY DEF IInv, TypeOK
<1>2. chan' = [chan EXCEPT ![p] = [q \in Participants |->
               IF q = p THEN chan[p][q] ELSE Written(chan[p][q], q, messages, {})]]
  BY <1>1, NothingLost
<1>3. ASSUME NEW a \in Participants, NEW b \in Participants
      PROVE  /\ Line(a, b) \in Seq(WireMessages)
             /\ chan'[a][b] = << IF a = p /\ b # p THEN Line(a, b) \o messages
                                 ELSE Line(a, b) >>
  <2>1. chan[a][b] = <<Line(a, b)>> /\ Line(a, b) \in Seq(WireMessages)
    BY OnlyLines
  <2>2. chan \in [Participants -> [Participants -> Conns]]
    BY DEF IInv, Channels
  <2>3. CASE a = p /\ b # p
    <3>1. chan'[a][b] = Written(<<Line(a, b)>>, b, messages, {})
      BY <1>2, <2>1, <2>2, <2>3
    <3>2. QED
      BY <2>1, <2>3, <3>1, WritingInOrder
  <2>4. CASE ~(a = p /\ b # p)
    BY <1>2, <2>1, <2>2, <2>4
  <2>5. QED
    BY <2>1, <2>3, <2>4
<1>4. OneLine'
  <2> DEFINE New(a, b) == IF a = p /\ b # p THEN Line(a, b) \o messages ELSE Line(a, b)
  <2>1. \A a \in Participants : New(a, a) = <<>>
    BY DEF OneLine
  <2>2. \A a, b \in Participants : chan'[a][b] = <<New(a, b)>>
    BY <1>3
  <2> HIDE DEF New
  <2>3. \A a, b \in Participants : Len(chan'[a][b]) = 1 /\ chan'[a][b][1] = New(a, b)
    BY <2>2, Single, Zenon
  <2>4. QED
    BY <2>1, <2>3 DEF OneLine, Line
<1>5. QED
  BY <1>3, <1>4 DEF Moves, Line

\* Nothing is sent and nothing taken.
LEMMA NothingMoves ==
    ASSUME IInv, OneLine, NEW p \in Participants, UNCHANGED chan
    PROVE  Moves({}, p, <<>>)
<1>1. \A a, b \in Participants : Line(a, b) \in Seq(WireMessages) /\ Line(a, b)' = Line(a, b)
  BY OnlyLines DEF Line
<1>2. \A line \in Seq(WireMessages) : line \o <<>> = line
  OBVIOUS
<1>3. OneLine'
  BY DEF OneLine, Line
<1>4. QED
  BY <1>1, <1>2, <1>3 DEF Moves

\* The connections once the message has been taken.
LEMMA TakingInOrder ==
    ASSUME IInv, OneLine, NEW q \in Participants, NEW p \in Participants,
           NEW c \in DOMAIN chan[q][p], chan[q][p][c] # <<>>
    PROVE  /\ q # p /\ Line(q, p) # <<>> /\ chan[q][p][c] = Line(q, p)
           /\ Taken(q, p, c) = [chan EXCEPT ![q][p] = <<Tail(Line(q, p))>>]
<1>1. c = 1 /\ chan[q][p] = <<Line(q, p)>> /\ Line(q, p) \in Seq(WireMessages)
  BY OnlyLines
<1>2. chan[q][p][c] = Line(q, p)
  BY <1>1 DEF Line
<1>3. q # p /\ Line(q, p) # <<>>
  BY <1>2 DEF OneLine
<1>4. [chan[q][p] EXCEPT ![c] = Tail(@)] = <<Tail(Line(q, p))>>
  BY <1>1
<1>5. ~(c < Len(chan[q][p]))
  BY <1>1
<1>6. QED
  BY <1>2, <1>3, <1>4, <1>5 DEF Taken

LEMMA HandlingMoves ==
    ASSUME MaxLosses = 0, IInv, OneLine, NEW q \in Participants, NEW p \in Participants,
           NEW c \in DOMAIN chan[q][p], chan[q][p][c] # <<>>,
           NEW messages \in Seq(WireMessages),
           \/ Cast(Taken(q, p, c), p, messages)
           \/ messages = <<>> /\ CastNothing(Taken(q, p, c))
    PROVE  Moves({<<q, p>>}, p, messages)
<1> DEFINE channels == Taken(q, p, c)
<1>1. losses = 0
  BY DEF IInv, TypeOK
<1>2. /\ q # p /\ Line(q, p) # <<>>
      /\ channels = [chan EXCEPT ![q][p] = <<Tail(Line(q, p))>>]
  BY TakingInOrder
<1>3. chan \in [Participants -> [Participants -> Conns]]
  BY DEF IInv, Channels
<1>4. ASSUME NEW a \in Participants, NEW b \in Participants
      PROVE  /\ Line(a, b) \in Seq(WireMessages)
             /\ channels[a][b] = << IF a = q /\ b = p THEN Tail(Line(a, b))
                                    ELSE Line(a, b) >>
  <2>1. chan[a][b] = <<Line(a, b)>> /\ Line(a, b) \in Seq(WireMessages)
    BY OnlyLines
  <2>2. CASE a = q /\ b = p
    BY <1>2, <1>3, <2>1, <2>2
  <2>3. CASE ~(a = q /\ b = p)
    <3>1. channels[a][b] = chan[a][b]
      BY <1>2, <1>3, <2>3
    <3> HIDE DEF channels
    <3>2. QED
      BY <2>1, <2>3, <3>1
  <2>4. QED
    BY <2>2, <2>3
<1>5. channels \in [Participants -> [Participants -> Seq(Seq(WireMessages))]]
  <2>1. channels \in Channels
    BY Taking DEF IInv
  <2>2. QED
    BY <2>1, ChannelsTyped
<1> HIDE DEF channels
<1>6. ASSUME NEW a \in Participants, NEW b \in Participants
      PROVE  chan'[a][b] = << IF a = q /\ b = p THEN Tail(Line(a, b))
                              ELSE IF a = p /\ b # p THEN Line(a, b) \o messages
                              ELSE Line(a, b) >>
  <2>1. CASE Cast(channels, p, messages)
    <3>1. chan' = [channels EXCEPT ![p] = [r \in Participants |->
               IF r = p THEN channels[p][r] ELSE Written(channels[p][r], r, messages, {})]]
      BY <1>1, <2>1, NothingLost
    <3>2. CASE a = p /\ b # p
      <4>1. channels[a][b] = <<Line(a, b)>>
        BY <1>2, <1>4, <3>2
      <4>2. chan'[a][b] = Written(<<Line(a, b)>>, b, messages, {})
        BY <1>5, <3>1, <3>2, <4>1
      <4>3. Written(<<Line(a, b)>>, b, messages, {}) = <<Line(a, b) \o messages>>
        BY <1>4, WritingInOrder
      <4>4. ~(a = q /\ b = p)
        BY <1>2, <3>2
      <4>5. QED
        BY <3>2, <4>2, <4>3, <4>4
    <3>3. CASE ~(a = p /\ b # p)
      <4>1. chan'[a][b] = channels[a][b]
        BY <1>5, <3>1, <3>3
      <4>2. CASE a = q /\ b = p
        <5>1. channels[a][b] = <<Tail(Line(a, b))>>
          BY <1>4, <4>2
        <5>2. QED
          BY <4>1, <4>2, <5>1
      <4>3. CASE ~(a = q /\ b = p)
        <5>1. channels[a][b] = <<Line(a, b)>>
          BY <1>4, <4>3
        <5>2. QED
          BY <3>3, <4>1, <4>3, <5>1
      <4>4. QED
        BY <4>2, <4>3
    <3>4. QED
      BY <3>2, <3>3
  <2>2. CASE messages = <<>> /\ CastNothing(channels)
    <3>1. chan' = channels
      BY <2>2 DEF CastNothing
    <3>2. Line(a, b) \o messages = Line(a, b)
      BY <1>4, <2>2
    <3>3. QED
      BY <1>4, <3>1, <3>2
  <2>3. QED
    BY <2>1, <2>2 DEF channels
<1>7. OneLine'
  <2> DEFINE New(a, b) == IF a = q /\ b = p THEN Tail(Line(a, b))
                          ELSE IF a = p /\ b # p THEN Line(a, b) \o messages
                          ELSE Line(a, b)
  <2>1. \A a \in Participants : New(a, a) = <<>>
    BY <1>2 DEF OneLine
  <2>2. \A a, b \in Participants : chan'[a][b] = <<New(a, b)>>
    BY <1>6
  <2> HIDE DEF New
  <2>3. \A a, b \in Participants : Len(chan'[a][b]) = 1 /\ chan'[a][b][1] = New(a, b)
    BY <2>2, Single, Zenon
  <2>4. QED
    BY <2>1, <2>3 DEF OneLine, Line
<1>8. ASSUME NEW a \in Participants, NEW b \in Participants
      PROVE  Line(a, b)' = IF <<a, b>> \in {<<q, p>>} THEN Tail(Line(a, b))
                           ELSE IF a = p /\ b # p THEN Line(a, b) \o messages
                           ELSE Line(a, b)
  BY <1>6 DEF Line
<1>9. QED
  BY <1>2, <1>4, <1>7, <1>8 DEF Moves

\* What is under way after a step.
LEMMA Effects ==
    ASSUME IInv, IInv', OneLine, NEW taken, NEW p \in Participants,
           NEW messages \in Seq(WireMessages), Moves(taken, p, messages)
    PROVE  /\ \A a, b \in Participants : \A m :
                 UnderWay(a, b, m)' =>
                    UnderWay(a, b, m) \/ (a = p /\ b # p /\ Among(messages, m))
           /\ \A a, b \in Participants : \A m :
                 UnderWay(a, b, m) =>
                    UnderWay(a, b, m)' \/ (<<a, b>> \in taken /\ m = Head(Line(a, b)))
           /\ \A b \in Participants : \A m :
                 b # p /\ Among(messages, m) => UnderWay(p, b, m)'
<1>1. ASSUME NEW a \in Participants, NEW b \in Participants
      PROVE  \A m : UnderWay(a, b, m)' <=> Among(Line(a, b)', m)
  <2>1. chan'[a][b] \in Seq(Seq(WireMessages)) /\ Len(chan'[a][b]) = 1
    BY DEF IInv, Channels, Conns, OneLine, Moves
  <2>2. DOMAIN chan'[a][b] = {1}
    BY <2>1
  <2>3. QED
    BY <2>2 DEF UnderWay, Among, Line
<1>2. ASSUME NEW a \in Participants, NEW b \in Participants, <<a, b>> \in taken
      PROVE  /\ \A m : Among(Line(a, b)', m) => Among(Line(a, b), m)
             /\ \A m : Among(Line(a, b), m) =>
                          Among(Line(a, b)', m) \/ m = Head(Line(a, b))
             /\ a # p
  <2> DEFINE line == Line(a, b)
  <2>1. line \in Seq(WireMessages) /\ line # <<>> /\ Line(a, b)' = Tail(line) /\ a # p
    BY <1>2 DEF Moves
  <2> HIDE DEF line
  <2>2. /\ Tail(line) \in Seq(WireMessages) /\ Len(Tail(line)) = Len(line) - 1
        /\ \A i \in 1 .. Len(line) - 1 : Tail(line)[i] = line[i + 1]
        /\ Head(line) = line[1]
    BY <2>1
  <2>3. \A m : Among(Tail(line), m) => Among(line, m)
    <3> SUFFICES ASSUME NEW i \in DOMAIN Tail(line) PROVE Among(line, Tail(line)[i])
      BY DEF Among
    <3>1. i \in 1 .. Len(line) - 1 /\ i + 1 \in DOMAIN line
      BY <2>1, <2>2
    <3>2. QED
      BY <2>2, <3>1 DEF Among
  <2>4. \A m : Among(line, m) => Among(Tail(line), m) \/ m = Head(line)
    <3> SUFFICES ASSUME NEW i \in DOMAIN line, line[i] # Head(line)
                 PROVE  Among(Tail(line), line[i])
      BY DEF Among
    <3>1. i - 1 \in 1 .. Len(line) - 1 /\ i - 1 \in DOMAIN Tail(line) /\ (i - 1) + 1 = i
      BY <2>1, <2>2
    <3>2. QED
      BY <2>2, <3>1 DEF Among
  <2>5. QED
    BY <2>1, <2>3, <2>4 DEF line
<1>3. ASSUME NEW b \in Participants, b # p, <<p, b>> \notin taken
      PROVE  \A m : Among(Line(p, b)', m) <=> Among(Line(p, b), m) \/ Among(messages, m)
  <2> DEFINE line == Line(p, b)
  <2>1. line \in Seq(WireMessages) /\ Line(p, b)' = line \o messages
    BY <1>3 DEF Moves
  <2> HIDE DEF line
  <2>2. /\ line \o messages \in Seq(WireMessages)
        /\ Len(line \o messages) = Len(line) + Len(messages)
        /\ Len(line) \in Nat /\ Len(messages) \in Nat
        /\ \A i \in 1 .. Len(line) + Len(messages) : (line \o messages)[i] =
              IF i <= Len(line) THEN line[i] ELSE messages[i - Len(line)]
    BY <2>1, ConcatProperties
  <2>3. \A m : Among(line \o messages, m) => Among(line, m) \/ Among(messages, m)
    <3> SUFFICES ASSUME NEW i \in DOMAIN (line \o messages)
                 PROVE  \/ Among(line, (line \o messages)[i])
                        \/ Among(messages, (line \o messages)[i])
      BY DEF Among
    <3>1. i \in 1 .. Len(line) + Len(messages)
      BY <2>2
    <3>2. CASE i <= Len(line)
      <4>1. i \in DOMAIN line
        BY <2>1, <2>2, <3>1, <3>2
      <4>2. QED
        BY <2>2, <3>1, <3>2, <4>1 DEF Among
    <3>3. CASE ~(i <= Len(line))
      <4>1. i - Len(line) \in DOMAIN messages
        BY <2>2, <3>1, <3>3
      <4>2. QED
        BY <2>2, <3>1, <3>3, <4>1 DEF Among
    <3>4. QED
      BY <3>2, <3>3
  <2>4. \A m : Among(line, m) => Among(line \o messages, m)
    <3> SUFFICES ASSUME NEW i \in DOMAIN line PROVE Among(line \o messages, line[i])
      BY DEF Among
    <3>1. /\ i \in 1 .. Len(line) + Len(messages) /\ i <= Len(line)
          /\ i \in DOMAIN (line \o messages)
      BY <2>1, <2>2
    <3>2. QED
      BY <2>2, <3>1 DEF Among
  <2>5. \A m : Among(messages, m) => Among(line \o messages, m)
    <3> SUFFICES ASSUME NEW i \in DOMAIN messages PROVE Among(line \o messages, messages[i])
      BY DEF Among
    <3>1. /\ i + Len(line) \in 1 .. Len(line) + Len(messages) /\ ~(i + Len(line) <= Len(line))
          /\ i + Len(line) \in DOMAIN (line \o messages) /\ (i + Len(line)) - Len(line) = i
      BY <2>1, <2>2
    <3>2. QED
      BY <2>2, <3>1 DEF Among
  <2>6. QED
    BY <2>1, <2>3, <2>4, <2>5 DEF line
<1>4. ASSUME NEW a \in Participants, NEW b \in Participants,
             <<a, b>> \notin taken, ~(a = p /\ b # p)
      PROVE  Line(a, b)' = Line(a, b)
  BY <1>4 DEF Moves
<1>5. \A b \in Participants : <<p, b>> \notin taken
  BY DEF Moves
<1>6. \A a, b \in Participants : \A m : UnderWay(a, b, m) <=> Among(Line(a, b), m)
  BY OnlyLines
<1>7. ASSUME NEW a \in Participants, NEW b \in Participants, NEW m
      PROVE  /\ UnderWay(a, b, m)' =>
                   UnderWay(a, b, m) \/ (a = p /\ b # p /\ Among(messages, m))
             /\ UnderWay(a, b, m) =>
                   UnderWay(a, b, m)' \/ (<<a, b>> \in taken /\ m = Head(Line(a, b)))
  <2>1. CASE <<a, b>> \in taken
    BY <1>1, <1>2, <1>6, <2>1
  <2>2. CASE a = p /\ b # p
    BY <1>1, <1>3, <1>5, <1>6, <2>2
  <2>3. CASE <<a, b>> \notin taken /\ ~(a = p /\ b # p)
    BY <1>1, <1>4, <1>6, <2>3
  <2>4. QED
    BY <2>1, <2>2, <2>3
<1>8. \A b \in Participants : \A m : b # p /\ Among(messages, m) => UnderWay(p, b, m)'
  BY <1>1, <1>3, <1>5
<1>9. QED
  BY <1>7, <1>8

\* Lines stay in order if what is sent comes after what is on them, and what
\* is left on a line comes after what has been taken from it.
LEMMA SortedKept ==
    ASSUME IInv, OneLine, Sorted, NEW taken, NEW p \in Participants,
           NEW messages \in Seq(WireMessages), Moves(taken, p, messages),
           InOrder(messages),
           \A b \in Participants : \A m, k :
              b # p /\ UnderWay(p, b, m) /\ Among(messages, k) => Before(m, k)
    PROVE  Sorted'
<1> SUFFICES ASSUME NEW a \in Participants, NEW b \in Participants
             PROVE  InOrder(Line(a, b)')
  BY DEF Sorted, InOrder
<1>1. InOrder(Line(a, b)) /\ Line(a, b) \in Seq(WireMessages)
  BY DEF Sorted, Moves
<1>2. CASE <<a, b>> \in taken
  <2> DEFINE line == Line(a, b)
  <2>1. line \in Seq(WireMessages) /\ line # <<>> /\ Line(a, b)' = Tail(line)
    BY <1>1, <1>2 DEF Moves
  <2> HIDE DEF line
  <2>2. /\ DOMAIN Tail(line) = 1 .. Len(line) - 1 /\ DOMAIN line = 1 .. Len(line)
        /\ \A i \in 1 .. Len(line) - 1 : Tail(line)[i] = line[i + 1]
    BY <2>1
  <2>3. ASSUME NEW i \in DOMAIN Tail(line), NEW j \in DOMAIN Tail(line), i < j
        PROVE  Before(Tail(line)[i], Tail(line)[j])
    <3>1. i + 1 \in DOMAIN line /\ j + 1 \in DOMAIN line /\ i + 1 < j + 1
      BY <2>1, <2>2, <2>3
    <3>2. Before(line[i + 1], line[j + 1])
      BY <1>1, <3>1 DEF InOrder, line
    <3>3. QED
      BY <2>2, <3>2
  <2>4. QED
    BY <2>1, <2>3 DEF InOrder
<1>3. CASE <<a, b>> \notin taken /\ a = p /\ b # p
  <2> DEFINE line == Line(a, b)
             new == line \o messages
  <2>1. line \in Seq(WireMessages) /\ Line(a, b)' = new
    BY <1>1, <1>3 DEF Moves
  <2>2. \A m, k : Among(line, m) /\ Among(messages, k) => Before(m, k)
    BY <1>3, OnlyLines
  <2>3. InOrder(line)
    BY <1>1
  <2> HIDE DEF line
  <2>4. /\ new \in Seq(WireMessages)
        /\ Len(new) = Len(line) + Len(messages)
        /\ Len(line) \in Nat /\ Len(messages) \in Nat
        /\ \A i \in 1 .. Len(line) + Len(messages) : new[i] =
              IF i <= Len(line) THEN line[i] ELSE messages[i - Len(line)]
    BY <2>1, ConcatProperties
  <2>5. /\ DOMAIN new = 1 .. Len(line) + Len(messages)
        /\ DOMAIN line = 1 .. Len(line) /\ DOMAIN messages = 1 .. Len(messages)
    BY <2>1, <2>4
  <2> HIDE DEF new
  <2>6. ASSUME NEW i \in DOMAIN new, NEW j \in DOMAIN new, i < j
        PROVE  Before(new[i], new[j])
    <3>1. CASE j <= Len(line)
      <4>1. i \in DOMAIN line /\ j \in DOMAIN line /\ i <= Len(line)
        BY <2>4, <2>5, <2>6, <3>1
      <4>2. new[i] = line[i] /\ new[j] = line[j]
        BY <2>4, <2>5, <3>1, <4>1
      <4>3. QED
        BY <2>3, <2>6, <4>1, <4>2 DEF InOrder
    <3>2. CASE i <= Len(line) /\ ~(j <= Len(line))
      <4>1. i \in DOMAIN line /\ j - Len(line) \in DOMAIN messages
        BY <2>4, <2>5, <2>6, <3>2
      <4>2. new[i] = line[i] /\ new[j] = messages[j - Len(line)]
        BY <2>4, <2>5, <3>2, <4>1
      <4>3. QED
        BY <2>2, <4>1, <4>2 DEF Among
    <3>3. CASE ~(i <= Len(line))
      <4>1. /\ i - Len(line) \in DOMAIN messages /\ j - Len(line) \in DOMAIN messages
            /\ i - Len(line) < j - Len(line) /\ ~(j <= Len(line))
        BY <2>4, <2>5, <2>6, <3>3
      <4>2. new[i] = messages[i - Len(line)] /\ new[j] = messages[j - Len(line)]
        BY <2>4, <2>5, <3>3, <4>1
      <4>3. QED
        BY <4>1, <4>2 DEF InOrder
    <3>4. QED
      BY <2>4, <2>5, <3>1, <3>2, <3>3
  <2>7. QED
    BY <2>1, <2>6 DEF InOrder
<1>4. CASE <<a, b>> \notin taken /\ ~(a = p /\ b # p)
  BY <1>1, <1>4 DEF Moves
<1>5. QED
  BY <1>2, <1>3, <1>4

LEMMA TakenFirst ==
    ASSUME IInv, IInv', OneLine, Sorted, NEW taken, NEW p \in Participants,
           NEW messages \in Seq(WireMessages), Moves(taken, p, messages),
           NEW a \in Participants, NEW b \in Participants, <<a, b>> \in taken
    PROVE  \A m : UnderWay(a, b, m)' => Before(Head(Line(a, b)), m)
<1> DEFINE line == Line(a, b)
<1>1. /\ line \in Seq(WireMessages) /\ line # <<>> /\ Line(a, b)' = Tail(line)
      /\ InOrder(line)
  BY DEF Moves, Sorted
<1>2. \A m : UnderWay(a, b, m)' => Among(Line(a, b)', m)
  <2>1. chan'[a][b] \in Seq(Seq(WireMessages)) /\ Len(chan'[a][b]) = 1
    BY DEF IInv, Channels, Conns, OneLine, Moves
  <2>2. DOMAIN chan'[a][b] = {1}
    BY <2>1
  <2>3. QED
    BY <2>2 DEF UnderWay, Among, Line
<1> HIDE DEF line
<1>3. /\ DOMAIN Tail(line) = 1 .. Len(line) - 1 /\ DOMAIN line = 1 .. Len(line)
      /\ Len(line) \in Nat /\ Head(line) = line[1]
      /\ \A i \in 1 .. Len(line) - 1 : Tail(line)[i] = line[i + 1]
  BY <1>1
<1>4. ASSUME NEW i \in DOMAIN Tail(line) PROVE Before(Head(line), Tail(line)[i])
  <2>1. 1 \in DOMAIN line /\ i + 1 \in DOMAIN line /\ 1 < i + 1
    BY <1>3
  <2>2. Before(line[1], line[i + 1])
    BY <1>1, <2>1 DEF InOrder
  <2>3. QED
    BY <1>3, <2>2
<1>5. QED
  BY <1>1, <1>2, <1>4 DEF Among, line

-----------------------------------------------------------------------------
(* What every step has in common.                                          *)

\* Nothing that has been done or recorded is undone.
Grows ==
    \A a \in Participants :
        /\ started[a] => started'[a]
        /\ adaptor_points[a] \subseteq adaptor_points'[a]
        /\ leader_commitments[a] \subseteq leader_commitments'[a]
        /\ leader_nonces[a] \subseteq leader_nonces'[a]
        /\ \A role \in Roles :
              /\ schnorr_nonces[a][role] \subseteq schnorr_nonces'[a][role]
              /\ musig_sessions[a][role] = "RoundTwo" =>
                    musig_sessions'[a][role] = "RoundTwo"

\* What is taken is recorded.
Records(taken) ==
    \A a, b \in Participants : <<a, b>> \in taken =>
        /\ Head(Line(a, b)) = AdaptorPoint => a \in adaptor_points'[b]
        /\ Head(Line(a, b)) = LeaderElectionCommitment => a \in leader_commitments'[b]
        /\ Head(Line(a, b)) = LeaderElectionNonce => a \in leader_nonces'[b]
        /\ \A role \in Roles :
              Head(Line(a, b)) = SchnorrNonce(role) => a \in schnorr_nonces'[b][role]

\* A peer is known from what it has sent alone.
Learns(taken) ==
    \A a, b \in Participants : a # b =>
        /\ a \in adaptor_points'[b] =>
              \/ a \in adaptor_points[b]
              \/ <<a, b>> \in taken /\ Head(Line(a, b)) = AdaptorPoint
        /\ a \in leader_commitments'[b] =>
              \/ a \in leader_commitments[b]
              \/ <<a, b>> \in taken /\ Head(Line(a, b)) = LeaderElectionCommitment

\* Progress is told of.
Tells(p, messages) ==
    \A a \in Participants :
        /\ a \in leader_commitments'[a] =>
              \/ a \in leader_commitments[a]
              \/ a = p /\ Among(messages, LeaderElectionCommitment)
        /\ Revealed(a)' => Revealed(a) \/ (a = p /\ Among(messages, LeaderElectionNonce))
        /\ Began(a)' =>
              \/ Began(a)
              \/ a = p /\ \A role \in Roles : Among(messages, SchnorrNonce(role))

\* What is told is true.
Means(p, messages) ==
    /\ Among(messages, AdaptorPoint) => started'[p]
    /\ Among(messages, LeaderElectionCommitment) =>
          p \notin leader_commitments[p] /\ p \in leader_commitments'[p]
    /\ Among(messages, LeaderElectionNonce) => Revealed(p)'
    /\ \A role \in Roles :
          /\ Among(messages, SchnorrNonce(role)) => Began(p)'
          /\ \A points \in SUBSET Participants :
                Among(messages, PartialSignature(role, points)) =>
                   musig_sessions'[p][role] = "RoundTwo" /\ points = Full(role)

\* Nobody waits for points before sending its own, and who commits has all or
\* follows another.
Opens(p, messages) ==
    \A a \in Participants :
        /\ state'[a] = "AwaitingAdaptorPoints" =>
              \/ state[a] = "AwaitingAdaptorPoints"
              \/ a = p /\ Among(messages, AdaptorPoint)
        /\ leader_commitments'[a] # {} =>
              \/ leader_commitments[a] # {}
              \/ \E b \in Participants : UnderWay(b, a, LeaderElectionCommitment)
              \/ /\ state[a] = "AwaitingAdaptorPoints"
                 /\ Participants \subseteq adaptor_points'[a]

\* What is sent comes after all that the sender has on its lines.
Follows(p, messages) ==
    /\ messages \in Seq(WireMessages) /\ InOrder(messages)
    /\ \A b \in Participants : \A m, k :
          b # p /\ UnderWay(p, b, m) /\ Among(messages, k) => Before(m, k)

Extends(taken, p, messages) ==
    /\ Moves(taken, p, messages) /\ Follows(p, messages)
    /\ Grows /\ Records(taken) /\ Learns(taken)
    /\ Tells(p, messages) /\ Means(p, messages) /\ Opens(p, messages)

LEMMA HeadUnderWay ==
    ASSUME IInv, OneLine, NEW taken, NEW p \in Participants, NEW messages,
           Moves(taken, p, messages), NEW a \in Participants, NEW b \in Participants,
           <<a, b>> \in taken
    PROVE  /\ UnderWay(a, b, Head(Line(a, b))) /\ Head(Line(a, b)) \in WireMessages
           /\ b = p /\ a # p
<1>1. /\ Line(a, b) \in Seq(WireMessages) /\ Line(a, b) # <<>> /\ b = p /\ a # p
  BY DEF Moves
<1>2. /\ 1 \in DOMAIN Line(a, b) /\ Head(Line(a, b)) = Line(a, b)[1]
      /\ Line(a, b)[1] \in WireMessages
  BY <1>1
<1>3. QED
  BY <1>1, <1>2, OnlyLines DEF Among

\* A point that is out stays so: it leaves a line only by being recorded.
LEMMA PointOutKept ==
    ASSUME JInv, IInv', NEW taken, NEW p \in Participants, NEW messages,
           Extends(taken, p, messages), NEW q \in Participants, PointOut(q)
    PROVE  PointOut(q)'
<1>1. Grows /\ Records(taken) /\ Moves(taken, p, messages) /\ messages \in Seq(WireMessages)
  BY DEF Extends, Follows
<1>2. started'[q]
  BY <1>1 DEF Grows, PointOut
<1>3. \A b \in Participants : \A m : UnderWay(q, b, m) =>
         UnderWay(q, b, m)' \/ (<<q, b>> \in taken /\ m = Head(Line(q, b)))
  BY <1>1, Effects DEF JInv
<1>4. ASSUME NEW b \in Others(q)
      PROVE  q \in adaptor_points'[b] \/ UnderWay(q, b, AdaptorPoint)'
  <2>1. b \in Participants
    BY DEF Others
  <2>2. CASE q \in adaptor_points[b]
    BY <1>1, <2>1, <2>2 DEF Grows
  <2>3. CASE UnderWay(q, b, AdaptorPoint)
    <3>1. UnderWay(q, b, AdaptorPoint)'
             \/ (<<q, b>> \in taken /\ Head(Line(q, b)) = AdaptorPoint)
      BY <1>3, <2>1, <2>3
    <3>2. QED
      BY <1>1, <2>1, <3>1 DEF Records
  <2>4. QED
    BY <1>4, <2>2, <2>3 DEF PointOut
<1>5. QED
  BY <1>2, <1>4 DEF PointOut, Others

\* What relates the lines to the sessions is kept by every such step.
LEMMA FlowKept ==
    ASSUME JInv, IInv', NEW taken, NEW p \in Participants, NEW messages,
           Extends(taken, p, messages)
    PROVE  Sorted' /\ OnLine' /\ Delivered' /\ Points'
<1>1. /\ messages \in Seq(WireMessages) /\ InOrder(messages)
      /\ Moves(taken, p, messages) /\ OneLine'
      /\ Grows /\ Records(taken) /\ Learns(taken)
      /\ Tells(p, messages) /\ Means(p, messages) /\ Opens(p, messages)
  BY DEF Extends, Moves, Follows
<1>2. IInv /\ OneLine /\ Sorted /\ OnLine /\ Delivered /\ Points
  BY DEF JInv
<1>3. /\ \A a, b \in Participants : \A m :
            UnderWay(a, b, m)' =>
               UnderWay(a, b, m) \/ (a = p /\ b # p /\ Among(messages, m))
      /\ \A a, b \in Participants : \A m :
            UnderWay(a, b, m) =>
               UnderWay(a, b, m)' \/ (<<a, b>> \in taken /\ m = Head(Line(a, b)))
      /\ \A b \in Participants : \A m :
            b # p /\ Among(messages, m) => UnderWay(p, b, m)'
  BY <1>1, <1>2, Effects
<1>4. Sorted'
  BY <1>1, <1>2, SortedKept DEF Extends, Follows
<1>5. \A q \in Participants : PointOut(q) => PointOut(q)'
  BY PointOutKept
<1>6. Among(messages, AdaptorPoint) => PointOut(p)'
  BY <1>1, <1>3 DEF Means, PointOut, Others
<1>7. \A a, b \in Participants : <<a, b>> \in taken =>
         /\ UnderWay(a, b, Head(Line(a, b))) /\ b = p /\ a # p
         /\ \A m : UnderWay(a, b, m)' => Before(Head(Line(a, b)), m)
  BY <1>1, <1>2, HeadUnderWay, TakenFirst
<1>8. OnLine'
  <2> SUFFICES ASSUME NEW a \in Participants, NEW b \in Participants
               PROVE
        /\ UnderWay(a, b, AdaptorPoint)' => PointOut(a)'
        /\ UnderWay(a, b, LeaderElectionCommitment)' =>
              a \in leader_commitments'[a] /\ a \notin leader_commitments'[b]
        /\ UnderWay(a, b, LeaderElectionNonce)' => Revealed(a)'
        /\ \A role \in Roles :
              /\ UnderWay(a, b, SchnorrNonce(role))' => Began(a)'
              /\ \A points \in SUBSET Participants :
                    UnderWay(a, b, PartialSignature(role, points))' =>
                        musig_sessions'[a][role] = "RoundTwo" /\ points = Full(role)
    BY DEF OnLine, Full
  <2>1. UnderWay(a, b, AdaptorPoint)' => PointOut(a)'
    BY <1>2, <1>3, <1>5, <1>6 DEF OnLine
  <2>2. ASSUME UnderWay(a, b, LeaderElectionCommitment)'
        PROVE  a \in leader_commitments'[a] /\ a \notin leader_commitments'[b]
    <3>1. a \in leader_commitments'[a]
      BY <1>1, <1>2, <1>3, <2>2 DEF OnLine, Grows, Means
    <3>2. a # b
      <4>1. CASE a = b
        <5>1. Line(a, b)' = <<>> /\ Len(chan'[a][b]) = 1
          BY <1>1, <4>1 DEF OneLine
        <5>2. chan'[a][b] \in Seq(Seq(WireMessages))
          BY DEF IInv, Channels, Conns
        <5>3. DOMAIN chan'[a][b] = {1} /\ chan'[a][b][1] = <<>>
          BY <5>1, <5>2 DEF Line
        <5>4. QED
          BY <2>2, <5>3 DEF UnderWay
      <4>2. QED
        BY <4>1
    <3>3. a \notin leader_commitments[b]
      BY <1>1, <1>2, <1>3, <2>2 DEF OnLine, Means, IInv, Committed
    <3>4. ~(<<a, b>> \in taken /\ Head(Line(a, b)) = LeaderElectionCommitment)
      <4>1. ~Before(LeaderElectionCommitment, LeaderElectionCommitment)
        BY DEF Before, LeaderElectionCommitment
      <4>2. QED
        BY <1>7, <2>2, <4>1
    <3>5. QED
      BY <1>1, <3>1, <3>2, <3>3, <3>4 DEF Learns
  <2>3. UnderWay(a, b, LeaderElectionNonce)' => Revealed(a)'
    BY <1>1, <1>2, <1>3 DEF OnLine, Grows, Means, Revealed
  <2>4. ASSUME NEW role \in Roles, UnderWay(a, b, SchnorrNonce(role))'
        PROVE  Began(a)'
    BY <1>1, <1>2, <1>3, <2>4 DEF OnLine, Grows, Means, Began
  <2>5. ASSUME NEW role \in Roles, NEW points \in SUBSET Participants,
               UnderWay(a, b, PartialSignature(role, points))'
        PROVE  musig_sessions'[a][role] = "RoundTwo" /\ points = Full(role)
    BY <1>1, <1>2, <1>3, <2>5 DEF OnLine, Grows, Means
  <2>6. QED
    BY <2>1, <2>2, <2>3, <2>4, <2>5
<1>9. Delivered'
  <2> SUFFICES ASSUME NEW a \in Participants, NEW b \in Participants, a # b
               PROVE
        /\ a \in leader_commitments'[a] =>
              a \in leader_commitments'[b] \/ UnderWay(a, b, LeaderElectionCommitment)'
        /\ Revealed(a)' =>
              a \in leader_nonces'[b] \/ UnderWay(a, b, LeaderElectionNonce)'
        /\ Began(a)' => \A role \in Roles :
              a \in schnorr_nonces'[b][role] \/ UnderWay(a, b, SchnorrNonce(role))'
    BY DEF Delivered
  <2>1. ASSUME a \in leader_commitments'[a]
        PROVE  a \in leader_commitments'[b] \/ UnderWay(a, b, LeaderElectionCommitment)'
    <3>1. CASE a \in leader_commitments[a]
      <4>1. a \in leader_commitments[b] \/ UnderWay(a, b, LeaderElectionCommitment)
        BY <1>2, <3>1 DEF Delivered
      <4>2. a \in leader_commitments[b] \/ UnderWay(a, b, LeaderElectionCommitment)'
               \/ (<<a, b>> \in taken /\ Head(Line(a, b)) = LeaderElectionCommitment)
        BY <1>3, <4>1
      <4>3. QED
        BY <1>1, <4>2 DEF Grows, Records
    <3>2. CASE a = p /\ Among(messages, LeaderElectionCommitment)
      BY <1>3, <3>2
    <3>3. QED
      BY <1>1, <2>1, <3>1, <3>2 DEF Tells
  <2>2. ASSUME Revealed(a)'
        PROVE  a \in leader_nonces'[b] \/ UnderWay(a, b, LeaderElectionNonce)'
    <3>1. CASE Revealed(a)
      <4>1. a \in leader_nonces[b] \/ UnderWay(a, b, LeaderElectionNonce)
        BY <1>2, <3>1 DEF Delivered
      <4>2. a \in leader_nonces[b] \/ UnderWay(a, b, LeaderElectionNonce)'
               \/ (<<a, b>> \in taken /\ Head(Line(a, b)) = LeaderElectionNonce)
        BY <1>3, <4>1
      <4>3. QED
        BY <1>1, <4>2 DEF Grows, Records
    <3>2. CASE a = p /\ Among(messages, LeaderElectionNonce)
      BY <1>3, <3>2
    <3>3. QED
      BY <1>1, <2>2, <3>1, <3>2 DEF Tells
  <2>3. ASSUME Began(a)', NEW role \in Roles
        PROVE  a \in schnorr_nonces'[b][role] \/ UnderWay(a, b, SchnorrNonce(role))'
    <3>1. CASE Began(a)
      <4>1. a \in schnorr_nonces[b][role] \/ UnderWay(a, b, SchnorrNonce(role))
        BY <1>2, <3>1 DEF Delivered
      <4>2. a \in schnorr_nonces[b][role] \/ UnderWay(a, b, SchnorrNonce(role))'
               \/ (<<a, b>> \in taken /\ Head(Line(a, b)) = SchnorrNonce(role))
        BY <1>3, <4>1
      <4>3. QED
        BY <1>1, <4>2 DEF Grows, Records
    <3>2. CASE a = p /\ Among(messages, SchnorrNonce(role))
      BY <1>3, <3>2
    <3>3. QED
      BY <1>1, <2>3, <3>1, <3>2 DEF Tells
  <2>4. QED
    BY <2>1, <2>2, <2>3
<1>10. Points'
  <2> SUFFICES ASSUME NEW a \in Participants, NEW b \in Participants
               PROVE
        /\ a # b /\ b \in adaptor_points'[a] => PointOut(b)'
        /\ a \in adaptor_points'[a]
        /\ state'[a] = "AwaitingAdaptorPoints" => PointOut(a)'
        /\ leader_commitments'[a] # {} => PointOut(b)'
    BY DEF Points
  <2>1. ASSUME NEW x \in Participants, NEW y \in Participants, x # y,
               y \in adaptor_points'[x]
        PROVE  PointOut(y)
    <3>1. CASE y \in adaptor_points[x]
      BY <1>2, <2>1, <3>1 DEF Points
    <3>2. CASE <<y, x>> \in taken /\ Head(Line(y, x)) = AdaptorPoint
      <4>1. UnderWay(y, x, AdaptorPoint)
        BY <1>7, <3>2
      <4>2. QED
        BY <1>2, <4>1 DEF OnLine
    <3>3. QED
      BY <1>1, <2>1, <3>1, <3>2 DEF Learns
  <2>2. a \in adaptor_points'[a]
    BY <1>1, <1>2 DEF Points, Grows
  <2>3. state'[a] = "AwaitingAdaptorPoints" => PointOut(a)'
    BY <1>1, <1>2, <1>5, <1>6 DEF Points, Opens
  <2>4. ASSUME leader_commitments'[a] # {} PROVE PointOut(b)
    <3>1. CASE leader_commitments[a] # {}
      BY <1>2, <3>1 DEF Points
    <3>2. CASE \E d \in Participants : UnderWay(d, a, LeaderElectionCommitment)
      <4>1. PICK d \in Participants : UnderWay(d, a, LeaderElectionCommitment)
        BY <3>2
      <4>2. leader_commitments[d] # {}
        BY <1>2, <4>1 DEF OnLine
      <4>3. QED
        BY <1>2, <4>2 DEF Points
    <3>3. CASE /\ state[a] = "AwaitingAdaptorPoints"
               /\ Participants \subseteq adaptor_points'[a]
      <4>1. CASE a = b
        BY <1>2, <3>3, <4>1 DEF Points
      <4>2. CASE a # b
        BY <2>1, <3>3, <4>2
      <4>3. QED
        BY <4>1, <4>2
    <3>4. QED
      BY <1>1, <2>4, <3>1, <3>2, <3>3 DEF Opens
  <2>5. QED
    BY <1>5, <2>1, <2>2, <2>3, <2>4
<1>11. QED
  BY <1>4, <1>8, <1>9, <1>10

-----------------------------------------------------------------------------
(* What the state of a session says of the messages around it.             *)

LEMMA NotAlone == ASSUME NEW p \in Participants PROVE Others(p) # {}
<1>1. Participants # {p}
  BY SetupAssumption, FS_Singleton
<1>2. QED
  BY <1>1 DEF Others

\* The message that is taken is the first on its line.
LEMMA TakesHead ==
    ASSUME IInv, OneLine, Sorted, NEW q \in Participants, NEW p \in Participants,
           NEW c \in DOMAIN chan[q][p], chan[q][p][c] # <<>>,
           NEW m, m = Head(chan[q][p][c])
    PROVE  /\ q # p /\ m = Head(Line(q, p)) /\ m \in WireMessages
           /\ UnderWay(q, p, m)
           /\ \A k : UnderWay(q, p, k) => k = m \/ Before(m, k)
<1> DEFINE line == Line(q, p)
<1>1. q # p /\ line # <<>> /\ chan[q][p][c] = line
  BY TakingInOrder
<1>2. line \in Seq(WireMessages) /\ \A k : UnderWay(q, p, k) <=> Among(line, k)
  BY OnlyLines
<1>3. InOrder(line)
  BY DEF Sorted
<1> HIDE DEF line
<1>4. m = line[1] /\ 1 \in DOMAIN line /\ line[1] \in WireMessages
  BY <1>1, <1>2
<1>5. ASSUME NEW i \in DOMAIN line PROVE line[i] = m \/ Before(m, line[i])
  <2>1. i = 1 \/ 1 < i
    BY <1>2
  <2>2. QED
    BY <1>3, <1>4, <2>1 DEF InOrder
<1>6. QED
  BY <1>1, <1>2, <1>4, <1>5 DEF Among, line

\* Who has begun to sign holds everything of the election.
LEMMA BegunHoldsAll ==
    ASSUME JInv, NEW p \in Participants, Began(p)
    PROVE  /\ Revealed(p) /\ leader_commitments[p] # {} /\ p \in leader_commitments[p]
           /\ adaptor_points[p] = Participants
           /\ \A role \in Roles : SigningPoints(p, role) = Full(role)
<1>1. Election /\ Points
  BY DEF JInv
<1>2. Revealed(p) /\ p \in leader_commitments[p]
  BY <1>1 DEF Election, Began, Revealed
<1>3. Participants \subseteq adaptor_points[p]
  BY <1>1, <1>2 DEF Election, Points, Revealed
<1>4. adaptor_points[p] = Participants
  BY <1>3 DEF JInv, IInv, TypeOK
<1>5. QED
  BY <1>2, <1>4 DEF SigningPoints, Full

\* How far a daemon has got bounds what is under way from it.
LEMMA Phases ==
    ASSUME JInv, NEW p \in Participants, NEW b \in Participants, NEW m, UnderWay(p, b, m)
    PROVE  /\ m \in WireMessages /\ started[p]
           /\ p \notin leader_commitments[p] => m = AdaptorPoint
           /\ ~Revealed(p) => m \in {AdaptorPoint, LeaderElectionCommitment}
           /\ ~Began(p) =>
                 m \in {AdaptorPoint, LeaderElectionCommitment, LeaderElectionNonce}
<1>1. OnLine /\ Points /\ Signing /\ Election
  BY DEF JInv
<1>2. m \in WireMessages
  <2>1. Line(p, b) \in Seq(WireMessages) /\ Among(Line(p, b), m)
    BY OnlyLines DEF JInv
  <2>2. QED
    BY <2>1 DEF Among
<1>3. leader_commitments[p] # {} => started[p]
  BY <1>1 DEF Points, PointOut
<1>4. CASE m = AdaptorPoint
  BY <1>1, <1>2, <1>4 DEF OnLine, PointOut
<1>5. CASE m = LeaderElectionCommitment
  BY <1>1, <1>2, <1>3, <1>5 DEF OnLine
<1>6. CASE m = LeaderElectionNonce
  <2>1. Revealed(p)
    BY <1>1, <1>6 DEF OnLine
  <2>2. p \in leader_commitments[p]
    BY <2>1 DEF Revealed
  <2>3. QED
    BY <1>2, <1>3, <1>6, <2>1, <2>2
<1>7. CASE \E role \in Roles : m = SchnorrNonce(role)
  <2>1. Began(p)
    BY <1>1, <1>7 DEF OnLine
  <2>2. QED
    BY <1>2, <1>3, <2>1, BegunHoldsAll
<1>8. CASE \E role \in Roles : \E points \in SUBSET Participants :
              m = PartialSignature(role, points)
  <2>1. PICK role \in Roles : musig_sessions[p][role] = "RoundTwo"
    BY <1>1, <1>8 DEF OnLine
  <2>2. Began(p)
    BY <1>1, <2>1 DEF Signing
  <2>3. QED
    BY <1>2, <1>3, <2>2, BegunHoldsAll
<1>9. QED
  BY <1>2, <1>4, <1>5, <1>6, <1>7, <1>8 DEF WireMessages

\* Whatever comes before it has been taken before.
LEMMA BeforeHead ==
    ASSUME JInv, NEW q \in Participants, NEW p \in Participants,
           NEW c \in DOMAIN chan[q][p], chan[q][p][c] # <<>>,
           NEW m, m = Head(chan[q][p][c])
    PROVE  /\ m = LeaderElectionCommitment =>
                /\ q \in leader_commitments[q] /\ q \notin leader_commitments[p]
                /\ q \in adaptor_points[p]
           /\ m = LeaderElectionNonce => q \in leader_commitments[p]
           /\ \A role \in Roles :
                 /\ m = SchnorrNonce(role) => q \in leader_nonces[p]
                 /\ \A points \in SUBSET Participants :
                       m = PartialSignature(role, points) =>
                          /\ q \in schnorr_nonces[p][role]
                          /\ musig_sessions[q][role] = "RoundTwo"
                          /\ points = Full(role)
<1>1. IInv /\ OneLine /\ Sorted /\ OnLine /\ Delivered /\ Points /\ Election /\ Signing
  BY DEF JInv
<1>2. /\ q # p /\ UnderWay(q, p, m)
      /\ \A k : UnderWay(q, p, k) => k = m \/ Before(m, k)
  BY <1>1, TakesHead
<1>3. CASE m = LeaderElectionCommitment
  <2>1. q \in leader_commitments[q] /\ q \notin leader_commitments[p]
    BY <1>1, <1>2, <1>3 DEF OnLine
  <2>2. q \in adaptor_points[p] \/ UnderWay(q, p, AdaptorPoint)
    BY <1>1, <1>2, <2>1 DEF Points, PointOut, Others
  <2>3. ~Before(m, AdaptorPoint)
    BY <1>3 DEF Before, AdaptorPoint, LeaderElectionCommitment
  <2>4. QED
    BY <1>2, <1>3, <2>1, <2>2, <2>3, Distinct
<1>4. CASE m = LeaderElectionNonce
  <2>1. q \in leader_commitments[q]
    BY <1>1, <1>2, <1>4 DEF OnLine, Revealed
  <2>2. q \in leader_commitments[p] \/ UnderWay(q, p, LeaderElectionCommitment)
    BY <1>1, <1>2, <2>1 DEF Delivered
  <2>3. ~Before(m, LeaderElectionCommitment)
    BY <1>4 DEF Before, LeaderElectionNonce, LeaderElectionCommitment
  <2>4. QED
    BY <1>2, <1>4, <2>2, <2>3, Distinct
<1>5. ASSUME NEW role \in Roles, m = SchnorrNonce(role)
      PROVE  q \in leader_nonces[p]
  <2>1. Began(q)
    BY <1>1, <1>2, <1>5 DEF OnLine
  <2>2. Revealed(q)
    BY <2>1, BegunHoldsAll
  <2>3. q \in leader_nonces[p] \/ UnderWay(q, p, LeaderElectionNonce)
    BY <1>1, <1>2, <2>2 DEF Delivered
  <2>4. ~Before(m, LeaderElectionNonce)
    BY <1>5 DEF Before, LeaderElectionNonce, SchnorrNonce
  <2>5. QED
    BY <1>2, <1>5, <2>3, <2>4, Distinct
<1>6. ASSUME NEW role \in Roles, NEW points \in SUBSET Participants,
             m = PartialSignature(role, points)
      PROVE  /\ q \in schnorr_nonces[p][role]
             /\ musig_sessions[q][role] = "RoundTwo"
             /\ points = Full(role)
  <2>1. musig_sessions[q][role] = "RoundTwo" /\ points = Full(role)
    BY <1>1, <1>2, <1>6 DEF OnLine
  <2>2. Began(q)
    BY <1>1, <2>1 DEF Signing
  <2>3. q \in schnorr_nonces[p][role] \/ UnderWay(q, p, SchnorrNonce(role))
    BY <1>1, <1>2, <2>2 DEF Delivered
  <2>4. m.type = "PartialSignature" /\ SchnorrNonce(role).type = "SchnorrNonce"
    BY <1>6 DEF PartialSignature, SchnorrNonce
  <2>5. ~Before(m, SchnorrNonce(role)) /\ m # SchnorrNonce(role)
    BY <2>4 DEF Before
  <2>6. QED
    BY <1>2, <2>1, <2>3, <2>5
<1>7. QED
  BY <1>3, <1>4, <1>5, <1>6, Distinct

-----------------------------------------------------------------------------
(* The steps.                                                              *)

Kept == Election' /\ Signing' /\ NoPanic' /\ Funded'

LEMMA Lists ==
    /\ \A m \in WireMessages : InOrder(<<m>>) /\ \A k : Among(<<m>>, k) <=> k = m
    /\ InOrder(<<>>) /\ \A k : ~Among(<<>>, k)
    /\ <<>> \in Seq(WireMessages) /\ \A m \in WireMessages : <<m>> \in Seq(WireMessages)
  BY DEF InOrder, Among

LEMMA NonceNoSignature ==
    \A role, other, points : SchnorrNonce(role) # PartialSignature(other, points)
<1>1. /\ \A role : SchnorrNonce(role).type = "SchnorrNonce"
      /\ \A role, points : PartialSignature(role, points).type = "PartialSignature"
  BY DEF SchnorrNonce, PartialSignature
<1>2. QED
  BY <1>1

LEMMA Typed ==
    ASSUME NEW m \in WireMessages
    PROVE  m.type \in {"AdaptorPoint", "LeaderElectionCommitment", "LeaderElectionNonce",
                       "SchnorrNonce", "PartialSignature"}
  BY DEF WireMessages, AdaptorPoint, LeaderElectionCommitment, LeaderElectionNonce,
         SchnorrNonce, PartialSignature

LEMMA Nothing ==
    \A s \in Seq(WireMessages) : s \o <<>> = s /\ <<>> \o s = s
  OBVIOUS

LEMMA TwoMessages ==
    ASSUME NEW m \in WireMessages, NEW n \in WireMessages, Before(m, n)
    PROVE  /\ <<m>> \o <<n>> \in Seq(WireMessages) /\ InOrder(<<m>> \o <<n>>)
           /\ \A k : Among(<<m>> \o <<n>>, k) <=> k = m \/ k = n
<1> DEFINE s == <<m>>
           t == <<n>>
           both == s \o t
<1>1. /\ s \in Seq(WireMessages) /\ t \in Seq(WireMessages)
      /\ Len(s) = 1 /\ Len(t) = 1 /\ s[1] = m /\ t[1] = n
  OBVIOUS
<1> HIDE DEF s, t
<1>2. /\ both \in Seq(WireMessages) /\ Len(both) = Len(s) + Len(t)
      /\ \A i \in 1 .. Len(s) + Len(t) :
            both[i] = IF i <= Len(s) THEN s[i] ELSE t[i - Len(s)]
  BY <1>1, ConcatProperties
<1> HIDE DEF both
<1>3. DOMAIN both = {1, 2} /\ both[1] = m /\ both[2] = n
  BY <1>1, <1>2
<1>4. InOrder(both)
  BY <1>3 DEF InOrder
<1>5. \A k : Among(both, k) <=> k = m \/ k = n
  BY <1>3 DEF Among
<1>6. QED
  BY <1>2, <1>4, <1>5, Zenon DEF both, s, t

\* A step that does not sign keeps what is known of signing.
LEMMA SigningUntouched ==
    ASSUME Signing, Funded, UNCHANGED signing,
           \A a \in Participants :
              /\ Began(a)' <=> Began(a)
              /\ leader_nonces[a] \subseteq leader_nonces'[a]
              /\ state'[a] = "AwaitingLockConfirmations" =>
                    state[a] = "AwaitingLockConfirmations"
    PROVE  Signing' /\ Funded'
<1>1. Signing'
  BY DEF Signing, signing, AllNonces, SignedByOthers, Full, Others
<1>2. Funded'
  BY DEF Funded, signing, AllSigned, SignedByOthers, Others
<1>3. QED
  BY <1>1, <1>2

LEMMA OnePair == \A q, p, a, b : <<a, b>> \in {<<q, p>>} <=> a = q /\ b = p
  OBVIOUS

\* Recording the one message that a handler takes.
LEMMA RecordsOne ==
    ASSUME NEW q, NEW p, NEW m, m = Head(Line(q, p)),
           m = AdaptorPoint => q \in adaptor_points'[p],
           m = LeaderElectionCommitment => q \in leader_commitments'[p],
           m = LeaderElectionNonce => q \in leader_nonces'[p],
           \A role \in Roles : m = SchnorrNonce(role) => q \in schnorr_nonces'[p][role]
    PROVE  Records({<<q, p>>})
  BY OnePair DEF Records

LEMMA StartExtends ==
    ASSUME MaxLosses = 0, JInv, IInv', NEW p \in Participants, Start(p) \/ StartFails(p)
    PROVE  /\ \E messages : Extends({}, p, messages)
           /\ Kept
<1>1. /\ ~started[p] /\ started' = [started EXCEPT ![p] = TRUE]
      /\ UNCHANGED <<election, signing>>
  BY DEF Start, StartFails
<1>2. /\ started \in [Participants -> BOOLEAN]
      /\ state \in [Participants -> SwapStates]
      /\ IInv /\ OneLine /\ Election /\ Signing /\ NoPanic /\ Funded
  BY DEF JInv, IInv, TypeOK
<1>3. UNCHANGED <<adaptor_points, leader_commitments, leader_nonces, musig_sessions,
                  schnorr_nonces, partial_sigs, signed>>
  BY <1>1 DEF election, signing
<1>4. \A a \in Participants :
         state'[a] = state[a] \/ (a = p /\ state'[a] \in {"Failed", "AwaitingAdaptorPoints"})
  BY <1>2 DEF Start, StartFails
<1>5. Grows /\ Records({}) /\ Learns({})
  BY <1>1, <1>2, <1>3 DEF Grows, Records, Learns
<1>6. \A m : Tells(p, m)
  BY <1>3 DEF Tells, Revealed, Began
<1>7. Kept
  <2>1. Election'
    BY <1>2, <1>3, <1>4 DEF Election, Revealed
  <2>2. Signing' /\ Funded'
    BY <1>1, <1>2, <1>3, <1>4, SigningUntouched DEF Began
  <2>3. NoPanic'
    BY <1>2, <1>4 DEF NoPanic
  <2>4. QED
    BY <2>1, <2>2, <2>3 DEF Kept
<1>8. CASE Start(p)
  <2> DEFINE messages == <<AdaptorPoint>>
  <2>1. messages \in Seq(WireMessages) /\ InOrder(messages)
        /\ \A k : Among(messages, k) <=> k = AdaptorPoint
    BY Lists, Wire
  <2> HIDE DEF messages
  <2>2. Cast(chan, p, messages)
    BY <1>8 DEF Start, messages
  <2>3. Moves({}, p, messages)
    BY <1>2, <2>1, <2>2, StartMoves
  <2>4. Follows(p, messages)
    <3>1. \A b \in Participants : \A m : ~UnderWay(p, b, m)
      BY <1>1, Phases
    <3>2. QED
      BY <2>1, <3>1 DEF Follows
  <2>5. Means(p, messages)
    BY <1>1, <1>2, <2>1, Distinct DEF Means
  <2>6. Opens(p, messages)
    BY <1>3, <1>4, <2>1 DEF Opens
  <2>7. QED
    BY <1>5, <1>6, <1>7, <2>3, <2>4, <2>5, <2>6 DEF Extends
<1>9. CASE StartFails(p)
  <2>1. UNCHANGED chan
    BY <1>9 DEF StartFails
  <2>2. Moves({}, p, <<>>)
    BY <1>2, <2>1, NothingMoves
  <2>3. Follows(p, <<>>)
    BY Lists DEF Follows
  <2>4. Means(p, <<>>)
    BY Lists DEF Means
  <2>5. state'[p] = "Failed"
    BY <1>2, <1>9 DEF StartFails
  <2>6. Opens(p, <<>>)
    BY <1>3, <1>4, <2>5, <1>2, <1>9 DEF Opens, StartFails
  <2>7. QED
    BY <1>5, <1>6, <1>7, <2>2, <2>3, <2>4, <2>6 DEF Extends
<1>10. QED
  BY <1>8, <1>9

LEMMA AdaptorPointExtends ==
    ASSUME MaxLosses = 0, JInv, IInv', NEW q \in Participants, NEW p \in Participants,
           NEW c \in DOMAIN chan[q][p], HandleAdaptorPoint(q, p, c)
    PROVE  /\ \E messages : Extends({<<q, p>>}, p, messages)
           /\ Kept
<1> DEFINE m == Head(chan[q][p][c])
           opens == /\ AllAdaptorPoints(adaptor_points[p] \cup {q})
                    /\ state[p] = "AwaitingAdaptorPoints"
           messages == IF opens THEN StartElection(p) ELSE <<>>
<1>1. /\ chan[q][p][c] # <<>> /\ m.type = "AdaptorPoint"
      /\ adaptor_points' = [adaptor_points EXCEPT ![p] = @ \cup {q}]
      /\ UNCHANGED <<started, signing>>
  BY DEF HandleAdaptorPoint, Receive
<1>2. /\ state \in [Participants -> SwapStates]
      /\ adaptor_points \in [Participants -> SUBSET Participants]
      /\ leader_commitments \in [Participants -> SUBSET Participants]
      /\ leader_nonces \in [Participants -> SUBSET Participants]
      /\ IInv /\ OneLine /\ Sorted /\ Election /\ Signing /\ NoPanic /\ Funded
  BY DEF JInv, IInv, TypeOK
<1>3. m = AdaptorPoint /\ q # p /\ m = Head(Line(q, p))
  BY <1>1, <1>2, TakesHead, Kinds
<1>4. UNCHANGED <<started, musig_sessions, schnorr_nonces, partial_sigs, signed>>
  BY <1>1 DEF signing
<1>5. /\ \A a \in Participants : adaptor_points'[a] =
            IF a = p THEN adaptor_points[a] \cup {q} ELSE adaptor_points[a]
      /\ \A a \in Participants : leader_commitments'[a] =
            IF a = p /\ opens THEN leader_commitments[a] \cup {p} ELSE leader_commitments[a]
      /\ \A a \in Participants : leader_nonces'[a] =
            IF a = p /\ opens THEN leader_nonces[a] \cup {p} ELSE leader_nonces[a]
      /\ \A a \in Participants : state'[a] =
            IF a = p /\ opens THEN "AwaitingLeaderElectionCommitments" ELSE state[a]
  <2>1. CASE opens
    <3>1. /\ state' = [state EXCEPT ![p] = "AwaitingLeaderElectionCommitments"]
          /\ leader_commitments' = [leader_commitments EXCEPT ![p] = @ \cup {p}]
          /\ leader_nonces' = [leader_nonces EXCEPT ![p] = @ \cup {p}]
      BY <2>1 DEF HandleAdaptorPoint
    <3> HIDE DEF opens
    <3>2. QED
      BY <1>1, <1>2, <2>1, <3>1
  <2>2. CASE ~opens
    <3>1. UNCHANGED <<state, leader_commitments, leader_nonces>>
      BY <2>2 DEF HandleAdaptorPoint
    <3> HIDE DEF opens
    <3>2. QED
      BY <1>1, <1>2, <2>2, <3>1
  <2>3. QED
    BY <2>1, <2>2
<1>6. opens => /\ state[p] = "AwaitingAdaptorPoints"
               /\ Participants \subseteq adaptor_points'[p]
  BY <1>5 DEF AllAdaptorPoints
<1>7. /\ messages \in Seq(WireMessages) /\ InOrder(messages)
      /\ \A k : Among(messages, k) <=>
            k = LeaderElectionCommitment /\ opens /\ p \notin leader_commitments[p]
  BY Lists, Wire DEF StartElection
<1>8. \/ Cast(Taken(q, p, c), p, messages)
      \/ messages = <<>> /\ CastNothing(Taken(q, p, c))
  BY DEF HandleAdaptorPoint
<1> HIDE DEF m, opens, messages
<1>9. Moves({<<q, p>>}, p, messages)
  BY <1>1, <1>2, <1>7, <1>8, HandlingMoves
<1>10. PICK r \in Participants : r # p
  BY NotAlone DEF Others
<1>11. ASSUME p \notin leader_commitments[p] \/ p \notin leader_nonces[p]
       PROVE  leader_commitments[p] = {} /\ leader_nonces[p] = {}
  BY <1>2, <1>11 DEF Election
<1>12. \A a \in Participants :
          (Revealed(a)' <=> Revealed(a)) /\ (Began(a)' <=> Began(a))
  BY <1>2, <1>5, <1>10, <1>11 DEF Revealed, Began
<1>13. Follows(p, messages)
  <2>1. ASSUME NEW b \in Participants, NEW k, UnderWay(p, b, k),
               p \notin leader_commitments[p]
        PROVE  Before(k, LeaderElectionCommitment)
    <3>1. k = AdaptorPoint
      BY <2>1, Phases
    <3>2. QED
      BY <3>1 DEF Before, AdaptorPoint, LeaderElectionCommitment
  <2>2. QED
    BY <1>7, <2>1 DEF Follows
<1>14. Grows
  BY <1>4, <1>5 DEF Grows
<1>15. Records({<<q, p>>}) /\ Learns({<<q, p>>})
  <2>1. q \in adaptor_points'[p]
    BY <1>5
  <2>2. Records({<<q, p>>})
    BY <1>3, <2>1, Distinct, RecordsOne
  <2>3. ASSUME NEW a \in Participants, NEW b \in Participants, a # b
        PROVE  /\ a \in adaptor_points'[b] => a \in adaptor_points[b] \/ (a = q /\ b = p)
               /\ a \in leader_commitments'[b] => a \in leader_commitments[b]
    <3>1. a \in adaptor_points'[b] => a \in adaptor_points[b] \/ (a = q /\ b = p)
      BY <1>5
    <3>2. a \in leader_commitments'[b] => a \in leader_commitments[b]
      <4>1. leader_commitments'[b] = leader_commitments[b]
               \/ (b = p /\ leader_commitments'[b] = leader_commitments[b] \cup {p})
        BY <1>5
      <4>2. QED
        BY <2>3, <4>1
    <3>3. QED
      BY <3>1, <3>2
  <2>4. QED
    BY <1>3, <2>2, <2>3, OnePair DEF Learns
<1>16. Tells(p, messages)
  BY <1>5, <1>7, <1>12 DEF Tells
<1>17. Means(p, messages)
  <2>1. \A k : Among(messages, k) => k = LeaderElectionCommitment
    BY <1>7
  <2>2. Among(messages, LeaderElectionCommitment) =>
           p \notin leader_commitments[p] /\ p \in leader_commitments'[p]
    BY <1>5, <1>7
  <2>3. QED
    BY <2>1, <2>2, Distinct DEF Means
<1>18. Opens(p, messages)
  BY <1>5, <1>6 DEF Opens
<1>19. Kept
  <2>1. Election'
    BY <1>2, <1>5, <1>11, <1>12 DEF Election
  <2>2. Signing' /\ Funded'
    BY <1>1, <1>2, <1>5, <1>12, SigningUntouched
  <2>3. NoPanic'
    BY <1>2, <1>5 DEF NoPanic
  <2>4. QED
    BY <2>1, <2>2, <2>3 DEF Kept
<1>20. QED
  BY <1>9, <1>13, <1>14, <1>15, <1>16, <1>17, <1>18, <1>19 DEF Extends

LEMMA CommitmentExtends ==
    ASSUME MaxLosses = 0, JInv, IInv', NEW q \in Participants, NEW p \in Participants,
           NEW c \in DOMAIN chan[q][p], HandleLeaderElectionCommitment(q, p, c)
    PROVE  /\ \E messages : Extends({<<q, p>>}, p, messages)
           /\ Kept
<1> DEFINE m == Head(chan[q][p][c])
           starts == p \notin leader_commitments[p]
           commitments == leader_commitments[p] \cup {p, q}
           reveals == /\ AllCommitments(commitments)
                      /\ starts \/ state[p] # "AwaitingLeaderElectionNonces"
           messages == StartElection(p) \o RevealNonce(reveals)
<1>1. /\ chan[q][p][c] # <<>> /\ m.type = "LeaderElectionCommitment"
      /\ leader_commitments' = [leader_commitments EXCEPT ![p] = commitments]
      /\ leader_nonces' = [leader_nonces EXCEPT ![p] = @ \cup {p}]
      /\ state' = [state EXCEPT ![p] =
                      IF reveals THEN "AwaitingLeaderElectionNonces"
                      ELSE IF starts THEN "AwaitingLeaderElectionCommitments"
                      ELSE @]
      /\ Cast(Taken(q, p, c), p, messages)
      /\ UNCHANGED <<started, adaptor_points, signing>>
  BY DEF HandleLeaderElectionCommitment, Receive
<1>2. /\ state \in [Participants -> SwapStates]
      /\ leader_commitments \in [Participants -> SUBSET Participants]
      /\ leader_nonces \in [Participants -> SUBSET Participants]
      /\ IInv /\ OneLine /\ Sorted /\ Points /\ Election /\ Signing /\ NoPanic /\ Funded
  BY DEF JInv, IInv, TypeOK
<1>3. /\ m = LeaderElectionCommitment /\ q # p /\ m = Head(Line(q, p))
      /\ UnderWay(q, p, LeaderElectionCommitment)
  BY <1>1, <1>2, TakesHead, Kinds
<1>4. q \notin leader_commitments[p] /\ q \in adaptor_points[p]
  BY <1>1, <1>3, BeforeHead
<1>5. UNCHANGED <<started, adaptor_points, musig_sessions, schnorr_nonces,
                  partial_sigs, signed>>
  BY <1>1 DEF signing
<1>6. /\ \A k : Among(messages, k) <=>
            \/ k = LeaderElectionCommitment /\ starts
            \/ k = LeaderElectionNonce /\ reveals
      /\ messages \in Seq(WireMessages) /\ InOrder(messages)
  <2> DEFINE C == LeaderElectionCommitment
             N == LeaderElectionNonce
  <2>1. Before(C, N) /\ C \in WireMessages /\ N \in WireMessages
    BY Wire DEF Before, LeaderElectionCommitment, LeaderElectionNonce
  <2> HIDE DEF C, N
  <2>2. /\ messages = StartElection(p) \o RevealNonce(reveals)
        /\ StartElection(p) = IF starts THEN <<C>> ELSE <<>>
        /\ RevealNonce(reveals) = IF reveals THEN <<N>> ELSE <<>>
    BY DEF StartElection, RevealNonce, C, N
  <2> HIDE DEF messages, starts, reveals
  <2>3. CASE starts /\ reveals
    BY <2>1, <2>2, <2>3, TwoMessages DEF C, N
  <2>4. CASE starts /\ ~reveals
    BY <2>1, <2>2, <2>4, Lists, Nothing DEF C, N
  <2>5. CASE ~starts /\ reveals
    BY <2>1, <2>2, <2>5, Lists, Nothing DEF C, N
  <2>6. CASE ~starts /\ ~reveals
    BY <2>2, <2>6, Lists, Nothing
  <2>7. QED
    BY <2>3, <2>4, <2>5, <2>6
<1> HIDE DEF messages
<1>7. Moves({<<q, p>>}, p, messages)
  BY <1>1, <1>2, <1>6, HandlingMoves
<1>8. ~Revealed(p) /\ (Revealed(p)' <=> reveals)
  <2>1. ~Revealed(p)
    BY <1>4 DEF Revealed
  <2>2. leader_commitments'[p] = commitments
    BY <1>1, <1>2
  <2>3. state[p] # "AwaitingLeaderElectionNonces"
    BY <1>2, <2>1 DEF Election
  <2>4. QED
    BY <2>1, <2>2, <2>3 DEF Revealed, AllCommitments
<1>9. \A a \in Participants : a # p =>
         /\ leader_commitments'[a] = leader_commitments[a]
         /\ leader_nonces'[a] = leader_nonces[a]
         /\ state'[a] = state[a]
  BY <1>1, <1>2
<1>10. /\ leader_commitments'[p] = leader_commitments[p] \cup {p, q}
       /\ leader_nonces'[p] = leader_nonces[p] \cup {p}
  BY <1>1, <1>2
<1>11. state'[p] = IF reveals THEN "AwaitingLeaderElectionNonces"
                   ELSE IF starts THEN "AwaitingLeaderElectionCommitments"
                   ELSE state[p]
  BY <1>1, <1>2
<1>12. ASSUME p \notin leader_nonces[p]
       PROVE  leader_commitments[p] = {} /\ leader_nonces[p] = {}
  BY <1>2, <1>12 DEF Election
<1>13. \A a \in Participants : Began(a)' <=> Began(a)
  <2>1. Began(p)' <=> Began(p)
    <3>1. CASE p \in leader_nonces[p]
      BY <1>10, <3>1 DEF Began
    <3>2. CASE p \notin leader_nonces[p]
      BY <1>3, <1>10, <1>12, <3>2 DEF Began
    <3>3. QED
      BY <3>1, <3>2
  <2>2. QED
    BY <1>9, <2>1 DEF Began
<1> HIDE DEF m, commitments, reveals
<1>14. Follows(p, messages)
  <2>1. ASSUME NEW b \in Participants, NEW k, UnderWay(p, b, k), starts
        PROVE  Before(k, LeaderElectionCommitment)
    <3>1. k = AdaptorPoint
      BY <2>1, Phases
    <3>2. QED
      BY <3>1 DEF Before, AdaptorPoint, LeaderElectionCommitment
  <2>2. ASSUME NEW b \in Participants, NEW k, UnderWay(p, b, k), reveals
        PROVE  Before(k, LeaderElectionNonce)
    <3>1. k \in {AdaptorPoint, LeaderElectionCommitment}
      BY <1>8, <2>2, Phases
    <3>2. QED
      BY <3>1 DEF Before, AdaptorPoint, LeaderElectionCommitment, LeaderElectionNonce
  <2>3. QED
    BY <1>6, <2>1, <2>2 DEF Follows
<1>15. Grows
  <2>1. \A a \in Participants : /\ leader_commitments[a] \subseteq leader_commitments'[a]
                                /\ leader_nonces[a] \subseteq leader_nonces'[a]
    BY <1>9, <1>10
  <2>2. QED
    BY <1>5, <2>1 DEF Grows
<1>16. Records({<<q, p>>}) /\ Learns({<<q, p>>})
  <2>1. Records({<<q, p>>})
    BY <1>3, <1>10, Distinct, RecordsOne
  <2>2. ASSUME NEW a \in Participants, NEW b \in Participants, a # b,
               a \in leader_commitments'[b]
        PROVE  a \in leader_commitments[b] \/ (a = q /\ b = p)
    BY <1>9, <1>10, <2>2
  <2>3. QED
    BY <1>3, <1>5, <2>1, <2>2, OnePair DEF Learns
<1>17. Tells(p, messages)
  <2>1. \A a \in Participants : a # p =>
           (Revealed(a)' <=> Revealed(a)) /\ leader_commitments'[a] = leader_commitments[a]
    BY <1>9 DEF Revealed
  <2>2. p \in leader_commitments[p] \/ Among(messages, LeaderElectionCommitment)
    BY <1>6 DEF starts
  <2>3. Revealed(p)' => Among(messages, LeaderElectionNonce)
    BY <1>6, <1>8
  <2>4. QED
    BY <1>13, <2>1, <2>2, <2>3 DEF Tells
<1>18. Means(p, messages)
  <2>1. Among(messages, LeaderElectionCommitment) =>
           p \notin leader_commitments[p] /\ p \in leader_commitments'[p]
    BY <1>6, <1>10, Distinct DEF starts
  <2>2. Among(messages, LeaderElectionNonce) => Revealed(p)'
    BY <1>6, <1>8, Distinct
  <2>3. \A k : Among(messages, k) => k \in {LeaderElectionCommitment, LeaderElectionNonce}
    BY <1>6
  <2>4. QED
    BY <2>1, <2>2, <2>3, Distinct DEF Means
<1>19. Opens(p, messages)
  <2>1. state'[p] = "AwaitingAdaptorPoints" => state[p] = "AwaitingAdaptorPoints"
    BY <1>11
  <2>2. QED
    BY <1>3, <1>9, <2>1 DEF Opens
<1>20. Kept
  <2>1. Election'
    <3>1. /\ p \in leader_commitments'[p] /\ p \in leader_nonces'[p]
          /\ leader_nonces'[p] \subseteq leader_commitments'[p]
      BY <1>2, <1>10 DEF Election
    <3>2. \A a \in Participants : a # p /\ a \in leader_commitments'[p] =>
             a \in adaptor_points'[p]
      BY <1>2, <1>4, <1>5, <1>10 DEF Election
    <3>3. state'[p] = "AwaitingLeaderElectionNonces" => Revealed(p)'
      BY <1>2, <1>8, <1>11 DEF Election
    <3>4. \A a \in Participants : a # p => (Revealed(a)' <=> Revealed(a))
      BY <1>9 DEF Revealed
    <3>5. QED
      BY <1>2, <1>5, <1>9, <3>1, <3>2, <3>3, <3>4 DEF Election
  <2>2. \A a \in Participants :
           /\ leader_nonces[a] \subseteq leader_nonces'[a]
           /\ state'[a] = "AwaitingLockConfirmations" =>
                 state[a] = "AwaitingLockConfirmations"
    BY <1>9, <1>10, <1>11
  <2>3. Signing' /\ Funded'
    BY <1>1, <1>2, <1>13, <2>2, SigningUntouched
  <2>4. \A a \in Participants : state'[a] # "Panicked"
    BY <1>2, <1>9, <1>11 DEF NoPanic
  <2>5. QED
    BY <2>1, <2>3, <2>4 DEF Kept, NoPanic
<1>21. QED
  BY <1>7, <1>14, <1>15, <1>16, <1>17, <1>18, <1>19, <1>20 DEF Extends

LEMMA ElectionNonceExtends ==
    ASSUME MaxLosses = 0, JInv, IInv', NEW q \in Participants, NEW p \in Participants,
           NEW c \in DOMAIN chan[q][p], HandleLeaderElectionNonce(q, p, c)
    PROVE  /\ \E messages : Extends({<<q, p>>}, p, messages)
           /\ Kept
<1> DEFINE m == Head(chan[q][p][c])
           begins == /\ Participants \subseteq leader_nonces[p] \cup {q}
                     /\ \A role \in Roles : musig_sessions[p][role] = "None"
           nonces == [i \in 1 .. Len(RoleOrder) |-> SchnorrNonce(RoleOrder[i])]
           messages == IF begins THEN nonces ELSE <<>>
<1>1. /\ chan[q][p][c] # <<>> /\ m.type = "LeaderElectionNonce"
      /\ UNCHANGED <<started, adaptor_points, leader_commitments, partial_sigs, signed>>
  BY DEF HandleLeaderElectionNonce, Receive
<1>2. /\ state \in [Participants -> SwapStates]
      /\ leader_nonces \in [Participants -> SUBSET Participants]
      /\ musig_sessions \in [Participants -> [Roles -> {"None", "RoundOne", "RoundTwo"}]]
      /\ schnorr_nonces \in [Participants -> [Roles -> SUBSET Participants]]
      /\ partial_sigs \in
            [Participants -> [Roles -> SUBSET (Participants \X SUBSET Participants)]]
      /\ IInv /\ OneLine /\ Sorted /\ Points /\ Election /\ Signing /\ NoPanic /\ Funded
  BY DEF JInv, IInv, TypeOK
<1>3. m = LeaderElectionNonce /\ q # p /\ m = Head(Line(q, p))
  BY <1>1, <1>2, TakesHead, Kinds
<1>4. Expected(q, p)
  BY <1>1, <1>3, BeforeHead DEF Expected
<1>5. leader_nonces' = [leader_nonces EXCEPT ![p] = @ \cup {q}]
  BY <1>4 DEF HandleLeaderElectionNonce
<1>6. /\ leader_nonces'[p] = leader_nonces[p] \cup {q}
      /\ \A a \in Participants : a # p => leader_nonces'[a] = leader_nonces[a]
  BY <1>2, <1>5
<1>7. /\ nonces \in Seq(WireMessages) /\ InOrder(nonces)
      /\ \A k : Among(nonces, k) <=> \E role \in Roles : k = SchnorrNonce(role)
  <2>1. nonces \in Seq(WireMessages)
    BY RolesOrdered, Wire
  <2>2. /\ DOMAIN nonces = 1 .. Len(RoleOrder)
        /\ \A i \in 1 .. Len(RoleOrder) : nonces[i] = SchnorrNonce(RoleOrder[i])
    BY RolesOrdered
  <2> HIDE DEF nonces
  <2>3. \A role, other : Before(SchnorrNonce(role), SchnorrNonce(other))
    BY DEF Before, SchnorrNonce
  <2>4. InOrder(nonces)
    BY <2>2, <2>3 DEF InOrder
  <2>5. \A k : Among(nonces, k) <=> \E role \in Roles : k = SchnorrNonce(role)
    BY <2>2, RolesOrdered DEF Among
  <2>6. QED
    BY <2>1, <2>4, <2>5
<1> HIDE DEF nonces
<1>8. /\ messages \in Seq(WireMessages) /\ InOrder(messages)
      /\ \A k : Among(messages, k) <=> begins /\ \E role \in Roles : k = SchnorrNonce(role)
  BY <1>7, Lists
<1>9. \/ Cast(Taken(q, p, c), p, messages)
      \/ messages = <<>> /\ CastNothing(Taken(q, p, c))
  <2>1. CASE begins
    BY <1>4, <2>1 DEF HandleLeaderElectionNonce, BeginSigning, nonces
  <2>2. CASE ~begins
    BY <1>4, <2>2 DEF HandleLeaderElectionNonce
  <2>3. QED
    BY <2>1, <2>2
<1> HIDE DEF messages
<1>10. Moves({<<q, p>>}, p, messages)
  BY <1>1, <1>2, <1>8, <1>9, HandlingMoves
<1> DEFINE Common ==
              /\ Follows(p, messages) /\ Grows /\ Tells(p, messages)
              /\ Means(p, messages) /\ Opens(p, messages) /\ Signing'
              /\ \A a \in Participants : state'[a] \in {state[a], "RefundAndSpendTxsSigning"}
<1>11. ASSUME begins PROVE Common
  <2>1. /\ state' = [state EXCEPT ![p] = "RefundAndSpendTxsSigning"]
        /\ musig_sessions' = [musig_sessions EXCEPT ![p] = [role \in Roles |-> "RoundOne"]]
        /\ schnorr_nonces' = [schnorr_nonces EXCEPT ![p] =
              [role \in Roles |-> schnorr_nonces[p][role] \cup {p}]]
    BY <1>4, <1>11 DEF HandleLeaderElectionNonce, BeginSigning
  <2>2. /\ \A a \in Participants : a # p =>
              /\ state'[a] = state[a]
              /\ musig_sessions'[a] = musig_sessions[a]
              /\ schnorr_nonces'[a] = schnorr_nonces[a]
        /\ state'[p] = "RefundAndSpendTxsSigning"
        /\ \A role \in Roles :
              /\ musig_sessions[p][role] = "None" /\ musig_sessions'[p][role] = "RoundOne"
              /\ schnorr_nonces'[p][role] = schnorr_nonces[p][role] \cup {p}
    BY <1>2, <1>11, <2>1
  <2>3. Began(p)'
    BY <1>6, <1>11 DEF Began
  <2>4. ASSUME NEW role \in Roles PROVE ~Began(p) /\ q \notin schnorr_nonces'[p][role]
    <3>1. ~Began(p)
      BY <1>2, <2>2 DEF Signing
    <3>2. q \notin leader_nonces[p]
      BY <1>11, <3>1 DEF Began
    <3>3. q \notin schnorr_nonces[p][role]
      BY <1>2, <1>3, <3>2 DEF Signing, Others
    <3>4. QED
      BY <1>3, <2>2, <3>1, <3>3
  <2> HIDE DEF begins
  <2>5. Follows(p, messages)
    <3>1. ASSUME NEW b \in Participants, NEW k, UnderWay(p, b, k), NEW role \in Roles
          PROVE  Before(k, SchnorrNonce(role))
      <4>1. k \in {AdaptorPoint, LeaderElectionCommitment, LeaderElectionNonce}
        BY <2>4, <3>1, Phases
      <4>2. QED
        BY <4>1 DEF Before, AdaptorPoint, LeaderElectionCommitment, LeaderElectionNonce,
                    SchnorrNonce
    <3>2. QED
      BY <1>8, <3>1 DEF Follows
  <2>6. Grows
    <3>1. \A a \in Participants :
             /\ leader_nonces[a] \subseteq leader_nonces'[a]
             /\ \A role \in Roles :
                   /\ schnorr_nonces[a][role] \subseteq schnorr_nonces'[a][role]
                   /\ musig_sessions[a][role] = "RoundTwo" =>
                         musig_sessions'[a][role] = "RoundTwo"
      BY <1>6, <2>2
    <3>2. QED
      BY <1>1, <3>1 DEF Grows
  <2>7. Tells(p, messages)
    <3>1. \A a \in Participants : a # p => (Began(a)' <=> Began(a))
      BY <1>6 DEF Began
    <3>2. \A role \in Roles : Among(messages, SchnorrNonce(role))
      BY <1>8, <1>11
    <3>3. QED
      BY <1>1, <3>1, <3>2 DEF Tells, Revealed
  <2>8. Means(p, messages)
    <3>1. \A k : Among(messages, k) => \E role \in Roles : k = SchnorrNonce(role)
      BY <1>8
    <3>2. \A k : Among(messages, k) =>
             /\ k \notin {AdaptorPoint, LeaderElectionCommitment, LeaderElectionNonce}
             /\ \A role, points : k # PartialSignature(role, points)
      BY <3>1, Distinct, NonceNoSignature
    <3>3. QED
      BY <2>3, <3>2 DEF Means
  <2>9. Opens(p, messages)
    BY <1>1, <2>2 DEF Opens
  <2>10. Signing'
    <3> SUFFICES ASSUME NEW a \in Participants, NEW role \in Roles
                 PROVE
          /\ musig_sessions'[a][role] # "None" <=> Began(a)'
          /\ \A r \in Others(a) : r \in schnorr_nonces'[a][role] => r \in leader_nonces'[a]
          /\ AllNonces(a, schnorr_nonces'[a][role]) => musig_sessions'[a][role] = "RoundTwo"
          /\ \A sig \in partial_sigs'[a][role] :
                /\ sig[2] = Full(role)
                /\ musig_sessions'[sig[1]][role] = "RoundTwo"
                /\ sig[1] # a => sig[1] \in schnorr_nonces'[a][role]
          /\ role \in signed'[a] <=> SignedByOthers(a, partial_sigs'[a][role])
      BY DEF Signing, AllNonces, SignedByOthers, Full, Others
    <3>1. musig_sessions'[a][role] # "None" <=> Began(a)'
      BY <1>2, <1>6, <2>2, <2>3 DEF Signing, Began
    <3>2. ASSUME NEW r \in Others(a), r \in schnorr_nonces'[a][role]
          PROVE  r \in leader_nonces'[a]
      <4>1. r \in schnorr_nonces[a][role]
        BY <2>2, <3>2 DEF Others
      <4>2. r \in leader_nonces[a]
        BY <1>2, <3>2, <4>1 DEF Signing
      <4>3. QED
        BY <1>6, <4>2
    <3>3. AllNonces(a, schnorr_nonces'[a][role]) => musig_sessions'[a][role] = "RoundTwo"
      <4>1. CASE a = p
        BY <1>3, <2>4, <4>1 DEF AllNonces, Others
      <4>2. CASE a # p
        BY <1>2, <2>2, <4>2 DEF Signing
      <4>3. QED
        BY <4>1, <4>2
    <3>4. ASSUME NEW sig \in partial_sigs'[a][role]
          PROVE  /\ sig[2] = Full(role)
                 /\ musig_sessions'[sig[1]][role] = "RoundTwo"
                 /\ sig[1] # a => sig[1] \in schnorr_nonces'[a][role]
      <4>1. sig \in partial_sigs[a][role] /\ sig[1] \in Participants
        BY <1>1, <1>2
      <4>2. /\ sig[2] = Full(role) /\ musig_sessions[sig[1]][role] = "RoundTwo"
            /\ sig[1] # a => sig[1] \in schnorr_nonces[a][role]
        BY <1>2, <4>1 DEF Signing
      <4>3. QED
        BY <2>6, <4>1, <4>2 DEF Grows
    <3>5. role \in signed'[a] <=> SignedByOthers(a, partial_sigs'[a][role])
      BY <1>1, <1>2 DEF Signing
    <3>6. QED
      BY <3>1, <3>2, <3>3, <3>4, <3>5
  <2>11. \A a \in Participants : state'[a] \in {state[a], "RefundAndSpendTxsSigning"}
    BY <2>2
  <2>12. QED
    BY <2>5, <2>6, <2>7, <2>8, <2>9, <2>10, <2>11
<1>12. ASSUME ~begins PROVE Common
  <2>1. UNCHANGED <<state, musig_sessions, schnorr_nonces>>
    BY <1>4, <1>12 DEF HandleLeaderElectionNonce
  <2>2. Began(p)' <=> Began(p)
    BY <1>2, <1>6, <1>12 DEF Signing, Began
  <2> HIDE DEF begins
  <2>3. \A a \in Participants : Began(a)' <=> Began(a)
    BY <1>6, <2>2 DEF Began
  <2>4. Follows(p, messages) /\ Means(p, messages)
    BY <1>8, <1>12 DEF Follows, Means
  <2>5. \A a \in Participants : leader_nonces[a] \subseteq leader_nonces'[a]
    BY <1>6
  <2>6. Grows
    BY <1>1, <2>1, <2>5 DEF Grows
  <2>7. Tells(p, messages)
    BY <1>1, <2>3 DEF Tells, Revealed
  <2>8. Opens(p, messages)
    BY <1>1, <2>1 DEF Opens
  <2>9. Signing'
    BY <1>1, <1>2, <2>1, <2>3, <2>5, SigningUntouched DEF signing
  <2>10. QED
    BY <2>1, <2>4, <2>6, <2>7, <2>8, <2>9
<1>13. Common
  BY <1>11, <1>12
<1>14. Records({<<q, p>>}) /\ Learns({<<q, p>>})
  <2>1. Records({<<q, p>>})
    BY <1>3, <1>6, Distinct, RecordsOne
  <2>2. QED
    BY <1>1, <2>1 DEF Learns
<1>15. Kept
  <2>1. Election'
    <3>1. /\ \A a \in Participants : leader_nonces[a] \subseteq leader_nonces'[a]
          /\ \A a \in Participants : leader_nonces'[a] \subseteq leader_commitments'[a]
      BY <1>1, <1>2, <1>4, <1>6 DEF Election, Expected
    <3>2. \A a \in Participants : state'[a] = "AwaitingLeaderElectionNonces" =>
                                     state[a] = "AwaitingLeaderElectionNonces"
      BY <1>13
    <3>3. QED
      BY <1>1, <1>2, <3>1, <3>2 DEF Election, Revealed
  <2>2. NoPanic' /\ Funded'
    <3>1. \A a \in Participants :
             /\ state'[a] = "Panicked" => state[a] = "Panicked"
             /\ state'[a] = "AwaitingLockConfirmations" =>
                   state[a] = "AwaitingLockConfirmations"
      BY <1>13
    <3>2. QED
      BY <1>1, <1>2, <3>1 DEF NoPanic, Funded, AllSigned, SignedByOthers, Others
  <2>3. QED
    BY <1>13, <2>1, <2>2 DEF Kept
<1>16. QED
  BY <1>10, <1>13, <1>14, <1>15 DEF Extends

LEMMA SchnorrNonceExtends ==
    ASSUME MaxLosses = 0, JInv, IInv', NEW q \in Participants, NEW p \in Participants,
           NEW c \in DOMAIN chan[q][p], HandleSchnorrNonce(q, p, c)
    PROVE  /\ \E messages : Extends({<<q, p>>}, p, messages)
           /\ Kept
<1> DEFINE m == Head(chan[q][p][c])
           role == m.role
           holders == schnorr_nonces[p][role] \cup {q}
           points == SigningPoints(p, role)
           transits == AllNonces(p, holders) /\ musig_sessions[p][role] = "RoundOne"
           messages == IF transits THEN <<PartialSignature(role, points)>> ELSE <<>>
<1>1. /\ chan[q][p][c] # <<>> /\ m.type = "SchnorrNonce"
      /\ schnorr_nonces' = [schnorr_nonces EXCEPT ![p][role] = holders]
      /\ UNCHANGED <<started, state, election, signed>>
  BY DEF HandleSchnorrNonce, Receive
<1>2. /\ musig_sessions \in [Participants -> [Roles -> {"None", "RoundOne", "RoundTwo"}]]
      /\ schnorr_nonces \in [Participants -> [Roles -> SUBSET Participants]]
      /\ partial_sigs \in
            [Participants -> [Roles -> SUBSET (Participants \X SUBSET Participants)]]
      /\ adaptor_points \in [Participants -> SUBSET Participants]
      /\ IInv /\ OneLine /\ Sorted /\ Points /\ Election /\ Signing /\ NoPanic /\ Funded
  BY DEF JInv, IInv, TypeOK
<1>3. m \in WireMessages /\ q # p /\ m = Head(Line(q, p))
  BY <1>1, <1>2, TakesHead
<1>4. role \in Roles /\ m = SchnorrNonce(role)
  BY <1>1, <1>3, Kinds
<1>5. q \in leader_nonces[p]
  BY <1>1, <1>4, BeforeHead
<1>6. points \in SUBSET Participants
  BY <1>2 DEF SigningPoints
<1>7. UNCHANGED <<started, state, adaptor_points, leader_commitments, leader_nonces,
                  signed>>
  BY <1>1 DEF election
<1>8. /\ transits => /\ musig_sessions' = [musig_sessions EXCEPT ![p][role] = "RoundTwo"]
                     /\ partial_sigs' = [partial_sigs EXCEPT ![p][role] =
                                            @ \cup {<<p, points>>}]
      /\ ~transits => UNCHANGED <<musig_sessions, partial_sigs>>
  BY DEF HandleSchnorrNonce, TransitionToRoundTwo
<1>9. \/ Cast(Taken(q, p, c), p, messages)
      \/ messages = <<>> /\ CastNothing(Taken(q, p, c))
  BY DEF HandleSchnorrNonce, TransitionToRoundTwo
<1> HIDE DEF role, points
<1>10. /\ messages \in Seq(WireMessages) /\ InOrder(messages)
       /\ \A k : Among(messages, k) <=> transits /\ k = PartialSignature(role, points)
  BY <1>4, <1>6, Lists, Wire
<1> HIDE DEF m, messages
<1>11. Moves({<<q, p>>}, p, messages)
  <2>1. chan[q][p][c] # <<>>
    BY <1>1
  <2>2. QED
    BY <1>2, <1>9, <1>10, <2>1, HandlingMoves
<1>12. /\ \A a \in Participants : \A r \in Roles :
             ~(a = p /\ r = role) => schnorr_nonces'[a][r] = schnorr_nonces[a][r]
       /\ schnorr_nonces'[p][role] = holders
  BY <1>1, <1>2, <1>4
<1> HIDE DEF holders
<1>13. /\ \A a \in Participants : \A r \in Roles :
             ~(a = p /\ r = role /\ transits) =>
                /\ musig_sessions'[a][r] = musig_sessions[a][r]
                /\ partial_sigs'[a][r] = partial_sigs[a][r]
       /\ transits =>
             /\ musig_sessions'[p][role] = "RoundTwo"
             /\ partial_sigs'[p][role] = partial_sigs[p][role] \cup {<<p, points>>}
  <2>1. CASE transits
    <3> HIDE DEF transits
    <3>1. QED
      BY <1>2, <1>4, <1>8, <2>1
  <2>2. CASE ~transits
    BY <1>8, <2>2
  <2>3. QED
    BY <2>1, <2>2
<1>14. transits => Began(p) /\ points = Full(role)
  <2>1. transits => Began(p)
    BY <1>2, <1>4 DEF Signing
  <2>2. Began(p) => points = Full(role)
    BY <1>4, BegunHoldsAll DEF points
  <2>3. QED
    BY <2>1, <2>2
<1>15. AllNonces(p, holders) => musig_sessions'[p][role] = "RoundTwo"
  <2> SUFFICES ASSUME AllNonces(p, holders), ~transits
               PROVE  musig_sessions[p][role] = "RoundTwo"
    BY <1>4, <1>13
  <2>1. musig_sessions[p][role] # "RoundOne"
    BY DEF transits
  <2>2. Others(p) \subseteq leader_nonces[p]
    BY <1>2, <1>4, <1>5 DEF AllNonces, Signing, Others, holders
  <2>3. p \in leader_nonces[p]
    BY <1>2, <1>5 DEF Election
  <2>4. Began(p)
    BY <2>2, <2>3 DEF Began, Others
  <2>5. QED
    BY <1>2, <1>4, <2>1, <2>4 DEF Signing
<1> HIDE DEF transits
<1>16. Follows(p, messages)
  <2>1. ASSUME NEW b \in Participants, NEW k, UnderWay(p, b, k)
        PROVE  Before(k, PartialSignature(role, points))
    <3>1. k \in WireMessages
      BY <2>1, Phases
    <3>2. k.type \in {"AdaptorPoint", "LeaderElectionCommitment", "LeaderElectionNonce",
                      "SchnorrNonce", "PartialSignature"}
      BY <3>1, Typed
    <3>3. PartialSignature(role, points).type = "PartialSignature"
      BY DEF PartialSignature
    <3>4. QED
      BY <3>2, <3>3 DEF Before
  <2>2. QED
    BY <1>10, <2>1 DEF Follows
<1>17. Grows
  <2>1. \A a \in Participants : \A r \in Roles :
           /\ schnorr_nonces[a][r] \subseteq schnorr_nonces'[a][r]
           /\ musig_sessions[a][r] = "RoundTwo" => musig_sessions'[a][r] = "RoundTwo"
    BY <1>12, <1>13 DEF holders
  <2>2. QED
    BY <1>7, <2>1 DEF Grows
<1>18. Records({<<q, p>>}) /\ Learns({<<q, p>>})
  <2>1. \A r \in Roles : m = SchnorrNonce(r) => q \in schnorr_nonces'[p][r]
    <3>1. \A r : m = SchnorrNonce(r) => r = role
      BY <1>4 DEF SchnorrNonce
    <3>2. q \in schnorr_nonces'[p][role]
      BY <1>12 DEF holders
    <3>3. QED
      BY <3>1, <3>2
  <2>2. Records({<<q, p>>})
    BY <1>3, <1>4, <2>1, Distinct, RecordsOne
  <2>3. QED
    BY <1>7, <2>2 DEF Learns
<1>19. Tells(p, messages)
  BY <1>7 DEF Tells, Revealed, Began
<1>20. Means(p, messages)
  <2>1. \A k : Among(messages, k) => k = PartialSignature(role, points)
    BY <1>10
  <2>2. ASSUME NEW r \in Roles, NEW ps \in SUBSET Participants,
               Among(messages, PartialSignature(r, ps))
        PROVE  musig_sessions'[p][r] = "RoundTwo" /\ ps = Full(r)
    <3>1. r = role /\ ps = points
      BY <2>1, <2>2 DEF PartialSignature
    <3>2. transits
      BY <1>10, <2>2
    <3>3. QED
      BY <1>13, <1>14, <3>1, <3>2
  <2>3. QED
    BY <2>1, <2>2, Distinct, NonceNoSignature DEF Means
<1>21. Opens(p, messages)
  BY <1>7 DEF Opens
<1>22. Signing'
  <2> SUFFICES ASSUME NEW a \in Participants, NEW r \in Roles
               PROVE
        /\ musig_sessions'[a][r] # "None" <=> Began(a)'
        /\ \A b \in Others(a) : b \in schnorr_nonces'[a][r] => b \in leader_nonces'[a]
        /\ AllNonces(a, schnorr_nonces'[a][r]) => musig_sessions'[a][r] = "RoundTwo"
        /\ \A sig \in partial_sigs'[a][r] :
              /\ sig[2] = Full(r)
              /\ musig_sessions'[sig[1]][r] = "RoundTwo"
              /\ sig[1] # a => sig[1] \in schnorr_nonces'[a][r]
        /\ r \in signed'[a] <=> SignedByOthers(a, partial_sigs'[a][r])
    BY DEF Signing, AllNonces, SignedByOthers, Full, Others
  <2>1. musig_sessions'[a][r] # "None" <=> Began(a)'
    <3>1. Began(a)' <=> Began(a)
      BY <1>7 DEF Began
    <3>2. QED
      BY <1>2, <1>13, <1>14, <3>1 DEF Signing
  <2>2. ASSUME NEW b \in Others(a), b \in schnorr_nonces'[a][r]
        PROVE  b \in leader_nonces'[a]
    <3>1. b \in schnorr_nonces[a][r] \/ (a = p /\ b = q)
      BY <1>12, <2>2 DEF holders
    <3>2. QED
      BY <1>2, <1>5, <1>7, <2>2, <3>1 DEF Signing
  <2>3. AllNonces(a, schnorr_nonces'[a][r]) => musig_sessions'[a][r] = "RoundTwo"
    <3>1. CASE a = p /\ r = role
      BY <1>12, <1>15, <3>1
    <3>2. CASE ~(a = p /\ r = role)
      BY <1>2, <1>12, <1>13, <3>2 DEF Signing
    <3>3. QED
      BY <3>1, <3>2
  <2>4. ASSUME NEW sig \in partial_sigs'[a][r]
        PROVE  /\ sig[2] = Full(r)
               /\ musig_sessions'[sig[1]][r] = "RoundTwo"
               /\ sig[1] # a => sig[1] \in schnorr_nonces'[a][r]
    <3>1. CASE sig \in partial_sigs[a][r]
      <4>1. sig[1] \in Participants
        BY <1>2, <3>1
      <4>2. /\ sig[2] = Full(r) /\ musig_sessions[sig[1]][r] = "RoundTwo"
            /\ sig[1] # a => sig[1] \in schnorr_nonces[a][r]
        BY <1>2, <3>1 DEF Signing
      <4>3. QED
        BY <1>17, <4>1, <4>2 DEF Grows
    <3>2. CASE transits /\ a = p /\ r = role /\ sig = <<p, points>>
      BY <1>13, <1>14, <3>2
    <3>3. QED
      BY <1>13, <2>4, <3>1, <3>2
  <2>5. r \in signed'[a] <=> SignedByOthers(a, partial_sigs'[a][r])
    <3>1. SignedByOthers(a, partial_sigs'[a][r]) <=> SignedByOthers(a, partial_sigs[a][r])
      <4>1. CASE a = p /\ r = role /\ transits
        BY <1>13, <4>1 DEF SignedByOthers, Others
      <4>2. CASE ~(a = p /\ r = role /\ transits)
        BY <1>13, <4>2
      <4>3. QED
        BY <4>1, <4>2
    <3>2. QED
      BY <1>2, <1>7, <3>1 DEF Signing
  <2>6. QED
    BY <2>1, <2>2, <2>3, <2>4, <2>5
<1>23. Kept
  <2>1. Election'
    BY <1>2, <1>7 DEF Election, Revealed
  <2>2. NoPanic'
    BY <1>2, <1>7 DEF NoPanic
  <2>3. Funded'
    BY <1>2, <1>7, <1>22 DEF Funded, Signing, AllSigned
  <2>4. QED
    BY <1>22, <2>1, <2>2, <2>3 DEF Kept
<1>24. QED
  BY <1>11, <1>16, <1>17, <1>18, <1>19, <1>20, <1>21, <1>23 DEF Extends

LEMMA PartialSignatureExtends ==
    ASSUME MaxLosses = 0, JInv, IInv', NEW q \in Participants, NEW p \in Participants,
           NEW c \in DOMAIN chan[q][p], HandlePartialSignature(q, p, c)
    PROVE  /\ \E messages : Extends({<<q, p>>}, p, messages)
           /\ Kept
<1> DEFINE m == Head(chan[q][p][c])
           role == m.role
           sigs == [partial_sigs[p] EXCEPT ![role] = @ \cup {<<q, m.points>>}]
           finalizes == Finalizes(p, role, sigs[role])
           finalized == IF finalizes THEN signed[p] \cup {role} ELSE signed[p]
<1>1. /\ chan[q][p][c] # <<>> /\ m.type = "PartialSignature"
      /\ partial_sigs' = [partial_sigs EXCEPT ![p] = sigs]
      /\ CastNothing(Taken(q, p, c))
      /\ UNCHANGED <<started, election, musig_sessions, schnorr_nonces>>
  BY DEF HandlePartialSignature, Receive
<1>2. /\ state \in [Participants -> SwapStates]
      /\ signed \in [Participants -> SUBSET Roles]
      /\ partial_sigs \in
            [Participants -> [Roles -> SUBSET (Participants \X SUBSET Participants)]]
      /\ IInv /\ OneLine /\ Sorted /\ Points /\ Election /\ Signing /\ NoPanic /\ Funded
  BY DEF JInv, IInv, TypeOK
<1>3. m \in WireMessages /\ q # p /\ m = Head(Line(q, p))
  BY <1>1, <1>2, TakesHead
<1>4. role \in Roles /\ m.points \in SUBSET Participants
         /\ m = PartialSignature(role, m.points)
  BY <1>1, <1>3, Kinds
<1>5. /\ q \in schnorr_nonces[p][role] /\ musig_sessions[q][role] = "RoundTwo"
      /\ m.points = Full(role)
  BY <1>1, <1>4, BeforeHead
<1>6. UNCHANGED <<started, adaptor_points, leader_commitments, leader_nonces,
                  musig_sessions, schnorr_nonces>>
  BY <1>1 DEF election
<1>7. Moves({<<q, p>>}, p, <<>>)
  BY <1>1, <1>2, Lists, HandlingMoves
<1> HIDE DEF m
<1>8. /\ sigs[role] = partial_sigs[p][role] \cup {<<q, Full(role)>>}
      /\ \A r \in Roles : r # role => sigs[r] = partial_sigs[p][r]
      /\ sigs \in [Roles -> SUBSET (Participants \X SUBSET Participants)]
  BY <1>2, <1>4, <1>5
<1>9. /\ partial_sigs'[p] = sigs
      /\ \A a \in Participants : a # p => partial_sigs'[a] = partial_sigs[a]
  BY <1>1, <1>2
<1> HIDE DEF sigs, role
<1>10. ASSUME NEW sig \in sigs[role]
       PROVE  /\ sig[2] = Full(role) /\ musig_sessions[sig[1]][role] = "RoundTwo"
              /\ sig[1] # p => sig[1] \in schnorr_nonces[p][role]
  <2>1. CASE sig \in partial_sigs[p][role]
    BY <1>2, <1>4, <2>1 DEF Signing
  <2>2. CASE sig = <<q, Full(role)>>
    BY <1>5, <2>2
  <2>3. QED
    BY <1>8, <1>10, <2>1, <2>2
<1>11. SignedByOthers(p, sigs[role]) =>
          /\ musig_sessions[p][role] = "RoundTwo"
          /\ Combine(p, role, sigs[role])
  <2> SUFFICES ASSUME SignedByOthers(p, sigs[role])
               PROVE  /\ musig_sessions[p][role] = "RoundTwo"
                      /\ Combine(p, role, sigs[role])
    OBVIOUS
  <2>1. \A r \in Others(p) : r \in schnorr_nonces[p][role]
    BY <1>10 DEF SignedByOthers, Others
  <2>2. AllNonces(p, schnorr_nonces[p][role])
    BY <2>1 DEF AllNonces
  <2>3. musig_sessions[p][role] = "RoundTwo"
    BY <1>2, <1>4, <2>2 DEF Signing
  <2>4. Began(p)
    BY <1>2, <1>4, <2>3 DEF Signing
  <2>5. SigningPoints(p, role) = Full(role)
    BY <1>4, <2>4, BegunHoldsAll
  <2>6. QED
    BY <1>10, <2>3, <2>5 DEF Combine
<1>12. finalizes <=> SignedByOthers(p, sigs[role])
  BY <1>11 DEF Finalizes
<1>13. /\ signed' = [signed EXCEPT ![p] = finalized]
       /\ IF AllSigned(p, sigs, finalized)
          THEN \/ state' = [state EXCEPT ![p] = "AwaitingLockConfirmations"]
               \/ Refusals /\ state' = [state EXCEPT ![p] = "Failed"]
          ELSE UNCHANGED state
  BY <1>11, <1>12 DEF HandlePartialSignature, sigs, role, m
<1> HIDE DEF finalizes
<1>14. /\ \A r \in Roles : r \in finalized <=> SignedByOthers(p, sigs[r])
       /\ finalized \in SUBSET Roles
  <2>1. \A r \in Roles : r \in signed[p] <=> SignedByOthers(p, partial_sigs[p][r])
    BY <1>2 DEF Signing
  <2>2. SignedByOthers(p, partial_sigs[p][role]) => SignedByOthers(p, sigs[role])
    BY <1>8 DEF SignedByOthers
  <2>3. QED
    BY <1>2, <1>4, <1>8, <1>12, <2>1, <2>2
<1> HIDE DEF finalized
<1>15. /\ signed'[p] = finalized
       /\ \A a \in Participants : a # p => signed'[a] = signed[a]
       /\ \A a \in Participants : a # p => state'[a] = state[a]
       /\ \/ state'[p] = state[p]
          \/ state'[p] = "Failed"
          \/ state'[p] = "AwaitingLockConfirmations" /\ AllSigned(p, sigs, finalized)
  <2>1. signed'[p] = finalized /\ \A a \in Participants : a # p => signed'[a] = signed[a]
    BY <1>2, <1>13
  <2>2. CASE AllSigned(p, sigs, finalized)
    BY <1>2, <1>13, <2>1, <2>2
  <2>3. CASE ~AllSigned(p, sigs, finalized)
    BY <1>13, <2>1, <2>3
  <2>4. QED
    BY <2>2, <2>3
<1>16. Follows(p, <<>>) /\ Means(p, <<>>)
  BY Lists DEF Follows, Means
<1>17. Grows
  BY <1>6 DEF Grows
<1>18. Records({<<q, p>>}) /\ Learns({<<q, p>>})
  <2>1. \A r : m # SchnorrNonce(r)
    BY <1>4, NonceNoSignature
  <2>2. Records({<<q, p>>})
    BY <1>3, <1>4, <2>1, Distinct, RecordsOne
  <2>3. QED
    BY <1>6, <2>2 DEF Learns
<1>19. Tells(p, <<>>)
  BY <1>6 DEF Tells, Revealed, Began
<1>20. Opens(p, <<>>)
  BY <1>6, <1>15 DEF Opens
<1>21. Signing'
  <2> SUFFICES ASSUME NEW a \in Participants, NEW r \in Roles
               PROVE
        /\ musig_sessions'[a][r] # "None" <=> Began(a)'
        /\ \A b \in Others(a) : b \in schnorr_nonces'[a][r] => b \in leader_nonces'[a]
        /\ AllNonces(a, schnorr_nonces'[a][r]) => musig_sessions'[a][r] = "RoundTwo"
        /\ \A sig \in partial_sigs'[a][r] :
              /\ sig[2] = Full(r)
              /\ musig_sessions'[sig[1]][r] = "RoundTwo"
              /\ sig[1] # a => sig[1] \in schnorr_nonces'[a][r]
        /\ r \in signed'[a] <=> SignedByOthers(a, partial_sigs'[a][r])
    BY DEF Signing, AllNonces, SignedByOthers, Full, Others
  <2>1. /\ musig_sessions'[a][r] # "None" <=> Began(a)'
        /\ \A b \in Others(a) : b \in schnorr_nonces'[a][r] => b \in leader_nonces'[a]
        /\ AllNonces(a, schnorr_nonces'[a][r]) => musig_sessions'[a][r] = "RoundTwo"
    BY <1>2, <1>6 DEF Signing, Began
  <2>2. ASSUME NEW sig \in partial_sigs'[a][r]
        PROVE  /\ sig[2] = Full(r)
               /\ musig_sessions'[sig[1]][r] = "RoundTwo"
               /\ sig[1] # a => sig[1] \in schnorr_nonces'[a][r]
    <3>1. CASE a = p /\ r = role
      BY <1>6, <1>9, <1>10, <2>2, <3>1
    <3>2. CASE ~(a = p /\ r = role)
      <4>1. sig \in partial_sigs[a][r]
        BY <1>8, <1>9, <2>2, <3>2
      <4>2. QED
        BY <1>2, <1>6, <4>1 DEF Signing
    <3>3. QED
      BY <3>1, <3>2
  <2>3. r \in signed'[a] <=> SignedByOthers(a, partial_sigs'[a][r])
    <3>1. CASE a = p
      BY <1>9, <1>14, <1>15, <3>1
    <3>2. CASE a # p
      BY <1>2, <1>9, <1>15, <3>2 DEF Signing
    <3>3. QED
      BY <3>1, <3>2
  <2>4. QED
    BY <2>1, <2>2, <2>3
<1>22. Kept
  <2>1. Election'
    BY <1>2, <1>6, <1>15 DEF Election, Revealed
  <2>2. NoPanic'
    BY <1>2, <1>15 DEF NoPanic
  <2>3. Funded'
    <3>1. ASSUME state'[p] = "AwaitingLockConfirmations"
          PROVE  AllSigned(p, sigs, finalized)
      <4>1. CASE state[p] = "AwaitingLockConfirmations"
        <5>1. AllSigned(p, partial_sigs[p], signed[p])
          BY <1>2, <4>1 DEF Funded
        <5>2. \A r \in Roles : partial_sigs[p][r] \subseteq sigs[r]
          BY <1>8
        <5>3. \A r \in Roles : SignedByOthers(p, partial_sigs[p][r]) =>
                                  SignedByOthers(p, sigs[r])
          BY <5>2 DEF SignedByOthers
        <5>4. \A r \in Roles : r \in signed[p] => r \in finalized
          BY <1>2, <1>14, <5>3 DEF Signing
        <5>5. QED
          BY <5>1, <5>3, <5>4 DEF AllSigned
      <4>2. CASE state[p] # "AwaitingLockConfirmations"
        BY <1>15, <3>1, <4>2
      <4>3. QED
        BY <4>1, <4>2
    <3>2. QED
      BY <1>2, <1>9, <1>15, <3>1 DEF Funded, AllSigned, SignedByOthers, Others
  <2>4. QED
    BY <1>21, <2>1, <2>2, <2>3 DEF Kept
<1>23. QED
  BY <1>7, <1>16, <1>17, <1>18, <1>19, <1>20, <1>22 DEF Extends

-----------------------------------------------------------------------------
(* The theorems.                                                           *)

LEMMA InitJInv == Init => JInv
<1> SUFFICES ASSUME Init PROVE JInv
  OBVIOUS
<1>1. IInv
  BY InitIInv
<1>2. \A q, p \in Participants : chan[q][p] = << <<>> >>
  BY DEF Init
<1>3. OneLine /\ Sorted
  <2>1. \A q, p \in Participants : Len(chan[q][p]) = 1 /\ Line(q, p) = <<>>
    <3>1. \A q, p \in Participants : Len(chan[q][p]) = 1 /\ chan[q][p][1] = <<>>
      BY <1>2, Single, Zenon
    <3>2. QED
      BY <3>1 DEF Line
  <2>2. QED
    BY <2>1, Lists DEF OneLine, Sorted
<1>4. \A q, p \in Participants : \A m : ~UnderWay(q, p, m)
  BY <1>2 DEF UnderWay
<1>5. \A p \in Participants : ~Revealed(p) /\ ~Began(p)
  BY DEF Init, Revealed, Began
<1>6. OnLine
  BY <1>4 DEF OnLine
<1>7. Delivered
  BY <1>5 DEF Delivered, Init
<1>8. Points
  BY DEF Points, Init
<1>9. Election
  BY DEF Election, Init
<1>10. Signing
  <2> SUFFICES ASSUME NEW p \in Participants, NEW role \in Roles
               PROVE
        /\ musig_sessions[p][role] # "None" <=> Began(p)
        /\ \A r \in Others(p) : r \in schnorr_nonces[p][role] => r \in leader_nonces[p]
        /\ AllNonces(p, schnorr_nonces[p][role]) => musig_sessions[p][role] = "RoundTwo"
        /\ \A sig \in partial_sigs[p][role] :
              /\ sig[2] = Full(role)
              /\ musig_sessions[sig[1]][role] = "RoundTwo"
              /\ sig[1] # p => sig[1] \in schnorr_nonces[p][role]
        /\ role \in signed[p] <=> SignedByOthers(p, partial_sigs[p][role])
    BY DEF Signing
  <2>1. /\ musig_sessions[p][role] = "None" /\ schnorr_nonces[p][role] = {}
        /\ partial_sigs[p][role] = {} /\ signed[p] = {}
    BY DEF Init
  <2>2. Others(p) # {}
    BY NotAlone
  <2>3. QED
    BY <1>5, <2>1, <2>2 DEF AllNonces, SignedByOthers
<1>11. NoPanic /\ Funded
  BY DEF NoPanic, Funded, Init
<1>12. QED
  BY <1>1, <1>3, <1>6, <1>7, <1>8, <1>9, <1>10, <1>11 DEF JInv

LEMMA StutterKeeps == JInv /\ UNCHANGED vars => JInv'
<1> SUFFICES ASSUME JInv, UNCHANGED vars PROVE JInv'
  OBVIOUS
<1>1. UNCHANGED <<started, state, adaptor_points, leader_commitments, leader_nonces,
                  musig_sessions, schnorr_nonces, partial_sigs, signed, chan, losses>>
  BY DEF vars, election, signing
<1>2. IInv'
  BY StepIInv DEF JInv
<1>3. OneLine' /\ Sorted'
  BY <1>1 DEF JInv, OneLine, Sorted, Line
<1>4. /\ \A p \in Participants : (PointOut(p)' <=> PointOut(p))
      /\ \A q, p \in Participants : \A m : UnderWay(q, p, m)' <=> UnderWay(q, p, m)
  BY <1>1 DEF PointOut, UnderWay
<1>5. OnLine' /\ Delivered'
  BY <1>1, <1>4 DEF JInv, OnLine, Delivered, Revealed, Began, Full
<1>6. Points' /\ Election'
  BY <1>1, <1>4 DEF JInv, Points, Election, Revealed
<1>7. Signing' /\ NoPanic' /\ Funded'
  BY <1>1 DEF JInv, Signing, NoPanic, Funded, Began, Full
<1>8. QED
  BY <1>2, <1>3, <1>5, <1>6, <1>7 DEF JInv

LEMMA StepJInv == ASSUME MaxLosses = 0 PROVE JInv /\ [Next]_vars => JInv'
<1> SUFFICES ASSUME JInv, [Next]_vars PROVE JInv'
  OBVIOUS
<1>1. IInv'
  BY StepIInv DEF JInv
<1>2. ASSUME NEW taken, NEW p \in Participants,
             \E messages : Extends(taken, p, messages), Kept
      PROVE  JInv'
  <2>1. PICK messages : Extends(taken, p, messages)
    BY <1>2
  <2>2. Sorted' /\ OnLine' /\ Delivered' /\ Points'
    BY <1>1, <2>1, FlowKept
  <2>3. OneLine'
    BY <2>1 DEF Extends, Moves
  <2>4. QED
    BY <1>1, <1>2, <2>2, <2>3 DEF JInv, Kept
<1>3. ASSUME NEW p \in Participants, Start(p) \/ StartFails(p) PROVE JInv'
  BY <1>1, <1>2, <1>3, StartExtends
<1>4. ASSUME NEW q \in Participants, NEW p \in Participants, PeerMessage(q, p)
      PROVE  JInv'
  <2> PICK c \in DOMAIN chan[q][p] :
         \/ HandleAdaptorPoint(q, p, c)
         \/ HandleLeaderElectionCommitment(q, p, c)
         \/ HandleLeaderElectionNonce(q, p, c)
         \/ HandleSchnorrNonce(q, p, c)
         \/ HandlePartialSignature(q, p, c)
    BY <1>4 DEF PeerMessage
  <2>1. CASE HandleAdaptorPoint(q, p, c)
    BY <1>1, <1>2, <2>1, AdaptorPointExtends
  <2>2. CASE HandleLeaderElectionCommitment(q, p, c)
    BY <1>1, <1>2, <2>2, CommitmentExtends
  <2>3. CASE HandleLeaderElectionNonce(q, p, c)
    BY <1>1, <1>2, <2>3, ElectionNonceExtends
  <2>4. CASE HandleSchnorrNonce(q, p, c)
    BY <1>1, <1>2, <2>4, SchnorrNonceExtends
  <2>5. CASE HandlePartialSignature(q, p, c)
    BY <1>1, <1>2, <2>5, PartialSignatureExtends
  <2>6. QED
    BY <2>1, <2>2, <2>3, <2>4, <2>5
<1>5. CASE UNCHANGED vars
  BY <1>5, StutterKeeps
<1>6. QED
  BY <1>3, <1>4, <1>5 DEF Next

\* README.md:564: with no message lost nobody signs before holding the points
\* of all, though a commitment may open the election (session.rs:235).
THEOREM PointsBeforeSigning ==
    ASSUME MaxLosses = 0 PROVE Spec => []AdaptorPointGuard
<1>1. JInv => AdaptorPointGuard
  BY BegunHoldsAll DEF AdaptorPointGuard, InSigning, JInv, Signing
<1>2. JInv /\ [Next]_vars => JInv'
  BY StepJInv
<1>3. QED
  BY InitJInv, <1>1, <1>2, PTL DEF Spec

\* session.rs: with no message lost none of the expectations that panic is
\* missed: nonces follow commitments, and signatures combine.
THEOREM NeverPanics ==
    ASSUME MaxLosses = 0 PROVE Spec => []NoPanic
<1>1. JInv => NoPanic
  BY DEF JInv
<1>2. JInv /\ [Next]_vars => JInv'
  BY StepJInv
<1>3. QED
  BY InitJInv, <1>1, <1>2, PTL DEF Spec

LEMMA RoleOwner ==
    ASSUME NEW role \in Roles
    PROVE  \E r \in Participants : role \in {Refund(r), Spend(r)}
<1> DEFINE refunds == [i \in 1 .. Len(Order) |-> Refund(Order[i])]
           spends == [i \in 1 .. Len(Order) |-> Spend(Order[i])]
           Owned == {Refund(r) : r \in Participants} \cup {Spend(r) : r \in Participants}
<1>1. Order \in Seq(Participants)
  BY SetupAssumption
<1>2. \A i \in 1 .. Len(Order) : Order[i] \in Participants
  BY <1>1
<1>3. refunds \in Seq(Owned) /\ spends \in Seq(Owned)
  BY <1>1, <1>2
<1>4. RoleOrder \in Seq(Owned)
  BY <1>3 DEF RoleOrder
<1>5. QED
  BY <1>4 DEF Roles

LEMMA FundedHoldsAll ==
    ASSUME JInv, NEW p \in Participants, state[p] = "AwaitingLockConfirmations",
           NEW role \in Roles
    PROVE  SignedByOthers(p, partial_sigs[p][role]) /\ role \in signed[p]
<1>1. AllSigned(p, partial_sigs[p], signed[p])
  BY DEF JInv, Funded
<1>2. \E r \in Participants : role \in {Refund(r), Spend(r)}
  BY RoleOwner
<1>3. SignedByOthers(p, partial_sigs[p][role]) \/ role \in signed[p]
  BY <1>1, <1>2 DEF AllSigned
<1>4. QED
  BY <1>3 DEF JInv, Signing

\* multisig.rs: with no message lost, who funds knows that every daemon has
\* signed every transaction of the cycle.
THEOREM FundedTogether ==
    ASSUME MaxLosses = 0 PROVE Spec => []FundedMeansAllSign
<1>1. JInv => FundedMeansAllSign
  <2> SUFFICES ASSUME JInv, NEW p \in Participants, NEW q \in Participants,
                      state[p] = "AwaitingLockConfirmations", NEW role \in Roles
               PROVE  musig_sessions[q][role] = "RoundTwo"
    BY DEF FundedMeansAllSign
  <2>1. SignedByOthers(p, partial_sigs[p][role]) /\ Signing
    BY FundedHoldsAll DEF JInv
  <2>2. \A r \in Others(p) :
           musig_sessions[r][role] = "RoundTwo" /\ r \in schnorr_nonces[p][role]
    BY <2>1 DEF Signing, SignedByOthers, Others
  <2>3. musig_sessions[p][role] = "RoundTwo"
    BY <2>1, <2>2 DEF Signing, AllNonces
  <2>4. QED
    BY <2>2, <2>3 DEF Others
<1>2. JInv /\ [Next]_vars => JInv'
  BY StepJInv
<1>3. QED
  BY InitJInv, <1>1, <1>2, PTL DEF Spec

\* README.md:561: with no message lost, who funds holds its signed refund, and
\* finalize_role has not returned early for it.
THEOREM RefundInHand ==
    ASSUME MaxLosses = 0 PROVE Spec => []FundedIsRefundable
<1>1. JInv => FundedIsRefundable
  BY FundedHoldsAll DEF FundedIsRefundable
<1>2. JInv /\ [Next]_vars => JInv'
  BY StepJInv
<1>3. QED
  BY InitJInv, <1>1, <1>2, PTL DEF Spec

================================================================================
