------------------------------ MODULE SetupProofs ------------------------------
(***************************************************************************)
(* Theorems of Setup, for every number of participants.                    *)
(***************************************************************************)
EXTENDS Setup, CycleProofs, SequenceTheorems, TLAPS

\* Connections to one peer, the one in use last.
Conns == Seq(Seq(WireMessages)) \ {<<>>}

Carries(conns, m) ==
    \E c \in DOMAIN conns : \E i \in DOMAIN conns[c] : conns[c][i] = m

Among(messages, m) == \E i \in DOMAIN messages : messages[i] = m

-----------------------------------------------------------------------------
(* Connections.                                                            *)

LEMMA Reconnecting ==
    ASSUME NEW conns \in Conns
    PROVE  /\ Reconnect(conns) \in Conns
           /\ \A m : Carries(Reconnect(conns), m) => Carries(conns, m)
<1>1. conns \in Seq(Seq(WireMessages)) /\ conns # <<>>
  BY DEF Conns
<1>2. CASE conns[Len(conns)] = <<>>
  BY <1>2 DEF Reconnect
<1>3. CASE conns[Len(conns)] # <<>>
  <2> DEFINE new == Append(conns, <<>>)
  <2>1. Reconnect(conns) = new
    BY <1>3 DEF Reconnect
  <2>2. new \in Seq(Seq(WireMessages)) /\ new # <<>>
    BY <1>1
  <2>3. ASSUME NEW c \in DOMAIN new, NEW i \in DOMAIN new[c]
        PROVE  c \in DOMAIN conns /\ new[c] = conns[c]
    <3>1. c \in 1 .. Len(conns) + 1
      BY <1>1
    <3>2. CASE c = Len(conns) + 1
      BY <1>1, <2>3, <3>2
    <3>3. CASE c # Len(conns) + 1
      BY <1>1, <3>1, <3>3
    <3>4. QED
      BY <3>2, <3>3
  <2>4. QED
    BY <2>1, <2>2, <2>3 DEF Carries, Conns
<1>4. QED
  BY <1>2, <1>3

LEMMA WritingOne ==
    ASSUME NEW conns \in Conns, NEW line \in WireMessages
    PROVE  LET new == [conns EXCEPT ![Len(conns)] = Append(@, line)]
           IN  /\ new \in Conns
               /\ \A m : Carries(new, m) => Carries(conns, m) \/ m = line
<1> DEFINE l == Len(conns)
           new == [conns EXCEPT ![l] = Append(@, line)]
<1>1. conns \in Seq(Seq(WireMessages)) /\ conns # <<>> /\ l \in DOMAIN conns
  BY DEF Conns
<1>2. conns[l] \in Seq(WireMessages)
  BY <1>1
<1>3. Append(conns[l], line) \in Seq(WireMessages)
  BY <1>2
<1>4. new \in Seq(Seq(WireMessages)) /\ new # <<>> /\ DOMAIN new = DOMAIN conns
  BY <1>1, <1>3
<1>5. ASSUME NEW c \in DOMAIN new, NEW i \in DOMAIN new[c]
      PROVE  new[c][i] = line \/ (i \in DOMAIN conns[c] /\ new[c][i] = conns[c][i])
  <2>1. CASE c = l
    <3>1. new[c] = Append(conns[l], line)
      BY <1>1, <2>1
    <3>2. i \in 1 .. Len(conns[l]) + 1
      BY <1>2, <1>5, <3>1
    <3>3. QED
      BY <1>2, <2>1, <3>1, <3>2
  <2>2. CASE c # l
    BY <1>1, <1>4, <1>5, <2>2
  <2>3. QED
    BY <2>1, <2>2
<1>6. QED
  BY <1>4, <1>5 DEF Carries, Conns

\* What Written makes of the connections, message by message.
NextConns(conns, q, m, lost) ==
    IF <<q, m>> \in lost THEN Reconnect(conns)
    ELSE [conns EXCEPT ![Len(conns)] = Append(@, m)]

\* The connections after each of the messages.
Progress(f, conns, q, messages, lost) ==
    /\ f[0] = conns
    /\ \A i \in 1 .. Len(messages) : f[i] = NextConns(f[i - 1], q, messages[i], lost)
    /\ Written(conns, q, messages, lost) = f[Len(messages)]

LEMMA WritingProgresses ==
    ASSUME NEW conns, NEW q, NEW messages \in Seq(WireMessages), NEW lost
    PROVE  \E f : Progress(f, conns, q, messages, lost)
<1> DEFINE n == Len(messages)
           Prefix(k, g) == g = [i \in 0 .. k |->
                IF i = 0 THEN conns ELSE NextConns(g[i - 1], q, messages[i], lost)]
           S == {k \in Nat : \E g : Prefix(k, g)}
<1>1. n \in Nat
  OBVIOUS
<1>2. 0 \in S
  <2>1. Prefix(0, [i \in 0 .. 0 |-> conns])
    OBVIOUS
  <2>2. QED
    BY <2>1
<1>3. ASSUME NEW k \in Nat, k \in S PROVE k + 1 \in S
  <2>1. PICK g : Prefix(k, g)
    BY <1>3
  <2> DEFINE h == [i \in 0 .. k + 1 |->
                IF i = k + 1 THEN NextConns(g[k], q, messages[k + 1], lost) ELSE g[i]]
  <2>2. ASSUME NEW i \in 0 .. k + 1
        PROVE  h[i] = IF i = 0 THEN conns ELSE NextConns(h[i - 1], q, messages[i], lost)
    <3>1. CASE i = k + 1
      BY <3>1
    <3>2. CASE i # k + 1
      <4>1. i \in 0 .. k /\ i - 1 # k + 1 /\ (i # 0 => i - 1 \in 0 .. k)
        BY <3>2
      <4>2. g[i] = IF i = 0 THEN conns ELSE NextConns(g[i - 1], q, messages[i], lost)
        BY <2>1, <4>1
      <4>3. QED
        BY <4>1, <4>2
    <3>3. QED
      BY <3>1, <3>2
  <2>3. Prefix(k + 1, h)
    BY <2>2
  <2> HIDE DEF h, Prefix
  <2>4. QED
    BY <2>3
<1> HIDE DEF n
<1>4. \E g : Prefix(n, g)
  <2> HIDE DEF Prefix
  <2>1. Nat \subseteq S
    BY <1>2, <1>3, Induct
  <2>2. QED
    BY <1>1, <2>1
<1> DEFINE f == CHOOSE g : Prefix(n, g)
<1>5. Prefix(n, f)
  BY <1>4, Zenon
<1>6. Written(conns, q, messages, lost) = f[n]
  BY DEF Written, NextConns, n
<1> HIDE DEF f
<1>7. f[0] = conns /\ \A i \in 1 .. n : f[i] = NextConns(f[i - 1], q, messages[i], lost)
  BY <1>1, <1>5
<1>8. Progress(f, conns, q, messages, lost)
  BY <1>6, <1>7 DEF Progress, n
<1>9. QED
  BY <1>8

\* Connections carry nothing but what has been written to them.
LEMMA Writing ==
    ASSUME NEW conns \in Conns, NEW q, NEW messages \in Seq(WireMessages), NEW lost
    PROVE  /\ Written(conns, q, messages, lost) \in Conns
           /\ \A m : Carries(Written(conns, q, messages, lost), m)
                        => Carries(conns, m) \/ Among(messages, m)
<1> DEFINE n == Len(messages)
<1>1. PICK f : Progress(f, conns, q, messages, lost)
  BY WritingProgresses
<1>2. n \in Nat
  OBVIOUS
<1> HIDE DEF n
<1>3. /\ f[0] = conns
      /\ \A i \in 1 .. n : f[i] = NextConns(f[i - 1], q, messages[i], lost)
      /\ Written(conns, q, messages, lost) = f[n]
  BY <1>1 DEF Progress, n
<1> DEFINE Fine(i) == /\ f[i] \in Conns
                      /\ \A m : Carries(f[i], m)
                                   => Carries(conns, m) \/ Among(messages, m)
           R == {i \in Nat : i <= n => Fine(i)}
<1>4. 0 \in R
  BY <1>3
<1>5. ASSUME NEW i \in Nat, i \in R PROVE i + 1 \in R
  <2> SUFFICES ASSUME i + 1 <= n PROVE Fine(i + 1)
    OBVIOUS
  <2>1. Fine(i)
    BY <1>2, <1>5
  <2>2. i + 1 \in DOMAIN messages /\ messages[i + 1] \in WireMessages
    BY <1>2 DEF n
  <2>3. f[i + 1] = NextConns(f[i], q, messages[i + 1], lost)
    BY <1>2, <1>3
  <2>4. CASE <<q, messages[i + 1]>> \in lost
    BY <2>1, <2>3, <2>4, Reconnecting DEF NextConns
  <2>5. CASE <<q, messages[i + 1]>> \notin lost
    <3>1. f[i + 1] = [f[i] EXCEPT ![Len(f[i])] = Append(@, messages[i + 1])]
      BY <2>3, <2>5 DEF NextConns
    <3>2. /\ f[i + 1] \in Conns
          /\ \A m : Carries(f[i + 1], m) => Carries(f[i], m) \/ m = messages[i + 1]
      BY <2>1, <2>2, <3>1, WritingOne
    <3>3. QED
      BY <2>1, <2>2, <3>2 DEF Among
  <2>6. QED
    BY <2>4, <2>5
<1>6. Nat \subseteq R
  BY <1>4, <1>5, Induct
<1>7. Fine(n)
  BY <1>2, <1>6
<1>8. QED
  BY <1>3, <1>7

\* The connections between all daemons.
Channels == [Participants -> [Participants -> Conns]]

\* What a handler puts on the connections: messages of p, and only those.
Sends(p, messages) ==
    /\ chan' \in Channels
    /\ losses' \in 0 .. MaxLosses
    /\ \A a, b \in Participants : \A m :
          UnderWay(a, b, m)' => UnderWay(a, b, m) \/ (a = p /\ Among(messages, m))

LEMMA Taking ==
    ASSUME chan \in Channels, NEW q \in Participants, NEW p \in Participants,
           NEW c \in DOMAIN chan[q][p], chan[q][p][c] # <<>>
    PROVE  /\ Taken(q, p, c) \in Channels
           /\ \A a, b \in Participants : \A m :
                 Carries(Taken(q, p, c)[a][b], m) => UnderWay(a, b, m)
           /\ Head(chan[q][p][c]) \in WireMessages
           /\ UnderWay(q, p, Head(chan[q][p][c]))
<1> DEFINE conns == chan[q][p]
           new == IF c < Len(conns) /\ Len(conns[c]) = 1
                  THEN SubSeq(conns, 1, c - 1) \o SubSeq(conns, c + 1, Len(conns))
                  ELSE [conns EXCEPT ![c] = Tail(@)]
<1>1. conns \in Seq(Seq(WireMessages)) /\ conns # <<>>
  BY DEF Channels, Conns
<1>2. c \in 1 .. Len(conns) /\ conns[c] \in Seq(WireMessages) /\ conns[c] # <<>>
  BY <1>1
<1>3. Taken(q, p, c) = [chan EXCEPT ![q][p] = new]
  BY DEF Taken
<1>4. new \in Conns /\ \A m : Carries(new, m) => Carries(conns, m)
  <2>1. CASE c < Len(conns) /\ Len(conns[c]) = 1
    <3> DEFINE head == SubSeq(conns, 1, c - 1)
               tail == SubSeq(conns, c + 1, Len(conns))
    <3>1. new = head \o tail
      BY <2>1
    <3> HIDE DEF conns, new
    <3>2. /\ head \in Seq(Seq(WireMessages)) /\ Len(head) = c - 1
          /\ \A i \in 1 .. c - 1 : head[i] = conns[i]
      <4>1. 1 \in 1 .. Len(conns) + 1 /\ c - 1 \in 1 - 1 .. Len(conns)
        BY <1>1, <1>2
      <4>2. QED
        BY <1>1, <1>2, <4>1, SubSeqProperties
    <3>3. /\ tail \in Seq(Seq(WireMessages)) /\ Len(tail) = Len(conns) - c
          /\ \A i \in 1 .. Len(conns) - c : tail[i] = conns[c + i]
      <4>1. c + 1 \in 1 .. Len(conns) + 1 /\ Len(conns) \in (c + 1) - 1 .. Len(conns)
        BY <1>1, <1>2
      <4>2. /\ tail \in Seq(Seq(WireMessages))
            /\ Len(tail) = Len(conns) - (c + 1) + 1
            /\ \A i \in 1 .. Len(conns) - (c + 1) + 1 : tail[i] = conns[(c + 1) + i - 1]
        BY <1>1, <4>1, SubSeqProperties
      <4> HIDE DEF tail
      <4>3. Len(conns) - (c + 1) + 1 = Len(conns) - c
        BY <1>1, <1>2
      <4>4. ASSUME NEW i \in 1 .. Len(conns) - c PROVE tail[i] = conns[c + i]
        <5>1. (c + 1) + i - 1 = c + i
          BY <1>1, <1>2
        <5>2. QED
          BY <4>2, <4>3, <5>1
      <4>5. QED
        BY <4>2, <4>3, <4>4
    <3> HIDE DEF head, tail
    <3>4. new \in Seq(Seq(WireMessages)) /\ Len(new) = Len(conns) - 1
      BY <1>1, <1>2, <3>1, <3>2, <3>3
    <3>5. new # <<>>
      BY <1>1, <1>2, <2>1, <3>4
    <3>6. ASSUME NEW i \in DOMAIN new PROVE \E j \in DOMAIN conns : new[i] = conns[j]
      <4> DEFINE N == Len(conns)
      <4>1. N \in Nat /\ DOMAIN conns = 1 .. N /\ c \in 1 .. N
        BY <1>1, <1>2
      <4>2. i \in 1 .. N - 1
        BY <3>4
      <4>3. Len(head) = c - 1 /\ Len(tail) = N - c
        BY <3>2, <3>3
      <4>4. /\ \A k \in 1 .. Len(head) : new[k] = head[k]
            /\ \A k \in Len(head) + 1 .. Len(head) + Len(tail) :
                  new[k] = tail[k - Len(head)]
        BY <3>1, <3>2, <3>3, ConcatProperties
      <4> HIDE DEF N
      <4>5. CASE i <= c - 1
        <5>1. i \in 1 .. c - 1 /\ i \in 1 .. N
          BY <4>1, <4>2, <4>5
        <5>2. new[i] = head[i]
          BY <4>3, <4>4, <5>1
        <5>3. QED
          BY <3>2, <4>1, <5>1, <5>2
      <4>6. CASE ~(i <= c - 1)
        <5>1. /\ i \in c - 1 + 1 .. c - 1 + (N - c)
              /\ i - (c - 1) \in 1 .. N - c
              /\ c + (i - (c - 1)) \in 1 .. N
          BY <4>1, <4>2, <4>6
        <5>2. new[i] = tail[i - (c - 1)]
          BY <4>3, <4>4, <5>1
        <5>3. tail[i - (c - 1)] = conns[c + (i - (c - 1))]
          BY <3>3, <5>1 DEF N
        <5>4. QED
          BY <4>1, <5>1, <5>2, <5>3
      <4>7. QED
        BY <4>5, <4>6
    <3>7. QED
      BY <3>4, <3>5, <3>6 DEF Carries, Conns
  <2>2. CASE ~(c < Len(conns) /\ Len(conns[c]) = 1)
    <3>1. new = [conns EXCEPT ![c] = Tail(@)]
      BY <2>2
    <3> HIDE DEF conns, new
    <3>2. Tail(conns[c]) \in Seq(WireMessages)
      BY <1>2
    <3>3. new \in Seq(Seq(WireMessages)) /\ DOMAIN new = DOMAIN conns /\ new # <<>>
      BY <1>1, <1>2, <3>1, <3>2
    <3>4. ASSUME NEW d \in DOMAIN new, NEW i \in DOMAIN new[d]
          PROVE  \E j \in DOMAIN conns[d] : new[d][i] = conns[d][j]
      <4>1. CASE d = c
        <5>1. new[d] = Tail(conns[c])
          BY <1>1, <1>2, <3>1, <4>1
        <5>2. i \in 1 .. Len(conns[c]) - 1
          BY <1>2, <3>4, <5>1
        <5>3. new[d][i] = conns[c][i + 1] /\ i + 1 \in DOMAIN conns[c]
          BY <1>2, <5>1, <5>2
        <5>4. QED
          BY <4>1, <5>3
      <4>2. CASE d # c
        BY <1>1, <3>1, <3>3, <3>4, <4>2
      <4>3. QED
        BY <4>1, <4>2
    <3>5. QED
      BY <3>3, <3>4 DEF Carries, Conns
  <2>3. QED
    BY <2>1, <2>2
<1> HIDE DEF new
<1>5. Taken(q, p, c) \in Channels
  BY <1>3, <1>4 DEF Channels
<1>6. ASSUME NEW a \in Participants, NEW b \in Participants, NEW m,
             Carries(Taken(q, p, c)[a][b], m)
      PROVE  Carries(chan[a][b], m)
  <2>1. CASE a = q /\ b = p
    <3>1. Taken(q, p, c)[a][b] = new
      BY <1>3, <2>1 DEF Channels
    <3>2. QED
      BY <1>4, <1>6, <2>1, <3>1
  <2>2. CASE ~(a = q /\ b = p)
    <3>1. Taken(q, p, c)[a][b] = chan[a][b]
      BY <1>3, <2>2 DEF Channels
    <3>2. QED
      BY <1>6, <3>1
  <2>3. QED
    BY <2>1, <2>2
<1>7. /\ 1 \in DOMAIN conns[c] /\ conns[c][1] = Head(conns[c])
      /\ Head(conns[c]) \in WireMessages
  BY <1>2
<1>8. UnderWay(q, p, Head(chan[q][p][c]))
  BY <1>7 DEF UnderWay
<1>9. QED
  BY <1>5, <1>6, <1>7, <1>8 DEF UnderWay, Carries

LEMMA Casting ==
    ASSUME NEW channels \in Channels, NEW p \in Participants,
           NEW messages \in Seq(WireMessages), losses \in 0 .. MaxLosses,
           Cast(channels, p, messages),
           \A a, b \in Participants : \A m :
              Carries(channels[a][b], m) => UnderWay(a, b, m)
    PROVE  Sends(p, messages)
<1> DEFINE Written1(lost) ==
        [q \in Participants |->
            IF q = p THEN channels[p][q]
            ELSE Written(channels[p][q], q, messages, lost)]
<1>1. PICK lost \in SUBSET (Others(p) \X {messages[i] : i \in 1 .. Len(messages)}) :
          /\ losses' = losses + Cardinality(lost)
          /\ losses' <= MaxLosses
          /\ chan' = [channels EXCEPT ![p] = Written1(lost)]
  BY DEF Cast
<1>2. Cardinality(lost) \in Nat
  <2> DEFINE D == 1 .. Len(messages)
             T == {messages[i] : i \in D}
  <2>1. IsFiniteSet(D)
    <3>1. Len(messages) \in Int
      OBVIOUS
    <3>2. QED
      BY <3>1, FS_Interval
  <2>2. IsFiniteSet(T)
    <3>1. [i \in D |-> messages[i]] \in Surjection(D, T)
      BY DEF Surjection
    <3>2. QED
      BY <2>1, <3>1, FS_Surjection
  <2>3. IsFiniteSet(Others(p))
    BY SetupAssumption, FS_Subset DEF Others
  <2>4. IsFiniteSet(Others(p) \X T)
    BY <2>2, <2>3, FS_Product
  <2>5. IsFiniteSet(lost)
    BY <1>1, <2>4, FS_Subset
  <2>6. QED
    BY <2>5, FS_CardinalityType
<1>3. losses' \in 0 .. MaxLosses
  BY <1>1, <1>2, SetupAssumption
<1>4. ASSUME NEW b \in Participants
      PROVE  /\ Written1(lost)[b] \in Conns
             /\ \A m : Carries(Written1(lost)[b], m)
                          => Carries(channels[p][b], m) \/ Among(messages, m)
  <2>1. channels[p][b] \in Conns
    BY DEF Channels
  <2>2. QED
    BY <2>1, Writing
<1> HIDE DEF Written1
<1>5. Written1(lost) \in [Participants -> Conns]
  <2>1. Written1(lost) = [b \in Participants |-> Written1(lost)[b]]
    BY DEF Written1
  <2>2. QED
    BY <1>4, <2>1
<1>6. chan' \in Channels
  BY <1>1, <1>5 DEF Channels
<1>7. ASSUME NEW a \in Participants, NEW b \in Participants, NEW m, Carries(chan'[a][b], m)
      PROVE  UnderWay(a, b, m) \/ (a = p /\ Among(messages, m))
  <2>1. CASE a = p
    <3>1. chan'[a] = Written1(lost)
      BY <1>1, <2>1 DEF Channels
    <3>2. QED
      BY <1>4, <1>7, <2>1, <3>1
  <2>2. CASE a # p
    <3>1. chan'[a] = channels[a]
      BY <1>1, <2>2 DEF Channels
    <3>2. QED
      BY <1>7, <3>1
  <2>3. QED
    BY <2>1, <2>2
<1>8. \A a, b \in Participants : \A m : UnderWay(a, b, m)' => Carries(chan'[a][b], m)
  BY DEF UnderWay, Carries
<1>9. QED
  BY <1>3, <1>6, <1>7, <1>8 DEF Sends

-----------------------------------------------------------------------------
(* Messages and types.                                                     *)

LEMMA Kinds ==
    ASSUME NEW m \in WireMessages
    PROVE  /\ m.type = "AdaptorPoint" => m = AdaptorPoint
           /\ m.type = "LeaderElectionCommitment" => m = LeaderElectionCommitment
           /\ m.type = "LeaderElectionNonce" => m = LeaderElectionNonce
           /\ m.type = "SchnorrNonce" => m.role \in Roles /\ m = SchnorrNonce(m.role)
           /\ m.type = "PartialSignature" =>
                 /\ m.role \in Roles /\ m.points \in SUBSET Participants
                 /\ m = PartialSignature(m.role, m.points)
<1>1. CASE m \in {AdaptorPoint, LeaderElectionCommitment, LeaderElectionNonce}
  BY <1>1 DEF AdaptorPoint, LeaderElectionCommitment, LeaderElectionNonce
<1>2. CASE \E role \in Roles : m = SchnorrNonce(role)
  BY <1>2 DEF SchnorrNonce
<1>3. CASE \E role \in Roles, points \in SUBSET Participants :
              m = PartialSignature(role, points)
  BY <1>3 DEF PartialSignature
<1>4. QED
  BY <1>1, <1>2, <1>3 DEF WireMessages

LEMMA Distinct ==
    /\ AdaptorPoint # LeaderElectionCommitment
    /\ AdaptorPoint # LeaderElectionNonce
    /\ LeaderElectionCommitment # LeaderElectionNonce
    /\ \A role : SchnorrNonce(role) \notin
          {AdaptorPoint, LeaderElectionCommitment, LeaderElectionNonce}
    /\ \A role, points : PartialSignature(role, points) \notin
          {AdaptorPoint, LeaderElectionCommitment, LeaderElectionNonce}
<1>1. /\ AdaptorPoint.type = "AdaptorPoint"
      /\ LeaderElectionCommitment.type = "LeaderElectionCommitment"
      /\ LeaderElectionNonce.type = "LeaderElectionNonce"
      /\ \A role : SchnorrNonce(role).type = "SchnorrNonce"
      /\ \A role, points : PartialSignature(role, points).type = "PartialSignature"
  BY DEF AdaptorPoint, LeaderElectionCommitment, LeaderElectionNonce, SchnorrNonce,
         PartialSignature
<1>2. QED
  BY <1>1

LEMMA Wire ==
    /\ {AdaptorPoint, LeaderElectionCommitment, LeaderElectionNonce} \subseteq WireMessages
    /\ \A role \in Roles : SchnorrNonce(role) \in WireMessages
    /\ \A role \in Roles : \A points \in SUBSET Participants :
          PartialSignature(role, points) \in WireMessages
  BY DEF WireMessages

LEMMA RolesOrdered ==
    /\ RoleOrder \in Seq(Roles)
    /\ Len(RoleOrder) \in Nat
    /\ \A i \in 1 .. Len(RoleOrder) : RoleOrder[i] \in Roles
    /\ \A role \in Roles : \E i \in 1 .. Len(RoleOrder) : RoleOrder[i] = role
<1> DEFINE refunds == [i \in 1 .. Len(Order) |-> Refund(Order[i])]
           spends == [i \in 1 .. Len(Order) |-> Spend(Order[i])]
           Any == {Refund(p) : p \in Participants} \cup {Spend(p) : p \in Participants}
<1>1. Len(Order) \in Nat /\ \A i \in 1 .. Len(Order) : Order[i] \in Participants
  BY SetupAssumption
<1>2. refunds \in Seq(Any) /\ spends \in Seq(Any)
  BY <1>1
<1> HIDE DEF refunds, spends, Any
<1>3. refunds \o spends \in Seq(Any)
  BY <1>2
<1>4. RoleOrder = refunds \o spends
  BY DEF RoleOrder, refunds, spends
<1>5. RoleOrder \in Seq(Any) /\ Len(RoleOrder) \in Nat
  BY <1>3, <1>4
<1>6. \A i \in 1 .. Len(RoleOrder) : RoleOrder[i] \in Roles
  BY DEF Roles
<1>7. RoleOrder \in Seq(Roles)
  BY <1>5, <1>6
<1>8. QED
  BY <1>5, <1>6, <1>7 DEF Roles

-----------------------------------------------------------------------------
(* Any number of losses: commit, then reveal.                              *)

\* A commitment that anybody holds or that is under way was its owner's first.
Committed ==
    \A q, p \in Participants :
        q \in leader_commitments[p] \/ UnderWay(q, p, LeaderElectionCommitment)
            => q \in leader_commitments[q]

IInv == TypeOK /\ chan \in Channels /\ Committed /\ CommitBeforeReveal

LEMMA InitIInv == Init => IInv
<1> SUFFICES ASSUME Init PROVE IInv
  OBVIOUS
<1>1. chan \in Channels
  <2>1. << <<>> >> \in Conns
    BY DEF Conns
  <2>2. QED
    BY <2>1 DEF Init, Channels
<1>2. TypeOK
  BY <1>1, SetupAssumption DEF Init, TypeOK, SwapStates, Channels, Conns
<1>3. \A q, p \in Participants : \A m : ~UnderWay(q, p, m)
  BY DEF Init, UnderWay
<1>4. Committed
  BY <1>3 DEF Init, Committed
<1>5. CommitBeforeReveal
  BY <1>3 DEF Init, CommitBeforeReveal
<1>6. QED
  BY <1>1, <1>2, <1>4, <1>5 DEF IInv

\* What a handler does to its daemon's line and to the election.
LEMMA Handling ==
    ASSUME IInv, NEW q \in Participants, NEW p \in Participants,
           NEW c \in DOMAIN chan[q][p], chan[q][p][c] # <<>>,
           NEW messages \in Seq(WireMessages),
           Cast(Taken(q, p, c), p, messages)
    PROVE  Sends(p, messages)
<1>1. chan \in Channels /\ losses \in 0 .. MaxLosses
  BY DEF IInv, TypeOK
<1>2. /\ Taken(q, p, c) \in Channels
      /\ \A a, b \in Participants : \A m :
            Carries(Taken(q, p, c)[a][b], m) => UnderWay(a, b, m)
  BY <1>1, Taking
<1>3. QED
  BY <1>1, <1>2, Casting

LEMMA HandlingSilently ==
    ASSUME IInv, NEW q \in Participants, NEW p \in Participants,
           NEW c \in DOMAIN chan[q][p], chan[q][p][c] # <<>>,
           CastNothing(Taken(q, p, c))
    PROVE  Sends(p, <<>>)
<1>1. chan \in Channels /\ losses \in 0 .. MaxLosses
  BY DEF IInv, TypeOK
<1>2. /\ Taken(q, p, c) \in Channels
      /\ \A a, b \in Participants : \A m :
            Carries(Taken(q, p, c)[a][b], m) => UnderWay(a, b, m)
  BY <1>1, Taking
<1>3. chan' = Taken(q, p, c) /\ losses' = losses
  BY DEF CastNothing
<1>4. \A a, b \in Participants : \A m : UnderWay(a, b, m)' => Carries(chan'[a][b], m)
  BY DEF UnderWay, Carries
<1>5. QED
  BY <1>1, <1>2, <1>3, <1>4 DEF Sends

\* A step keeps the order of the election if it commits before it tells so,
\* reveals after all have committed, and learns from messages.
LEMMA ElectionKept ==
    ASSUME IInv, NEW p \in Participants, NEW messages, Sends(p, messages),
           \A a \in Participants : leader_commitments[a] \subseteq leader_commitments'[a],
           \A a, b \in Participants :
              a \in leader_commitments'[b] =>
                 \/ a \in leader_commitments[b] \/ a = b
                 \/ UnderWay(a, b, LeaderElectionCommitment),
           \A a, b \in Participants :
              a # b /\ a \in leader_nonces'[b] =>
                 a \in leader_nonces[b] \/ UnderWay(a, b, LeaderElectionNonce),
           Among(messages, LeaderElectionCommitment) => p \in leader_commitments'[p],
           Among(messages, LeaderElectionNonce) =>
              \A a \in Participants : a \in leader_commitments'[a]
    PROVE  Committed' /\ CommitBeforeReveal'
<1>1. ASSUME NEW a \in Participants, NEW b \in Participants,
             a \in leader_commitments'[b] \/ UnderWay(a, b, LeaderElectionCommitment)'
      PROVE  a \in leader_commitments'[a]
  BY <1>1 DEF IInv, Committed, Sends
<1>2. ASSUME NEW a \in Participants, NEW b \in Participants, a # b,
             a \in leader_nonces'[b] \/ UnderWay(a, b, LeaderElectionNonce)'
      PROVE  \A d \in Participants : d \in leader_commitments'[d]
  BY <1>2 DEF IInv, CommitBeforeReveal, Sends
<1>3. Committed'
  BY <1>1 DEF Committed
<1>4. CommitBeforeReveal'
  BY <1>2 DEF CommitBeforeReveal
<1>5. QED
  BY <1>3, <1>4

LEMMA ChannelsTyped ==
    Channels \subseteq [Participants -> [Participants -> Seq(Seq(WireMessages))]]
  BY DEF Channels, Conns

LEMMA StartKeeps ==
    ASSUME IInv, NEW p \in Participants, Start(p) \/ StartFails(p)
    PROVE  IInv'
<1>1. CASE Start(p)
  <2>1. Sends(p, <<AdaptorPoint>>)
    <3>1. chan \in Channels /\ losses \in 0 .. MaxLosses
      BY DEF IInv, TypeOK
    <3>2. \A a, b \in Participants : \A m : Carries(chan[a][b], m) => UnderWay(a, b, m)
      BY DEF UnderWay, Carries
    <3>3. <<AdaptorPoint>> \in Seq(WireMessages)
      BY Wire
    <3>4. QED
      BY <1>1, <3>1, <3>2, <3>3, Casting DEF Start
  <2>2. \A m : Among(<<AdaptorPoint>>, m) => m = AdaptorPoint
    BY DEF Among
  <2>3. TypeOK'
    BY <1>1, <2>1, ChannelsTyped
       DEF IInv, TypeOK, Start, Sends, election, signing, SwapStates
  <2>4. Committed' /\ CommitBeforeReveal'
    BY <1>1, <2>1, <2>2, Distinct, ElectionKept DEF Start, election
  <2>5. QED
    BY <2>1, <2>3, <2>4 DEF IInv, Sends
<1>2. CASE StartFails(p)
  <2>1. TypeOK'
    BY <1>2 DEF IInv, TypeOK, StartFails, election, signing, SwapStates
  <2>2. Committed' /\ CommitBeforeReveal' /\ chan' \in Channels
    BY <1>2 DEF IInv, Committed, CommitBeforeReveal, UnderWay, StartFails, election
  <2>3. QED
    BY <2>1, <2>2 DEF IInv
<1>3. QED
  BY <1>1, <1>2

LEMMA AdaptorPointKeeps ==
    ASSUME IInv, NEW q \in Participants, NEW p \in Participants,
           NEW c \in DOMAIN chan[q][p], HandleAdaptorPoint(q, p, c)
    PROVE  IInv'
<1>0. chan[q][p][c] # <<>>
  BY DEF HandleAdaptorPoint, Receive
<1> DEFINE opens == /\ AllAdaptorPoints(adaptor_points[p] \cup {q})
                    /\ state[p] = "AwaitingAdaptorPoints"
<1>1. CASE opens
  <2>1. /\ state' = [state EXCEPT ![p] = "AwaitingLeaderElectionCommitments"]
        /\ leader_commitments' = [leader_commitments EXCEPT ![p] = @ \cup {p}]
        /\ leader_nonces' = [leader_nonces EXCEPT ![p] = @ \cup {p}]
        /\ Cast(Taken(q, p, c), p, StartElection(p))
    BY <1>1 DEF HandleAdaptorPoint
  <2>2. StartElection(p) \in Seq(WireMessages)
    BY Wire DEF StartElection
  <2>3. Sends(p, StartElection(p))
    BY <1>0, <2>1, <2>2, Handling
  <2>4. \A m : Among(StartElection(p), m) => m = LeaderElectionCommitment
    BY DEF Among, StartElection
  <2>5. TypeOK'
    BY <2>1, <2>3, ChannelsTyped
       DEF IInv, TypeOK, HandleAdaptorPoint, Sends, signing, SwapStates
  <2>6. /\ leader_commitments \in [Participants -> SUBSET Participants]
        /\ leader_nonces \in [Participants -> SUBSET Participants]
    BY DEF IInv, TypeOK
  <2>7. Committed' /\ CommitBeforeReveal'
    BY <2>1, <2>3, <2>4, <2>6, Distinct, ElectionKept
  <2>8. QED
    BY <2>3, <2>5, <2>7 DEF IInv, Sends
<1>2. CASE ~opens
  <2>1. CastNothing(Taken(q, p, c)) /\ UNCHANGED <<state, leader_commitments, leader_nonces>>
    BY <1>2 DEF HandleAdaptorPoint
  <2>2. Sends(p, <<>>)
    BY <1>0, <2>1, HandlingSilently
  <2>3. \A m : ~Among(<<>>, m)
    BY DEF Among
  <2>4. TypeOK'
    BY <2>1, <2>2, ChannelsTyped
       DEF IInv, TypeOK, HandleAdaptorPoint, Sends, signing, SwapStates
  <2>5. Committed' /\ CommitBeforeReveal'
    BY <2>1, <2>2, <2>3, ElectionKept
  <2>6. QED
    BY <2>2, <2>4, <2>5 DEF IInv, Sends
<1>3. QED
  BY <1>1, <1>2

\* Where commit-reveal is at stake: the last commitment reveals.
LEMMA CommitmentKeeps ==
    ASSUME IInv, NEW q \in Participants, NEW p \in Participants,
           NEW c \in DOMAIN chan[q][p], HandleLeaderElectionCommitment(q, p, c)
    PROVE  IInv'
<1> DEFINE starts == p \notin leader_commitments[p]
           commitments == leader_commitments[p] \cup {p, q}
           reveals == /\ AllCommitments(commitments)
                      /\ starts \/ state[p] # "AwaitingLeaderElectionNonces"
           messages == StartElection(p) \o RevealNonce(reveals)
<1>1. /\ Receive(q, p, c, "LeaderElectionCommitment")
      /\ leader_commitments' = [leader_commitments EXCEPT ![p] = commitments]
      /\ leader_nonces' = [leader_nonces EXCEPT ![p] = @ \cup {p}]
      /\ state' = [state EXCEPT ![p] =
                      IF reveals THEN "AwaitingLeaderElectionNonces"
                      ELSE IF starts THEN "AwaitingLeaderElectionCommitments"
                      ELSE @]
      /\ Cast(Taken(q, p, c), p, messages)
      /\ UNCHANGED <<started, adaptor_points, signing>>
  BY DEF HandleLeaderElectionCommitment
<1> HIDE DEF reveals
<1>2. chan[q][p][c] # <<>> /\ Head(chan[q][p][c]).type = "LeaderElectionCommitment"
  BY <1>1 DEF Receive
<1>3. UnderWay(q, p, LeaderElectionCommitment)
  <2>1. chan \in Channels
    BY DEF IInv
  <2>2. Head(chan[q][p][c]) \in WireMessages /\ UnderWay(q, p, Head(chan[q][p][c]))
    BY <1>2, <2>1, Taking
  <2>3. QED
    BY <1>2, <2>2, Kinds
<1>4. messages \in Seq(WireMessages)
  BY Wire DEF StartElection, RevealNonce
<1>5. Sends(p, messages)
  <2> HIDE DEF messages
  <2>1. QED
    BY <1>1, <1>2, <1>4, Handling
<1>6. \A m : Among(messages, m) =>
         \/ m = LeaderElectionCommitment
         \/ m = LeaderElectionNonce /\ reveals
  BY DEF Among, StartElection, RevealNonce
<1> HIDE DEF messages
<1>7. TypeOK'
  BY <1>1, <1>5, ChannelsTyped DEF IInv, TypeOK, Sends, signing, SwapStates
<1>8. /\ leader_commitments \in [Participants -> SUBSET Participants]
      /\ leader_nonces \in [Participants -> SUBSET Participants]
  BY DEF IInv, TypeOK
<1>9. \A a \in Participants : leader_commitments[a] \subseteq leader_commitments'[a]
  BY <1>1, <1>8
<1>10. p \in leader_commitments'[p]
  BY <1>1, <1>8
<1>11. reveals => \A a \in Participants : a \in leader_commitments'[a]
  <2> SUFFICES ASSUME reveals, NEW a \in Participants PROVE a \in leader_commitments'[a]
    OBVIOUS
  <2>1. a \in commitments
    BY DEF reveals, AllCommitments
  <2>2. a = p \/ a \in leader_commitments[a]
    BY <1>3, <2>1 DEF IInv, Committed
  <2>3. QED
    BY <1>9, <1>10, <2>2
<1>12. Committed' /\ CommitBeforeReveal'
  <2>1. \A a, b \in Participants :
           a \in leader_commitments'[b] =>
              \/ a \in leader_commitments[b] \/ a = b
              \/ UnderWay(a, b, LeaderElectionCommitment)
    BY <1>1, <1>3, <1>8
  <2>2. \A a, b \in Participants :
           a # b /\ a \in leader_nonces'[b] =>
              a \in leader_nonces[b] \/ UnderWay(a, b, LeaderElectionNonce)
    BY <1>1, <1>8
  <2>3. QED
    BY <1>5, <1>6, <1>9, <1>10, <1>11, <2>1, <2>2, Distinct, ElectionKept
<1>13. QED
  BY <1>5, <1>7, <1>12 DEF IInv, Sends

LEMMA ElectionNonceKeeps ==
    ASSUME IInv, NEW q \in Participants, NEW p \in Participants,
           NEW c \in DOMAIN chan[q][p], HandleLeaderElectionNonce(q, p, c)
    PROVE  IInv'
<1> DEFINE begins == /\ Participants \subseteq leader_nonces[p] \cup {q}
                     /\ \A role \in Roles : musig_sessions[p][role] = "None"
           nonces == [i \in 1 .. Len(RoleOrder) |-> SchnorrNonce(RoleOrder[i])]
<1>1. chan[q][p][c] # <<>> /\ Head(chan[q][p][c]).type = "LeaderElectionNonce"
  BY DEF HandleLeaderElectionNonce, Receive
<1>2. UnderWay(q, p, LeaderElectionNonce)
  <2>1. chan \in Channels
    BY DEF IInv
  <2>2. Head(chan[q][p][c]) \in WireMessages /\ UnderWay(q, p, Head(chan[q][p][c]))
    BY <1>1, <2>1, Taking
  <2>3. QED
    BY <1>1, <2>2, Kinds
<1>3. UNCHANGED <<started, adaptor_points, leader_commitments, partial_sigs, signed>>
  BY DEF HandleLeaderElectionNonce
<1>4. leader_nonces \in [Participants -> SUBSET Participants]
  BY DEF IInv, TypeOK
<1>5. CASE Expected(q, p) /\ begins
  <2>1. /\ leader_nonces' = [leader_nonces EXCEPT ![p] = @ \cup {q}]
        /\ state' = [state EXCEPT ![p] = "RefundAndSpendTxsSigning"]
        /\ BeginSigning(q, p, c)
    BY <1>5 DEF HandleLeaderElectionNonce
  <2>2. nonces \in Seq(WireMessages)
    BY RolesOrdered, Wire
  <2>3. Cast(Taken(q, p, c), p, nonces)
    BY <2>1 DEF BeginSigning
  <2>4. \A m : Among(nonces, m) => \E role \in Roles : m = SchnorrNonce(role)
    BY RolesOrdered DEF Among
  <2> HIDE DEF nonces
  <2>5. Sends(p, nonces)
    BY <1>1, <2>2, <2>3, Handling
  <2>6. TypeOK'
    <3>1. /\ musig_sessions' = [musig_sessions EXCEPT ![p] = [role \in Roles |-> "RoundOne"]]
          /\ schnorr_nonces' = [schnorr_nonces EXCEPT ![p] =
                [role \in Roles |-> schnorr_nonces[p][role] \cup {p}]]
      BY <2>1 DEF BeginSigning
    <3>2. QED
      BY <1>3, <2>1, <2>5, <3>1, ChannelsTyped DEF IInv, TypeOK, Sends, SwapStates
  <2>7. Committed' /\ CommitBeforeReveal'
    BY <1>2, <1>3, <1>4, <2>1, <2>4, <2>5, Distinct, ElectionKept
  <2>8. QED
    BY <2>5, <2>6, <2>7 DEF IInv, Sends
<1>6. CASE ~(Expected(q, p) /\ begins)
  <2>1. /\ CastNothing(Taken(q, p, c))
        /\ UNCHANGED <<musig_sessions, schnorr_nonces>>
        /\ state' \in {state, [state EXCEPT ![p] = "Panicked"]}
        /\ leader_nonces' \in {leader_nonces, [leader_nonces EXCEPT ![p] = @ \cup {q}]}
    BY <1>6 DEF HandleLeaderElectionNonce
  <2>2. Sends(p, <<>>)
    BY <1>1, <2>1, HandlingSilently
  <2>3. \A m : ~Among(<<>>, m)
    BY DEF Among
  <2>4. TypeOK'
    <3>1. state' \in [Participants -> SwapStates]
      BY <2>1 DEF IInv, TypeOK, SwapStates
    <3>2. leader_nonces' \in [Participants -> SUBSET Participants]
      BY <1>4, <2>1
    <3>3. QED
      BY <1>3, <2>1, <2>2, <3>1, <3>2, ChannelsTyped DEF IInv, TypeOK, Sends
  <2>5. \A a, b \in Participants :
           a # b /\ a \in leader_nonces'[b] =>
              a \in leader_nonces[b] \/ UnderWay(a, b, LeaderElectionNonce)
    BY <1>2, <1>4, <2>1
  <2>6. Committed' /\ CommitBeforeReveal'
    BY <1>3, <2>2, <2>3, <2>5, ElectionKept
  <2>7. QED
    BY <2>2, <2>4, <2>6 DEF IInv, Sends
<1>7. QED
  BY <1>5, <1>6

LEMMA SchnorrNonceKeeps ==
    ASSUME IInv, NEW q \in Participants, NEW p \in Participants,
           NEW c \in DOMAIN chan[q][p], HandleSchnorrNonce(q, p, c)
    PROVE  IInv'
<1> DEFINE role == Head(chan[q][p][c]).role
           holders == schnorr_nonces[p][role] \cup {q}
           points == SigningPoints(p, role)
           transits == AllNonces(p, holders) /\ musig_sessions[p][role] = "RoundOne"
<1>1. chan[q][p][c] # <<>> /\ Head(chan[q][p][c]).type = "SchnorrNonce"
  BY DEF HandleSchnorrNonce, Receive
<1>2. role \in Roles
  <2>1. chan \in Channels
    BY DEF IInv
  <2>2. Head(chan[q][p][c]) \in WireMessages
    BY <1>1, <2>1, Taking
  <2>3. QED
    BY <1>1, <2>2, Kinds
<1>3. /\ schnorr_nonces' = [schnorr_nonces EXCEPT ![p][role] = holders]
      /\ UNCHANGED <<started, state, election, signed>>
  BY DEF HandleSchnorrNonce
<1>4. points \in SUBSET Participants
  BY DEF IInv, TypeOK, SigningPoints
<1>5. CASE transits
  <2>1. /\ musig_sessions' = [musig_sessions EXCEPT ![p][role] = "RoundTwo"]
        /\ partial_sigs' = [partial_sigs EXCEPT ![p][role] = @ \cup {<<p, points>>}]
        /\ Cast(Taken(q, p, c), p, <<PartialSignature(role, points)>>)
    BY <1>5 DEF HandleSchnorrNonce, TransitionToRoundTwo
  <2> HIDE DEF role, points
  <2>2. <<PartialSignature(role, points)>> \in Seq(WireMessages)
    BY <1>2, <1>4, Wire
  <2>3. Sends(p, <<PartialSignature(role, points)>>)
    BY <1>1, <2>1, <2>2, Handling
  <2>4. \A m : Among(<<PartialSignature(role, points)>>, m)
                  => m = PartialSignature(role, points)
    BY DEF Among
  <2>5. TypeOK'
    <3>1. schnorr_nonces' \in [Participants -> [Roles -> SUBSET Participants]]
      BY <1>2, <1>3 DEF IInv, TypeOK
    <3>2. musig_sessions' \in [Participants -> [Roles -> {"None", "RoundOne", "RoundTwo"}]]
      BY <1>2, <2>1 DEF IInv, TypeOK
    <3>3. partial_sigs' \in
             [Participants -> [Roles -> SUBSET (Participants \X SUBSET Participants)]]
      BY <1>2, <1>4, <2>1 DEF IInv, TypeOK
    <3>4. QED
      BY <1>3, <2>3, <3>1, <3>2, <3>3, ChannelsTyped DEF IInv, TypeOK, Sends, election
  <2>6. Committed' /\ CommitBeforeReveal'
    BY <1>3, <2>3, <2>4, Distinct, ElectionKept DEF election
  <2>7. QED
    BY <2>3, <2>5, <2>6 DEF IInv, Sends
<1>6. CASE ~transits
  <2>1. CastNothing(Taken(q, p, c)) /\ UNCHANGED <<musig_sessions, partial_sigs>>
    BY <1>6 DEF HandleSchnorrNonce, TransitionToRoundTwo
  <2>2. Sends(p, <<>>)
    BY <1>1, <2>1, HandlingSilently
  <2>3. \A m : ~Among(<<>>, m)
    BY DEF Among
  <2> HIDE DEF role
  <2>4. TypeOK'
    <3>1. schnorr_nonces' \in [Participants -> [Roles -> SUBSET Participants]]
      BY <1>2, <1>3 DEF IInv, TypeOK
    <3>2. QED
      BY <1>3, <2>1, <2>2, <3>1, ChannelsTyped DEF IInv, TypeOK, Sends, election
  <2>5. Committed' /\ CommitBeforeReveal'
    BY <1>3, <2>2, <2>3, ElectionKept DEF election
  <2>6. QED
    BY <2>2, <2>4, <2>5 DEF IInv, Sends
<1>7. QED
  BY <1>5, <1>6

LEMMA PartialSignatureKeeps ==
    ASSUME IInv, NEW q \in Participants, NEW p \in Participants,
           NEW c \in DOMAIN chan[q][p], HandlePartialSignature(q, p, c)
    PROVE  IInv'
<1> DEFINE m == Head(chan[q][p][c])
           role == m.role
           sigs == [partial_sigs[p] EXCEPT ![role] = @ \cup {<<q, m.points>>}]
           finalizes == Finalizes(p, role, sigs[role])
           finalized == IF finalizes THEN signed[p] \cup {role} ELSE signed[p]
<1>1. chan[q][p][c] # <<>> /\ m.type = "PartialSignature"
  BY DEF HandlePartialSignature, Receive
<1>2. role \in Roles /\ m.points \in SUBSET Participants
  <2>1. chan \in Channels
    BY DEF IInv
  <2>2. m \in WireMessages
    BY <1>1, <2>1, Taking
  <2>3. QED
    BY <1>1, <2>2, Kinds
<1>3. /\ partial_sigs' = [partial_sigs EXCEPT ![p] = sigs]
      /\ signed' \in {signed, [signed EXCEPT ![p] = finalized]}
      /\ state' \in {state, [state EXCEPT ![p] = "Panicked"],
                     [state EXCEPT ![p] = "AwaitingLockConfirmations"],
                     [state EXCEPT ![p] = "Failed"]}
      /\ CastNothing(Taken(q, p, c))
      /\ UNCHANGED <<started, election, musig_sessions, schnorr_nonces>>
  BY DEF HandlePartialSignature
<1>4. Sends(p, <<>>)
  BY <1>1, <1>3, HandlingSilently
<1> HIDE DEF m
<1>5. sigs \in [Roles -> SUBSET (Participants \X SUBSET Participants)]
  BY <1>2 DEF IInv, TypeOK
<1>6. finalized \in SUBSET Roles
  BY <1>2 DEF IInv, TypeOK
<1> HIDE DEF sigs, finalized
<1>7. \A k : ~Among(<<>>, k)
  BY DEF Among
<1>8. TypeOK'
  <2>1. state' \in [Participants -> SwapStates]
    BY <1>3 DEF IInv, TypeOK, SwapStates
  <2>2. partial_sigs' \in
           [Participants -> [Roles -> SUBSET (Participants \X SUBSET Participants)]]
    BY <1>3, <1>5 DEF IInv, TypeOK
  <2>3. signed' \in [Participants -> SUBSET Roles]
    BY <1>3, <1>6 DEF IInv, TypeOK
  <2>4. /\ chan' \in [Participants -> [Participants -> Seq(Seq(WireMessages))]]
        /\ losses' \in 0 .. MaxLosses
    BY <1>4, ChannelsTyped DEF Sends
  <2>5. UNCHANGED <<started, adaptor_points, leader_commitments, leader_nonces,
                    musig_sessions, schnorr_nonces>>
    BY <1>3 DEF election
  <2>6. QED
    BY <2>1, <2>2, <2>3, <2>4, <2>5 DEF IInv, TypeOK
<1>9. Committed' /\ CommitBeforeReveal'
  BY <1>3, <1>4, <1>7, ElectionKept DEF election
<1>10. QED
  BY <1>4, <1>8, <1>9 DEF IInv, Sends

LEMMA StepIInv == IInv /\ [Next]_vars => IInv'
<1> SUFFICES ASSUME IInv, [Next]_vars PROVE IInv'
  OBVIOUS
<1>1. ASSUME NEW p \in Participants, Start(p) \/ StartFails(p) PROVE IInv'
  BY <1>1, StartKeeps
<1>2. ASSUME NEW q \in Participants, NEW p \in Participants, PeerMessage(q, p)
      PROVE  IInv'
  BY <1>2, AdaptorPointKeeps, CommitmentKeeps, ElectionNonceKeeps, SchnorrNonceKeeps,
     PartialSignatureKeeps DEF PeerMessage
<1>3. CASE UNCHANGED vars
  BY <1>3 DEF vars, election, signing, IInv, TypeOK, Committed, CommitBeforeReveal,
              UnderWay
<1>4. QED
  BY <1>1, <1>2, <1>3 DEF Next

\* The state of a session, of its signing and of its connections stays typed
\* through losses, reconnects, refusals and panics.
THEOREM TypeCorrect == Spec => []TypeOK
<1>1. IInv => TypeOK
  BY DEF IInv
<1>2. QED
  BY InitIInv, StepIInv, <1>1, PTL DEF Spec

\* leader_election.rs: no nonce of the election leaves its daemon before all
\* have committed, however many messages are lost and whatever order the
\* connections that follow a loss deliver in.
THEOREM CommitThenReveal == Spec => []CommitBeforeReveal
<1>1. IInv => CommitBeforeReveal
  BY DEF IInv
<1>2. QED
  BY InitIInv, StepIInv, <1>1, PTL DEF Spec

================================================================================
