---------------------------- MODULE TransportProofs ----------------------------
(***************************************************************************)
(* Theorems of Transport, for every set of daemons, every number of        *)
(* messages, every capacity of queues and sockets and any faults.          *)
(***************************************************************************)
EXTENDS Transport, TLAPS

-----------------------------------------------------------------------------
(* Type correctness.                                                       *)

\* Changing one connection of one pair leaves the type of all of them alone.
LEMMA ConnsType ==
    ASSUME conns \in [Daemons -> [Daemons -> Seq(Connections)]],
           NEW d \in Daemons, NEW e \in Daemons, NEW cs \in Seq(Connections),
           conns' = [conns EXCEPT ![d][e] = cs]
    PROVE  conns' \in [Daemons -> [Daemons -> Seq(Connections)]]
<1>1. [conns[d] EXCEPT ![e] = cs] \in [Daemons -> Seq(Connections)]
  OBVIOUS
<1>2. QED
  BY <1>1

LEMMA QueueType ==
    ASSUME TypeOK, TransportAssumption, NEW d \in Daemons, HasRoom(d),
           NEW event \in [from : Daemons, n : Nat], Enqueue(d, event)
    PROVE  /\ queue' \in [Daemons -> Seq([from : Daemons, n : Nat])]
           /\ \A e \in Daemons : Len(queue'[e]) <= QueueCapacity
<1> DEFINE Events == [from : Daemons, n : Nat]
<1>1. queue[d] \in Seq(Events)
  BY DEF TypeOK
<1> HIDE DEF Events
<1>2. /\ Append(queue[d], event) \in Seq(Events)
      /\ Len(Append(queue[d], event)) = Len(queue[d]) + 1
  BY <1>1 DEF Events
<1>3. Len(queue[d]) + 1 <= QueueCapacity
  BY <1>1 DEF HasRoom, TransportAssumption
<1>4. queue' \in [Daemons -> Seq(Events)]
  BY <1>2 DEF Enqueue, TypeOK, Events
<1>5. ASSUME NEW e \in Daemons PROVE Len(queue'[e]) <= QueueCapacity
  BY <1>2, <1>3 DEF Enqueue, TypeOK
<1>6. QED
  BY <1>4, <1>5 DEF Events

LEMMA TypeInit == TransportAssumption /\ Init => TypeOK
<1> SUFFICES ASSUME TransportAssumption, Init PROVE TypeOK
  OBVIOUS
<1>1. \A S : <<>> \in Seq(S) /\ Len(<<>>) = 0
  OBVIOUS
<1>2. QED
  BY <1>1 DEF Init, TypeOK, TransportAssumption

LEMMA ConnType ==
    ASSUME conns \in [Daemons -> [Daemons -> Seq(Connections)]],
           NEW d \in Daemons, NEW e \in Daemons, NEW c \in DOMAIN conns[d][e],
           NEW k \in Connections,
           conns' = [conns EXCEPT ![d][e][c] = k]
    PROVE  conns' \in [Daemons -> [Daemons -> Seq(Connections)]]
<1>1. [conns[d][e] EXCEPT ![c] = k] \in Seq(Connections)
  OBVIOUS
<1>2. conns' = [conns EXCEPT ![d][e] = [conns[d][e] EXCEPT ![c] = k]]
  OBVIOUS
<1>3. QED
  BY <1>1, <1>2, ConnsType

\* The same, where only what the sockets hold changes.
LEMMA WireType ==
    ASSUME conns \in [Daemons -> [Daemons -> Seq(Connections)]],
           NEW d \in Daemons, NEW e \in Daemons, NEW c \in DOMAIN conns[d][e],
           NEW w \in Seq(Nat),
           conns' = [conns EXCEPT ![d][e][c].wire = w]
    PROVE  conns' \in [Daemons -> [Daemons -> Seq(Connections)]]
<1>1. conns[d][e][c] \in Connections
  OBVIOUS
<1>2. [conns[d][e][c] EXCEPT !.wire = w] \in Connections
  BY <1>1 DEF Connections
<1>3. conns' = [conns EXCEPT ![d][e][c] = [conns[d][e][c] EXCEPT !.wire = w]]
  OBVIOUS
<1>4. QED
  BY <1>2, <1>3, ConnType

\* What is in the sockets of a connection, and what taking or cutting it leaves.
LEMMA WireFacts ==
    ASSUME TypeOK, NEW d \in Daemons, NEW e \in Daemons,
           NEW c \in DOMAIN conns[d][e]
    PROVE  /\ conns[d][e] \in Seq(Connections)
           /\ conns[d][e][c] \in Connections
           /\ conns[d][e][c].wire \in Seq(Nat)
<1>1. conns[d][e] \in Seq(Connections) /\ conns[d][e][c] \in Connections
  BY DEF TypeOK
<1>2. QED
  BY <1>1 DEF Connections

LEMMA SubSeqFacts ==
    ASSUME NEW S, NEW s \in Seq(S), NEW k \in 0 .. Len(s)
    PROVE  /\ SubSeq(s, 1, k) \in Seq(S)
           /\ Len(SubSeq(s, 1, k)) = k
           /\ \A i \in 1 .. k : SubSeq(s, 1, k)[i] = s[i]
  OBVIOUS

\* A stream in the pool is that of the newest connection.
PooledConnection ==
    \A d, e \in Daemons : pool[d][e] => conns[d][e] # <<>>

LEMMA NewestExists ==
    ASSUME TypeOK, PooledConnection, NEW d \in Daemons, NEW e \in Daemons,
           pool[d][e]
    PROVE  Newest(d, e) \in DOMAIN conns[d][e]
<1>1. conns[d][e] \in Seq(Connections) /\ conns[d][e] # <<>>
  BY DEF TypeOK, PooledConnection
<1>2. QED
  BY <1>1 DEF Newest

LEMMA TypeStep ==
    ASSUME TransportAssumption, TypeOK, PooledConnection, [Next]_vars
    PROVE  TypeOK'
<1> USE DEF TransportAssumption, Done, Fault, GiveUp, KeepStream, Peers
<1>1. ASSUME NEW d \in Daemons, Begin(d) PROVE TypeOK'
  BY <1>1 DEF Begin, TypeOK
<1>2. ASSUME NEW d \in Daemons, Return(d) PROVE TypeOK'
  BY <1>2 DEF Return, TypeOK
<1>3. ASSUME NEW d \in Daemons, Tick(d) PROVE TypeOK'
  <2>1. ChainPoll(d) \in [from : Daemons, n : Nat]
    BY DEF ChainPoll
  <2>2. QED
    BY <1>3, <2>1, QueueType DEF Tick, TypeOK
<1>4. ASSUME NEW d \in Daemons, Recv(d) PROVE TypeOK'
  <2>1. /\ Tail(queue[d]) \in Seq([from : Daemons, n : Nat])
        /\ Len(Tail(queue[d])) <= QueueCapacity
    BY <1>4 DEF Recv, TypeOK
  <2>2. QED
    BY <1>4, <2>1 DEF Recv, TypeOK
<1>5. ASSUME NEW d \in Daemons, AcceptFails(d) PROVE TypeOK'
  BY <1>5 DEF AcceptFails, TypeOK
<1>6. ASSUME NEW d \in Daemons, NEW e \in Daemons, Connect(d, e) PROVE TypeOK'
  <2>1. [wire |-> <<>>, up |-> TRUE, reader |-> accepting[e]] \in Connections
    BY DEF Connections, TypeOK
  <2>2. Append(conns[d][e], [wire |-> <<>>, up |-> TRUE, reader |-> accepting[e]])
            \in Seq(Connections)
    BY <2>1 DEF TypeOK
  <2>3. conns' \in [Daemons -> [Daemons -> Seq(Connections)]]
    BY <1>6, <2>2, ConnsType DEF Connect, TypeOK
  <2>4. QED
    BY <1>6, <2>3 DEF Connect, TypeOK
<1>7. ASSUME NEW d \in Daemons, NEW e \in Daemons, ConnectFails(d, e) PROVE TypeOK'
  BY <1>7 DEF ConnectFails, TypeOK
<1>8. ASSUME NEW d \in Daemons, NEW e \in Daemons, Write(d, e) PROVE TypeOK'
  <2>1. Newest(d, e) \in DOMAIN conns[d][e]
    BY <1>8, NewestExists DEF Write
  <2>2. conns[d][e][Newest(d, e)].wire \in Seq(Nat) /\ sent[d] \in Nat
    <3>1. sent[d] \in Nat
      BY DEF TypeOK
    <3>2. QED
      BY <2>1, <3>1, WireFacts
  <2> DEFINE w == Append(conns[d][e][Newest(d, e)].wire, sent[d])
  <2>5. w \in Seq(Nat)
    BY <2>2
  <2>3. conns' \in [Daemons -> [Daemons -> Seq(Connections)]]
    <3>1. conns' = [conns EXCEPT ![d][e][Newest(d, e)].wire = w]
      BY <1>8 DEF Write
    <3> HIDE DEF w
    <3>2. conns \in [Daemons -> [Daemons -> Seq(Connections)]]
      BY DEF TypeOK
    <3>3. QED
      BY <2>1, <2>5, <3>1, <3>2, WireType
  <2>4. QED
    BY <1>8, <2>3 DEF Write, TypeOK
<1>9. ASSUME NEW d \in Daemons, NEW e \in Daemons, WriteFails(d, e) PROVE TypeOK'
  BY <1>9 DEF WriteFails, TypeOK
<1>10. ASSUME NEW d \in Daemons, NEW e \in Daemons,
              NEW c \in DOMAIN conns[d][e], ReadLine(d, e, c)
       PROVE  TypeOK'
  <2>1. /\ Tail(conns[d][e][c].wire) \in Seq(Nat)
        /\ Head(conns[d][e][c].wire) \in Nat
    BY <1>10, WireFacts DEF ReadLine
  <2>2. conns' \in [Daemons -> [Daemons -> Seq(Connections)]]
    BY <1>10, <2>1, WireType DEF ReadLine, Forward, TypeOK
  <2>3. PeerMessage(d, Head(conns[d][e][c].wire)) \in [from : Daemons, n : Nat]
    BY <2>1 DEF PeerMessage
  <2>4. QED
    BY <1>10, <2>2, <2>3, QueueType DEF ReadLine, Forward, TypeOK
<1>11. ASSUME NEW d \in Daemons, NEW e \in Daemons,
              NEW c \in DOMAIN conns[d][e], Reset(d, e, c)
       PROVE  TypeOK'
  <2>1. PICK kept \in 0 .. Len(conns[d][e][c].wire) :
            conns' = [conns EXCEPT ![d][e][c] =
                [conns[d][e][c] EXCEPT !.up = FALSE,
                    !.wire = SubSeq(conns[d][e][c].wire, 1, kept)]]
    BY <1>11 DEF Reset
  <2> DEFINE k == [conns[d][e][c] EXCEPT !.up = FALSE,
                       !.wire = SubSeq(conns[d][e][c].wire, 1, kept)]
  <2>2. conns[d][e][c] \in Connections /\ conns[d][e][c].wire \in Seq(Nat)
    BY WireFacts
  <2>3. k \in Connections
    <3>1. SubSeq(conns[d][e][c].wire, 1, kept) \in Seq(Nat)
      BY <2>2, SubSeqFacts
    <3>2. QED
      BY <2>2, <3>1 DEF Connections
  <2>4. conns' \in [Daemons -> [Daemons -> Seq(Connections)]]
    <3>1. conns' = [conns EXCEPT ![d][e][c] = k]
      BY <2>1
    <3> HIDE DEF k
    <3>2. conns \in [Daemons -> [Daemons -> Seq(Connections)]]
      BY DEF TypeOK
    <3>3. QED
      BY <2>3, <3>1, <3>2, ConnType
  <2>5. /\ UNCHANGED <<handling, pending, sent, pool, accepting, queue>>
        /\ faults' \in 0 .. MaxFaults
    BY <1>11 DEF Reset, TypeOK
  <2>6. QED
    BY <2>4, <2>5 DEF TypeOK
<1>12. CASE UNCHANGED vars
  BY <1>12 DEF vars, TypeOK
<1>13. QED
  BY <1>1, <1>2, <1>3, <1>4, <1>5, <1>6, <1>7, <1>8, <1>9, <1>10, <1>11, <1>12
  DEF Next, Task

-----------------------------------------------------------------------------
(* What a step does to the connections of a pair of daemons.               *)

\* Nobody broadcasts to itself.
PeersOnly == \A d \in Daemons : pending[d] \subseteq Peers(d)

\* What a connection carries has been numbered before; on one that has been
\* given up it is older than the last message, which is the one lost.
Numbered ==
    \A d, e \in Daemons : \A c \in DOMAIN conns[d][e] :
        \A m \in Carried(d, e, c) :
            \/ m + 1 < NextNumber(d, e)
            \/ m < NextNumber(d, e) /\ pool[d][e] /\ c = Newest(d, e)

\* The same of one pair: the connections cs, whether the newest of them is in
\* use, and the next message n.
Held(cs, c) == {cs[c].wire[i] : i \in DOMAIN cs[c].wire}

Orderly(cs, live, n) ==
    /\ live => cs # <<>>
    /\ \A c \in DOMAIN cs : \A m \in Held(cs, c) :
          \/ m + 1 < n
          \/ m < n /\ live /\ c = Len(cs)
    /\ \A b, c \in DOMAIN cs :
          b < c => \A m \in Held(cs, b), k \in Held(cs, c) : m + 1 < k

PairInv(d, e) == Orderly(conns[d][e], pool[d][e], NextNumber(d, e))

IInv == TypeOK /\ PeersOnly /\ PooledConnection /\ Numbered /\ OvertakingNeedsLoss

Same(d, e) ==
    /\ conns'[d][e] = conns[d][e]
    /\ pool'[d][e] = pool[d][e]
    /\ NextNumber(d, e)' = NextNumber(d, e)

Opens(d, e) ==
    /\ ~pool[d][e] /\ pool'[d][e]
    /\ \E k \in Connections :
          k.wire = <<>> /\ conns'[d][e] = Append(conns[d][e], k)
    /\ NextNumber(d, e)' = NextNumber(d, e)

Writes(d, e) ==
    LET c == Newest(d, e) IN
    /\ pool[d][e] /\ pool'[d][e]
    /\ c \in DOMAIN conns[d][e]
    /\ conns'[d][e] = [conns[d][e] EXCEPT ![c] =
          [conns[d][e][c] EXCEPT
              !.wire = Append(conns[d][e][c].wire, NextNumber(d, e))]]
    /\ NextNumber(d, e)' = NextNumber(d, e) + 1

Loses(d, e) ==
    /\ ~pool'[d][e]
    /\ conns'[d][e] = conns[d][e]
    /\ NextNumber(d, e)' = NextNumber(d, e) + 1

Shrinks(d, e, c) ==
    /\ pool'[d][e] = pool[d][e]
    /\ NextNumber(d, e)' = NextNumber(d, e)
    /\ \E k \in Connections :
          /\ conns'[d][e] = [conns[d][e] EXCEPT ![c] = k]
          /\ \/ conns[d][e][c].wire # <<>> /\ k.wire = Tail(conns[d][e][c].wire)
             \/ \E kept \in 0 .. Len(conns[d][e][c].wire) :
                   k.wire = SubSeq(conns[d][e][c].wire, 1, kept)

StepOf(d, e) ==
    \/ Opens(d, e) \/ Writes(d, e) \/ Loses(d, e)
    \/ \E c \in DOMAIN conns[d][e] : Shrinks(d, e, c)

OthersSame(d, e) == \A x, y \in Daemons : x # d \/ y # e => Same(x, y)

LEMMA StepOfPairs ==
    ASSUME TransportAssumption, TypeOK, PeersOnly, PooledConnection, [Next]_vars
    PROVE  \/ \A d, e \in Daemons : Same(d, e)
           \/ \E d, e \in Daemons : StepOf(d, e) /\ OthersSame(d, e)
<1> DEFINE Quiet == \A d, e \in Daemons : Same(d, e)
           Steps == \E d, e \in Daemons : StepOf(d, e) /\ OthersSame(d, e)
<1> SUFFICES Quiet \/ Steps
  OBVIOUS
<1>1. ASSUME NEW d \in Daemons, Begin(d) PROVE Quiet
  <2>1. /\ pending[d] = {} /\ sent[d] \in Nat
        /\ \A x \in Daemons : sent'[x] = IF x = d THEN sent[x] + 1 ELSE sent[x]
        /\ \A x \in Daemons : pending'[x] = IF x = d THEN Daemons \ {d} ELSE pending[x]
    BY <1>1 DEF Begin, TypeOK, Peers
  <2>2. ASSUME NEW x \in Daemons, NEW y \in Daemons
        PROVE  NextNumber(x, y)' = NextNumber(x, y)
    BY <2>1 DEF NextNumber
  <2>3. QED
    BY <1>1, <2>2 DEF Begin, Same
<1>2. ASSUME UNCHANGED <<pending, sent, pool, conns>> PROVE Quiet
  BY <1>2 DEF Same, NextNumber
<1>3. ASSUME NEW d \in Daemons, Return(d) \/ Tick(d) \/ Recv(d) \/ AcceptFails(d)
      PROVE  Quiet
  BY <1>2, <1>3 DEF Return, Tick, Recv, AcceptFails
<1>4. ASSUME NEW d \in Daemons, NEW e \in Daemons, Done(d, e), e \in pending[d],
             UNCHANGED sent
      PROVE  /\ NextNumber(d, e) = sent[d]
             /\ NextNumber(d, e)' = NextNumber(d, e) + 1
             /\ \A x, y \in Daemons : x # d \/ y # e =>
                    NextNumber(x, y)' = NextNumber(x, y)
  BY <1>4 DEF Done, NextNumber, TypeOK, PeersOnly, Peers
<1>5. ASSUME NEW d \in Daemons, NEW e \in Daemons, Connect(d, e) PROVE Steps
  <2>1. [wire |-> <<>>, up |-> TRUE, reader |-> accepting[e]] \in Connections
    BY DEF Connections, TypeOK
  <2>2. Opens(d, e)
    BY <1>5, <2>1 DEF Connect, Opens, NextNumber, TypeOK
  <2>3. OthersSame(d, e)
    BY <1>5 DEF Connect, OthersSame, Same, NextNumber, TypeOK
  <2>4. QED
    BY <2>2, <2>3 DEF StepOf
<1>6. ASSUME NEW d \in Daemons, NEW e \in Daemons,
             ConnectFails(d, e) \/ WriteFails(d, e)
      PROVE  Steps
  <2>1. Done(d, e) /\ e \in pending[d] /\ UNCHANGED sent
    BY <1>6 DEF ConnectFails, WriteFails, GiveUp
  <2>2. /\ UNCHANGED conns
        /\ \/ pool' = pool /\ ~pool[d][e]
           \/ pool' = [pool EXCEPT ![d][e] = FALSE]
    <3>1. CASE ConnectFails(d, e)
      BY <3>1 DEF ConnectFails
    <3>2. CASE WriteFails(d, e)
      BY <3>2 DEF WriteFails, GiveUp
    <3>3. QED
      BY <1>6, <3>1, <3>2
  <2> DEFINE PoolLost ==
        /\ ~pool'[d][e]
        /\ \A x, y \in Daemons : x # d \/ y # e => pool'[x][y] = pool[x][y]
  <2>3. PoolLost
    <3>1. CASE pool' = pool /\ ~pool[d][e]
      BY <3>1
    <3>2. CASE pool' = [pool EXCEPT ![d][e] = FALSE]
      <4>1. pool \in [Daemons -> [Daemons -> BOOLEAN]]
        BY DEF TypeOK
      <4>2. ~pool'[d][e]
        BY <3>2, <4>1
      <4>3. ASSUME NEW x \in Daemons, NEW y \in Daemons, x # d \/ y # e
            PROVE  pool'[x][y] = pool[x][y]
        <5>1. CASE x # d
          BY <3>2, <4>1, <5>1
        <5>2. CASE x = d /\ y # e
          BY <3>2, <4>1, <5>2
        <5>3. QED
          BY <4>3, <5>1, <5>2
      <4>4. QED
        BY <4>2, <4>3
    <3>3. QED
      BY <2>2, <3>1, <3>2
  <2>4. Loses(d, e)
    BY <1>4, <2>1, <2>2, <2>3 DEF Loses
  <2>5. OthersSame(d, e)
    BY <1>4, <2>1, <2>2, <2>3 DEF OthersSame, Same
  <2>6. QED
    BY <2>4, <2>5 DEF StepOf
<1>7. ASSUME NEW d \in Daemons, NEW e \in Daemons, Write(d, e) PROVE Steps
  <2>1. Done(d, e) /\ e \in pending[d] /\ UNCHANGED sent /\ UNCHANGED pool /\ pool[d][e]
    BY <1>7 DEF Write, KeepStream
  <2>2. Newest(d, e) \in DOMAIN conns[d][e]
    BY <2>1, NewestExists
  <2>3. /\ conns'[d][e] = [conns[d][e] EXCEPT ![Newest(d, e)] =
              [conns[d][e][Newest(d, e)] EXCEPT
                  !.wire = Append(conns[d][e][Newest(d, e)].wire, sent[d])]]
        /\ \A x, y \in Daemons : x # d \/ y # e => conns'[x][y] = conns[x][y]
    BY <1>7, <2>2 DEF Write, TypeOK
  <2>4. NextNumber(d, e) = sent[d]
    BY <1>4, <2>1
  <2>5. Writes(d, e)
    BY <1>4, <2>1, <2>2, <2>3, <2>4 DEF Writes
  <2>6. OthersSame(d, e)
    BY <1>4, <2>1, <2>3 DEF OthersSame, Same
  <2>7. QED
    BY <2>5, <2>6 DEF StepOf
<1>8. ASSUME NEW d \in Daemons, NEW e \in Daemons,
             NEW c \in DOMAIN conns[d][e], NEW k \in Connections,
             UNCHANGED <<pending, sent, pool>>,
             conns' = [conns EXCEPT ![d][e][c] = k],
             \/ conns[d][e][c].wire # <<>> /\ k.wire = Tail(conns[d][e][c].wire)
             \/ \E kept \in 0 .. Len(conns[d][e][c].wire) :
                   k.wire = SubSeq(conns[d][e][c].wire, 1, kept)
      PROVE  Steps
  <2>1. /\ conns'[d][e] = [conns[d][e] EXCEPT ![c] = k]
        /\ \A x, y \in Daemons : x # d \/ y # e => conns'[x][y] = conns[x][y]
    BY <1>8 DEF TypeOK
  <2>2. \A x, y \in Daemons : NextNumber(x, y)' = NextNumber(x, y)
    BY <1>8 DEF NextNumber
  <2>3. Shrinks(d, e, c)
    BY <1>8, <2>1, <2>2 DEF Shrinks
  <2>4. OthersSame(d, e)
    BY <1>8, <2>1, <2>2 DEF OthersSame, Same
  <2>5. QED
    BY <2>3, <2>4 DEF StepOf
<1>9. ASSUME NEW d \in Daemons, NEW e \in Daemons,
             NEW c \in DOMAIN conns[d][e], ReadLine(d, e, c)
      PROVE  Steps
  <2> DEFINE k == [conns[d][e][c] EXCEPT !.wire = Tail(conns[d][e][c].wire)]
  <2>1. conns[d][e][c] \in Connections /\ conns[d][e][c].wire \in Seq(Nat)
    BY WireFacts
  <2>2. conns[d][e][c].wire # <<>> /\ UNCHANGED <<pending, sent, pool>>
    BY <1>9 DEF ReadLine
  <2>3. Tail(conns[d][e][c].wire) \in Seq(Nat)
    BY <2>1, <2>2
  <2>4. k \in Connections /\ k.wire = Tail(conns[d][e][c].wire)
    BY <2>1, <2>3 DEF Connections
  <2>5. conns' = [conns EXCEPT ![d][e][c] = k]
    BY <1>9 DEF ReadLine, Forward
  <2> HIDE DEF k
  <2>6. QED
    BY <1>8, <2>2, <2>4, <2>5
<1>10. ASSUME NEW d \in Daemons, NEW e \in Daemons,
              NEW c \in DOMAIN conns[d][e], Reset(d, e, c)
       PROVE  Steps
  <2>1. PICK kept \in 0 .. Len(conns[d][e][c].wire) :
            conns' = [conns EXCEPT ![d][e][c] =
                [conns[d][e][c] EXCEPT !.up = FALSE,
                    !.wire = SubSeq(conns[d][e][c].wire, 1, kept)]]
    BY <1>10 DEF Reset
  <2> DEFINE k == [conns[d][e][c] EXCEPT !.up = FALSE,
                       !.wire = SubSeq(conns[d][e][c].wire, 1, kept)]
  <2>2. conns[d][e][c] \in Connections /\ conns[d][e][c].wire \in Seq(Nat)
    BY WireFacts
  <2>3. SubSeq(conns[d][e][c].wire, 1, kept) \in Seq(Nat)
    BY <2>2, SubSeqFacts
  <2>4. k \in Connections /\ k.wire = SubSeq(conns[d][e][c].wire, 1, kept)
    BY <2>2, <2>3 DEF Connections
  <2>5. conns' = [conns EXCEPT ![d][e][c] = k] /\ UNCHANGED <<pending, sent, pool>>
    BY <1>10, <2>1 DEF Reset
  <2> HIDE DEF k
  <2>6. QED
    BY <1>8, <2>4, <2>5
<1>11. CASE UNCHANGED vars
  BY <1>2, <1>11 DEF vars
<1>12. QED
  BY <1>1, <1>3, <1>5, <1>6, <1>7, <1>9, <1>10, <1>11 DEF Next, Task

-----------------------------------------------------------------------------
(* The inductive invariant.                                                *)

LEMMA PairsTogether ==
    PooledConnection /\ Numbered /\ OvertakingNeedsLoss
        <=> \A d, e \in Daemons : PairInv(d, e)
  BY DEF PooledConnection, Numbered, OvertakingNeedsLoss, PairInv, Orderly,
         Carried, Held, Newest

LEMMA PairTypes ==
    ASSUME TypeOK, NEW d \in Daemons, NEW e \in Daemons
    PROVE  /\ conns[d][e] \in Seq(Connections)
           /\ Newest(d, e) = Len(conns[d][e])
           /\ NextNumber(d, e) \in Nat
<1>1. conns[d][e] \in Seq(Connections) /\ sent[d] \in Nat
  BY DEF TypeOK
<1>2. QED
  BY <1>1 DEF NextNumber, Newest

LEMMA HeldNumbers ==
    ASSUME NEW cs \in Seq(Connections), NEW c \in DOMAIN cs
    PROVE  cs[c].wire \in Seq(Nat) /\ Held(cs, c) \subseteq Nat
<1>1. cs[c].wire \in Seq(Nat)
  <2>1. cs[c] \in Connections
    OBVIOUS
  <2>2. QED
    BY <2>1 DEF Connections
<1>2. QED
  BY <1>1 DEF Held

LEMMA OpenKeeps ==
    ASSUME NEW cs \in Seq(Connections), NEW n \in Nat, NEW k \in Connections,
           k.wire = <<>>, Orderly(cs, FALSE, n)
    PROVE  Orderly(Append(cs, k), TRUE, n)
<1> DEFINE new == Append(cs, k)
<1>1. /\ DOMAIN new = 1 .. Len(cs) + 1
      /\ DOMAIN cs = 1 .. Len(cs)
      /\ Len(cs) \in Nat
      /\ new # <<>>
      /\ \A c \in DOMAIN cs : new[c] = cs[c]
      /\ new[Len(cs) + 1] = k
  OBVIOUS
<1> HIDE DEF new
<1>2. \A c \in DOMAIN cs : Held(new, c) = Held(cs, c)
  BY <1>1 DEF Held
<1>3. Held(new, Len(cs) + 1) = {}
  BY <1>1 DEF Held
<1>4. \A c \in DOMAIN new : \A m \in Held(new, c) :
          c \in DOMAIN cs /\ m \in Held(cs, c)
  BY <1>1, <1>2, <1>3
<1>5. Orderly(new, TRUE, n)
  BY <1>1, <1>4 DEF Orderly
<1>6. QED
  BY <1>5 DEF new

LEMMA WriteKeeps ==
    ASSUME NEW cs \in Seq(Connections), NEW n \in Nat, Orderly(cs, TRUE, n)
    PROVE  Orderly([cs EXCEPT ![Len(cs)] =
               [cs[Len(cs)] EXCEPT !.wire = Append(cs[Len(cs)].wire, n)]],
               TRUE, n + 1)
<1> DEFINE last == Len(cs)
           k == [cs[last] EXCEPT !.wire = Append(cs[last].wire, n)]
           new == [cs EXCEPT ![last] = k]
<1>1. /\ last \in DOMAIN cs
      /\ DOMAIN cs = 1 .. last
      /\ last \in Nat
  BY DEF Orderly
<1>2. cs[last] \in Connections /\ cs[last].wire \in Seq(Nat)
  <2> HIDE DEF last
  <2>1. cs[last] \in Connections
    BY <1>1
  <2>2. QED
    BY <1>1, <2>1, HeldNumbers
<1>3. k \in Connections /\ k.wire = Append(cs[last].wire, n)
  <2> HIDE DEF last
  <2>1. Append(cs[last].wire, n) \in Seq(Nat)
    BY <1>2
  <2>2. QED
    BY <1>2, <2>1 DEF Connections
<1>4. /\ DOMAIN new = DOMAIN cs
      /\ Len(new) = last
      /\ \A c \in DOMAIN cs : c # last => new[c] = cs[c]
      /\ new[last].wire = Append(cs[last].wire, n)
  <2> HIDE DEF k
  <2>1. QED
    BY <1>1, <1>3
<1> HIDE DEF last, k, new
<1>5. \A c \in DOMAIN cs : c # last => Held(new, c) = Held(cs, c)
  BY <1>4 DEF Held
<1>6. Held(new, last) = Held(cs, last) \cup {n}
  <2> DEFINE w == cs[last].wire
  <2>1. /\ DOMAIN w = 1 .. Len(w) /\ Len(w) \in Nat
        /\ DOMAIN Append(w, n) = 1 .. Len(w) + 1
        /\ \A i \in 1 .. Len(w) : Append(w, n)[i] = w[i]
        /\ Append(w, n)[Len(w) + 1] = n
    BY <1>2
  <2> HIDE DEF w
  <2>2. {Append(w, n)[i] : i \in DOMAIN Append(w, n)}
            = {w[i] : i \in DOMAIN w} \cup {n}
    BY <2>1
  <2>3. QED
    BY <1>4, <2>2 DEF Held, w
<1>7. \A c \in DOMAIN cs : \A m \in Held(cs, c) :
          m \in Nat /\ (m + 1 < n \/ (m < n /\ c = last))
  <2>1. \A c \in DOMAIN cs : Held(cs, c) \subseteq Nat
    BY HeldNumbers
  <2>2. ASSUME NEW c \in DOMAIN cs, NEW m \in Held(cs, c)
        PROVE  m + 1 < n \/ (m < n /\ c = last)
    BY DEF Orderly, last
  <2>3. QED
    BY <2>1, <2>2
<1>8. new # <<>>
  BY <1>1, <1>4
<1>9. ASSUME NEW c \in DOMAIN new, NEW m \in Held(new, c)
      PROVE  m + 1 < n + 1 \/ (m < n + 1 /\ c = Len(new))
  BY <1>4, <1>5, <1>6, <1>7
<1>10. ASSUME NEW b \in DOMAIN new, NEW c \in DOMAIN new, b < c,
              NEW m \in Held(new, b), NEW x \in Held(new, c)
       PROVE  m + 1 < x
  <2>1. b # last /\ m \in Held(cs, b)
    BY <1>1, <1>4, <1>5, <1>10
  <2>2. m + 1 < n
    BY <1>4, <1>7, <2>1
  <2>3. CASE x \in Held(cs, c)
    BY <1>4, <1>10, <2>1, <2>3 DEF Orderly
  <2>4. QED
    BY <1>4, <1>5, <1>6, <2>2, <2>3
<1>11. Orderly(new, TRUE, n + 1)
  BY <1>8, <1>9, <1>10 DEF Orderly
<1>12. QED
  BY <1>11 DEF new, k, last

LEMMA LoseKeeps ==
    ASSUME NEW cs \in Seq(Connections), NEW live, NEW n \in Nat,
           Orderly(cs, live, n)
    PROVE  Orderly(cs, FALSE, n + 1)
<1>1. \A c \in DOMAIN cs : Held(cs, c) \subseteq Nat
  BY HeldNumbers
<1>2. QED
  BY <1>1 DEF Orderly

LEMMA ShrinkKeeps ==
    ASSUME NEW cs \in Seq(Connections), NEW live, NEW n \in Nat,
           NEW x \in DOMAIN cs, NEW k \in Connections,
           \/ cs[x].wire # <<>> /\ k.wire = Tail(cs[x].wire)
           \/ \E kept \in 0 .. Len(cs[x].wire) :
                 k.wire = SubSeq(cs[x].wire, 1, kept),
           Orderly(cs, live, n)
    PROVE  Orderly([cs EXCEPT ![x] = k], live, n)
<1> DEFINE new == [cs EXCEPT ![x] = k]
<1>1. /\ DOMAIN new = DOMAIN cs
      /\ Len(new) = Len(cs)
      /\ \A c \in DOMAIN cs : c # x => new[c] = cs[c]
      /\ new[x] = k
  OBVIOUS
<1> HIDE DEF new
<1>2. \A c \in DOMAIN cs : c # x => Held(new, c) = Held(cs, c)
  BY <1>1 DEF Held
<1>3. cs[x].wire \in Seq(Nat)
  BY HeldNumbers
<1>4. Held(new, x) \subseteq Held(cs, x)
  <2>1. CASE cs[x].wire # <<>> /\ k.wire = Tail(cs[x].wire)
    <3>1. /\ DOMAIN k.wire = 1 .. Len(cs[x].wire) - 1
          /\ \A i \in 1 .. Len(cs[x].wire) - 1 :
                k.wire[i] = cs[x].wire[i + 1] /\ i + 1 \in DOMAIN cs[x].wire
      BY <1>3, <2>1
    <3>2. QED
      BY <1>1, <3>1 DEF Held
  <2>2. ASSUME NEW kept \in 0 .. Len(cs[x].wire),
               k.wire = SubSeq(cs[x].wire, 1, kept)
        PROVE  Held(new, x) \subseteq Held(cs, x)
    <3>1. /\ DOMAIN k.wire = 1 .. kept
          /\ \A i \in 1 .. kept :
                k.wire[i] = cs[x].wire[i] /\ i \in DOMAIN cs[x].wire
      BY <1>3, <2>2
    <3>2. QED
      BY <1>1, <3>1 DEF Held
  <2>3. QED
    BY <2>1, <2>2
<1>5. \A c \in DOMAIN cs : Held(new, c) \subseteq Held(cs, c)
  BY <1>2, <1>4
<1>6. new # <<>>
  BY <1>1
<1>7. Orderly(new, live, n)
  BY <1>1, <1>5, <1>6 DEF Orderly
<1>8. QED
  BY <1>7 DEF new

LEMMA PairStep ==
    ASSUME TypeOK, NEW d \in Daemons, NEW e \in Daemons,
           PairInv(d, e), StepOf(d, e)
    PROVE  PairInv(d, e)'
<1>1. /\ conns[d][e] \in Seq(Connections)
      /\ Newest(d, e) = Len(conns[d][e])
      /\ NextNumber(d, e) \in Nat
      /\ pool[d][e] \in BOOLEAN
  BY PairTypes DEF TypeOK
<1>2. SUFFICES Orderly(conns'[d][e], pool'[d][e], NextNumber(d, e)')
  BY DEF PairInv
<1>3. Orderly(conns[d][e], pool[d][e], NextNumber(d, e))
  BY DEF PairInv
<1>4. CASE Opens(d, e)
  <2>1. ~pool[d][e] /\ pool'[d][e] /\ NextNumber(d, e)' = NextNumber(d, e)
    BY <1>4 DEF Opens
  <2>2. PICK k \in Connections :
            k.wire = <<>> /\ conns'[d][e] = Append(conns[d][e], k)
    BY <1>4 DEF Opens
  <2>3. Orderly(conns[d][e], FALSE, NextNumber(d, e))
    BY <1>3, <2>1 DEF Orderly
  <2>4. Orderly(Append(conns[d][e], k), TRUE, NextNumber(d, e))
    BY <1>1, <2>2, <2>3, OpenKeeps
  <2>5. QED
    BY <2>1, <2>2, <2>4 DEF Orderly
<1>5. CASE Writes(d, e)
  <2>1. Orderly(conns[d][e], TRUE, NextNumber(d, e))
    BY <1>3, <1>5 DEF Writes, Orderly
  <2>2. Orderly([conns[d][e] EXCEPT ![Len(conns[d][e])] =
            [conns[d][e][Len(conns[d][e])] EXCEPT
                !.wire = Append(conns[d][e][Len(conns[d][e])].wire,
                                NextNumber(d, e))]],
            TRUE, NextNumber(d, e) + 1)
    BY <1>1, <2>1, WriteKeeps
  <2>3. Orderly(conns'[d][e], TRUE, NextNumber(d, e)')
    BY <1>1, <1>5, <2>2 DEF Writes
  <2>4. QED
    BY <1>5, <2>3 DEF Writes, Orderly
<1>6. CASE Loses(d, e)
  <2>1. Orderly(conns[d][e], FALSE, NextNumber(d, e) + 1)
    BY <1>1, <1>3, LoseKeeps
  <2>2. QED
    BY <1>6, <2>1 DEF Loses, Orderly
<1>7. ASSUME NEW x \in DOMAIN conns[d][e], Shrinks(d, e, x)
      PROVE  Orderly(conns'[d][e], pool'[d][e], NextNumber(d, e)')
  <2>1. PICK k \in Connections :
          /\ conns'[d][e] = [conns[d][e] EXCEPT ![x] = k]
          /\ \/ conns[d][e][x].wire # <<>> /\ k.wire = Tail(conns[d][e][x].wire)
             \/ \E kept \in 0 .. Len(conns[d][e][x].wire) :
                   k.wire = SubSeq(conns[d][e][x].wire, 1, kept)
    BY <1>7 DEF Shrinks
  <2>2. Orderly([conns[d][e] EXCEPT ![x] = k], pool[d][e], NextNumber(d, e))
    BY <1>1, <1>3, <2>1, ShrinkKeeps
  <2>3. QED
    BY <1>7, <2>1, <2>2 DEF Shrinks
<1>8. QED
  BY <1>4, <1>5, <1>6, <1>7 DEF StepOf

LEMMA PairSame ==
    ASSUME NEW d \in Daemons, NEW e \in Daemons, PairInv(d, e), Same(d, e)
    PROVE  PairInv(d, e)'
  BY DEF PairInv, Same

LEMMA PeersOnlyStep ==
    ASSUME TypeOK, PeersOnly, [Next]_vars
    PROVE  PeersOnly'
<1>1. ASSUME NEW d \in Daemons, Begin(d) PROVE PeersOnly'
  BY <1>1 DEF Begin, TypeOK, PeersOnly
<1>2. ASSUME NEW d \in Daemons, NEW e \in Daemons, Done(d, e) PROVE PeersOnly'
  BY <1>2 DEF Done, TypeOK, PeersOnly
<1>3. ASSUME NEW d \in Daemons, NEW e \in Daemons, Task(d, e) PROVE PeersOnly'
  BY <1>2, <1>3 DEF Task, Connect, ConnectFails, Write, WriteFails, GiveUp, PeersOnly
<1>4. CASE UNCHANGED pending
  BY <1>4 DEF PeersOnly
<1>5. QED
  BY <1>1, <1>3, <1>4 DEF Next, vars, Return, Tick, Recv, AcceptFails, ReadLine, Reset

LEMMA InvariantInit ==
    ASSUME TransportAssumption, Init
    PROVE  IInv
<1>1. TypeOK
  BY TypeInit
<1>2. PeersOnly
  BY DEF Init, PeersOnly
<1>3. ASSUME NEW d \in Daemons, NEW e \in Daemons PROVE PairInv(d, e)
  BY DEF Init, PairInv, Orderly, Held
<1>4. QED
  BY <1>1, <1>2, <1>3, PairsTogether DEF IInv

LEMMA InvariantStep ==
    ASSUME TransportAssumption, IInv, [Next]_vars
    PROVE  IInv'
<1>1. TypeOK'
  BY TypeStep DEF IInv
<1>2. PeersOnly'
  BY PeersOnlyStep DEF IInv
<1>3. \A d, e \in Daemons : PairInv(d, e)
  BY PairsTogether DEF IInv
<1>4. \A d, e \in Daemons : PairInv(d, e)'
  <2>1. CASE \A d, e \in Daemons : Same(d, e)
    BY <1>3, <2>1, PairSame
  <2>2. ASSUME NEW d \in Daemons, NEW e \in Daemons, StepOf(d, e), OthersSame(d, e)
        PROVE  \A x, y \in Daemons : PairInv(x, y)'
    <3>1. PairInv(d, e)'
      BY <1>1, <1>3, <2>2, PairStep DEF IInv
    <3>2. ASSUME NEW x \in Daemons, NEW y \in Daemons, x # d \/ y # e
          PROVE  PairInv(x, y)'
      BY <1>3, <2>2, <3>2, PairSame DEF OthersSame
    <3>3. QED
      BY <3>1, <3>2
  <2>3. QED
    BY <2>1, <2>2, StepOfPairs DEF IInv
<1>5. (PooledConnection /\ Numbered /\ OvertakingNeedsLoss)'
  <2>1. (\A d, e \in Daemons : PairInv(d, e))'
    BY <1>4
  <2>2. (PooledConnection /\ Numbered /\ OvertakingNeedsLoss
            <=> \A d, e \in Daemons : PairInv(d, e))'
    BY PairsTogether, PTL
  <2>3. QED
    BY <2>1, <2>2
<1>6. QED
  BY <1>1, <1>2, <1>5 DEF IInv

\* The state of the transport keeps its type: no queue grows past its capacity.
THEOREM TypeCorrect == Spec => []TypeOK
<1>1. Init => IInv
  BY InvariantInit, TransportAssumption
<1>2. IInv /\ [Next]_vars => IInv'
  BY InvariantStep, TransportAssumption
<1>3. IInv => TypeOK
  BY DEF IInv
<1>4. QED
  BY <1>1, <1>2, <1>3, PTL DEF Spec

\* Of two messages of one daemon to another, one that follows right behind the
\* other cannot overtake it: the connection changes only when a message is lost
\* (broadcast_protocol_message).
THEOREM OvertakingIsRare == Spec => []OvertakingNeedsLoss
<1>1. Init => IInv
  BY InvariantInit, TransportAssumption
<1>2. IInv /\ [Next]_vars => IInv'
  BY InvariantStep, TransportAssumption
<1>3. IInv => OvertakingNeedsLoss
  BY DEF IInv
<1>4. QED
  BY <1>1, <1>2, <1>3, PTL DEF Spec

-----------------------------------------------------------------------------
(* The transport implements a Channel.                                     *)

\* Two tables with an entry for each pair that differ in one pair only.
LEMMA OnePair ==
    ASSUME NEW S, NEW T, NEW f \in [S -> [S -> T]], NEW g \in [S -> [S -> T]],
           NEW d \in S, NEW e \in S,
           \A x, y \in S : x # d \/ y # e => g[x][y] = f[x][y]
    PROVE  g = [f EXCEPT ![d][e] = g[d][e]]
<1> DEFINE h == [f EXCEPT ![d][e] = g[d][e]]
<1>1. h \in [S -> [S -> T]]
  OBVIOUS
<1>2. ASSUME NEW x \in S PROVE h[x] = g[x]
  <2>1. ASSUME NEW y \in S PROVE h[x][y] = g[x][y]
    <3>1. CASE x = d /\ y = e
      BY <3>1
    <3>2. CASE x = d /\ y # e
      BY <3>2
    <3>3. CASE x # d
      BY <3>3
    <3>4. QED
      BY <3>1, <3>2, <3>3
  <2>2. h[x] \in [S -> T] /\ g[x] \in [S -> T]
    BY <1>1
  <2> HIDE DEF h
  <2>3. QED
    BY <2>1, <2>2
<1> HIDE DEF h
<1>3. h = g
  BY <1>1, <1>2
<1>4. QED
  BY <1>3 DEF h

LEMMA SamePairs ==
    ASSUME NEW S, NEW T, NEW f \in [S -> [S -> T]], NEW g \in [S -> [S -> T]],
           \A x, y \in S : g[x][y] = f[x][y]
    PROVE  g = f
<1>1. ASSUME NEW x \in S PROVE g[x] = f[x]
  <2>1. g[x] \in [S -> T] /\ f[x] \in [S -> T]
    OBVIOUS
  <2>2. QED
    BY <2>1
<1>2. QED
  BY <1>1

LEMMA SameSeq ==
    ASSUME NEW S, NEW s \in Seq(S), NEW t \in Seq(S), Len(s) = Len(t),
           \A i \in 1 .. Len(s) : s[i] = t[i]
    PROVE  s = t
  OBVIOUS

\* What the connections of a pair carry is a sequence of sequences of numbers.
LEMMA WiresFacts ==
    ASSUME NEW cs \in Seq(Connections)
    PROVE  /\ Wires(cs) \in Seq(Seq(Nat))
           /\ Len(Wires(cs)) = Len(cs)
           /\ DOMAIN Wires(cs) = DOMAIN cs
           /\ \A c \in DOMAIN cs : Wires(cs)[c] = cs[c].wire
<1>1. DOMAIN cs = 1 .. Len(cs) /\ Len(cs) \in Nat
  OBVIOUS
<1>2. \A c \in DOMAIN cs : cs[c].wire \in Seq(Nat)
  BY HeldNumbers
<1>3. QED
  BY <1>1, <1>2 DEF Wires

\* Adding a connection, or changing one, does that to what they carry.
LEMMA WiresAppend ==
    ASSUME NEW cs \in Seq(Connections), NEW k \in Connections
    PROVE  Wires(Append(cs, k)) = Append(Wires(cs), k.wire)
<1> DEFINE longer == Append(cs, k)
           old == Wires(cs)
           new == Wires(longer)
<1>1. /\ longer \in Seq(Connections)
      /\ Len(longer) = Len(cs) + 1
      /\ Len(cs) \in Nat
      /\ \A c \in 1 .. Len(cs) : longer[c] = cs[c]
      /\ longer[Len(cs) + 1] = k
      /\ DOMAIN longer = 1 .. Len(cs) + 1
      /\ DOMAIN cs = 1 .. Len(cs)
  OBVIOUS
<1>2. k.wire \in Seq(Nat)
  BY DEF Connections
<1> HIDE DEF longer
<1>3. /\ old \in Seq(Seq(Nat)) /\ Len(old) = Len(cs)
      /\ \A c \in 1 .. Len(cs) : old[c] = cs[c].wire
  BY <1>1, WiresFacts
<1>4. /\ new \in Seq(Seq(Nat)) /\ Len(new) = Len(cs) + 1
      /\ \A c \in 1 .. Len(cs) + 1 : new[c] = longer[c].wire
  BY <1>1, WiresFacts
<1> HIDE DEF old, new
<1>5. ASSUME NEW c \in 1 .. Len(cs) PROVE new[c] = old[c]
  <2>1. c \in 1 .. Len(cs) + 1
    BY <1>1
  <2>2. QED
    BY <1>1, <1>3, <1>4, <2>1
<1>6. new[Len(cs) + 1] = k.wire
  BY <1>1, <1>4
<1>7. new = Append(old, k.wire)
  BY <1>1, <1>2, <1>3, <1>4, <1>5, <1>6, SameSeq
<1>8. QED
  BY <1>7 DEF old, new, longer

LEMMA WiresExcept ==
    ASSUME NEW cs \in Seq(Connections), NEW c \in DOMAIN cs, NEW k \in Connections
    PROVE  Wires([cs EXCEPT ![c] = k]) = [Wires(cs) EXCEPT ![c] = k.wire]
<1> DEFINE changed == [cs EXCEPT ![c] = k]
           old == Wires(cs)
           new == Wires(changed)
<1>1. /\ changed \in Seq(Connections)
      /\ Len(changed) = Len(cs)
      /\ \A i \in 1 .. Len(cs) : changed[i] = IF i = c THEN k ELSE cs[i]
      /\ DOMAIN changed = 1 .. Len(cs)
      /\ DOMAIN cs = 1 .. Len(cs)
  OBVIOUS
<1>2. k.wire \in Seq(Nat)
  BY DEF Connections
<1> HIDE DEF changed
<1>3. /\ old \in Seq(Seq(Nat)) /\ Len(old) = Len(cs)
      /\ \A i \in 1 .. Len(cs) : old[i] = cs[i].wire
  BY <1>1, WiresFacts
<1>4. /\ new \in Seq(Seq(Nat)) /\ Len(new) = Len(cs)
      /\ \A i \in 1 .. Len(cs) : new[i] = changed[i].wire
  BY <1>1, WiresFacts
<1> HIDE DEF old, new
<1>5. \A i \in 1 .. Len(cs) : new[i] = [old EXCEPT ![c] = k.wire][i]
  BY <1>1, <1>3, <1>4
<1>6. /\ [old EXCEPT ![c] = k.wire] \in Seq(Seq(Nat))
      /\ Len([old EXCEPT ![c] = k.wire]) = Len(cs)
  BY <1>1, <1>2, <1>3
<1>7. new = [old EXCEPT ![c] = k.wire]
  BY <1>4, <1>5, <1>6, SameSeq
<1>8. QED
  BY <1>7 DEF old, new, changed

\* The three tables that a Channel has, read off the state.
CarriedMap == [d \in Daemons |-> [e \in Daemons |-> Wires(conns[d][e])]]
BrokenMap == [d \in Daemons |-> [e \in Daemons |-> ~pool[d][e]]]
NextMap == [d \in Daemons |-> [e \in Daemons |-> NextNumber(d, e)]]

LEMMA MapTypes ==
    TypeOK => /\ CarriedMap \in [Daemons -> [Daemons -> Seq(Seq(Nat))]]
              /\ BrokenMap \in [Daemons -> [Daemons -> BOOLEAN]]
              /\ NextMap \in [Daemons -> [Daemons -> Nat]]
<1> SUFFICES ASSUME TypeOK
             PROVE  /\ CarriedMap \in [Daemons -> [Daemons -> Seq(Seq(Nat))]]
                    /\ BrokenMap \in [Daemons -> [Daemons -> BOOLEAN]]
                    /\ NextMap \in [Daemons -> [Daemons -> Nat]]
  OBVIOUS
<1>1. \A d, e \in Daemons : Wires(conns[d][e]) \in Seq(Seq(Nat))
  BY PairTypes, WiresFacts
<1>2. \A d, e \in Daemons : NextNumber(d, e) \in Nat
  BY PairTypes
<1>3. QED
  BY <1>1, <1>2 DEF CarriedMap, BrokenMap, NextMap

LEMMA StutterRefines ==
    ASSUME \A d, e \in Daemons : Same(d, e)
    PROVE  UNCHANGED Link!vars
<1>1. CarriedMap' = CarriedMap
  BY DEF CarriedMap, Same
<1>2. BrokenMap' = BrokenMap
  BY DEF BrokenMap, Same
<1>3. NextMap' = NextMap
  BY DEF NextMap, Same
<1>4. QED
  BY <1>1, <1>2, <1>3 DEF Link!vars, CarriedMap, BrokenMap, NextMap

\* What the step of a pair makes of the tables, entry by entry.
LEMMA PairMaps ==
    ASSUME TypeOK, TypeOK', NEW d \in Daemons, NEW e \in Daemons, OthersSame(d, e)
    PROVE  /\ CarriedMap' = [CarriedMap EXCEPT ![d][e] = Wires(conns'[d][e])]
           /\ BrokenMap' = [BrokenMap EXCEPT ![d][e] = ~pool'[d][e]]
           /\ NextMap' = [NextMap EXCEPT ![d][e] = NextNumber(d, e)']
<1>1. /\ CarriedMap \in [Daemons -> [Daemons -> Seq(Seq(Nat))]]
      /\ BrokenMap \in [Daemons -> [Daemons -> BOOLEAN]]
      /\ NextMap \in [Daemons -> [Daemons -> Nat]]
  BY MapTypes
<1>2. (TypeOK => /\ CarriedMap \in [Daemons -> [Daemons -> Seq(Seq(Nat))]]
                 /\ BrokenMap \in [Daemons -> [Daemons -> BOOLEAN]]
                 /\ NextMap \in [Daemons -> [Daemons -> Nat]])'
  BY MapTypes, PTL
<1>3. /\ CarriedMap' \in [Daemons -> [Daemons -> Seq(Seq(Nat))]]
      /\ BrokenMap' \in [Daemons -> [Daemons -> BOOLEAN]]
      /\ NextMap' \in [Daemons -> [Daemons -> Nat]]
  BY <1>2
<1>4. \A x, y \in Daemons : x # d \/ y # e =>
          /\ CarriedMap'[x][y] = CarriedMap[x][y]
          /\ BrokenMap'[x][y] = BrokenMap[x][y]
          /\ NextMap'[x][y] = NextMap[x][y]
  BY DEF OthersSame, Same, CarriedMap, BrokenMap, NextMap
<1>5. /\ CarriedMap'[d][e] = Wires(conns'[d][e])
      /\ BrokenMap'[d][e] = ~pool'[d][e]
      /\ NextMap'[d][e] = NextNumber(d, e)'
  BY DEF CarriedMap, BrokenMap, NextMap
<1>6. CarriedMap' = [CarriedMap EXCEPT ![d][e] = CarriedMap'[d][e]]
  <2>1. /\ CarriedMap \in [Daemons -> [Daemons -> Seq(Seq(Nat))]]
        /\ CarriedMap' \in [Daemons -> [Daemons -> Seq(Seq(Nat))]]
        /\ \A x, y \in Daemons : x # d \/ y # e => CarriedMap'[x][y] = CarriedMap[x][y]
    BY <1>1, <1>3, <1>4
  <2>2. QED
    BY <2>1, OnePair
<1>7. BrokenMap' = [BrokenMap EXCEPT ![d][e] = BrokenMap'[d][e]]
  <2>1. /\ BrokenMap \in [Daemons -> [Daemons -> BOOLEAN]]
        /\ BrokenMap' \in [Daemons -> [Daemons -> BOOLEAN]]
        /\ \A x, y \in Daemons : x # d \/ y # e => BrokenMap'[x][y] = BrokenMap[x][y]
    BY <1>1, <1>3, <1>4
  <2>2. QED
    BY <2>1, OnePair
<1>8. NextMap' = [NextMap EXCEPT ![d][e] = NextMap'[d][e]]
  <2>1. /\ NextMap \in [Daemons -> [Daemons -> Nat]]
        /\ NextMap' \in [Daemons -> [Daemons -> Nat]]
        /\ \A x, y \in Daemons : x # d \/ y # e => NextMap'[x][y] = NextMap[x][y]
    BY <1>1, <1>3, <1>4
  <2>2. QED
    BY <2>1, OnePair
<1>9. QED
  BY <1>5, <1>6, <1>7, <1>8

LEMMA PairRefines ==
    ASSUME TypeOK, TypeOK', NEW d \in Daemons, NEW e \in Daemons,
           StepOf(d, e), OthersSame(d, e)
    PROVE  Link!Next
<1> DEFINE cs == conns[d][e]
<1>0. /\ cs \in Seq(Connections)
      /\ Newest(d, e) = Len(cs)
      /\ CarriedMap[d][e] = Wires(cs)
      /\ BrokenMap[d][e] = ~pool[d][e]
      /\ NextMap[d][e] = NextNumber(d, e)
      /\ Len(Wires(cs)) = Len(cs)
      /\ DOMAIN Wires(cs) = DOMAIN cs
      /\ \A c \in DOMAIN cs : Wires(cs)[c] = cs[c].wire
  BY PairTypes, WiresFacts DEF CarriedMap, BrokenMap, NextMap
<1>1. /\ CarriedMap' = [CarriedMap EXCEPT ![d][e] = Wires(conns'[d][e])]
      /\ BrokenMap' = [BrokenMap EXCEPT ![d][e] = ~pool'[d][e]]
      /\ NextMap' = [NextMap EXCEPT ![d][e] = NextNumber(d, e)']
  BY PairMaps
<1>2. /\ NextNumber(d, e)' = NextNumber(d, e) => NextMap' = NextMap
      /\ pool'[d][e] = pool[d][e] => BrokenMap' = BrokenMap
      /\ conns'[d][e] = conns[d][e] => CarriedMap' = CarriedMap
  <2>1. /\ CarriedMap \in [Daemons -> [Daemons -> Seq(Seq(Nat))]]
        /\ BrokenMap \in [Daemons -> [Daemons -> BOOLEAN]]
        /\ NextMap \in [Daemons -> [Daemons -> Nat]]
    BY MapTypes
  <2>2. ASSUME NextNumber(d, e)' = NextNumber(d, e) PROVE NextMap' = NextMap
    BY <1>0, <1>1, <2>1, <2>2
  <2>3. ASSUME pool'[d][e] = pool[d][e] PROVE BrokenMap' = BrokenMap
    BY <1>0, <1>1, <2>1, <2>3
  <2>4. ASSUME conns'[d][e] = conns[d][e] PROVE CarriedMap' = CarriedMap
    BY <1>0, <1>1, <2>1, <2>4
  <2>5. QED
    BY <2>2, <2>3, <2>4
<1> HIDE DEF cs
<1>3. ASSUME NEW c \in DOMAIN cs, NEW k \in Connections
      PROVE  Wires([cs EXCEPT ![c] = k]) = [Wires(cs) EXCEPT ![c] = k.wire]
  <2>1. cs \in Seq(Connections)
    BY <1>0
  <2>2. QED
    BY ONLY <2>1, <1>3, WiresExcept
<1>4. CASE Opens(d, e)
  <2>1. PICK k \in Connections : k.wire = <<>> /\ conns'[d][e] = Append(cs, k)
    BY <1>4 DEF Opens, cs
  <2>2. CarriedMap' = [CarriedMap EXCEPT ![d][e] = Append(CarriedMap[d][e], <<>>)]
    BY <1>0, <1>1, <2>1, WiresAppend
  <2>3. /\ BrokenMap[d][e]
        /\ BrokenMap' = [BrokenMap EXCEPT ![d][e] = FALSE]
    BY <1>0, <1>1, <1>4 DEF Opens
  <2>4. NextMap' = NextMap
    BY <1>2, <1>4 DEF Opens
  <2>5. Link!Open(d, e)
    BY <2>2, <2>3, <2>4 DEF Link!Open, CarriedMap, BrokenMap, NextMap
  <2>6. QED
    BY <2>5 DEF Link!Next
<1>5. CASE Writes(d, e)
  <2> DEFINE last == Len(cs)
             k == [cs[last] EXCEPT !.wire = Append(cs[last].wire, NextNumber(d, e))]
  <2>1. /\ last \in DOMAIN cs
        /\ conns'[d][e] = [cs EXCEPT ![last] = k]
    BY <1>0, <1>5 DEF Writes, cs
  <2>2. k \in Connections /\ k.wire = Append(cs[last].wire, NextNumber(d, e))
    <3> HIDE DEF last
    <3>1. cs[last] \in Connections /\ cs[last].wire \in Seq(Nat)
      BY <1>0, <2>1, HeldNumbers
    <3>2. Append(cs[last].wire, NextNumber(d, e)) \in Seq(Nat)
      BY <3>1, PairTypes
    <3>3. QED
      BY <3>1, <3>2 DEF Connections
  <2> HIDE DEF k
  <2>3. Wires(conns'[d][e]) = [Wires(cs) EXCEPT ![last] =
            Append(Wires(cs)[last], NextNumber(d, e))]
    <3> HIDE DEF last
    <3>1. Wires([cs EXCEPT ![last] = k]) = [Wires(cs) EXCEPT ![last] = k.wire]
      BY <1>3, <2>1, <2>2
    <3>2. k.wire = Append(Wires(cs)[last], NextNumber(d, e))
      BY <1>0, <2>1, <2>2
    <3>3. QED
      BY <2>1, <3>1, <3>2
  <2>4. CarriedMap' = [CarriedMap EXCEPT ![d][e] = [CarriedMap[d][e] EXCEPT
            ![Len(CarriedMap[d][e])] =
                Append(CarriedMap[d][e][Len(CarriedMap[d][e])], NextMap[d][e])]]
    BY <1>0, <1>1, <2>3
  <2>5. ~BrokenMap[d][e] /\ BrokenMap' = BrokenMap
    BY <1>0, <1>2, <1>5 DEF Writes
  <2>6. NextMap' = [NextMap EXCEPT ![d][e] = NextMap[d][e] + 1]
    BY <1>0, <1>1, <1>5 DEF Writes
  <2>7. Link!Write(d, e)
    BY <2>4, <2>5, <2>6 DEF Link!Write, CarriedMap, BrokenMap, NextMap
  <2>8. QED
    BY <2>7 DEF Link!Next
<1>6. CASE Loses(d, e)
  <2>1. CarriedMap' = CarriedMap
    BY <1>2, <1>6 DEF Loses
  <2>2. BrokenMap' = [BrokenMap EXCEPT ![d][e] = TRUE]
    BY <1>1, <1>6 DEF Loses
  <2>3. NextMap' = [NextMap EXCEPT ![d][e] = NextMap[d][e] + 1]
    BY <1>0, <1>1, <1>6 DEF Loses
  <2>4. Link!Lose(d, e)
    BY <2>1, <2>2, <2>3 DEF Link!Lose, CarriedMap, BrokenMap, NextMap
  <2>5. QED
    BY <2>4 DEF Link!Next
<1>7. ASSUME NEW c \in DOMAIN cs, Shrinks(d, e, c)
      PROVE  Link!Next
  <2>1. PICK k \in Connections :
          /\ conns'[d][e] = [cs EXCEPT ![c] = k]
          /\ \/ cs[c].wire # <<>> /\ k.wire = Tail(cs[c].wire)
             \/ \E kept \in 0 .. Len(cs[c].wire) :
                   k.wire = SubSeq(cs[c].wire, 1, kept)
    BY <1>7 DEF Shrinks, cs
  <2>2. /\ CarriedMap' = [CarriedMap EXCEPT ![d][e] =
               [CarriedMap[d][e] EXCEPT ![c] = k.wire]]
        /\ CarriedMap[d][e][c] = cs[c].wire
        /\ c \in DOMAIN CarriedMap[d][e]
    <3>1. Wires([cs EXCEPT ![c] = k]) = [Wires(cs) EXCEPT ![c] = k.wire]
      BY <1>3
    <3>2. Wires(conns'[d][e]) = [CarriedMap[d][e] EXCEPT ![c] = k.wire]
      BY <1>0, <2>1, <3>1
    <3>3. QED
      BY <1>0, <1>1, <3>2
  <2>3. BrokenMap' = BrokenMap /\ NextMap' = NextMap
    BY <1>2, <1>7 DEF Shrinks
  <2>4. CASE cs[c].wire # <<>> /\ k.wire = Tail(cs[c].wire)
    <3>1. CarriedMap' = [CarriedMap EXCEPT ![d][e] =
              [CarriedMap[d][e] EXCEPT ![c] = Tail(CarriedMap[d][e][c])]]
      BY <2>2, <2>4
    <3>2. CarriedMap[d][e][c] # <<>>
      BY <2>2, <2>4
    <3>3. Link!Arrive(d, e, c)
      BY <2>3, <3>1, <3>2 DEF Link!Arrive, CarriedMap, BrokenMap, NextMap
    <3>4. QED
      BY <2>2, <3>3 DEF Link!Next, CarriedMap
  <2>5. ASSUME NEW kept \in 0 .. Len(cs[c].wire),
               k.wire = SubSeq(cs[c].wire, 1, kept)
        PROVE  Link!Next
    <3>1. CarriedMap' = [CarriedMap EXCEPT ![d][e] =
              [CarriedMap[d][e] EXCEPT ![c] = SubSeq(CarriedMap[d][e][c], 1, kept)]]
      BY <2>2, <2>5
    <3>2. kept \in 0 .. Len(CarriedMap[d][e][c])
      BY <2>2
    <3>3. Link!Break(d, e, c)
      BY <2>3, <3>1, <3>2 DEF Link!Break, CarriedMap, BrokenMap, NextMap
    <3>4. QED
      BY <2>2, <3>3 DEF Link!Next, CarriedMap
  <2>6. QED
    BY <2>1, <2>4, <2>5
<1>8. QED
  BY <1>4, <1>5, <1>6, <1>7 DEF StepOf, cs

LEMMA InitRefines == Init => Link!Init
<1>1. Wires(<<>>) = <<>>
  <2>1. <<>> \in Seq(Connections) /\ Len(<<>>) = 0
    OBVIOUS
  <2>2. Wires(<<>>) \in Seq(Seq(Nat)) /\ Len(Wires(<<>>)) = 0
    BY <2>1, WiresFacts
  <2>3. QED
    BY <2>2
<1>2. QED
  <2> SUFFICES ASSUME Init PROVE Link!Init
    OBVIOUS
  <2>1. \A d, e \in Daemons :
            Wires(conns[d][e]) = <<>> /\ ~pool[d][e] /\ NextNumber(d, e) = 1
    BY <1>1 DEF Init, NextNumber
  <2>2. QED
    BY <2>1 DEF Link!Init

\* Whatever connections break and whatever queues are full, what two daemons
\* see of each other is a Channel: nothing is sent twice or reordered on a
\* connection, and another one is opened only after a loss (the pool of
\* networking.rs, the reader tasks of daemon.rs).
THEOREM ImplementsChannel == Spec => TransportIsChannel
<1>1. Init => IInv
  BY InvariantInit, TransportAssumption
<1>2. IInv /\ [Next]_vars => IInv'
  BY InvariantStep, TransportAssumption
<1>3. Init => Link!Init
  BY InitRefines
<1>4. IInv /\ IInv' /\ [Next]_vars => [Link!Next]_(Link!vars)
  <2> SUFFICES ASSUME IInv, IInv', [Next]_vars
               PROVE  Link!Next \/ UNCHANGED Link!vars
    OBVIOUS
  <2>1. TypeOK /\ TypeOK'
    BY DEF IInv
  <2>2. CASE \A d, e \in Daemons : Same(d, e)
    BY <2>2, StutterRefines
  <2>3. CASE \E d, e \in Daemons : StepOf(d, e) /\ OthersSame(d, e)
    BY <2>1, <2>3, PairRefines
  <2>4. QED
    BY <2>2, <2>3, StepOfPairs, TransportAssumption DEF IInv
<1>5. QED
  BY <1>1, <1>2, <1>3, <1>4, PTL DEF Spec, TransportIsChannel, Link!Spec

=============================================================================
