------------------------------ MODULE Transport ------------------------------
(***************************************************************************)
(* The event loop of a daemon and its connections: a pool of outgoing      *)
(* connections, a reader task for each incoming one, and one bounded queue *)
(* of events between the readers, the pollers and the loop                 *)
(* (swap-daemon/src/networking.rs, daemon.rs run and run_shared).          *)
(*                                                                         *)
(* The loop takes no event while a handler broadcasts, and broadcast waits *)
(* for its task to each peer; readers and the accept loop are tasks of     *)
(* their own.  A message is its number among those of its sender.          *)
(***************************************************************************)
EXTENDS Naturals, FiniteSets, Sequences

CONSTANTS
    Daemons,
    Budget,         \* Budget[d]: how many messages d broadcasts
    QueueCapacity,  \* mpsc::channel(4096)
    WireCapacity,   \* how many messages the sockets of a connection buffer
    MaxFaults       \* how many resets, failed connects and accept errors occur

ASSUME TransportAssumption ==
    /\ IsFiniteSet(Daemons)
    /\ Budget \in [Daemons -> Nat]
    /\ QueueCapacity \in Nat \ {0}
    /\ WireCapacity \in Nat \ {0}
    /\ MaxFaults \in Nat

\* At most one daemon broadcasts more than the sockets hold: two of them,
\* their queues full of polls, would wait for each other for ever.
ASSUME RoomForMessages ==
    Cardinality({d \in Daemons : Budget[d] > WireCapacity}) <= 1

VARIABLES
    handling,   \* handle_event, or start_swap_session, is running
    pending,    \* pending[d]: the peers whose broadcast task has not ended
    sent,       \* how many messages each daemon has begun to broadcast
    pool,       \* pool[d][e]: session.connection_pool of d holds one for e
    conns,      \* conns[d][e]: the connections d opened to e, oldest first
    accepting,  \* the accept loop is running
    queue,      \* the event channel
    faults      \* how many faults have occurred

vars == <<handling, pending, sent, pool, conns, accepting, queue, faults>>

Peers(d) == Daemons \ {d}
PeerMessage(d, n) == [from |-> d, n |-> n]
ChainPoll(d) == [from |-> d, n |-> 0]

Fault == faults < MaxFaults /\ faults' = faults + 1

-----------------------------------------------------------------------------
(* Broadcasting: one task per peer, all of them joined.                    *)

\* start_swap_session, and a handler that has something to say: it may
\* broadcast several messages, one after the other.
Begin(d) ==
    /\ pending[d] = {}
    /\ sent[d] < Budget[d]
    /\ handling' = [handling EXCEPT ![d] = TRUE]
    /\ sent' = [sent EXCEPT ![d] = @ + 1]
    /\ pending' = [pending EXCEPT ![d] = Peers(d)]
    /\ UNCHANGED <<pool, conns, accepting, queue, faults>>

Done(d, e) == pending' = [pending EXCEPT ![d] = @ \ {e}]

\* No stream in the pool: TcpStream::connect, and the stream is pooled.  The
\* peer reads from it only when its accept loop takes it up.
Connect(d, e) ==
    /\ e \in pending[d]
    /\ ~pool[d][e]
    /\ pool' = [pool EXCEPT ![d][e] = TRUE]
    /\ conns' = [conns EXCEPT ![d][e] =
            Append(@, [wire |-> <<>>, up |-> TRUE, reader |-> accepting[e]])]
    /\ UNCHANGED <<handling, pending, sent, accepting, queue, faults>>

\* The connect fails: the error is logged and the task ends.
ConnectFails(d, e) ==
    /\ e \in pending[d]
    /\ ~pool[d][e]
    /\ Fault
    /\ Done(d, e)
    /\ UNCHANGED <<handling, sent, pool, conns, accepting, queue>>

Newest(d, e) == Len(conns[d][e])

\* Variant: a connection for each message.
StreamForEachMessage(d, e) == pool' = [pool EXCEPT ![d][e] = FALSE]

\* A stream that has been written to stays in the pool.
KeepStream(d, e) == UNCHANGED pool

\* write_all waits until the sockets have room.
Write(d, e) ==
    LET c == Newest(d, e) IN
    /\ e \in pending[d]
    /\ pool[d][e]
    /\ conns[d][e][c].up
    /\ Len(conns[d][e][c].wire) < WireCapacity
    /\ conns' = [conns EXCEPT ![d][e][c].wire = Append(@, sent[d])]
    /\ KeepStream(d, e)
    /\ Done(d, e)
    /\ UNCHANGED <<handling, sent, accepting, queue, faults>>

\* Variants: the task reconnects and writes the message again; it tries for
\* ever to write it to the broken stream.
WriteAgain(d, e) ==
    /\ pool' = [pool EXCEPT ![d][e] = FALSE]
    /\ UNCHANGED pending
WriteForEver(d, e) == UNCHANGED <<pool, pending>>

\* The message is lost, and the stream leaves the pool: the next broadcast
\* opens another connection.
GiveUp(d, e) ==
    /\ pool' = [pool EXCEPT ![d][e] = FALSE]
    /\ Done(d, e)

WriteFails(d, e) ==
    /\ e \in pending[d]
    /\ pool[d][e]
    /\ ~conns[d][e][Newest(d, e)].up
    /\ GiveUp(d, e)
    /\ UNCHANGED <<handling, sent, conns, accepting, queue, faults>>

\* The handler returns once its tasks have ended.
Return(d) ==
    /\ handling[d]
    /\ pending[d] = {}
    /\ handling' = [handling EXCEPT ![d] = FALSE]
    /\ UNCHANGED <<pending, sent, pool, conns, accepting, queue, faults>>

-----------------------------------------------------------------------------
(* Receiving.                                                              *)

\* Variant: an unbounded channel.
AlwaysRoom(d) == TRUE

HasRoom(d) == Len(queue[d]) < QueueCapacity

Enqueue(d, event) == queue' = [queue EXCEPT ![d] = Append(@, event)]

\* Variant: a reader that finds the queue full ends (try_send for send).
ReaderGivesUp(d, e, c) ==
    IF HasRoom(e)
    THEN /\ Enqueue(e, PeerMessage(d, Head(conns[d][e][c].wire)))
         /\ conns' = [conns EXCEPT ![d][e][c].wire = Tail(@)]
    ELSE /\ conns' = [conns EXCEPT ![d][e][c].reader = FALSE]
         /\ UNCHANGED queue

\* handle_connection waits for room in the queue, and reads no further.
Forward(d, e, c) ==
    /\ HasRoom(e)
    /\ Enqueue(e, PeerMessage(d, Head(conns[d][e][c].wire)))
    /\ conns' = [conns EXCEPT ![d][e][c].wire = Tail(@)]

\* handle_connection takes a line, also of a connection that has been reset
\* since.
ReadLine(d, e, c) ==
    /\ conns[d][e][c].reader
    /\ conns[d][e][c].wire # <<>>
    /\ Forward(d, e, c)
    /\ UNCHANGED <<handling, pending, sent, pool, accepting, faults>>

\* A poller ticks, whether the loop keeps up or not.
Tick(d) ==
    /\ HasRoom(d)
    /\ Enqueue(d, ChainPoll(d))
    /\ UNCHANGED <<handling, pending, sent, pool, conns, accepting, faults>>

\* event_rx.recv: the loop takes the next event.
Recv(d) ==
    /\ ~handling[d]
    /\ queue[d] # <<>>
    /\ queue' = [queue EXCEPT ![d] = Tail(@)]
    /\ handling' = [handling EXCEPT ![d] = TRUE]
    /\ UNCHANGED <<pending, sent, pool, conns, accepting, faults>>

-----------------------------------------------------------------------------
(* Faults.                                                                 *)

\* A connection breaks, and with it goes what its peer has not got.
Reset(d, e, c) ==
    LET wire == conns[d][e][c].wire IN
    /\ Fault
    /\ conns[d][e][c].up
    /\ \E kept \in 0 .. Len(wire) :
          conns' = [conns EXCEPT ![d][e][c] =
                       [@ EXCEPT !.up = FALSE, !.wire = SubSeq(wire, 1, kept)]]
    /\ UNCHANGED <<handling, pending, sent, pool, accepting, queue>>

\* listener.accept fails once: the accept loop ends for good, while the
\* system goes on completing connections that nobody reads from.
AcceptFails(d) ==
    /\ Fault
    /\ accepting[d]
    /\ accepting' = [accepting EXCEPT ![d] = FALSE]
    /\ UNCHANGED <<handling, pending, sent, pool, conns, queue>>

-----------------------------------------------------------------------------
Init ==
    /\ handling = [d \in Daemons |-> FALSE]
    /\ pending = [d \in Daemons |-> {}]
    /\ sent = [d \in Daemons |-> 0]
    /\ pool = [d \in Daemons |-> [e \in Daemons |-> FALSE]]
    /\ conns = [d \in Daemons |-> [e \in Daemons |-> <<>>]]
    /\ accepting = [d \in Daemons |-> TRUE]
    /\ queue = [d \in Daemons |-> <<>>]
    /\ faults = 0

Task(d, e) == Connect(d, e) \/ ConnectFails(d, e) \/ Write(d, e) \/ WriteFails(d, e)

Next ==
    \/ \E d \in Daemons :
          Begin(d) \/ Return(d) \/ Tick(d) \/ Recv(d) \/ AcceptFails(d)
    \/ \E d, e \in Daemons :
          \/ Task(d, e)
          \/ \E c \in DOMAIN conns[d][e] : ReadLine(d, e, c) \/ Reset(d, e, c)

Spec == Init /\ [][Next]_vars

\* The runtime runs every task, the loop takes the next event, and a reader
\* that waits for room gets it: the channel serves those that wait in order.
Fairness ==
    /\ \A d \in Daemons : WF_vars(Return(d)) /\ WF_vars(Recv(d))
    /\ \A d, e \in Daemons :
          /\ WF_vars(Task(d, e))
          /\ \A c \in 1 .. Budget[d] :
                SF_vars(c \in DOMAIN conns[d][e] /\ ReadLine(d, e, c))

FairSpec == Spec /\ Fairness

-----------------------------------------------------------------------------
(* Properties.                                                             *)

Connections ==
    [wire : Seq(Nat), up : BOOLEAN, reader : BOOLEAN]

TypeOK ==
    /\ handling \in [Daemons -> BOOLEAN]
    /\ pending \in [Daemons -> SUBSET Daemons]
    /\ sent \in [Daemons -> Nat]
    /\ pool \in [Daemons -> [Daemons -> BOOLEAN]]
    /\ conns \in [Daemons -> [Daemons -> Seq(Connections)]]
    /\ accepting \in [Daemons -> BOOLEAN]
    /\ queue \in [Daemons -> Seq([from : Daemons, n : Nat])]
    /\ \A d \in Daemons : Len(queue[d]) <= QueueCapacity
    /\ faults \in 0 .. MaxFaults

Carried(d, e, c) ==
    {conns[d][e][c].wire[i] : i \in DOMAIN conns[d][e][c].wire}

\* The number of the next message of d that e can still get.
NextNumber(d, e) ==
    IF d = e THEN 1 ELSE IF e \in pending[d] THEN sent[d] ELSE sent[d] + 1

\* A message that can overtake another one of its sender never follows right
\* behind it: one between the two has been lost on a failed connect or write
\* (networking.rs:170-178).  Commitment and nonce, or lock and reveal, sent
\* one after the other arrive in that order.
OvertakingNeedsLoss ==
    \A d, e \in Daemons : \A b, c \in DOMAIN conns[d][e] :
        b < c => \A m \in Carried(d, e, b), n \in Carried(d, e, c) : m + 1 < n

\* What each connection of a pair carries.
Wires(connections) == [c \in DOMAIN connections |-> connections[c].wire]

Link == INSTANCE Channel WITH
    carried <- [d \in Daemons |-> [e \in Daemons |-> Wires(conns[d][e])]],
    broken <- [d \in Daemons |-> [e \in Daemons |-> ~pool[d][e]]],
    next <- [d \in Daemons |-> [e \in Daemons |-> NextNumber(d, e)]]

\* Seen from a pair of daemons the transport is a Channel: a connection keeps
\* the order, losses are what opens another one, and nothing is sent twice.
TransportIsChannel == Link!Spec

\* No handler waits for ever in a broadcast, whatever breaks and however full
\* the queues are: a peer that is slow to read is not one that has stopped.
\* The exception is a peer whose accept loop has ended (daemon.rs:487).
BroadcastReturns ==
    \A d \in Daemons :
        pending[d] # {} ~> (pending[d] = {} \/ \E e \in Daemons : ~accepting[e])

\* What has been written to a connection, and is not cut off, reaches the loop
\* in the end, though pollers keep filling the queue and loops block each other
\* for a while; again unless an accept loop has ended.
AllArrive ==
    \/ <>[](\A d, e \in Daemons : \A c \in DOMAIN conns[d][e] :
               conns[d][e][c].wire = <<>>)
    \/ <>(\E d \in Daemons : ~accepting[d])

=============================================================================
