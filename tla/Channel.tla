------------------------------- MODULE Channel -------------------------------
(***************************************************************************)
(* What the connections between daemons promise, one ordered pair at a     *)
(* time: messages of q for p are numbered, a connection keeps their order, *)
(* and q opens another connection only after a message for p has been lost.*)
(* Nothing is sent again, and connections are independent of each other.   *)
(***************************************************************************)
EXTENDS Naturals, Sequences

CONSTANT Daemons

VARIABLES
    carried,    \* carried[q][p]: what each connection from q to p carries
    broken,     \* broken[q][p]: q has no connection to p to write to
    next        \* next[q][p]: the number of the next message of q for p

vars == <<carried, broken, next>>

Init ==
    /\ carried = [q \in Daemons |-> [p \in Daemons |-> <<>>]]
    /\ broken = [q \in Daemons |-> [p \in Daemons |-> TRUE]]
    /\ next = [q \in Daemons |-> [p \in Daemons |-> 1]]

Open(q, p) ==
    /\ broken[q][p]
    /\ broken' = [broken EXCEPT ![q][p] = FALSE]
    /\ carried' = [carried EXCEPT ![q][p] = Append(@, <<>>)]
    /\ UNCHANGED next

Write(q, p) ==
    /\ ~broken[q][p]
    /\ carried' = [carried EXCEPT ![q][p][Len(carried[q][p])] = Append(@, next[q][p])]
    /\ next' = [next EXCEPT ![q][p] = @ + 1]
    /\ UNCHANGED broken

Lose(q, p) ==
    /\ broken' = [broken EXCEPT ![q][p] = TRUE]
    /\ next' = [next EXCEPT ![q][p] = @ + 1]
    /\ UNCHANGED carried

\* A connection takes its last messages with it when it breaks.
Break(q, p, c) ==
    /\ \E kept \in 0 .. Len(carried[q][p][c]) :
          carried' = [carried EXCEPT ![q][p][c] = SubSeq(@, 1, kept)]
    /\ UNCHANGED <<broken, next>>

Arrive(q, p, c) ==
    /\ carried[q][p][c] # <<>>
    /\ carried' = [carried EXCEPT ![q][p][c] = Tail(@)]
    /\ UNCHANGED <<broken, next>>

Next ==
    \E q, p \in Daemons :
        \/ Open(q, p) \/ Write(q, p) \/ Lose(q, p)
        \/ \E c \in DOMAIN carried[q][p] : Break(q, p, c) \/ Arrive(q, p, c)

Spec == Init /\ [][Next]_vars

=============================================================================
