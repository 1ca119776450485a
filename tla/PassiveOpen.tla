---------------------------- MODULE PassiveOpen ----------------------------
(***************************************************************************)
(* What a listening socket promises, whatever its tables and timers do:    *)
(* a peer is unknown, half-open or connected, never two of them; completed *)
(* connections are handed to accept() once each, in the order they         *)
(* completed; and only accept() or the end of the listener takes a         *)
(* connection out of the queue.                                            *)
(***************************************************************************)
EXTENDS Naturals, Sequences

CONSTANTS Peers, NoPeer, Childs

VARIABLES
    open,   \* the socket listens
    half,   \* peers with a handshake under way
    queue,  \* completed connections nobody accepted yet
    conn    \* the peer each live connection belongs to

vars == <<open, half, queue, conn>>

Init == open = FALSE /\ half = {} /\ queue = <<>> /\ conn = [c \in Childs |-> NoPeer]

Connected(p) == \E c \in Childs : conn[c] = p

InQueue(c) == \E i \in 1..Len(queue) : queue[i] = c

Open == ~open /\ open' = TRUE /\ UNCHANGED <<half, queue, conn>>

\* The end of the listener takes half-open peers and waiting connections with it.
Close ==
    /\ open
    /\ open' = FALSE /\ half' = {} /\ queue' = <<>>
    /\ conn' = [c \in Childs |-> IF InQueue(c) THEN NoPeer ELSE conn[c]]

Request(p) ==
    /\ open /\ p \notin half /\ ~Connected(p)
    /\ half' = half \cup {p}
    /\ UNCHANGED <<open, queue, conn>>

Abandon(P) ==
    /\ half' = half \ P
    /\ UNCHANGED <<open, queue, conn>>

\* The handshake completes, from a remembered request or from a SYN cookie.
Establish(p, c) ==
    /\ open /\ ~Connected(p)
    /\ conn[c] = NoPeer /\ ~InQueue(c)
    /\ half' = half \ {p}
    /\ queue' = Append(queue, c)
    /\ conn' = [conn EXCEPT ![c] = p]
    /\ UNCHANGED open

Accept ==
    /\ open /\ queue # <<>>
    /\ queue' = Tail(queue)
    /\ UNCHANGED <<open, half, conn>>

\* A connection ends; if it still waits in the queue, accept() will return it dead.
Disconnect(c) ==
    /\ conn' = [conn EXCEPT ![c] = NoPeer]
    /\ UNCHANGED <<open, half, queue>>

Next ==
    \/ Open \/ Close \/ Accept
    \/ \E p \in Peers : Request(p)
    \/ \E P \in SUBSET Peers : Abandon(P)
    \/ \E p \in Peers, c \in Childs : Establish(p, c)
    \/ \E c \in Childs : Disconnect(c)

Spec == Init /\ [][Next]_vars

=============================================================================
