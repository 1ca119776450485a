------------------------------ MODULE Listener ------------------------------
(***************************************************************************)
(* One listening TCP socket: the SYN table of half-open requests           *)
(* (request_sock.c/.h, inet_connection_sock.c), the accept queue, the      *)
(* passive-open packet path (tcp_v4_do_rcv -> tcp_v4_hnd_req ->            *)
(* tcp_check_req / tcp_v4_conn_request), the SYN-ACK timer and the calls   *)
(* listen(), accept(), shutdown().                                         *)
(*                                                                         *)
(* Every handler below runs under the listener's socket lock, so it is one *)
(* action.  The lookup that brings a segment to the listener runs before   *)
(* the lock is taken: a segment can be handled here although its           *)
(* connection was created meanwhile, so no guard of tcp_v4_do_rcv speaks   *)
(* of what the lookup would find now.                                      *)
(***************************************************************************)
EXTENDS Integers, Sequences, FiniteSets

CONSTANTS
    Peers, NoPeer,      \* remote (address, port) pairs; none
    Childs,             \* identities of the sockets created by handshakes
    Backlogs,           \* backlog arguments user programs pass to listen()
    Somaxconn,          \* sysctl net.core.somaxconn
    MaxSynBacklog,      \* sysctl_max_syn_backlog
    MinEntries,         \* the literal 8 of reqsk_queue_alloc
    MinLog,             \* the literal 3 of reqsk_queue_alloc
    U16,                \* 2^16, the range of sk_ack_backlog
    SynackRetries,      \* icsk_syn_retries ?: sysctl_tcp_synack_retries
    MaxRetrans,         \* 255: retrans is a u8
    DeferValues,        \* values TCP_DEFER_ACCEPT may take (0 is off)
    Interval, Timeout, MaxRto,  \* TCP_SYNQ_INTERVAL, TCP_TIMEOUT_INIT, TCP_RTO_MAX
    AbortOnOverflow,    \* the values sysctl_tcp_abort_on_overflow takes meanwhile
    SynCookies,         \* the values sysctl_tcp_syncookies takes meanwhile
    Hash,               \* inet_synq_hash before it is cut to the table size
    Segments            \* the segments the network delivers

\* A segment, reduced to what the passive-open path tests: its flags, its seq
\* relative to the request's rcv_isn, whether ack_seq is snt_isn + 1, whether
\* PAWS rejects it, and whether it is bare (end_seq = rcv_isn + 1).
Segment ==
    [flags : SUBSET {"SYN", "ACK", "RST", "FIN"}, seq : {"isn", "window", "outside"},
     ack_ok : BOOLEAN, paws_reject : BOOLEAN, bare : BOOLEAN]

\* roundup_pow_of_two(n)
RoundupPow2(n) == CHOOSE m \in {2^k : k \in 0..n} :
                      m >= n /\ \A k \in 0..n : 2^k >= n => m <= 2^k

\* The table size reqsk_queue_alloc picks for a backlog of nr.
TableEntries(nr) ==
    LET capped == IF nr < MaxSynBacklog THEN nr ELSE MaxSynBacklog
        raised == IF capped > MinEntries THEN capped ELSE MinEntries
    IN  RoundupPow2(raised + 1)

\* ... and its max_qlen_log: counted up from MinLog until it covers the table.
QlenLog(nr) == CHOOSE l \in MinLog .. MinLog + TableEntries(nr) :
                   /\ 2^l >= TableEntries(nr)
                   /\ \A k \in MinLog .. l - 1 : 2^k < TableEntries(nr)

\* SYSCALL listen: a backlog above somaxconn, or negative, becomes somaxconn.
ListenBacklog(backlog) ==
    IF backlog < 0 \/ backlog > Somaxconn THEN Somaxconn ELSE backlog

ASSUME ConstantsAssumption ==
    /\ IsFiniteSet(Peers) /\ NoPeer \notin Peers
    /\ Somaxconn \in Nat /\ MaxSynBacklog \in Nat
    /\ MinEntries \in Nat \ {0} /\ MinLog \in Nat \ {0}
    /\ U16 \in Nat \ {0}
    /\ MaxRetrans \in Nat /\ SynackRetries \in 0..MaxRetrans
    /\ DeferValues \subseteq 0..MaxRetrans /\ 0 \in DeferValues
    /\ Interval \in Nat \ {0} /\ Timeout \in Nat /\ Timeout >= Interval
    /\ MaxRto \in Nat \ {0}
    /\ AbortOnOverflow \subseteq BOOLEAN /\ SynCookies \subseteq BOOLEAN
    /\ Hash \in [Peers -> Nat]
    /\ Segments \subseteq Segment
    /\ Backlogs \subseteq Int

\* The sizes reqsk_queue_alloc computes exist for every backlog in use.
ASSUME TableAssumption ==
    \A b \in Backlogs : /\ TableEntries(ListenBacklog(b)) \in Nat \ {0}
                        /\ QlenLog(ListenBacklog(b)) \in Nat \ {0}

\* A fact of arithmetic the provers do not have.
ASSUME ShiftAssumption == \A n \in 0..MaxRetrans : 2^n \in Nat

VARIABLES
    sk_state,           \* of the listener: "CLOSE" or "LISTEN"
    listen_opt,         \* "null", "valid", or "freed" (dangling after a failed listen)
    nr_table_entries, max_qlen_log, clock_hand, qlen, qlen_young, \* struct listen_sock
    syn_table,          \* the peers with a request in the SYN table
    retrans, acked, expires,  \* of each request; expires counts ticks from now
    rskq_defer_accept,  \* TCP_DEFER_ACCEPT in effect
    rskq_accept,        \* rskq_accept_head ... tail: the children in FIFO order
    sk_ack_backlog, sk_max_ack_backlog,
    child_state, child_peer,  \* sockets made by handshakes; "FREE" if not in use
    keepalive,          \* ticks until sk_timer fires, or Off
    running             \* sk_timer fired, its handler waits for the socket lock

lopt   == <<nr_table_entries, max_qlen_log, clock_hand>>
reqs   == <<syn_table, retrans, acked, expires>>
counts == <<qlen, qlen_young>>
accq   == <<rskq_accept, sk_ack_backlog>>
childs == <<child_state, child_peer>>
timer  == <<keepalive, running>>
vars   == <<sk_state, listen_opt, lopt, reqs, counts, rskq_defer_accept, accq,
            sk_max_ack_backlog, childs, timer>>

Off == -1

Init ==
    /\ sk_state = "CLOSE" /\ listen_opt = "null"
    /\ nr_table_entries = 1 /\ max_qlen_log = 1 /\ clock_hand = 0
    /\ qlen = 0 /\ qlen_young = 0
    /\ syn_table = {}
    /\ retrans = [p \in Peers |-> 0]
    /\ acked = [p \in Peers |-> FALSE]
    /\ expires = [p \in Peers |-> 0]
    /\ rskq_defer_accept = 0
    /\ rskq_accept = <<>> /\ sk_ack_backlog = 0 /\ sk_max_ack_backlog = 0
    /\ child_state = [c \in Childs |-> "FREE"]
    /\ child_peer = [c \in Childs |-> NoPeer]
    /\ keepalive = Off /\ running = FALSE

-----------------------------------------------------------------------------
\* Tests of the code.

\* reqsk_queue_is_full: qlen >> max_qlen_log
reqsk_queue_is_full == qlen \div 2^max_qlen_log # 0

\* sk_acceptq_is_full
sk_acceptq_is_full == sk_ack_backlog > sk_max_ack_backlog

\* inet_lookup_established: the hashed, synchronized sockets of peer p.
Established(p) == {c \in Childs : /\ child_state[c] \in {"ESTABLISHED", "CLOSE_WAIT"}
                                  /\ child_peer[c] = p}

-----------------------------------------------------------------------------
\* Bookkeeping of the SYN table.

\* inet_csk_reqsk_queue_unlink and reqsk_free, of the requests in P.
Unlink(P) ==
    /\ syn_table' = syn_table \ P
    /\ retrans' = [p \in Peers |-> IF p \in P THEN 0 ELSE retrans[p]]
    /\ acked' = [p \in Peers |-> p \notin P /\ acked[p]]
    /\ expires' = [p \in Peers |-> IF p \in P THEN 0 ELSE expires[p]]

\* Mutants: a young request is not uncounted; the timer goes with any request.
RemovedStaysYoung(p) ==
    /\ qlen' = qlen - 1 /\ qlen_young' = qlen_young
    /\ keepalive' = IF qlen - 1 = 0 THEN Off ELSE keepalive
RemovedStopsTimer(p) ==
    /\ qlen' = qlen - 1
    /\ qlen_young' = IF retrans[p] = 0 THEN qlen_young - 1 ELSE qlen_young
    /\ keepalive' = Off

\* inet_csk_reqsk_queue_removed: the counters, and the timer with the last one.
inet_csk_reqsk_queue_removed(p) ==
    /\ qlen' = qlen - 1
    /\ qlen_young' = IF retrans[p] = 0 THEN qlen_young - 1 ELSE qlen_young
    /\ keepalive' = IF qlen - 1 = 0 THEN Off ELSE keepalive

inet_csk_reqsk_queue_drop(p) == Unlink({p}) /\ inet_csk_reqsk_queue_removed(p)

\* inet_csk_reqsk_queue_hash_add: a fresh request, the counters, and the timer
\* when the table was empty.
inet_csk_reqsk_queue_hash_add(p) ==
    /\ syn_table' = syn_table \cup {p}
    /\ retrans' = [retrans EXCEPT ![p] = 0]
    /\ acked' = [acked EXCEPT ![p] = FALSE]
    /\ expires' = [expires EXCEPT ![p] = Timeout]
    /\ qlen' = qlen + 1 /\ qlen_young' = qlen_young + 1
    /\ keepalive' = IF qlen = 0 THEN Timeout ELSE keepalive

-----------------------------------------------------------------------------
\* User calls.

\* SYSCALL listen -> inet_listen -> inet_csk_listen_start.  get_port is decided
\* by the port table, so its answer is an input.
inet_csk_listen_start(nr, port_ok) ==
    /\ sk_state = "CLOSE"
    /\ nr_table_entries' = TableEntries(nr) /\ max_qlen_log' = QlenLog(nr)
    /\ clock_hand' = 0 /\ qlen' = 0 /\ qlen_young' = 0
    /\ rskq_accept' = <<>> /\ sk_ack_backlog' = 0
    /\ IF port_ok
       THEN /\ sk_state' = "LISTEN" /\ listen_opt' = "valid"
            /\ sk_max_ack_backlog' = nr % U16
       ELSE /\ sk_state' = "CLOSE" /\ listen_opt' = "freed"
            /\ sk_max_ack_backlog' = 0
    /\ UNCHANGED <<reqs, rskq_defer_accept, childs, timer>>

inet_listen(backlog, port_ok) ==
    LET nr == ListenBacklog(backlog) IN
    \/ inet_csk_listen_start(nr, port_ok)
    \/ /\ sk_state = "LISTEN"
       /\ sk_max_ack_backlog' = nr % U16
       /\ UNCHANGED <<sk_state, listen_opt, lopt, reqs, counts, rskq_defer_accept,
                      accq, childs, timer>>

\* inet_csk_accept, once the queue is not empty (reqsk_queue_get_child).
inet_csk_accept ==
    /\ sk_state = "LISTEN"
    /\ rskq_accept # <<>>
    /\ rskq_accept' = Tail(rskq_accept)
    /\ sk_ack_backlog' = (sk_ack_backlog - 1) % U16
    /\ UNCHANGED <<sk_state, listen_opt, lopt, reqs, counts, rskq_defer_accept,
                   sk_max_ack_backlog, childs, timer>>

\* reqsk_queue_yank_acceptq: what it leaves in the queue.
reqsk_queue_yank_acceptq == <<>>

\* inet_csk_listen_stop, reached from shutdown(SHUT_RD) and close(): the table
\* is freed request by request, every queued child is disconnected and freed.
inet_csk_listen_stop ==
    /\ sk_state = "LISTEN"
    /\ sk_state' = "CLOSE"
    /\ keepalive' = Off
    /\ listen_opt' = "null"
    /\ Unlink(syn_table)
    /\ qlen' = IF qlen # 0 THEN qlen - Cardinality(syn_table) ELSE qlen
    /\ qlen_young' = 0
    /\ rskq_accept' = reqsk_queue_yank_acceptq
    /\ sk_ack_backlog' = (sk_ack_backlog - Len(rskq_accept)) % U16
    /\ LET queued == {rskq_accept[i] : i \in 1..Len(rskq_accept)} IN
       /\ child_state' = [c \in Childs |-> IF c \in queued THEN "FREE" ELSE child_state[c]]
       /\ child_peer' = [c \in Childs |-> IF c \in queued THEN NoPeer ELSE child_peer[c]]
    /\ UNCHANGED <<lopt, rskq_defer_accept, sk_max_ack_backlog, running>>

\* setsockopt(TCP_DEFER_ACCEPT)
SetDeferAccept(val) ==
    /\ rskq_defer_accept' = val
    /\ UNCHANGED <<sk_state, listen_opt, lopt, reqs, counts, accq,
                   sk_max_ack_backlog, childs, timer>>

-----------------------------------------------------------------------------
\* Segments handled by the listener.

\* The tests of tcp_check_req, in the code's order.
PureSyn(th)     == th.seq = "isn" /\ th.flags \cap {"SYN", "ACK", "RST"} = {"SYN"}
                                 /\ ~th.paws_reject
BadAck(th)      == "ACK" \in th.flags /\ ~th.ack_ok
OutOfWindow(th) == th.paws_reject \/ th.seq = "outside"
InSequence(th)  == ~PureSyn(th) /\ ~BadAck(th) /\ ~OutOfWindow(th)
ResetFlags(th)  == "RST" \in th.flags \/ ("SYN" \in th.flags /\ th.seq # "isn")

\* A bare ACK that TCP_DEFER_ACCEPT holds back.
Deferred(p, th) == retrans[p] < rskq_defer_accept /\ th.bare

\* tcp_v4_syn_recv_sock and tcp_child_process: a new hashed socket, which the
\* segment itself moves out of SYN_RECV before the listener is unlocked.
tcp_v4_syn_recv_sock(p, c, th) ==
    /\ ~sk_acceptq_is_full
    /\ child_state[c] = "FREE"
    /\ child_state' = [child_state EXCEPT ![c] =
                          IF "FIN" \in th.flags THEN "CLOSE_WAIT" ELSE "ESTABLISHED"]
    /\ child_peer' = [child_peer EXCEPT ![c] = p]

\* inet_csk_reqsk_queue_add
inet_csk_reqsk_queue_add(c) ==
    /\ rskq_accept' = Append(rskq_accept, c)
    /\ sk_ack_backlog' = (sk_ack_backlog + 1) % U16

embryonic_reset(p) ==
    /\ inet_csk_reqsk_queue_drop(p)
    /\ UNCHANGED <<accq, childs>>

\* The bare ACK is remembered (TCP_DEFER_ACCEPT, or a full accept queue).
RememberAck(p) ==
    /\ acked' = [acked EXCEPT ![p] = TRUE]
    /\ UNCHANGED <<syn_table, retrans, expires, counts, accq, childs, keepalive>>

\* syn_recv_sock returned NULL: queue full, no memory, no route or no port.
listen_overflow(p) ==
    \E abort \in AbortOnOverflow : IF abort THEN embryonic_reset(p) ELSE RememberAck(p)

tcp_check_req(p, th) ==
    /\ InSequence(th)
    /\ \/ ResetFlags(th) /\ embryonic_reset(p)
       \/ /\ ~ResetFlags(th) /\ "ACK" \in th.flags
          /\ \/ Deferred(p, th) /\ RememberAck(p)
             \/ ~Deferred(p, th) /\ listen_overflow(p)
             \/ /\ ~Deferred(p, th)
                /\ \E c \in Childs :
                      /\ tcp_v4_syn_recv_sock(p, c, th)
                      /\ Unlink({p}) /\ inet_csk_reqsk_queue_removed(p)
                      /\ inet_csk_reqsk_queue_add(c)

\* sysctl_max_syn_backlog - qlen < sysctl_max_syn_backlog >> 2
LastQuarter == MaxSynBacklog - qlen < MaxSynBacklog \div 4

\* tcp_v4_conn_request, when it queues the request.  isn: TIME_WAIT handling
\* already chose our sequence number; tcpct: the SYN carries a cookie-transaction
\* option the socket accepts, which cancels the SYN cookie; proven: the peer
\* is remembered as alive; cookies: sysctl_tcp_syncookies.  Dropped requests and
\* SYN cookies leave no state.
tcp_v4_conn_request(p, isn, tcpct, proven, cookies) ==
    /\ reqsk_queue_is_full /\ ~isn => cookies /\ tcpct
    /\ ~(sk_acceptq_is_full /\ qlen_young > 1)
    /\ isn \/ cookies \/ proven \/ ~LastQuarter
    /\ inet_csk_reqsk_queue_hash_add(p)
    /\ UNCHANGED <<accq, childs>>

\* cookie_v4_check accepts the ACK of a SYN cookie: a child without a request.
cookie_v4_check(p, th) ==
    /\ TRUE \in SynCookies /\ th.flags \cap {"ACK", "RST"} = {"ACK"}
    /\ \E c \in Childs : /\ tcp_v4_syn_recv_sock(p, c, th)
                         /\ inet_csk_reqsk_queue_add(c)
    /\ UNCHANGED <<reqs, counts, keepalive>>

\* tcp_rcv_state_process in LISTEN: ACK is answered by a reset, RST ignored.
ListenStateProcess(p, th) ==
    /\ th.flags \cap {"SYN", "ACK", "RST"} = {"SYN"}
    /\ \E isn, tcpct, proven \in BOOLEAN, cookies \in SynCookies :
          tcp_v4_conn_request(p, isn, tcpct, proven, cookies)

\* Mutant: no second lookup of the established sockets.
HndReqNoLookup(p, th) ==
    \/ p \in syn_table /\ tcp_check_req(p, th)
    \/ /\ p \notin syn_table
       /\ \/ "SYN" \notin th.flags /\ cookie_v4_check(p, th)
          \/ ListenStateProcess(p, th)

\* tcp_v4_hnd_req and what tcp_v4_do_rcv does with its answer: a queued request
\* goes to tcp_check_req, whose answer "sk" only leads to a reset; a socket
\* created meanwhile takes the segment itself (ChildStep); otherwise the
\* segment may answer a SYN cookie or open a connection.
tcp_v4_hnd_req(p, th) ==
    \/ p \in syn_table /\ tcp_check_req(p, th)
    \/ /\ p \notin syn_table /\ Established(p) = {}
       /\ \/ "SYN" \notin th.flags /\ cookie_v4_check(p, th)
          \/ ListenStateProcess(p, th)

tcp_v4_do_rcv(p, th) ==
    /\ sk_state = "LISTEN"
    /\ tcp_v4_hnd_req(p, th)
    /\ UNCHANGED <<sk_state, listen_opt, lopt, rskq_defer_accept,
                   sk_max_ack_backlog, running>>

\* tcp_v4_err on the listener: an ICMP error that quotes our SYN-ACK.
tcp_v4_err(p) ==
    /\ sk_state = "LISTEN"
    /\ p \in syn_table
    /\ inet_csk_reqsk_queue_drop(p)
    /\ UNCHANGED <<sk_state, listen_opt, lopt, rskq_defer_accept, accq,
                   sk_max_ack_backlog, childs, running>>

-----------------------------------------------------------------------------
\* Sockets created by the handshake, after it.

\* A segment or a timer of the child itself: FIN, or reset and tcp_done.
ChildStep(c, st) ==
    /\ <<child_state[c], st>> \in {<<"ESTABLISHED", "CLOSE_WAIT">>,
                                   <<"ESTABLISHED", "CLOSE">>, <<"CLOSE_WAIT", "CLOSE">>}
    /\ child_state' = [child_state EXCEPT ![c] = st]
    /\ UNCHANGED <<sk_state, listen_opt, lopt, reqs, counts, rskq_defer_accept, accq,
                   sk_max_ack_backlog, child_peer, timer>>

\* An accepted child is closed by its user and leaves the tables.
ChildRelease(c) ==
    /\ child_state[c] # "FREE"
    /\ \A i \in 1..Len(rskq_accept) : rskq_accept[i] # c
    /\ child_state' = [child_state EXCEPT ![c] = "FREE"]
    /\ child_peer' = [child_peer EXCEPT ![c] = NoPeer]
    /\ UNCHANGED <<sk_state, listen_opt, lopt, reqs, counts, rskq_defer_accept, accq,
                   sk_max_ack_backlog, timer>>

-----------------------------------------------------------------------------
\* The SYN-ACK timer.

\* inet_csk_reqsk_queue_prune lowers the threshold, down to 2, while old requests
\* crowd the table: once per doubling of qlen_young that does not exceed qlen.
Thresh ==
    IF qlen \div 2^(max_qlen_log - 1) # 0
    THEN SynackRetries - Cardinality({n \in 1..SynackRetries - 2 : qlen >= qlen_young * 2^n})
    ELSE SynackRetries

MaxRetries == IF rskq_defer_accept # 0 THEN rskq_defer_accept ELSE SynackRetries

\* syn_ack_recalc
Expire(p) ==
    /\ retrans[p] >= Thresh
    /\ rskq_defer_accept # 0 => ~acked[p] \/ retrans[p] >= MaxRetries

Resend(p) ==
    rskq_defer_accept = 0 \/ ~acked[p] \/ retrans[p] >= rskq_defer_accept - 1

\* The buckets one run of the loop visits; it is a do-while, so at least one.
Budget ==
    LET b == 2 * (nr_table_entries \div (Timeout \div Interval))
    IN  IF b > 0 THEN b ELSE 1

\* Mutant: the last bucket of the budget is left out.
VisitedFewer == {(clock_hand + i) % nr_table_entries : i \in 0..Budget - 2}

Visited == {(clock_hand + i) % nr_table_entries : i \in 0..Budget - 1}

Due == {p \in syn_table : expires[p] = 0 /\ Hash[p] % nr_table_entries \in Visited}

\* The due requests that are kept, when the SYN-ACKs to the peers in failed
\* cannot be sent.
Kept(failed) == {p \in Due : /\ ~Expire(p)
                             /\ ~Resend(p) \/ p \notin failed \/ acked[p]}

Backoff(n) == IF Timeout * 2^n < MaxRto THEN Timeout * 2^n ELSE MaxRto

inet_csk_reqsk_queue_prune(failed) ==
    LET kept    == Kept(failed)
        dropped == Due \ kept
    IN  /\ qlen # 0
        /\ syn_table' = syn_table \ dropped
        /\ retrans' = [p \in Peers |-> IF p \in kept THEN retrans[p] + 1
                                       ELSE IF p \in dropped THEN 0 ELSE retrans[p]]
        /\ expires' = [p \in Peers |-> IF p \in kept THEN Backoff(retrans[p] + 1)
                                       ELSE expires[p]]
        /\ acked' = [p \in Peers |-> p \notin dropped /\ acked[p]]
        /\ qlen_young' = qlen_young - Cardinality({p \in Due : retrans[p] = 0})
        /\ qlen' = qlen - Cardinality(dropped)
        /\ clock_hand' = (clock_hand + Budget) % nr_table_entries
        /\ keepalive' = IF qlen' # 0 THEN Interval ELSE keepalive

\* Time passes by one tick.
Tick ==
    /\ keepalive > 0 \/ \E p \in syn_table : expires[p] > 0
    /\ keepalive' = IF keepalive > 0 THEN keepalive - 1 ELSE keepalive
    /\ expires' = [p \in Peers |-> IF expires[p] > 0 THEN expires[p] - 1 ELSE 0]
    /\ UNCHANGED <<sk_state, listen_opt, lopt, syn_table, retrans, acked, counts,
                   rskq_defer_accept, accq, sk_max_ack_backlog, childs, running>>

\* sk_timer expires; its handler now waits for the socket lock, and is not
\* stopped by a later inet_csk_delete_keepalive_timer.
TimerFires ==
    /\ keepalive = 0 /\ ~running
    /\ keepalive' = Off /\ running' = TRUE
    /\ UNCHANGED <<sk_state, listen_opt, lopt, reqs, counts, rskq_defer_accept, accq,
                   sk_max_ack_backlog, childs>>

\* The handler of sk_timer on this socket.
SynackTimer(failed) ==
    /\ running
    /\ running' = FALSE
    /\ \/ /\ sk_state = "LISTEN"
          /\ inet_csk_reqsk_queue_prune(failed)
          /\ UNCHANGED <<nr_table_entries, max_qlen_log>>
       \/ /\ sk_state # "LISTEN" \/ qlen = 0
          /\ UNCHANGED <<lopt, reqs, counts, keepalive>>
    /\ UNCHANGED <<sk_state, listen_opt, rskq_defer_accept, accq,
                   sk_max_ack_backlog, childs>>

-----------------------------------------------------------------------------
Next ==
    \/ \E b \in Backlogs, port_ok \in BOOLEAN : inet_listen(b, port_ok)
    \/ inet_csk_accept
    \/ inet_csk_listen_stop
    \/ \E v \in DeferValues : SetDeferAccept(v)
    \/ \E p \in Peers, th \in Segments : tcp_v4_do_rcv(p, th)
    \/ \E p \in Peers : tcp_v4_err(p)
    \/ \E c \in Childs, st \in {"CLOSE_WAIT", "CLOSE"} : ChildStep(c, st)
    \/ \E c \in Childs : ChildRelease(c)
    \/ Tick
    \/ TimerFires
    \/ \E failed \in SUBSET syn_table : SynackTimer(failed)

Spec == Init /\ [][Next]_vars

\* Time passes, an expired timer fires, and its handler gets the lock.
FairSpec ==
    /\ Spec
    /\ WF_vars(Tick) /\ WF_vars(TimerFires)
    /\ WF_vars(\E failed \in SUBSET syn_table : SynackTimer(failed))

-----------------------------------------------------------------------------
\* Properties.

Queued == {rskq_accept[i] : i \in 1..Len(rskq_accept)}
Hashed == {c \in Childs : child_state[c] \in {"ESTABLISHED", "CLOSE_WAIT"}}

\* Every variable has its type; retrans, a u8 in struct request_sock, never wraps.
TypeOK ==
    /\ sk_state \in {"CLOSE", "LISTEN"} /\ listen_opt \in {"null", "valid", "freed"}
    /\ nr_table_entries \in Nat \ {0} /\ max_qlen_log \in Nat \ {0}
    /\ clock_hand \in 0..nr_table_entries - 1
    /\ qlen \in Int /\ qlen_young \in Int
    /\ syn_table \subseteq Peers
    /\ retrans \in [Peers -> 0..MaxRetrans] /\ acked \in [Peers -> BOOLEAN]
    /\ expires \in [Peers -> Nat]
    /\ rskq_defer_accept \in DeferValues
    /\ rskq_accept \in Seq(Childs)
    /\ sk_ack_backlog \in 0..U16 - 1 /\ sk_max_ack_backlog \in 0..U16 - 1
    /\ child_state \in [Childs -> {"FREE", "ESTABLISHED", "CLOSE_WAIT", "CLOSE"}]
    /\ child_peer \in [Childs -> Peers \cup {NoPeer}]
    /\ keepalive \in Nat \cup {Off} /\ running \in BOOLEAN

\* The counters of struct listen_sock describe the SYN table, whatever the order
\* of SYNs, ACKs, ICMP errors, timer runs and listen()/shutdown(): qlen is the
\* number of requests and qlen_young the number never retransmitted by prune.
\* reqsk_queue_destroy warns, and leaks, when it finds qlen wrong.
QueueCounts ==
    /\ qlen = Cardinality(syn_table)
    /\ qlen_young = Cardinality({p \in syn_table : retrans[p] = 0})

\* sk_ack_backlog, kept by reqsk_queue_add, reqsk_queue_get_child and listen_stop,
\* is the length of the accept queue modulo its 16 bits; listen_stop warns
\* when it is not 0 after the queue is emptied.
BacklogCount == sk_ack_backlog = Len(rskq_accept) % U16

\* A peer never has two hashed sockets, nor a hashed socket and a pending request:
\* tcp_v4_hnd_req looks again, under the lock, before it opens a second one.
OneConnectionPerPeer ==
    /\ \A c, d \in Hashed : child_peer[c] = child_peer[d] => c = d
    /\ \A c \in Hashed : child_peer[c] \notin syn_table

\* The accept queue holds each child once, and only sockets that still exist,
\* so accept() never returns a freed socket and listen_stop frees none twice.
QueueHoldsChilds ==
    /\ \A i, j \in 1..Len(rskq_accept) : rskq_accept[i] = rskq_accept[j] => i = j
    /\ \A c \in Queued : child_state[c] # "FREE"

\* While requests are pending the SYN-ACK timer is armed or its handler is about
\* to run, although it is armed only for the first request, deleted with the
\* last one and re-armed by prune.
TimerArmed == sk_state = "LISTEN" /\ syn_table # {} => keepalive # Off \/ running

\* The listening state and the request table come and go together, so no handler
\* uses the table listen_stop freed or the one a failed listen() left dangling.
TableUsable == /\ sk_state = "LISTEN" <=> listen_opt = "valid"
               /\ sk_state = "CLOSE" => syn_table = {} /\ rskq_accept = <<>>

\* The books of both queues: qlen and qlen_young count the requests of the table,
\* sk_ack_backlog the queued children, and each queued child is a live connection of
\* its own peer, whichever of the handlers, the timer or accept() ran last.
QueuesExact == QueueCounts /\ BacklogCount /\ QueueHoldsChilds

\* The accept queue grows only while it is no longer than the backlog in effect,
\* unless the 16-bit sk_ack_backlog has already wrapped around.
AcceptQueueGrowth ==
    [][Len(rskq_accept') > Len(rskq_accept) /\ Len(rskq_accept) < U16
          => Len(rskq_accept) <= sk_max_ack_backlog]_vars

\* Every request leaves the SYN table: it becomes a connection, is reset, or is
\* dropped by the timer.
RequestResolved == \A p \in Peers : p \in syn_table ~> p \notin syn_table

\* The listener implements PassiveOpen: its SYN table is the set of half-open
\* peers and its hashed children are the live connections.
Service == INSTANCE PassiveOpen WITH
              open <- sk_state = "LISTEN",
              half <- syn_table,
              queue <- rskq_accept,
              conn <- [c \in Childs |-> IF c \in Hashed THEN child_peer[c] ELSE NoPeer]

\* Every behaviour of the listener is one PassiveOpen allows: connections are
\* accepted in completion order, none is lost or doubled, none is opened twice.
ImplementsPassiveOpen == Service!Spec

=============================================================================
