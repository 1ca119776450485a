----------------------------- MODULE PortTable -----------------------------
(***************************************************************************)
(* The bind hash table of TCP (inet_hashtables.c, inet_connection_sock.c): *)
(* bind(), listen(), connect(), inherited ports, TIME_WAIT owners, and who *)
(* may share a local port.                                                 *)
(*                                                                         *)
(* A call runs under its own socket's lock; only the bucket lock of a port *)
(* keeps two sockets apart.  Each critical section of inet_csk_get_port is *)
(* therefore one step, and other sockets move between them.                *)
(***************************************************************************)
EXTENDS Integers, FiniteSets

CONSTANTS
    Socks,          \* socket identities
    Ports,          \* local ports
    LocalRange,     \* sysctl ip_local_port_range
    Reserved,       \* sysctl ip_local_reserved_ports
    Addrs,          \* local addresses
    Wild,            \* INADDR_ANY, and "not bound to a device"
    Devs, bound_dev,\* interfaces, and sk_bound_dev_if of each socket
    Remotes,        \* remote (address, port) pairs
    Attempts,       \* the literal 5 of inet_csk_get_port
    LateSegments    \* whether a connect() can come between the lookup of a segment,
                    \* which chose a listener, and the child it creates

ASSUME PortConstants ==
    /\ IsFiniteSet(Socks)
    /\ Ports \subseteq Nat \ {0} /\ LocalRange \subseteq Ports /\ IsFiniteSet(LocalRange)
    /\ Attempts \in Nat /\ LateSegments \in BOOLEAN
    /\ Wild \notin Addrs
    /\ bound_dev \in [Socks -> Devs \cup {Wild}]

VARIABLES
    sk_state,       \* CLOSE, LISTEN, TIME_WAIT; an active connection is SYN_SENT and a
                    \* passive one SYN_RECV for as long as it lives
    sk_reuse, rcv_saddr, inet_num, daddr,
    port_lock,      \* SOCK_BINDPORT_LOCK
    hashed,         \* "no", "listening_hash" or "ehash"
    bind_hash,      \* icsk_bind_hash (or the bucket of a TIME_WAIT socket): a port, 0 for none
    buckets, fastreuse, num_owners,  \* struct inet_bind_bucket of each port
    bsockets,
    call            \* where each socket is in bind() or listen()

table == <<buckets, fastreuse, num_owners, bsockets>>
socks == <<sk_state, sk_reuse, rcv_saddr, inet_num, daddr, port_lock, hashed, bind_hash>>
vars  == <<socks, table, call>>

\* A call in progress: how it was entered, its next critical section, the ports
\* the search has left, and the best shareable port met (smallest_rover/_size).
At(op, pc) == [op |-> op, pc |-> pc, snum |-> 0, left |-> {}, size |-> -1, attempts |-> 0]
Idle == At("none", "idle")

Entry(op, snum) ==
    [op |-> op, pc |-> IF snum = 0 THEN "search" ELSE "have_snum", snum |-> snum,
     left |-> LocalRange, size |-> -1, attempts |-> Attempts]

Init ==
    /\ sk_state = [s \in Socks |-> "CLOSE"]
    /\ sk_reuse = [s \in Socks |-> FALSE]
    /\ rcv_saddr = [s \in Socks |-> Wild]
    /\ inet_num = [s \in Socks |-> 0]
    /\ daddr = [s \in Socks |-> Wild]
    /\ port_lock = [s \in Socks |-> FALSE]
    /\ hashed = [s \in Socks |-> "no"]
    /\ bind_hash = [s \in Socks |-> 0]
    /\ buckets = {}
    /\ fastreuse = [p \in Ports |-> 0]
    /\ num_owners = [p \in Ports |-> 0]
    /\ bsockets = 0
    /\ call = [s \in Socks |-> Idle]

-----------------------------------------------------------------------------
Owners(p) == {s \in Socks : bind_hash[s] = p}

SameDev(s, t)  == bound_dev[s] = Wild \/ bound_dev[t] = Wild \/ bound_dev[s] = bound_dev[t]
SameAddr(s, t) == rcv_saddr[s] = Wild \/ rcv_saddr[t] = Wild \/ rcv_saddr[s] = rcv_saddr[t]

\* Mutant: a listening owner is no obstacle.
ConflictsUnlessReuse(s, t) ==
    s # t /\ SameDev(s, t) /\ (~sk_reuse[s] \/ ~sk_reuse[t]) /\ SameAddr(s, t)

\* One owner inet_csk_bind_conflict stops at.
Conflicts(s, t) ==
    /\ s # t
    /\ SameDev(s, t)
    /\ ~sk_reuse[s] \/ ~sk_reuse[t] \/ sk_state[t] = "LISTEN"
    /\ SameAddr(s, t)

inet_csk_bind_conflict(s, p) == \E t \in Owners(p) : Conflicts(s, t)

Shareable(s) == sk_reuse[s] /\ sk_state[s] # "LISTEN"

\* inet_bind_hash
inet_bind_hash(s, p) ==
    /\ bsockets' = bsockets + 1
    /\ num_owners' = [num_owners EXCEPT ![p] = @ + 1]
    /\ inet_num' = [inet_num EXCEPT ![s] = p]
    /\ bind_hash' = [bind_hash EXCEPT ![s] = p]

\* __inet_put_port and inet_bind_bucket_destroy
inet_put_port(s) ==
    LET p == bind_hash[s] IN
    /\ bsockets' = bsockets - 1
    /\ num_owners' = [num_owners EXCEPT ![p] = @ - 1]
    /\ inet_num' = [inet_num EXCEPT ![s] = 0]
    /\ bind_hash' = [bind_hash EXCEPT ![s] = 0]
    /\ buckets' = IF Owners(p) = {s} THEN buckets \ {p} ELSE buckets
    /\ fastreuse' = IF Owners(p) = {s} THEN [fastreuse EXCEPT ![p] = 0] ELSE fastreuse

-----------------------------------------------------------------------------
\* The two calls that reach inet_csk_get_port, up to it.

\* inet_bind: only on a closed socket without a port.
inet_bind(s, a, p) ==
    /\ call[s] = Idle
    /\ sk_state[s] = "CLOSE" /\ inet_num[s] = 0
    /\ rcv_saddr' = [rcv_saddr EXCEPT ![s] = a]
    /\ port_lock' = [port_lock EXCEPT ![s] = p # 0]
    /\ call' = [call EXCEPT ![s] = Entry("bind", p)]
    /\ UNCHANGED <<sk_state, sk_reuse, inet_num, daddr, hashed, bind_hash, table>>

\* inet_csk_listen_start announces LISTEN before get_port has validated it.
inet_csk_listen_start(s) ==
    /\ call[s] = Idle
    /\ sk_state[s] = "CLOSE"
    /\ sk_state' = [sk_state EXCEPT ![s] = "LISTEN"]
    /\ call' = [call EXCEPT ![s] = Entry("listen", inet_num[s])]
    /\ UNCHANGED <<sk_reuse, rcv_saddr, inet_num, daddr, port_lock, hashed,
                   bind_hash, table>>

\* get_port failed.  bind() forgets the address; listen() still has to undo LISTEN.
GetPortFails(s) ==
    IF call[s].op = "listen"
    THEN /\ call' = [call EXCEPT ![s] = At("listen", "unlisten")]
         /\ UNCHANGED <<rcv_saddr, port_lock>>
    ELSE /\ call' = [call EXCEPT ![s] = Idle]
         /\ rcv_saddr' = [rcv_saddr EXCEPT ![s] = Wild]
         /\ port_lock' = [port_lock EXCEPT ![s] = FALSE]

\* get_port succeeded; listen() still has to hash the socket.
GetPortReturns(s) ==
    call' = [call EXCEPT ![s] = IF @.op = "listen"
                                THEN At("listen", "hash")
                                ELSE Idle]

\* Mutant: an owner is added to the bucket again.
SucceedTwice(s, p) ==
    inet_bind_hash(s, p) /\ GetPortReturns(s) /\ UNCHANGED <<rcv_saddr, port_lock>>

\* The label success: the socket becomes an owner unless it is one already.
Succeed(s, p) ==
    /\ IF bind_hash[s] = 0
       THEN inet_bind_hash(s, p)
       ELSE UNCHANGED <<bsockets, num_owners, inet_num, bind_hash>>
    /\ GetPortReturns(s)
    /\ UNCHANGED <<rcv_saddr, port_lock>>

\* The fastreuse of the port once s is an owner.
Fastreuse(s, p) ==
    IF ~Shareable(s) THEN 0 ELSE IF Owners(p) = {} THEN 1 ELSE fastreuse[p]

\* The label tb_not_found: create the bucket if needed and settle fastreuse.
TakePort(s, p) ==
    /\ buckets' = buckets \cup {p}
    /\ fastreuse' = [fastreuse EXCEPT ![p] = Fastreuse(s, p)]
    /\ Succeed(s, p)

\* Without memory for a new bucket get_port fails.
CreatePort(s, p) ==
    \/ TakePort(s, p)
    \/ GetPortFails(s) /\ UNCHANGED <<table, inet_num, bind_hash>>

\* One port of the automatic search: a free port is taken under its lock, a used
\* one is remembered if it can be shared, and the last one ends the search.
SearchPort(s, p) ==
    LET c     == call[s]
        rest  == c.left \ {p}
        better == /\ p \notin Reserved /\ p \in buckets
                  /\ fastreuse[p] > 0 /\ Shareable(s)
                  /\ c.size = -1 \/ num_owners[p] < c.size
        best  == IF better THEN [c EXCEPT !.snum = p, !.size = num_owners[p], !.left = rest]
                 ELSE [c EXCEPT !.left = rest]
        done  == rest = {} \/ (better /\ bsockets > Cardinality(LocalRange))
    IN  /\ c.pc = "search" /\ p \in c.left
        /\ \/ /\ p \notin Reserved /\ p \notin buckets
              /\ CreatePort(s, p)
           \/ /\ p \in Reserved \/ p \in buckets
              /\ IF done /\ best.size = -1
                 THEN GetPortFails(s)
                 ELSE /\ call' = [call EXCEPT ![s] =
                                    IF done THEN [best EXCEPT !.pc = "have_snum"] ELSE best]
                      /\ UNCHANGED <<rcv_saddr, port_lock>>
              /\ UNCHANGED <<table, inet_num, bind_hash>>
        /\ UNCHANGED <<sk_state, sk_reuse, daddr, hashed>>

\* Mutant: every restart has all the attempts.
AgainForever(s) == Entry(call[s].op, 0)

\* The port the search picked conflicts after all: whether to go again, and how.
Retry(s) == Shareable(s) /\ call[s].size # -1 /\ call[s].attempts > 0

Again(s) == [Entry(call[s].op, 0) EXCEPT !.attempts = call[s].attempts - 1]

\* The label have_snum: the port is known, its bucket lock is taken (again).
HaveSnum(s) ==
    LET c == call[s]
        p == c.snum
    IN  /\ c.pc = "have_snum"
        /\ \/ p \notin buckets /\ CreatePort(s, p)
           \/ /\ p \in buckets
              /\ Owners(p) # {} /\ fastreuse[p] > 0 /\ Shareable(s) /\ c.size = -1
              /\ Succeed(s, p)
              /\ UNCHANGED <<buckets, fastreuse>>
           \/ /\ p \in buckets
              /\ ~(Owners(p) # {} /\ fastreuse[p] > 0 /\ Shareable(s) /\ c.size = -1)
              /\ \/ ~inet_csk_bind_conflict(s, p) /\ TakePort(s, p)
                 \/ /\ inet_csk_bind_conflict(s, p)
                    /\ IF Retry(s)
                       THEN /\ call' = [call EXCEPT ![s] = Again(s)]
                            /\ UNCHANGED <<rcv_saddr, port_lock>>
                       ELSE GetPortFails(s)
                    /\ UNCHANGED <<table, inet_num, bind_hash>>
        /\ UNCHANGED <<sk_state, sk_reuse, daddr, hashed>>

\* inet_csk_listen_start after get_port: inet_hash, or back to CLOSE.
ListenHash(s) ==
    /\ call[s].pc = "hash"
    /\ hashed' = [hashed EXCEPT ![s] = "listening_hash"]
    /\ call' = [call EXCEPT ![s] = Idle]
    /\ UNCHANGED <<sk_state, sk_reuse, rcv_saddr, inet_num, daddr, port_lock,
                   bind_hash, table>>

Unlisten(s) ==
    /\ call[s].pc = "unlisten"
    /\ sk_state' = [sk_state EXCEPT ![s] = "CLOSE"]
    /\ call' = [call EXCEPT ![s] = Idle]
    /\ UNCHANGED <<sk_reuse, rcv_saddr, inet_num, daddr, port_lock, hashed,
                   bind_hash, table>>

-----------------------------------------------------------------------------
\* Connections.

\* INET_MATCH of an entry t of ehash against the identity (a, p, r) of s.
INET_MATCH(t, s, a, p, r) ==
    /\ hashed[t] = "ehash"
    /\ rcv_saddr[t] = a /\ bind_hash[t] = p /\ daddr[t] = r
    /\ bound_dev[t] \in {Wild, bound_dev[s]}

\* The source address routing selects for a socket without one.
Source(s) == IF rcv_saddr[s] = Wild THEN Addrs ELSE {rcv_saddr[s]}

\* The socket s enters ehash as SYN_SENT with local port p, replacing tw.
Connected(s, a, p, r, tw) ==
    /\ sk_state' = [t \in Socks |-> IF t = s THEN "SYN_SENT"
                                   ELSE IF t \in tw THEN "CLOSE" ELSE sk_state[t]]
    /\ hashed' = [t \in Socks |-> IF t = s THEN "ehash"
                                 ELSE IF t \in tw THEN "no" ELSE hashed[t]]
    /\ rcv_saddr' = [t \in Socks |-> IF t = s THEN a
                                    ELSE IF t \in tw THEN Wild ELSE rcv_saddr[t]]
    /\ daddr' = [t \in Socks |-> IF t = s THEN r ELSE IF t \in tw THEN Wild ELSE daddr[t]]
    /\ sk_reuse' = [t \in Socks |-> t \notin tw /\ sk_reuse[t]]
    /\ bind_hash' = [t \in Socks |-> IF t = s THEN p ELSE IF t \in tw THEN 0 ELSE bind_hash[t]]
    /\ inet_num' = [t \in Socks |-> IF t = s THEN p ELSE IF t \in tw THEN 0 ELSE inet_num[t]]
    /\ UNCHANGED <<port_lock, call>>

\* Mutant: only TIME_WAIT sockets are looked at.
CheckTimeWaitOnly(s, a, p, r) ==
    LET tw == {t \in Socks : INET_MATCH(t, s, a, p, r) /\ sk_state[t] = "TIME_WAIT"} IN
    \/ tw = {} /\ Connected(s, a, p, r, {})
    \/ \E t \in tw : Connected(s, a, p, r, {t})

\* __inet_check_established: the identity is free, or a TIME_WAIT socket holds it
\* and tcp_twsk_unique (timestamps, time) lets it be recycled.
check_established(s, a, p, r) ==
    LET matches == {t \in Socks : INET_MATCH(t, s, a, p, r)} IN
    \/ matches = {} /\ Connected(s, a, p, r, {})
    \/ \E t \in matches : sk_state[t] = "TIME_WAIT" /\ Connected(s, a, p, r, {t})

\* tcp_v4_connect on a socket without a port: a fresh bucket, or one that only
\* connect() created, provided the identity is unique.
ConnectAutomatic(s, a, r, p) ==
    /\ call[s] = Idle /\ sk_state[s] = "CLOSE" /\ inet_num[s] = 0
    /\ a \in Source(s)
    /\ p \in LocalRange \ Reserved
    /\ \/ /\ p \notin buckets
          /\ buckets' = buckets \cup {p}
          /\ fastreuse' = [fastreuse EXCEPT ![p] = -1]
          /\ Connected(s, a, p, r, {})
       \/ /\ p \in buckets /\ fastreuse[p] < 0
          /\ check_established(s, a, p, r)
          /\ UNCHANGED <<buckets, fastreuse>>
    /\ bsockets' = bsockets + 1
    /\ num_owners' = [num_owners EXCEPT ![p] = @ + 1]

\* tcp_v4_connect on a socket with a port: its only owner skips the check.
ConnectBound(s, a, r) ==
    LET p == bind_hash[s] IN
    /\ call[s] = Idle /\ sk_state[s] = "CLOSE" /\ inet_num[s] # 0
    /\ a \in Source(s)
    /\ \/ Owners(p) = {s} /\ Connected(s, a, p, r, {})
       \/ /\ Owners(p) # {s}
          /\ check_established(s, a, p, r)
    /\ UNCHANGED table

\* tcp_v4_connect failing before the socket is hashed, for want of a port or, with a
\* port of its own, because the identity is taken: the source address stays, and
\* tcp_set_state(CLOSE) gives up a port the user did not ask for.
ConnectFails(s, a, r) ==
    /\ call[s] = Idle /\ sk_state[s] = "CLOSE"
    /\ a \in Source(s)
    /\ inet_num[s] # 0 => \E t \in Socks : INET_MATCH(t, s, a, bind_hash[s], r)
    /\ rcv_saddr' = [rcv_saddr EXCEPT ![s] = a]
    /\ IF bind_hash[s] # 0 /\ ~port_lock[s] THEN inet_put_port(s)
       ELSE UNCHANGED <<inet_num, bind_hash, table>>
    /\ UNCHANGED <<sk_state, sk_reuse, daddr, port_lock, hashed, call>>

\* tcp_v4_syn_recv_sock: __inet_inherit_port, then __inet_hash_nolisten, which does
\* not look for another socket with this identity: only the lookup that chose the
\* listener did, before the listener was locked.  p is the port of the request,
\* another than the listener's when a segment was redirected to it.
inherit_port(l, c, a, p, r) ==
    /\ hashed[l] = "listening_hash" /\ call[l] = Idle
    /\ call[c] = Idle /\ sk_state[c] = "CLOSE" /\ inet_num[c] = 0
    /\ a \in Source(l)
    /\ bound_dev[c] = bound_dev[l]
    /\ \A t \in Socks : INET_MATCH(t, l, a, p, r) => LateSegments /\ sk_state[t] = "SYN_SENT"
    /\ buckets' = buckets \cup {p}
    /\ fastreuse' = IF p \in buckets THEN fastreuse ELSE [fastreuse EXCEPT ![p] = 0]
    /\ inet_bind_hash(c, p)
    /\ sk_state' = [sk_state EXCEPT ![c] = "SYN_RECV"]
    /\ hashed' = [hashed EXCEPT ![c] = "ehash"]
    /\ rcv_saddr' = [rcv_saddr EXCEPT ![c] = a]
    /\ daddr' = [daddr EXCEPT ![c] = r]
    /\ sk_reuse' = [sk_reuse EXCEPT ![c] = sk_reuse[l]]
    /\ UNCHANGED <<port_lock, call>>

\* tcp_done and the close of a listener: tcp_set_state(CLOSE).  The stale remote
\* address of a socket in no table is not kept.
tcp_set_state_CLOSE(s) ==
    /\ hashed[s] # "no" /\ sk_state[s] # "TIME_WAIT"
    /\ hashed' = [hashed EXCEPT ![s] = "no"]
    /\ sk_state' = [sk_state EXCEPT ![s] = "CLOSE"]
    /\ daddr' = [daddr EXCEPT ![s] = Wild]
    /\ IF port_lock[s] THEN UNCHANGED <<inet_num, bind_hash, table>> ELSE inet_put_port(s)
    /\ UNCHANGED <<sk_reuse, rcv_saddr, port_lock, call>>

\* A socket identity is new again.
Forget(s) ==
    /\ sk_state' = [sk_state EXCEPT ![s] = "CLOSE"]
    /\ hashed' = [hashed EXCEPT ![s] = "no"]
    /\ rcv_saddr' = [rcv_saddr EXCEPT ![s] = Wild]
    /\ daddr' = [daddr EXCEPT ![s] = Wild]
    /\ sk_reuse' = [sk_reuse EXCEPT ![s] = FALSE]
    /\ port_lock' = [port_lock EXCEPT ![s] = FALSE]
    /\ UNCHANGED call

\* close() of a socket that is in no table: tcp_v4_destroy_sock drops the port.
tcp_v4_destroy_sock(s) ==
    /\ call[s] = Idle /\ sk_state[s] = "CLOSE"
    /\ IF bind_hash[s] # 0 THEN inet_put_port(s)
       ELSE UNCHANGED <<inet_num, bind_hash, table>>
    /\ Forget(s)

\* tcp_time_wait of a connection nobody holds open: the TIME_WAIT socket takes its
\* place in ehash and in the bucket, and the connection is destroyed.
tcp_time_wait(s) ==
    /\ hashed[s] = "ehash" /\ sk_state[s] # "TIME_WAIT"
    /\ sk_state' = [sk_state EXCEPT ![s] = "TIME_WAIT"]
    /\ port_lock' = [port_lock EXCEPT ![s] = FALSE]
    /\ num_owners' = [num_owners EXCEPT ![bind_hash[s]] = @ - 1]
    /\ bsockets' = bsockets - 1
    /\ UNCHANGED <<sk_reuse, rcv_saddr, inet_num, daddr, hashed, bind_hash, buckets,
                   fastreuse, call>>

\* ... and of one the user still has open: t is the TIME_WAIT socket, and tcp_done
\* leaves s closed, with its port only if the user asked for that port.
TimeWaitOpen(s, t) ==
    LET p == bind_hash[s] IN
    /\ hashed[s] = "ehash" /\ sk_state[s] # "TIME_WAIT"
    /\ call[t] = Idle /\ sk_state[t] = "CLOSE" /\ inet_num[t] = 0
    /\ bound_dev[t] = bound_dev[s]
    /\ sk_state' = [sk_state EXCEPT ![s] = "CLOSE", ![t] = "TIME_WAIT"]
    /\ hashed' = [hashed EXCEPT ![s] = "no", ![t] = "ehash"]
    /\ rcv_saddr' = [rcv_saddr EXCEPT ![t] = rcv_saddr[s]]
    /\ daddr' = [daddr EXCEPT ![s] = Wild, ![t] = daddr[s]]
    /\ sk_reuse' = [sk_reuse EXCEPT ![t] = sk_reuse[s]]
    /\ bind_hash' = [bind_hash EXCEPT ![s] = IF port_lock[s] THEN p ELSE 0, ![t] = p]
    /\ inet_num' = [inet_num EXCEPT ![s] = IF port_lock[s] THEN p ELSE 0, ![t] = p]
    /\ num_owners' = [num_owners EXCEPT ![p] = IF port_lock[s] THEN @ ELSE @ - 1]
    /\ bsockets' = IF port_lock[s] THEN bsockets ELSE bsockets - 1
    /\ UNCHANGED <<port_lock, buckets, fastreuse, call>>

\* inet_twsk_kill: the last owner of a bucket destroys it.
TimeWaitEnds(s) ==
    LET p == bind_hash[s] IN
    /\ sk_state[s] = "TIME_WAIT"
    /\ inet_num' = [inet_num EXCEPT ![s] = 0]
    /\ bind_hash' = [bind_hash EXCEPT ![s] = 0]
    /\ buckets' = IF Owners(p) = {s} THEN buckets \ {p} ELSE buckets
    /\ fastreuse' = IF Owners(p) = {s} THEN [fastreuse EXCEPT ![p] = 0] ELSE fastreuse
    /\ UNCHANGED <<num_owners, bsockets>>
    /\ Forget(s)

\* setsockopt(SO_REUSEADDR), at any time the socket lock is free.
SetReuse(s, b) ==
    /\ call[s] = Idle /\ sk_state[s] # "TIME_WAIT"
    /\ b # sk_reuse[s]
    /\ sk_reuse' = [sk_reuse EXCEPT ![s] = b]
    /\ UNCHANGED <<sk_state, rcv_saddr, inet_num, daddr, port_lock, hashed, bind_hash,
                   table, call>>

-----------------------------------------------------------------------------
CallStep(s) ==
    \/ \E p \in LocalRange : SearchPort(s, p)
    \/ HaveSnum(s) \/ ListenHash(s) \/ Unlisten(s)

SocketStep(s) ==
    \/ \E a \in Addrs \cup {Wild}, p \in Ports \cup {0} : inet_bind(s, a, p)
    \/ inet_csk_listen_start(s)
    \/ \E a \in Addrs, r \in Remotes :
          \/ \E p \in LocalRange : ConnectAutomatic(s, a, r, p)
          \/ ConnectBound(s, a, r)
          \/ ConnectFails(s, a, r)
    \/ \E c \in Socks \ {s}, a \in Addrs, p \in Ports, r \in Remotes :
          inherit_port(s, c, a, p, r)
    \/ tcp_set_state_CLOSE(s)
    \/ tcp_v4_destroy_sock(s)
    \/ tcp_time_wait(s)
    \/ \E t \in Socks \ {s} : TimeWaitOpen(s, t)
    \/ TimeWaitEnds(s)
    \/ \E b \in BOOLEAN : SetReuse(s, b)

Next == \E s \in Socks : CallStep(s) \/ SocketStep(s)

Spec == Init /\ [][Next]_vars

\* A thread inside a system call runs on.
FairSpec == Spec /\ \A s \in Socks : WF_vars(CallStep(s))

-----------------------------------------------------------------------------
Calls == [op : {"none", "bind", "listen"},
          pc : {"idle", "search", "have_snum", "hash", "unlisten"},
          snum : Ports \cup {0}, left : SUBSET LocalRange, size : Int, attempts : 0..Attempts]

\* Every variable has its type; the search of inet_csk_get_port never counts its
\* attempts below zero.
TypeOK ==
    /\ sk_state \in [Socks -> {"CLOSE", "LISTEN", "SYN_SENT", "SYN_RECV", "TIME_WAIT"}]
    /\ sk_reuse \in [Socks -> BOOLEAN]
    /\ rcv_saddr \in [Socks -> Addrs \cup {Wild}]
    /\ inet_num \in [Socks -> Ports \cup {0}]
    /\ daddr \in [Socks -> Remotes \cup {Wild}]
    /\ port_lock \in [Socks -> BOOLEAN]
    /\ hashed \in [Socks -> {"no", "listening_hash", "ehash"}]
    /\ bind_hash \in [Socks -> Ports \cup {0}]
    /\ buckets \subseteq Ports
    /\ fastreuse \in [Ports -> -1..1]
    /\ num_owners \in [Ports -> Int]
    /\ bsockets \in Int
    /\ call \in [Socks -> Calls]

\* The bookkeeping of the bind hash agrees with the sockets: a bucket exists exactly
\* while it has owners (TIME_WAIT sockets included), num_owners and bsockets count
\* the owners that are full sockets, every hashed socket owns its port, and get_port
\* can only return the bucket the socket already owns, which is what the
\* WARN_ON(icsk_bind_hash != tb) at the end of inet_csk_get_port relies on.
Full(p) == {s \in Owners(p) : sk_state[s] # "TIME_WAIT"}

BucketsExact ==
    /\ \A p \in Ports : /\ p \in buckets <=> Owners(p) # {}
                        /\ num_owners[p] = Cardinality(Full(p))
    /\ bsockets = Cardinality(UNION {Full(p) : p \in Ports})
    /\ \A s \in Socks :
         /\ inet_num[s] = bind_hash[s]
         /\ hashed[s] # "no" => bind_hash[s] # 0
         /\ call[s].pc \in {"search", "have_snum"} /\ bind_hash[s] # 0
              => call[s].pc = "have_snum" /\ call[s].snum = bind_hash[s]

\* listen() marks the socket LISTEN before its port is validated; even so, never are
\* two listeners that overlap in address and device found by lookups of one port.
OneListener ==
    \A s, t \in Socks :
        /\ s # t /\ hashed[s] = "listening_hash" /\ hashed[t] = "listening_hash"
        /\ bind_hash[s] = bind_hash[t]
        => ~(SameDev(s, t) /\ SameAddr(s, t))

\* The cached answer tb->fastreuse is never stale about listeners: while it lets
\* bind() (> 0) or connect() (< 0) take the port without looking at the owners,
\* no owner is a hashed listener.
FastreuseSound ==
    \A s \in Socks : hashed[s] = "listening_hash" => fastreuse[bind_hash[s]] = 0

\* No two entries of ehash have the same identity, although a sole owner skips the
\* check and other owners of a port check without its bucket lock.
UniqueIdentity ==
    \A s, t \in Socks :
        /\ s # t /\ hashed[s] = "ehash" /\ hashed[t] = "ehash"
        /\ <<rcv_saddr[s], bind_hash[s], daddr[s]>> = <<rcv_saddr[t], bind_hash[t], daddr[t]>>
        => bound_dev[s] # bound_dev[t]

\* bind() and listen() return: the search of inet_csk_get_port starts again only a
\* bounded number of times, whatever other sockets do to the bucket it picked.
CallsReturn == \A s \in Socks : call[s] # Idle ~> call[s] = Idle

=============================================================================
