-------------------------- MODULE PortTableProofs --------------------------
(***************************************************************************)
(* For any sockets, ports, addresses and devices: overlapping listeners    *)
(* never share a port, fastreuse never hides a listener, the buckets and   *)
(* their counters agree with the sockets, and no two connections have one  *)
(* identity.                                                               *)
(***************************************************************************)
EXTENDS PortTable, FiniteSetTheorems, TLAPS

\* A listener whose port get_port has validated, hashed already or about to be.
Validated(s) == call[s].pc = "hash" \/ hashed[s] = "listening_hash"

\* Where a call is agrees with the state of its socket.
CallOk(s) ==
    /\ call[s].pc = "idle" <=> call[s] = Idle
    /\ call[s] # Idle => hashed[s] = "no"
    /\ call[s].op = "listen" => sk_state[s] = "LISTEN"
    /\ call[s].pc = "hash" => call[s].op = "listen"
    /\ call[s].pc = "search" => bind_hash[s] = 0 /\ (call[s].size # -1 => call[s].snum \in Ports)
    /\ call[s].pc = "have_snum" => /\ call[s].snum \in Ports
                                   /\ bind_hash[s] \in {0, call[s].snum}
                                   /\ call[s].size # -1 => bind_hash[s] = 0
    /\ inet_num[s] = bind_hash[s]

CallShape == \A s \in Socks : CallOk(s)

\* An owned port has a bucket, a hashed socket owns a port, and a validated
\* listener is in LISTEN on a port that is not open to fast sharing.
OwnedOk(s) ==
    /\ bind_hash[s] # 0 => bind_hash[s] \in buckets
    /\ hashed[s] # "no" => bind_hash[s] # 0 /\ sk_state[s] # "CLOSE"
    /\ sk_state[s] = "TIME_WAIT" => hashed[s] = "ehash"
    /\ Validated(s) => /\ sk_state[s] = "LISTEN"
                       /\ bind_hash[s] # 0
                       /\ fastreuse[bind_hash[s]] = 0

Owned == \A s \in Socks : OwnedOk(s)

\* Validated listeners of one port do not overlap.
Overlap(s, t) == bind_hash[s] = bind_hash[t] /\ SameDev(s, t) /\ SameAddr(s, t)

Apart == \A s, t \in Socks : s # t /\ Validated(s) /\ Validated(t) => ~Overlap(s, t)

IInv == TypeOK /\ CallShape /\ Owned /\ Apart

-----------------------------------------------------------------------------
\* The initial state satisfies the invariant.
LEMMA InitInvariant == Init => IInv
  <1> SUFFICES ASSUME Init PROVE IInv
    BY Zenon
  <1>0. Idle \in Calls /\ Idle.pc = "idle" /\ Idle.op = "none"
    BY PortConstants DEF Idle, At, Calls
  <1>1. TypeOK
    BY <1>0, PortConstants DEF Init, TypeOK
  <1>2. CallShape /\ Owned /\ Apart
    BY Zenon, <1>0 DEF Init, CallShape, CallOk, Owned, OwnedOk, Apart, Validated
  <1> QED BY Zenon, <1>1, <1>2 DEF IInv

\* A fresh call of inet_csk_get_port.
LEMMA EntryShape ==
    ASSUME NEW op \in {"bind", "listen"}, NEW p \in Ports \cup {0}
    PROVE  /\ Entry(op, p) \in Calls /\ Entry(op, p).op = op
           /\ Entry(op, p).pc = (IF p = 0 THEN "search" ELSE "have_snum")
           /\ Entry(op, p).snum = p /\ Entry(op, p).size = -1
           /\ Entry(op, p) # Idle
  BY PortConstants DEF Entry, Calls, Idle, At

\* A step leaves t alone, with its bucket and, for a listener, its fastreuse.
Undisturbed(t) ==
    /\ sk_state'[t] = sk_state[t] /\ rcv_saddr'[t] = rcv_saddr[t]
    /\ inet_num'[t] = inet_num[t] /\ hashed'[t] = hashed[t]
    /\ bind_hash'[t] = bind_hash[t] /\ call'[t] = call[t]
    /\ bind_hash[t] # 0 => bind_hash[t] \in buckets'
    /\ Validated(t) => fastreuse'[bind_hash[t]] = 0

\* A step leaves s in order; if it validates s, no validated listener overlaps s.
InOrder(s) ==
    /\ CallOk(s)' /\ OwnedOk(s)'
    /\ Validated(s)' =>
          \/ Validated(s) /\ rcv_saddr'[s] = rcv_saddr[s] /\ bind_hash'[s] = bind_hash[s]
          \/ \A t \in Socks \ {s} : Validated(t)' => ~Overlap(s, t)'

\* A step that changes the sockets of C only, and leaves them in order, keeps the
\* invariant.
LEMMA StepKeeps ==
    ASSUME IInv, TypeOK', NEW C \in SUBSET Socks,
           \A t \in Socks \ C : Undisturbed(t),
           \A s \in C : InOrder(s)
    PROVE  IInv'
  <1>1. CallShape'
    BY DEF IInv, CallShape, CallOk, Undisturbed, InOrder
  <1>2. Owned'
    BY DEF IInv, Owned, OwnedOk, Validated, Undisturbed, InOrder
  <1>3. Apart'
    <2> SUFFICES ASSUME NEW s \in Socks, NEW t \in Socks, s # t, Validated(s)', Validated(t)'
                 PROVE  ~Overlap(s, t)'
      BY Zenon DEF Apart
    <2> DEFINE Old(x) == /\ Validated(x) /\ rcv_saddr'[x] = rcv_saddr[x]
                         /\ bind_hash'[x] = bind_hash[x]
    <2>1. \A x \in Socks \ C : Validated(x)' => Old(x)
      BY Zenon DEF Validated, Undisturbed
    <2>2. CASE Old(s) /\ Old(t)
      BY Zenon, <2>2 DEF IInv, Apart, Overlap, SameDev, SameAddr
    <2>3. CASE ~Old(s)
      BY Zenon, <2>1, <2>3 DEF InOrder
    <2>4. CASE ~Old(t)
      <3>1. ~Overlap(t, s)'
        BY Zenon, <2>1, <2>4 DEF InOrder
      <3> QED BY Zenon, <3>1 DEF Overlap, SameDev, SameAddr
    <2> QED BY Zenon, <2>2, <2>3, <2>4
  <1> QED BY Zenon, <1>1, <1>2, <1>3 DEF IInv

\* The case of a single socket.
LEMMA OneStepKeeps ==
    ASSUME IInv, TypeOK', NEW s \in Socks, InOrder(s),
           \A t \in Socks \ {s} : Undisturbed(t)
    PROVE  IInv'
  <1>1. {s} \in SUBSET Socks /\ \A x \in {s} : InOrder(x)
    BY Zenon
  <1> QED BY ZenonT(40), <1>1, StepKeeps

\* inet_bind enters get_port without touching the table.
LEMMA BindKeeps ==
    ASSUME IInv, NEW s \in Socks, NEW a \in Addrs \cup {Wild}, NEW p \in Ports \cup {0},
           inet_bind(s, a, p)
    PROVE  IInv'
  <1> DEFINE e == Entry("bind", p)
  <1>1. /\ e \in Calls /\ e.op = "bind" /\ e.pc = (IF p = 0 THEN "search" ELSE "have_snum")
        /\ e.snum = p /\ e.size = -1 /\ e # Idle
    BY Zenon, EntryShape
  <1>2. call' = [call EXCEPT ![s] = e]
    BY Zenon DEF inet_bind
  <1> HIDE DEF e
  <1>3. TypeOK'
    BY <1>1, <1>2 DEF IInv, TypeOK, inet_bind, table
  <1>4. InOrder(s)
    BY <1>1, <1>2, PortConstants
    DEF IInv, TypeOK, CallShape, CallOk, Owned, OwnedOk, Validated, InOrder, inet_bind, table
  <1>5. \A t \in Socks \ {s} : Undisturbed(t)
    BY <1>2 DEF IInv, TypeOK, Owned, OwnedOk, Undisturbed, inet_bind, table
  <1> QED BY Zenon, <1>3, <1>4, <1>5, OneStepKeeps

\* listen() enters get_port already in LISTEN.
LEMMA ListenStartKeeps ==
    ASSUME IInv, NEW s \in Socks, inet_csk_listen_start(s)
    PROVE  IInv'
  <1> DEFINE e == Entry("listen", inet_num[s])
  <1>1. /\ e \in Calls /\ e.op = "listen" /\ e.snum = inet_num[s] /\ e.size = -1
        /\ e # Idle
        /\ e.pc = (IF inet_num[s] = 0 THEN "search" ELSE "have_snum")
    BY EntryShape DEF IInv, TypeOK
  <1>2. call' = [call EXCEPT ![s] = e]
    BY Zenon DEF inet_csk_listen_start
  <1> HIDE DEF e
  <1>3. TypeOK'
    BY <1>1, <1>2 DEF IInv, TypeOK, inet_csk_listen_start, table
  <1>4. InOrder(s)
    <2>1. ~Validated(s) /\ hashed[s] = "no" /\ bind_hash[s] = inet_num[s]
      BY Zenon DEF CallShape, CallOk, inet_csk_listen_start, IInv, Owned, OwnedOk
    <2> QED BY <1>1, <1>2, <2>1, PortConstants
        DEF IInv, TypeOK, CallShape, CallOk, Owned, OwnedOk, Validated, InOrder,
            inet_csk_listen_start, table
  <1>5. \A t \in Socks \ {s} : Undisturbed(t)
    BY <1>2 DEF IInv, TypeOK, Owned, OwnedOk, Undisturbed, inet_csk_listen_start, table
  <1> QED BY Zenon, <1>3, <1>4, <1>5, OneStepKeeps

\* The records a call of get_port ends with.
LEMMA DoneShape ==
    /\ Idle \in Calls /\ Idle.pc = "idle" /\ Idle.op = "none"
    /\ \A pc \in {"hash", "unlisten"} :
          LET c == At("listen", pc) IN
          c \in Calls /\ c # Idle /\ c.op = "listen" /\ c.pc = pc
  BY PortConstants DEF Idle, At, Calls

\* A failing get_port changes the call and, for bind(), the address it tried.
LEMMA FailKeeps ==
    ASSUME IInv, NEW s \in Socks, call[s].pc \in {"search", "have_snum"}, GetPortFails(s),
           UNCHANGED <<sk_state, sk_reuse, daddr, hashed, table, inet_num, bind_hash>>
    PROVE  IInv'
  <1>1. call[s] # Idle
    BY Zenon DEF IInv, CallShape, CallOk
  <1>2. TypeOK'
    BY ZenonT(40), DoneShape DEF IInv, TypeOK, GetPortFails, table
  <1>3. InOrder(s)
    BY DoneShape, <1>1 DEF IInv, TypeOK, CallShape, CallOk, Owned, OwnedOk, Validated,
       InOrder, GetPortFails, table
  <1>4. \A t \in Socks \ {s} : Undisturbed(t)
    BY DEF IInv, TypeOK, Owned, OwnedOk, Undisturbed, GetPortFails, table
  <1> QED BY Zenon, <1>2, <1>3, <1>4, OneStepKeeps

\* What success does to the socket, in either way it is reached.
LEMMA SucceedShape ==
    ASSUME IInv, NEW s \in Socks, NEW p \in Ports, bind_hash[s] \in {0, p}, Succeed(s, p)
    PROVE  /\ bind_hash' = [bind_hash EXCEPT ![s] = p]
           /\ inet_num' = [inet_num EXCEPT ![s] = p]
           /\ rcv_saddr' = rcv_saddr /\ port_lock' = port_lock
           /\ num_owners' \in [Ports -> Int] /\ bsockets' \in Int
           /\ \/ call[s].op = "listen" /\ call' = [call EXCEPT ![s] = At("listen", "hash")]
              \/ call[s].op # "listen" /\ call' = [call EXCEPT ![s] = Idle]
  <1>1. CASE bind_hash[s] = 0
    <2>1. inet_bind_hash(s, p) /\ GetPortReturns(s) /\ UNCHANGED <<rcv_saddr, port_lock>>
      BY Zenon, <1>1 DEF Succeed
    <2>2. num_owners' \in [Ports -> Int] /\ bsockets' \in Int
      BY <2>1 DEF IInv, TypeOK, inet_bind_hash
    <2>3. \/ call[s].op = "listen" /\ call' = [call EXCEPT ![s] = At("listen", "hash")]
          \/ call[s].op # "listen" /\ call' = [call EXCEPT ![s] = Idle]
      BY ZenonT(40), <2>1 DEF IInv, TypeOK, GetPortReturns
    <2> QED BY Zenon, <2>1, <2>2, <2>3 DEF inet_bind_hash
  <1>2. CASE bind_hash[s] # 0
    <2>1. bind_hash[s] = p /\ inet_num[s] = p
      BY Zenon, <1>2 DEF IInv, CallShape, CallOk
    <2> QED BY ZenonT(40), <1>2, <2>1 DEF IInv, TypeOK, Succeed, GetPortReturns
  <1> QED BY Zenon, <1>1, <1>2

\* The slow way to a port: no owner conflicts, and fastreuse is settled.
LEMMA TakeKeeps ==
    ASSUME IInv, NEW s \in Socks, NEW p \in Ports, call[s].pc \in {"search", "have_snum"},
           bind_hash[s] \in {0, p}, ~inet_csk_bind_conflict(s, p), TakePort(s, p),
           UNCHANGED <<sk_state, sk_reuse, daddr, hashed>>
    PROVE  IInv'
  <1>1. /\ bind_hash' = [bind_hash EXCEPT ![s] = p]
        /\ inet_num' = [inet_num EXCEPT ![s] = p]
        /\ rcv_saddr' = rcv_saddr /\ port_lock' = port_lock
        /\ num_owners' \in [Ports -> Int] /\ bsockets' \in Int
        /\ \/ call[s].op = "listen" /\ call' = [call EXCEPT ![s] = At("listen", "hash")]
           \/ call[s].op # "listen" /\ call' = [call EXCEPT ![s] = Idle]
    BY Zenon, SucceedShape DEF TakePort
  <1>2. /\ buckets' = buckets \cup {p} /\ Fastreuse(s, p) \in -1..1
        /\ fastreuse' = [fastreuse EXCEPT ![p] = Fastreuse(s, p)]
    BY DEF TakePort, Fastreuse, IInv, TypeOK
  <1>3. TypeOK'
    BY Zenon, <1>1, <1>2, DoneShape DEF IInv, TypeOK
  <1>4. /\ call[s] # Idle /\ hashed[s] = "no"
        /\ call[s].op = "listen" => sk_state[s] = "LISTEN"
    BY Zenon DEF IInv, CallShape, CallOk
  <1>5. \A t \in Socks \ {s} : Undisturbed(t)
    <2> SUFFICES ASSUME NEW t \in Socks \ {s} PROVE Undisturbed(t)
      BY Zenon
    <2>1. Validated(t) /\ bind_hash[t] = p => Fastreuse(s, p) = 0
      BY Zenon DEF Fastreuse, Owners, IInv, Owned, OwnedOk
    <2> QED BY Zenon, <1>1, <1>2, <2>1 DEF IInv, TypeOK, Owned, OwnedOk, Undisturbed
  <1>6. InOrder(s)
    <2>1. CallOk(s)'
      BY Zenon, <1>1, <1>4, DoneShape DEF IInv, TypeOK, CallOk
    <2>2. call[s].op = "listen" => Fastreuse(s, p) = 0
      BY Zenon, <1>4 DEF Fastreuse, Shareable
    <2>3. Validated(s)' => call[s].op = "listen"
      BY Zenon, <1>1, <1>4, DoneShape DEF IInv, TypeOK, Validated
    <2>4. OwnedOk(s)'
      BY <1>1, <1>2, <1>4, <2>2, <2>3, PortConstants DEF IInv, TypeOK, Owned, OwnedOk
    <2>5. ASSUME NEW t \in Socks \ {s}, Validated(t)' PROVE ~Overlap(s, t)'
      <3>1. Validated(t) /\ sk_state[t] = "LISTEN" /\ bind_hash'[t] = bind_hash[t]
        BY <1>5, <2>5 DEF Undisturbed, Validated, IInv, Owned, OwnedOk
      <3>2. bind_hash[t] = p => ~(SameDev(s, t) /\ SameAddr(s, t))
        BY Zenon, <3>1 DEF inet_csk_bind_conflict, Owners, Conflicts
      <3> QED BY ZenonT(30), <1>1, <3>1, <3>2 DEF Overlap, SameDev, SameAddr, IInv, TypeOK
    <2> QED BY Zenon, <2>1, <2>4, <2>5 DEF InOrder
  <1> QED BY Zenon, <1>3, <1>5, <1>6, OneStepKeeps

\* The fast way to a port is not for listeners, and finds the bucket in place.
LEMMA FastKeeps ==
    ASSUME IInv, NEW s \in Socks, NEW p \in Ports, call[s].pc = "have_snum",
           bind_hash[s] \in {0, p}, p \in buckets, Shareable(s), Succeed(s, p),
           UNCHANGED <<sk_state, sk_reuse, daddr, hashed, buckets, fastreuse>>
    PROVE  IInv'
  <1>1. /\ call[s] # Idle /\ hashed[s] = "no" /\ call[s].op # "listen"
    BY Zenon DEF IInv, CallShape, CallOk, Shareable
  <1>2. /\ bind_hash' = [bind_hash EXCEPT ![s] = p]
        /\ inet_num' = [inet_num EXCEPT ![s] = p]
        /\ rcv_saddr' = rcv_saddr /\ port_lock' = port_lock
        /\ num_owners' \in [Ports -> Int] /\ bsockets' \in Int
        /\ call' = [call EXCEPT ![s] = Idle]
    BY Zenon, SucceedShape, <1>1
  <1>3. TypeOK'
    BY Zenon, <1>2, DoneShape DEF IInv, TypeOK
  <1>4. InOrder(s)
    BY <1>1, <1>2, DoneShape DEF IInv, TypeOK, CallShape, CallOk, Owned, OwnedOk, Validated, InOrder
  <1>5. \A t \in Socks \ {s} : Undisturbed(t)
    BY Zenon, <1>2 DEF IInv, TypeOK, Owned, OwnedOk, Undisturbed
  <1> QED BY Zenon, <1>3, <1>4, <1>5, OneStepKeeps

\* A port without a bucket has no owner, so its creation conflicts with nobody.
LEMMA CreateKeeps ==
    ASSUME IInv, NEW s \in Socks, NEW p \in Ports, call[s].pc \in {"search", "have_snum"},
           bind_hash[s] \in {0, p}, p \notin buckets, CreatePort(s, p),
           UNCHANGED <<sk_state, sk_reuse, daddr, hashed>>
    PROVE  IInv'
  <1>1. ~inet_csk_bind_conflict(s, p)
    BY Zenon, PortConstants DEF inet_csk_bind_conflict, Owners, IInv, Owned, OwnedOk
  <1>2. CASE TakePort(s, p)
    BY Zenon, <1>1, <1>2, TakeKeeps
  <1>3. CASE GetPortFails(s) /\ UNCHANGED <<table, inet_num, bind_hash>>
    BY Zenon, <1>3, FailKeeps
  <1> QED BY Zenon, <1>2, <1>3 DEF CreatePort

\* One port of the search.
LEMMA SearchKeeps ==
    ASSUME IInv, NEW s \in Socks, NEW p \in LocalRange, SearchPort(s, p)
    PROVE  IInv'
  <1> DEFINE c == call[s]
             rest == c.left \ {p}
             better == /\ p \notin Reserved /\ p \in buckets
                       /\ fastreuse[p] > 0 /\ Shareable(s)
                       /\ c.size = -1 \/ num_owners[p] < c.size
             best == IF better THEN [c EXCEPT !.snum = p, !.size = num_owners[p], !.left = rest]
                     ELSE [c EXCEPT !.left = rest]
             done == rest = {} \/ (better /\ bsockets > Cardinality(LocalRange))
             next == IF done THEN [best EXCEPT !.pc = "have_snum"] ELSE best
  <1>0. p \in Ports /\ c.pc = "search" /\ bind_hash[s] = 0 /\ c \in Calls /\ c # Idle
    BY Zenon, PortConstants DEF SearchPort, IInv, TypeOK, CallShape, CallOk
  <1>1. CASE p \notin buckets /\ CreatePort(s, p) /\ UNCHANGED <<sk_state, sk_reuse, daddr, hashed>>
    BY Zenon, <1>0, <1>1, CreateKeeps
  <1>2. CASE GetPortFails(s) /\ UNCHANGED <<sk_state, sk_reuse, daddr, hashed, table, inet_num, bind_hash>>
    BY Zenon, <1>0, <1>2, FailKeeps
  <1>3. CASE /\ call' = [call EXCEPT ![s] = next] /\ ~(done /\ best.size = -1)
             /\ UNCHANGED <<rcv_saddr, port_lock, sk_state, sk_reuse, daddr, hashed, table,
                            inet_num, bind_hash>>
    <2>1. num_owners[p] \in Int /\ (c.size # -1 => c.snum \in Ports)
      BY Zenon, <1>0 DEF IInv, TypeOK, CallShape, CallOk
    <2> HIDE DEF c
    <2>a. /\ best \in Calls /\ best.op = c.op /\ best.pc = "search"
          /\ best.size # -1 => best.snum \in Ports
      BY ZenonT(40), <1>0, <2>1 DEF Calls
    <2> HIDE DEF best, done
    <2>b. /\ next \in Calls /\ next.op = c.op /\ next.pc \in {"search", "have_snum"}
          /\ next.size # -1 => next.snum \in Ports
          /\ next.pc = "have_snum" => next.snum \in Ports
      BY Zenon, <2>a, <1>3 DEF Calls
    <2> USE DEF c
    <2> HIDE DEF next
    <2>2. next # Idle
      BY Zenon, <2>b, DoneShape
    <2>3. TypeOK'
      BY Zenon, <1>3, <2>b DEF IInv, TypeOK, table
    <2>4. InOrder(s)
      BY <1>0, <1>3, <2>b, <2>2, PortConstants DEF IInv, TypeOK, CallShape, CallOk, Owned, OwnedOk,
         Validated, InOrder, table
    <2>5. \A t \in Socks \ {s} : Undisturbed(t)
      BY Zenon, <1>3 DEF IInv, TypeOK, Owned, OwnedOk, Undisturbed, table
    <2> QED BY Zenon, <2>3, <2>4, <2>5, OneStepKeeps
  <1> QED BY Zenon, <1>1, <1>2, <1>3 DEF SearchPort

\* The critical section of a known port.
LEMMA HaveSnumKeeps ==
    ASSUME IInv, NEW s \in Socks, HaveSnum(s)
    PROVE  IInv'
  <1> DEFINE c == call[s]
             p == c.snum
  <1>0. c.pc = "have_snum" /\ p \in Ports /\ bind_hash[s] \in {0, p} /\ c # Idle /\ c \in Calls
    BY ZenonT(30) DEF HaveSnum, IInv, TypeOK, CallShape, CallOk
  <1>u. UNCHANGED <<sk_state, sk_reuse, daddr, hashed>>
    BY ZenonT(40) DEF HaveSnum
  <1>1. CASE p \notin buckets /\ CreatePort(s, p)
    BY Zenon, <1>0, <1>u, <1>1, CreateKeeps
  <1>2. CASE /\ p \in buckets /\ Shareable(s) /\ Succeed(s, p)
             /\ UNCHANGED <<buckets, fastreuse>>
    BY Zenon, <1>0, <1>u, <1>2, FastKeeps
  <1>3. CASE ~inet_csk_bind_conflict(s, p) /\ TakePort(s, p)
    BY Zenon, <1>0, <1>u, <1>3, TakeKeeps
  <1>4. CASE /\ Retry(s) /\ call' = [call EXCEPT ![s] = Again(s)]
             /\ UNCHANGED <<rcv_saddr, port_lock, table, inet_num, bind_hash>>
             /\ c.size # -1
    <2> DEFINE e == Again(s)
    <2>1. /\ e \in Calls /\ e.op = c.op /\ e.pc = "search" /\ e.size = -1
      BY <1>0, <1>4, PortConstants DEF Retry, Again, Entry, Calls
    <2>2. bind_hash[s] = 0
      BY Zenon, <1>0, <1>4 DEF IInv, CallShape, CallOk
    <2>6. call' = [call EXCEPT ![s] = e]
      BY Zenon, <1>4
    <2> HIDE DEF e
    <2>3. TypeOK'
      BY Zenon, <1>4, <1>u, <2>1, <2>6 DEF IInv, TypeOK, table
    <2>4. InOrder(s)
      BY <1>0, <1>u, <1>4, <2>1, <2>2, <2>6, DoneShape, PortConstants
      DEF IInv, TypeOK, CallShape, CallOk, Owned, OwnedOk, Validated, InOrder, table
    <2>5. \A t \in Socks \ {s} : Undisturbed(t)
      BY ZenonT(30), <1>4, <1>u, <2>6 DEF IInv, TypeOK, Owned, OwnedOk, Undisturbed, table
    <2> QED BY Zenon, <2>3, <2>4, <2>5, OneStepKeeps
  <1>5. CASE GetPortFails(s) /\ UNCHANGED <<table, inet_num, bind_hash>>
    BY ZenonT(40), <1>0, <1>u, <1>5, FailKeeps
  <1> QED BY Zenon, <1>1, <1>2, <1>3, <1>4, <1>5 DEF HaveSnum, Retry

\* listen() after get_port: the validated listener is hashed, the other one closes.
LEMMA ListenEndKeeps ==
    ASSUME IInv, NEW s \in Socks, ListenHash(s) \/ Unlisten(s)
    PROVE  IInv'
  <1>1. CASE ListenHash(s)
    <2>1. TypeOK'
      BY Zenon, <1>1, DoneShape DEF IInv, TypeOK, ListenHash, table
    <2>2. InOrder(s)
      BY <1>1, DoneShape DEF IInv, TypeOK, CallShape, CallOk, Owned, OwnedOk, Validated, InOrder,
         ListenHash, table
    <2>3. \A t \in Socks \ {s} : Undisturbed(t)
      BY Zenon, <1>1 DEF IInv, TypeOK, Owned, OwnedOk, Undisturbed, ListenHash, table
    <2> QED BY Zenon, <2>1, <2>2, <2>3, OneStepKeeps
  <1>2. CASE Unlisten(s)
    <2>1. TypeOK'
      BY ZenonT(30), <1>2, DoneShape DEF IInv, TypeOK, Unlisten, table
    <2>2. InOrder(s)
      BY <1>2, DoneShape DEF IInv, TypeOK, CallShape, CallOk, Owned, OwnedOk, Validated, InOrder,
         Unlisten, table
    <2>3. \A t \in Socks \ {s} : Undisturbed(t)
      BY Zenon, <1>2 DEF IInv, TypeOK, Owned, OwnedOk, Undisturbed, Unlisten, table
    <2> QED BY Zenon, <2>1, <2>2, <2>3, OneStepKeeps
  <1> QED BY Zenon, <1>1, <1>2

\* Giving a port up leaves the buckets of other owners.
LEMMA PutShape ==
    ASSUME IInv, NEW s \in Socks, bind_hash[s] # 0, inet_put_port(s)
    PROVE  /\ bind_hash' = [bind_hash EXCEPT ![s] = 0]
           /\ inet_num' = [inet_num EXCEPT ![s] = 0]
           /\ num_owners' \in [Ports -> Int] /\ bsockets' \in Int
           /\ buckets' \subseteq Ports /\ fastreuse' \in [Ports -> -1..1]
           /\ \A t \in Socks \ {s} :
                 /\ bind_hash[t] # 0 => bind_hash[t] \in buckets'
                 /\ bind_hash[t] # 0 => fastreuse'[bind_hash[t]] = fastreuse[bind_hash[t]]
  <1>1. bind_hash[s] \in Ports
    BY Zenon DEF IInv, TypeOK
  <1>2. num_owners' \in [Ports -> Int] /\ bsockets' \in Int
    BY <1>1 DEF IInv, TypeOK, inet_put_port
  <1>3. CASE Owners(bind_hash[s]) = {s}
    BY <1>1, <1>2, <1>3 DEF IInv, TypeOK, Owned, OwnedOk, Owners, inet_put_port
  <1>4. CASE Owners(bind_hash[s]) # {s}
    BY Zenon, <1>1, <1>2, <1>4 DEF IInv, TypeOK, Owned, OwnedOk, inet_put_port
  <1> QED BY Zenon, <1>3, <1>4

\* A socket that connects, and the TIME_WAIT sockets it recycles, are no listeners.
LEMMA ConnectedKeeps ==
    ASSUME IInv, NEW s \in Socks, NEW a \in Addrs, NEW p \in Ports, NEW r \in Remotes,
           NEW tw \in SUBSET Socks, \A t \in tw : sk_state[t] = "TIME_WAIT",
           call[s] = Idle, sk_state[s] = "CLOSE", Connected(s, a, p, r, tw),
           num_owners' \in [Ports -> Int], bsockets' \in Int, fastreuse' \in [Ports -> -1..1],
           buckets' = buckets \cup {p},
           \A t \in Socks : Validated(t) => fastreuse'[bind_hash[t]] = 0
    PROVE  IInv'
  <1>1. TypeOK'
    <2>1. /\ sk_state' \in [Socks -> {"CLOSE", "LISTEN", "SYN_SENT", "SYN_RECV", "TIME_WAIT"}]
          /\ hashed' \in [Socks -> {"no", "listening_hash", "ehash"}]
          /\ rcv_saddr' \in [Socks -> Addrs \cup {Wild}]
          /\ daddr' \in [Socks -> Remotes \cup {Wild}]
          /\ sk_reuse' \in [Socks -> BOOLEAN]
      BY Zenon DEF IInv, TypeOK, Connected
    <2>2. /\ bind_hash' \in [Socks -> Ports \cup {0}] /\ inet_num' \in [Socks -> Ports \cup {0}]
          /\ port_lock' \in [Socks -> BOOLEAN] /\ call' \in [Socks -> Calls]
          /\ buckets' \subseteq Ports
      BY Zenon DEF IInv, TypeOK, Connected
    <2> QED BY Zenon, <2>1, <2>2 DEF TypeOK
  <1>2. \A t \in Socks \ ({s} \cup tw) : Undisturbed(t)
    BY Zenon DEF IInv, TypeOK, Owned, OwnedOk, Undisturbed, Connected
  <1>3. \A t \in {s} \cup tw : InOrder(t)
    <2> SUFFICES ASSUME NEW t \in {s} \cup tw PROVE InOrder(t)
      BY Zenon
    <2>1. call[t] = Idle
      BY Zenon DEF IInv, CallShape, CallOk, Owned, OwnedOk
    <2>2. CASE t = s
      BY ZenonT(30), <2>1, <2>2, DoneShape, PortConstants DEF IInv, TypeOK, CallOk, OwnedOk, Validated, InOrder, Connected
    <2>3. CASE t # s
      BY ZenonT(30), <2>1, <2>3, DoneShape, PortConstants DEF IInv, TypeOK, CallOk, OwnedOk, Validated, InOrder, Connected
    <2> QED BY Zenon, <2>2, <2>3
  <1>4. {s} \cup tw \in SUBSET Socks
    BY Zenon
  <1> QED BY ZenonT(40), <1>1, <1>2, <1>3, <1>4, StepKeeps

\* connect(), with or without a port.
LEMMA ConnectKeeps ==
    ASSUME IInv, NEW s \in Socks, NEW a \in Addrs, NEW r \in Remotes,
           (\E p \in LocalRange : ConnectAutomatic(s, a, r, p)) \/ ConnectBound(s, a, r)
    PROVE  IInv'
  <1>1. ASSUME NEW p \in Ports, check_established(s, a, p, r)
        PROVE  \E tw \in SUBSET Socks : /\ \A t \in tw : sk_state[t] = "TIME_WAIT"
                                        /\ Connected(s, a, p, r, tw)
    <2>1. CASE Connected(s, a, p, r, {})
      BY Zenon, <2>1
    <2>2. CASE \E t \in Socks : sk_state[t] = "TIME_WAIT" /\ Connected(s, a, p, r, {t})
      <3>1. PICK t \in Socks : sk_state[t] = "TIME_WAIT" /\ Connected(s, a, p, r, {t})
        BY Zenon, <2>2
      <3> WITNESS {t} \in SUBSET Socks
      <3> QED BY Zenon, <3>1
    <2> QED BY Zenon, <1>1, <2>1, <2>2 DEF check_established
  <1>2. ASSUME NEW p \in LocalRange, ConnectAutomatic(s, a, r, p) PROVE IInv'
    <2>1. p \in Ports /\ call[s] = Idle /\ sk_state[s] = "CLOSE"
      BY Zenon, <1>2, PortConstants DEF ConnectAutomatic
    <2>2. num_owners' \in [Ports -> Int] /\ bsockets' \in Int
      BY SMTT(60), <1>2, <2>1 DEF ConnectAutomatic, IInv, TypeOK
    <2>3. CASE /\ p \notin buckets /\ buckets' = buckets \cup {p}
               /\ fastreuse' = [fastreuse EXCEPT ![p] = -1] /\ Connected(s, a, p, r, {})
      <3>1. \A t \in Socks : Validated(t) => fastreuse'[bind_hash[t]] = 0
        BY Zenon, <2>3 DEF IInv, TypeOK, Owned, OwnedOk
      <3>2. fastreuse' \in [Ports -> -1..1]
        BY <2>1, <2>3, -1 \in -1..1 DEF IInv, TypeOK
      <3>3. {} \in SUBSET Socks /\ \A t \in {} : sk_state[t] = "TIME_WAIT"
        BY ZenonT(30)
      <3> QED BY Zenon, <2>1, <2>2, <2>3, <3>1, <3>2, <3>3, ConnectedKeeps
    <2>4. CASE /\ p \in buckets /\ check_established(s, a, p, r)
               /\ UNCHANGED <<buckets, fastreuse>>
      <3>1. PICK tw \in SUBSET Socks : /\ \A t \in tw : sk_state[t] = "TIME_WAIT"
                                       /\ Connected(s, a, p, r, tw)
        BY Zenon, <1>1, <2>1, <2>4
      <3>2. /\ \A t \in Socks : Validated(t) => fastreuse'[bind_hash[t]] = 0
            /\ fastreuse' \in [Ports -> -1..1] /\ buckets' = buckets \cup {p}
        BY ZenonT(30), <2>4 DEF IInv, TypeOK, Owned, OwnedOk
      <3> QED BY ZenonT(30), <2>1, <2>2, <3>1, <3>2, ConnectedKeeps
    <2> QED BY Zenon, <1>2, <2>3, <2>4 DEF ConnectAutomatic
  <1>3. ASSUME ConnectBound(s, a, r) PROVE IInv'
    <2> DEFINE p == bind_hash[s]
    <2>1. /\ p \in Ports /\ p \in buckets /\ call[s] = Idle /\ sk_state[s] = "CLOSE"
          /\ UNCHANGED table
      BY <1>3 DEF ConnectBound, IInv, TypeOK, CallShape, CallOk, Owned, OwnedOk
    <2>2. /\ \A t \in Socks : Validated(t) => fastreuse'[bind_hash[t]] = 0
          /\ fastreuse' \in [Ports -> -1..1] /\ buckets' = buckets \cup {p}
          /\ num_owners' \in [Ports -> Int] /\ bsockets' \in Int
      BY ZenonT(30), <2>1 DEF IInv, TypeOK, Owned, OwnedOk, table
    <2>3. PICK tw \in SUBSET Socks : /\ \A t \in tw : sk_state[t] = "TIME_WAIT"
                                     /\ Connected(s, a, p, r, tw)
      BY ZenonT(40), <1>1, <1>3, <2>1 DEF ConnectBound
    <2> QED BY Zenon, <2>1, <2>2, <2>3, ConnectedKeeps
  <1> QED BY Zenon, <1>2, <1>3

\* A step of one socket that gives its port up, or keeps it, and ends outside the
\* tables.
LEMMA LeaveKeeps ==
    ASSUME IInv, NEW s \in Socks, call' = call, call[s] = Idle,
           \/ inet_put_port(s) /\ bind_hash[s] # 0
           \/ UNCHANGED <<inet_num, bind_hash, table>>,
           hashed' = [hashed EXCEPT ![s] = "no"],
           sk_state' = [sk_state EXCEPT ![s] = "CLOSE"],
           NEW a \in Addrs \cup {Wild}, rcv_saddr' = [rcv_saddr EXCEPT ![s] = a],
           daddr' \in [Socks -> Remotes \cup {Wild}],
           sk_reuse' \in [Socks -> BOOLEAN], port_lock' \in [Socks -> BOOLEAN]
    PROVE  IInv'
  <1>1. /\ bind_hash' \in [Socks -> Ports \cup {0}] /\ inet_num' = bind_hash'
        /\ num_owners' \in [Ports -> Int] /\ bsockets' \in Int
        /\ buckets' \subseteq Ports /\ fastreuse' \in [Ports -> -1..1]
        /\ bind_hash'[s] # 0 => bind_hash'[s] \in buckets'
        /\ \A t \in Socks \ {s} :
              /\ bind_hash'[t] = bind_hash[t]
              /\ bind_hash[t] # 0 => bind_hash[t] \in buckets'
              /\ bind_hash[t] # 0 => fastreuse'[bind_hash[t]] = fastreuse[bind_hash[t]]
    <2>0. inet_num = bind_hash
      BY SMTT(60) DEF IInv, TypeOK, CallShape, CallOk
    <2>1. CASE inet_put_port(s) /\ bind_hash[s] # 0
      BY ZenonT(30), <2>0, <2>1, PutShape DEF IInv, TypeOK
    <2>2. CASE UNCHANGED <<inet_num, bind_hash, table>>
      BY Zenon, <2>0, <2>2 DEF IInv, TypeOK, Owned, OwnedOk, table
    <2> QED BY Zenon, <2>1, <2>2
  <1>2. TypeOK'
    BY ZenonT(40), <1>1 DEF IInv, TypeOK
  <1>3. InOrder(s)
    BY <1>1, DoneShape DEF IInv, TypeOK, CallShape, CallOk, OwnedOk, Validated, InOrder
  <1>4. \A t \in Socks \ {s} : Undisturbed(t)
    BY <1>1 DEF IInv, TypeOK, CallShape, CallOk, Owned, OwnedOk, Undisturbed
  <1> QED BY ZenonT(40), <1>2, <1>3, <1>4, OneStepKeeps

\* A failed connect(), tcp_done, the close of a listener, and the last close().
LEMMA CloseKeeps ==
    ASSUME IInv, NEW s \in Socks,
           \/ \E a \in Addrs, r \in Remotes : ConnectFails(s, a, r)
           \/ tcp_set_state_CLOSE(s) \/ tcp_v4_destroy_sock(s)
    PROVE  IInv'
  <1>1. ASSUME NEW a \in Addrs, NEW r \in Remotes, ConnectFails(s, a, r) PROVE IInv'
    <2>1. hashed[s] = "no"
      BY Zenon, <1>1 DEF ConnectFails, IInv, TypeOK, Owned, OwnedOk
    <2>2. /\ hashed' = [hashed EXCEPT ![s] = "no"]
          /\ sk_state' = [sk_state EXCEPT ![s] = "CLOSE"]
      BY Zenon, <1>1, <2>1 DEF ConnectFails, IInv, TypeOK
    <2> QED BY ZenonT(40), <1>1, <2>2, LeaveKeeps DEF ConnectFails, IInv, TypeOK
  <1>2. ASSUME tcp_set_state_CLOSE(s) PROVE IInv'
    <2>1. call[s] = Idle /\ bind_hash[s] # 0
      BY ZenonT(40), <1>2 DEF tcp_set_state_CLOSE, IInv, CallShape, CallOk, Owned, OwnedOk
    <2>2. /\ rcv_saddr' = [rcv_saddr EXCEPT ![s] = rcv_saddr[s]]
          /\ rcv_saddr[s] \in Addrs \cup {Wild}
          /\ daddr' \in [Socks -> Remotes \cup {Wild}]
      BY ZenonT(30), <1>2 DEF tcp_set_state_CLOSE, IInv, TypeOK
    <2> QED BY ZenonT(40), <1>2, <2>1, <2>2, LeaveKeeps DEF tcp_set_state_CLOSE, IInv, TypeOK
  <1>3. ASSUME tcp_v4_destroy_sock(s) PROVE IInv'
    BY ZenonT(40), <1>3, LeaveKeeps DEF tcp_v4_destroy_sock, Forget, IInv, TypeOK
  <1> QED BY Zenon, <1>1, <1>2, <1>3

\* A child inherits a port; a port without a bucket has no listener.
LEMMA InheritKeeps ==
    ASSUME IInv, NEW l \in Socks, NEW c \in Socks \ {l}, NEW a \in Addrs, NEW p \in Ports,
           NEW r \in Remotes, inherit_port(l, c, a, p, r)
    PROVE  IInv'
  <1>1. TypeOK'
    BY DEF IInv, TypeOK, inherit_port, inet_bind_hash
  <1>2. InOrder(c)
    BY DoneShape, PortConstants DEF IInv, TypeOK, CallShape, CallOk, Owned, OwnedOk, Validated,
       InOrder, inherit_port, inet_bind_hash
  <1>3. \A t \in Socks \ {c} : Undisturbed(t)
    BY Zenon DEF IInv, TypeOK, Owned, OwnedOk, Undisturbed, inherit_port, inet_bind_hash
  <1> QED BY Zenon, <1>1, <1>2, <1>3, OneStepKeeps

\* TIME_WAIT, its end, and a change of SO_REUSEADDR.
LEMMA TimeWaitKeeps ==
    ASSUME IInv, NEW s \in Socks,
           tcp_time_wait(s) \/ TimeWaitEnds(s) \/ \E b \in BOOLEAN : SetReuse(s, b)
    PROVE  IInv'
  <1>1. ASSUME tcp_time_wait(s) PROVE IInv'
    <2>0. bind_hash[s] \in Ports /\ call[s] = Idle
      BY Zenon, <1>1 DEF tcp_time_wait, IInv, TypeOK, CallShape, CallOk, Owned, OwnedOk
    <2>1. TypeOK'
      BY SMTT(60), <1>1, <2>0 DEF IInv, TypeOK, tcp_time_wait
    <2>2. InOrder(s)
      BY Zenon, <1>1, <2>0, DoneShape DEF IInv, TypeOK, CallShape, CallOk, Owned, OwnedOk, Validated,
         InOrder, tcp_time_wait
    <2>3. \A t \in Socks \ {s} : Undisturbed(t)
      BY Zenon, <1>1 DEF IInv, TypeOK, Owned, OwnedOk, Undisturbed, tcp_time_wait
    <2> QED BY ZenonT(30), <2>1, <2>2, <2>3, OneStepKeeps
  <1>2. ASSUME TimeWaitEnds(s) PROVE IInv'
    <2>0. bind_hash[s] \in Ports /\ call[s] = Idle
      BY Zenon, <1>2 DEF TimeWaitEnds, IInv, TypeOK, CallShape, CallOk, Owned, OwnedOk
    <2>1. TypeOK'
      BY SMTT(60), <1>2, <2>0 DEF IInv, TypeOK, TimeWaitEnds, Forget
    <2>2. InOrder(s)
      BY ZenonT(30), <1>2, <2>0, DoneShape DEF IInv, TypeOK, CallShape, CallOk, OwnedOk, Validated,
         InOrder, TimeWaitEnds, Forget
    <2>3. \A t \in Socks \ {s} : Undisturbed(t)
      BY Zenon, <1>2, <2>0 DEF IInv, TypeOK, Owned, OwnedOk, Undisturbed, TimeWaitEnds, Forget, Owners
    <2> QED BY Zenon, <2>1, <2>2, <2>3, OneStepKeeps
  <1>3. ASSUME NEW b \in BOOLEAN, SetReuse(s, b) PROVE IInv'
    <2>1. TypeOK'
      BY ZenonT(30), <1>3 DEF IInv, TypeOK, SetReuse, table
    <2>2. CallShape' /\ Owned'
      BY ZenonT(40), <1>3 DEF IInv, CallShape, CallOk, Owned, OwnedOk, Validated, SetReuse, table
    <2>3. Apart'
      BY ZenonT(40), <1>3 DEF IInv, Apart, Overlap, Validated, SameDev, SameAddr, SetReuse, table
    <2> QED BY Zenon, <2>1, <2>2, <2>3 DEF IInv
  <1> QED BY Zenon, <1>1, <1>2, <1>3

\* TIME_WAIT of a connection still open: the connection and its TIME_WAIT socket.
LEMMA TimeWaitOpenKeeps ==
    ASSUME IInv, NEW s \in Socks, NEW t \in Socks \ {s}, TimeWaitOpen(s, t)
    PROVE  IInv'
  <1>0. bind_hash[s] \in Ports /\ call[s] = Idle /\ call[t] = Idle
    BY Zenon DEF TimeWaitOpen, IInv, TypeOK, CallShape, CallOk, Owned, OwnedOk
  <1>1. TypeOK'
    BY SMTT(60), <1>0 DEF IInv, TypeOK, TimeWaitOpen
  <1>2. /\ hashed'[s] = "no" /\ sk_state'[s] = "CLOSE" /\ call'[s] = Idle
        /\ inet_num'[s] = bind_hash'[s] /\ bind_hash'[s] \in {0, bind_hash[s]}
        /\ hashed'[t] = "ehash" /\ sk_state'[t] = "TIME_WAIT" /\ call'[t] = Idle
        /\ inet_num'[t] = bind_hash'[t] /\ bind_hash'[t] = bind_hash[s]
        /\ bind_hash[s] \in buckets'
    BY ZenonT(30), <1>0 DEF IInv, TypeOK, Owned, OwnedOk, TimeWaitOpen
  <1>3. InOrder(s) /\ InOrder(t)
    BY Zenon, <1>0, <1>2, DoneShape, PortConstants DEF CallOk, OwnedOk, Validated, InOrder
  <1>4. \A u \in Socks \ {s, t} : Undisturbed(u)
    BY Zenon DEF IInv, TypeOK, Owned, OwnedOk, Undisturbed, TimeWaitOpen
  <1>5. {s, t} \in SUBSET Socks /\ \A u \in {s, t} : InOrder(u)
    BY Zenon, <1>3
  <1> QED BY ZenonT(40), <1>1, <1>4, <1>5, StepKeeps

-----------------------------------------------------------------------------
\* The invariant holds in every reachable state.
THEOREM PortInvariant == Spec => []IInv
  <1>1. ASSUME IInv, [Next]_vars PROVE IInv'
    <2>1. CASE UNCHANGED vars
      BY <1>1, <2>1 DEF IInv, TypeOK, CallShape, CallOk, Owned, OwnedOk, Apart, Overlap, Validated,
         SameDev, SameAddr, vars, socks, table
    <2>2. ASSUME NEW s \in Socks, CallStep(s) PROVE IInv'
      BY Zenon, <1>1, <2>2, SearchKeeps, HaveSnumKeeps, ListenEndKeeps DEF CallStep
    <2>3. ASSUME NEW s \in Socks, SocketStep(s) PROVE IInv'
      BY Zenon, <1>1, <2>3, BindKeeps, ListenStartKeeps, ConnectKeeps, CloseKeeps, InheritKeeps,
         TimeWaitKeeps, TimeWaitOpenKeeps DEF SocketStep
    <2> QED BY ZenonT(30), <1>1, <2>1, <2>2, <2>3 DEF Next
  <1> QED BY <1>1, InitInvariant, PTL DEF Spec

\* Lookups never find two listeners of one port that overlap in address and device,
\* although inet_csk_listen_start announces LISTEN before it has the port.
THEOREM ListenersApart == Spec => []OneListener
  <1>1. IInv => OneListener
    BY Zenon DEF IInv, Apart, Overlap, Validated, OneListener
  <1> QED BY <1>1, PortInvariant, PTL

\* While fastreuse lets a port be shared unchecked, the port has no hashed listener.
THEOREM FastPathSound == Spec => []FastreuseSound
  <1>1. IInv => FastreuseSound
    BY Zenon DEF IInv, Owned, OwnedOk, Validated, FastreuseSound
  <1> QED BY <1>1, PortInvariant, PTL

\* Every variable keeps its type, for any constants.
THEOREM PortTypes == Spec => []TypeOK
  <1> QED BY PortInvariant, PTL DEF IInv

-----------------------------------------------------------------------------
(* The counters.  A socket counts for the port it holds, until TIME_WAIT. *)

Held(s) == IF sk_state[s] = "TIME_WAIT" THEN 0 ELSE bind_hash[s]

AllFull == {s \in Socks : Held(s) # 0}

\* num_owners and bsockets count the full sockets.
CountsOk ==
    /\ \A p \in Ports : num_owners[p] = Cardinality(Full(p))
    /\ bsockets = Cardinality(AllFull)

\* What a step does to the counters: nothing; s takes p; s gives p up.
SameHeld == (\A t \in Socks : Held(t)' = Held(t)) /\ num_owners' = num_owners /\ bsockets' = bsockets

Gains(s, p) ==
    /\ Held(s) = 0 /\ Held(s)' = p /\ \A t \in Socks \ {s} : Held(t)' = Held(t)
    /\ num_owners' = [num_owners EXCEPT ![p] = @ + 1] /\ bsockets' = bsockets + 1

Loses(s, p) ==
    /\ Held(s) = p /\ Held(s)' = 0 /\ \A t \in Socks \ {s} : Held(t)' = Held(t)
    /\ num_owners' = [num_owners EXCEPT ![p] = @ - 1] /\ bsockets' = bsockets - 1

\* The full owners of a port are those that hold it.
LEMMA FullHeld ==
    \A p \in Ports : /\ Full(p) = {s \in Socks : Held(s) = p}
                     /\ Full(p)' = {s \in Socks : Held(s)' = p}
  BY Zenon, PortConstants DEF Full, Owners, Held

\* There are finitely many sockets to count.
LEMMA FullFinite ==
    /\ IsFiniteSet(AllFull) /\ \A p \in Ports : IsFiniteSet(Full(p))
  <1>1. AllFull \subseteq Socks /\ \A p \in Ports : Full(p) \subseteq Socks
    BY Zenon DEF AllFull, Full, Owners
  <1> QED BY Zenon, <1>1, FS_Subset, PortConstants

\* The counters stay exact when they and the holders do not change, ...
LEMMA SameCounts ==
    ASSUME CountsOk, SameHeld
    PROVE  CountsOk'
  <1>1. AllFull' = AllFull
    BY Zenon DEF AllFull, SameHeld
  <1>2. \A p \in Ports : Full(p)' = Full(p)
    BY Zenon, FullHeld DEF SameHeld
  <1> QED BY Zenon, <1>1, <1>2 DEF CountsOk, SameHeld

\* ... when one more socket holds a port, ...
LEMMA GainCounts ==
    ASSUME CountsOk, NEW s \in Socks, NEW p \in Ports, num_owners \in [Ports -> Int], Gains(s, p)
    PROVE  CountsOk'
  <1>0. p # 0
    BY Zenon, PortConstants
  <1>a. \A t \in Socks : Held(t)' # 0 <=> Held(t) # 0 \/ t = s
    BY Zenon, <1>0 DEF Gains
  <1>1. AllFull' = AllFull \cup {s} /\ s \notin AllFull
    BY Zenon, <1>a DEF AllFull, Gains
  <1>2. Full(p)' = Full(p) \cup {s} /\ s \notin Full(p)
    BY Zenon, <1>0, FullHeld DEF Gains
  <1>3. \A q \in Ports \ {p} : Full(q)' = Full(q)
    <2> SUFFICES ASSUME NEW q \in Ports, q # p PROVE Full(q)' = Full(q)
      BY Zenon
    <2>1. q # 0
      BY Zenon, PortConstants
    <2>2. \A t \in Socks : Held(t)' = q <=> Held(t) = q
      BY Zenon, <2>1 DEF Gains
    <2> QED BY Zenon, <2>2, FullHeld
  <1>4. /\ Cardinality(AllFull') = Cardinality(AllFull) + 1
        /\ Cardinality(Full(p)') = Cardinality(Full(p)) + 1
    BY Zenon, <1>1, <1>2, FullFinite, FS_AddElement
  <1>5. \A q \in Ports : num_owners'[q] = IF q = p THEN num_owners[q] + 1 ELSE num_owners[q]
    BY Zenon DEF Gains
  <1>6. bsockets' = bsockets + 1
    BY Zenon DEF Gains
  <1> QED BY Zenon, <1>3, <1>4, <1>5, <1>6 DEF CountsOk

\* ... and when one gives its port up.
LEMMA LoseCounts ==
    ASSUME CountsOk, NEW s \in Socks, NEW p \in Ports, num_owners \in [Ports -> Int], Loses(s, p)
    PROVE  CountsOk'
  <1>0. p # 0
    BY Zenon, PortConstants
  <1>a. \A t \in Socks : Held(t)' # 0 <=> Held(t) # 0 /\ t # s
    BY Zenon, <1>0 DEF Loses
  <1>1. AllFull' = AllFull \ {s} /\ s \in AllFull
    BY Zenon, <1>0, <1>a DEF AllFull, Loses
  <1>2. Full(p)' = Full(p) \ {s} /\ s \in Full(p)
    BY Zenon, <1>0, FullHeld DEF Loses
  <1>3. \A q \in Ports \ {p} : Full(q)' = Full(q)
    <2> SUFFICES ASSUME NEW q \in Ports, q # p PROVE Full(q)' = Full(q)
      BY Zenon
    <2>1. q # 0
      BY Zenon, PortConstants
    <2>2. \A t \in Socks : Held(t)' = q <=> Held(t) = q
      BY Zenon, <2>1 DEF Loses
    <2> QED BY Zenon, <2>2, FullHeld
  <1>4. /\ Cardinality(AllFull') = Cardinality(AllFull) - 1
        /\ Cardinality(Full(p)') = Cardinality(Full(p)) - 1
    BY Zenon, <1>1, <1>2, FullFinite, FS_RemoveElement
  <1>5. \A q \in Ports : num_owners'[q] = IF q = p THEN num_owners[q] - 1 ELSE num_owners[q]
    BY Zenon DEF Loses
  <1>6. bsockets' = bsockets - 1
    BY Zenon DEF Loses
  <1> QED BY Zenon, <1>3, <1>4, <1>5, <1>6 DEF CountsOk

\* A bucket has an owner.
Used == \A p \in buckets : \E s \in Socks : bind_hash[s] = p

Counting ==
    \/ SameHeld
    \/ \E s \in Socks, p \in Ports : Gains(s, p) \/ Loses(s, p)

\* inet_bind_hash counts the socket it adds, ...
LEMMA BindHashGains ==
    ASSUME IInv, NEW s \in Socks, NEW p \in Ports, bind_hash[s] = 0, inet_bind_hash(s, p),
           sk_state'[s] # "TIME_WAIT", \A t \in Socks \ {s} : sk_state'[t] = sk_state[t]
    PROVE  Gains(s, p)
  <1>1. \A t \in Socks : bind_hash'[t] = IF t = s THEN p ELSE bind_hash[t]
    BY Zenon DEF IInv, TypeOK, inet_bind_hash
  <1> QED BY Zenon, <1>1 DEF Gains, Held, inet_bind_hash

\* ... inet_put_port the one it removes, and it leaves no bucket without an owner.
LEMMA PutLoses ==
    ASSUME IInv, Used, NEW s \in Socks, bind_hash[s] # 0, inet_put_port(s),
           sk_state[s] # "TIME_WAIT", \A t \in Socks \ {s} : sk_state'[t] = sk_state[t]
    PROVE  Counting /\ Used'
  <1>0. bind_hash[s] \in Ports
    BY Zenon DEF IInv, TypeOK
  <1>1. \A t \in Socks : bind_hash'[t] = IF t = s THEN 0 ELSE bind_hash[t]
    BY Zenon DEF IInv, TypeOK, inet_put_port
  <1>2. Loses(s, bind_hash[s])
    BY Zenon, <1>1 DEF Loses, Held, inet_put_port
  <1>3. ASSUME NEW q \in buckets' PROVE \E t \in Socks : bind_hash'[t] = q
    <2>1. q \in buckets /\ (q = bind_hash[s] => Owners(q) # {s})
      BY Zenon, <1>3 DEF inet_put_port
    <2>2. PICK t \in Socks : bind_hash[t] = q /\ t # s
      BY <2>1 DEF Used, Owners
    <2> QED BY Zenon, <1>1, <2>2
  <1> QED BY Zenon, <1>0, <1>2, <1>3 DEF Counting, Used

\* Steps that change neither the holders nor the table.
LEMMA QuietCounts ==
    ASSUME IInv, Used, UNCHANGED <<bind_hash, table>>,
           \A t \in Socks : sk_state'[t] = "TIME_WAIT" <=> sk_state[t] = "TIME_WAIT"
    PROVE  Counting /\ Used'
  <1>1. UNCHANGED <<bind_hash, buckets, num_owners, bsockets>>
    BY Zenon DEF table
  <1> QED BY Zenon, <1>1 DEF Counting, SameHeld, Held, Used

\* The label success of get_port: one owner more, or none.
LEMMA SucceedCounts ==
    ASSUME IInv, Used, NEW s \in Socks, NEW p \in Ports, bind_hash[s] \in {0, p},
           hashed[s] = "no", Succeed(s, p), buckets' \subseteq buckets \cup {p}, sk_state' = sk_state
    PROVE  Counting /\ Used'
  <1>1. sk_state[s] # "TIME_WAIT"
    BY Zenon DEF IInv, Owned, OwnedOk
  <1>2. bind_hash' = [bind_hash EXCEPT ![s] = p]
    BY Zenon, SucceedShape
  <1>3. \A t \in Socks : bind_hash'[t] = IF t = s THEN p ELSE bind_hash[t]
    BY Zenon, <1>2 DEF IInv, TypeOK
  <1>4. Used'
    <2> SUFFICES ASSUME NEW q \in buckets' PROVE \E t \in Socks : bind_hash'[t] = q
      BY Zenon DEF Used
    <2>1. CASE q = p
      BY Zenon, <1>3, <2>1
    <2>2. CASE q # p
      <3>1. PICK t \in Socks : bind_hash[t] = q
        BY Zenon, <2>2 DEF Used
      <3>2. q \in Ports /\ q # 0
        BY Zenon, <2>2, PortConstants DEF IInv, TypeOK
      <3>3. bind_hash'[t] = q
        BY Zenon, <1>3, <2>2, <3>1, <3>2
      <3> QED BY Zenon, <3>3
    <2> QED BY Zenon, <2>1, <2>2
  <1>5. CASE bind_hash[s] = 0
    <2>1. Gains(s, p)
      BY Zenon, <1>1, <1>5, BindHashGains DEF Succeed
    <2> QED BY Zenon, <1>4, <2>1 DEF Counting
  <1>6. CASE bind_hash[s] # 0
    <2>1. SameHeld
      BY Zenon, <1>6 DEF Succeed, SameHeld, Held
    <2> QED BY Zenon, <1>4, <2>1 DEF Counting
  <1> QED BY Zenon, <1>5, <1>6

\* A port without a bucket is taken, or there is no memory for the bucket.
LEMMA CreateCounts ==
    ASSUME IInv, Used, NEW s \in Socks, NEW p \in Ports, bind_hash[s] \in {0, p},
           hashed[s] = "no", sk_state' = sk_state, CreatePort(s, p)
    PROVE  Counting /\ Used'
  <1>1. CASE TakePort(s, p)
    <2>1. Succeed(s, p) /\ buckets' \subseteq buckets \cup {p}
      BY Zenon, <1>1 DEF TakePort
    <2> QED BY Zenon, <2>1, SucceedCounts
  <1>2. CASE UNCHANGED <<table, inet_num, bind_hash>>
    BY Zenon, <1>2, QuietCounts
  <1> QED BY Zenon, <1>1, <1>2 DEF CreatePort

\* Every critical section of bind() and listen() keeps the counters exact.
LEMMA GetPortCounts ==
    ASSUME IInv, Used, NEW s \in Socks, CallStep(s)
    PROVE  Counting /\ Used'
  <1>1. ASSUME NEW p \in LocalRange, SearchPort(s, p) PROVE Counting /\ Used'
    <2>1. p \in Ports /\ bind_hash[s] = 0 /\ hashed[s] = "no" /\ sk_state' = sk_state
      <3>1. call[s].pc = "search" /\ sk_state' = sk_state
        BY Zenon, <1>1 DEF SearchPort
      <3>2. CallOk(s) /\ "search" # "idle"
        BY Zenon DEF IInv, CallShape
      <3>3. call[s] # Idle /\ bind_hash[s] = 0 /\ hashed[s] = "no"
        BY Zenon, <3>1, <3>2 DEF CallOk
      <3> QED BY Zenon, <3>1, <3>3, PortConstants
    <2>2. CreatePort(s, p) \/ UNCHANGED <<table, bind_hash>>
      BY Zenon, <1>1 DEF SearchPort
    <2> QED BY Zenon, <2>1, <2>2, CreateCounts, QuietCounts
  <1>2. ASSUME HaveSnum(s) PROVE Counting /\ Used'
    <2> DEFINE p == call[s].snum
    <2>1. p \in Ports /\ bind_hash[s] \in {0, p} /\ hashed[s] = "no" /\ sk_state' = sk_state
      BY Zenon, <1>2 DEF HaveSnum, IInv, CallShape, CallOk, Idle, At
    <2>2. \/ CreatePort(s, p)
          \/ Succeed(s, p) /\ buckets' = buckets
          \/ UNCHANGED <<table, bind_hash>>
      BY Zenon, <1>2 DEF HaveSnum, CreatePort
    <2>3. buckets' = buckets => buckets' \subseteq buckets \cup {p}
      BY Zenon
    <2> QED BY Zenon, <2>1, <2>2, <2>3, CreateCounts, SucceedCounts, QuietCounts
  <1>3. ASSUME ListenHash(s) \/ Unlisten(s) PROVE Counting /\ Used'
    <2>1. UNCHANGED <<bind_hash, table>>
      BY Zenon, <1>3 DEF ListenHash, Unlisten
    <2>2. \A t \in Socks : sk_state'[t] = "TIME_WAIT" <=> sk_state[t] = "TIME_WAIT"
      <3>1. ListenHash(s) => sk_state' = sk_state
        BY Zenon DEF ListenHash
      <3>2. Unlisten(s) => sk_state[s] # "TIME_WAIT" /\ sk_state' = [sk_state EXCEPT ![s] = "CLOSE"]
        BY Zenon DEF Unlisten, IInv, CallShape, CallOk, Owned, OwnedOk, Idle, At
      <3> QED BY Zenon, <1>3, <3>1, <3>2 DEF IInv, TypeOK
    <2> QED BY Zenon, <2>1, <2>2, QuietCounts
  <1>4. CASE \E p \in LocalRange : SearchPort(s, p)
    BY Zenon, <1>1, <1>4
  <1> QED BY Zenon, <1>2, <1>3, <1>4 DEF CallStep

\* A connection enters ehash; the TIME_WAIT socket it recycles did not count.
LEMMA ConnectedCounts ==
    ASSUME IInv, Used, NEW s \in Socks, NEW a, NEW p \in Ports, NEW r, NEW tw \in SUBSET Socks,
           \A t \in tw : sk_state[t] = "TIME_WAIT" /\ bind_hash[t] = p,
           sk_state[s] = "CLOSE", Connected(s, a, p, r, tw), buckets' \subseteq buckets \cup {p},
           \/ bind_hash[s] = p /\ UNCHANGED <<num_owners, bsockets>>
           \/ /\ bind_hash[s] = 0 /\ bsockets' = bsockets + 1
              /\ num_owners' = [num_owners EXCEPT ![p] = @ + 1]
    PROVE  Counting /\ Used'
  <1>1. /\ \A t \in Socks : bind_hash'[t] = IF t = s THEN p ELSE IF t \in tw THEN 0 ELSE bind_hash[t]
        /\ \A t \in Socks : sk_state'[t] = IF t = s THEN "SYN_SENT"
                                           ELSE IF t \in tw THEN "CLOSE" ELSE sk_state[t]
    BY Zenon DEF Connected
  <1>2. Used'
    <2> SUFFICES ASSUME NEW q \in buckets' PROVE \E t \in Socks : bind_hash'[t] = q
      BY Zenon DEF Used
    <2>1. CASE q = p
      BY Zenon, <1>1, <2>1
    <2>2. CASE q # p
      <3>1. PICK t \in Socks : bind_hash[t] = q
        BY Zenon, <2>2 DEF Used
      <3>2. q \in Ports /\ q # 0
        BY Zenon, <2>2, PortConstants DEF IInv, TypeOK
      <3>3. bind_hash'[t] = q
        BY Zenon, <1>1, <2>2, <3>1, <3>2
      <3> QED BY Zenon, <3>3
    <2> QED BY Zenon, <2>1, <2>2
  <1>3. /\ \A t \in Socks \ {s} : Held(t)' = Held(t)
        /\ Held(s)' = p /\ Held(s) = bind_hash[s]
    BY Zenon, <1>1 DEF Held
  <1>4. SameHeld \/ Gains(s, p)
    BY Zenon, <1>3 DEF SameHeld, Gains
  <1> QED BY Zenon, <1>2, <1>4 DEF Counting

\* connect() counts a socket that had no port, and only that.
LEMMA ConnectCounts ==
    ASSUME IInv, Used, NEW s \in Socks, NEW a \in Addrs, NEW r \in Remotes,
           (\E p \in LocalRange : ConnectAutomatic(s, a, r, p)) \/ ConnectBound(s, a, r)
    PROVE  Counting /\ Used'
  <1>1. ASSUME NEW p \in Ports, check_established(s, a, p, r) \/ Connected(s, a, p, r, {})
        PROVE  \E tw \in SUBSET Socks :
                  /\ \A t \in tw : sk_state[t] = "TIME_WAIT" /\ bind_hash[t] = p
                  /\ Connected(s, a, p, r, tw)
    <2>1. CASE Connected(s, a, p, r, {})
      BY Zenon, <2>1
    <2>2. CASE \E t \in Socks : /\ INET_MATCH(t, s, a, p, r) /\ sk_state[t] = "TIME_WAIT"
                                /\ Connected(s, a, p, r, {t})
      <3>1. PICK t \in Socks : /\ bind_hash[t] = p /\ sk_state[t] = "TIME_WAIT"
                               /\ Connected(s, a, p, r, {t})
        BY Zenon, <2>2 DEF INET_MATCH
      <3> WITNESS {t} \in SUBSET Socks
      <3> QED BY Zenon, <3>1
    <2> QED BY Zenon, <1>1, <2>1, <2>2 DEF check_established
  <1>2. ASSUME NEW p \in LocalRange, ConnectAutomatic(s, a, r, p) PROVE Counting /\ Used'
    <2>1. p \in Ports
      BY Zenon, PortConstants
    <2>2. /\ check_established(s, a, p, r) \/ Connected(s, a, p, r, {})
          /\ sk_state[s] = "CLOSE" /\ inet_num[s] = 0
          /\ bsockets' = bsockets + 1 /\ num_owners' = [num_owners EXCEPT ![p] = @ + 1]
      BY Zenon, <1>2 DEF ConnectAutomatic
    <2>3. buckets' \subseteq buckets \cup {p}
      BY Zenon, <1>2 DEF ConnectAutomatic
    <2>4. bind_hash[s] = 0
      BY Zenon, <2>2 DEF IInv, CallShape, CallOk
    <2>5. PICK tw \in SUBSET Socks : /\ \A t \in tw : sk_state[t] = "TIME_WAIT" /\ bind_hash[t] = p
                                     /\ Connected(s, a, p, r, tw)
      BY Zenon, <1>1, <2>1, <2>2
    <2> QED BY Zenon, <2>1, <2>2, <2>3, <2>4, <2>5, ConnectedCounts
  <1>3. ASSUME ConnectBound(s, a, r) PROVE Counting /\ Used'
    <2> DEFINE p == bind_hash[s]
    <2>1. /\ check_established(s, a, p, r) \/ Connected(s, a, p, r, {})
          /\ sk_state[s] = "CLOSE" /\ inet_num[s] # 0 /\ UNCHANGED table
      BY Zenon, <1>3 DEF ConnectBound
    <2>2. p \in Ports
      <3>1. bind_hash[s] \in Ports \cup {0} /\ inet_num[s] = bind_hash[s]
        BY Zenon DEF IInv, TypeOK, CallShape, CallOk
      <3> QED BY Zenon, <2>1, <3>1
    <2>3. UNCHANGED <<num_owners, bsockets, buckets>>
      BY Zenon, <2>1 DEF table
    <2>4. buckets' \subseteq buckets \cup {p}
      BY Zenon, <2>3
    <2>5. PICK tw \in SUBSET Socks : /\ \A t \in tw : sk_state[t] = "TIME_WAIT" /\ bind_hash[t] = p
                                     /\ Connected(s, a, p, r, tw)
      BY Zenon, <1>1, <2>1, <2>2
    <2> QED BY Zenon, <2>1, <2>2, <2>3, <2>4, <2>5, ConnectedCounts
  <1> QED BY Zenon, <1>2, <1>3

\* A failed connect(), tcp_done and the last close() give up at most the port of s.
LEMMA CloseCounts ==
    ASSUME IInv, Used, NEW s \in Socks,
           \/ \E a \in Addrs, r \in Remotes : ConnectFails(s, a, r)
           \/ tcp_set_state_CLOSE(s) \/ tcp_v4_destroy_sock(s)
    PROVE  Counting /\ Used'
  <1>1. /\ sk_state[s] # "TIME_WAIT" /\ sk_state'[s] # "TIME_WAIT"
        /\ \A t \in Socks \ {s} : sk_state'[t] = sk_state[t]
    BY Zenon DEF IInv, TypeOK, ConnectFails, tcp_set_state_CLOSE, tcp_v4_destroy_sock, Forget
  <1>2. \/ inet_put_port(s) /\ bind_hash[s] # 0
        \/ UNCHANGED <<bind_hash, table>>
    BY Zenon DEF IInv, Owned, OwnedOk, ConnectFails, tcp_set_state_CLOSE, tcp_v4_destroy_sock
  <1>3. \A t \in Socks : sk_state'[t] = "TIME_WAIT" <=> sk_state[t] = "TIME_WAIT"
    BY Zenon, <1>1
  <1> QED BY Zenon, <1>1, <1>2, <1>3, PutLoses, QuietCounts

\* A child is counted for the port of its request.
LEMMA InheritCounts ==
    ASSUME IInv, Used, NEW l \in Socks, NEW c \in Socks \ {l}, NEW a \in Addrs, NEW p \in Ports,
           NEW r \in Remotes, inherit_port(l, c, a, p, r)
    PROVE  Counting /\ Used'
  <1>1. /\ bind_hash[c] = 0 /\ inet_bind_hash(c, p) /\ buckets' = buckets \cup {p}
        /\ sk_state' = [sk_state EXCEPT ![c] = "SYN_RECV"]
    BY Zenon DEF inherit_port, IInv, CallShape, CallOk
  <1>2. \A t \in Socks : /\ bind_hash'[t] = IF t = c THEN p ELSE bind_hash[t]
                         /\ sk_state'[t] = IF t = c THEN "SYN_RECV" ELSE sk_state[t]
    BY Zenon, <1>1 DEF inet_bind_hash, IInv, TypeOK
  <1>3. Gains(c, p)
    <2>1. sk_state'[c] # "TIME_WAIT" /\ \A t \in Socks \ {c} : sk_state'[t] = sk_state[t]
      BY Zenon, <1>2
    <2> QED BY Zenon, <1>1, <2>1, BindHashGains
  <1>4. Used'
    <2> SUFFICES ASSUME NEW q \in buckets' PROVE \E t \in Socks : bind_hash'[t] = q
      BY Zenon DEF Used
    <2>1. CASE q = p
      BY Zenon, <1>2, <2>1
    <2>2. CASE q # p
      <3>1. PICK t \in Socks : bind_hash[t] = q
        BY Zenon, <1>1, <2>2 DEF Used
      <3>2. q \in Ports /\ q # 0
        BY Zenon, <1>1, <2>2, PortConstants DEF IInv, TypeOK
      <3>3. bind_hash'[t] = q
        BY Zenon, <1>1, <1>2, <3>1, <3>2
      <3> QED BY Zenon, <3>3
    <2> QED BY Zenon, <2>1, <2>2
  <1> QED BY Zenon, <1>3, <1>4 DEF Counting

\* TIME_WAIT keeps the bucket and is not counted; its end may leave the bucket empty.
LEMMA TimeWaitCounts ==
    ASSUME IInv, Used, NEW s \in Socks, tcp_time_wait(s) \/ TimeWaitEnds(s)
    PROVE  Counting /\ Used'
  <1>0. bind_hash[s] \in Ports
    <2>1. hashed[s] = "ehash"
      BY Zenon DEF tcp_time_wait, TimeWaitEnds, IInv, Owned, OwnedOk
    <2>2. bind_hash[s] \in Ports \cup {0} /\ bind_hash[s] # 0
      BY Zenon, <2>1 DEF IInv, TypeOK, Owned, OwnedOk
    <2> QED BY Zenon, <2>2
  <1>1. ASSUME tcp_time_wait(s) PROVE Counting /\ Used'
    <2>1. \A t \in Socks : sk_state'[t] = IF t = s THEN "TIME_WAIT" ELSE sk_state[t]
      BY Zenon, <1>1 DEF tcp_time_wait, IInv, TypeOK
    <2>2. Loses(s, bind_hash[s])
      BY Zenon, <1>1, <2>1 DEF Loses, Held, tcp_time_wait
    <2>3. Used'
      BY Zenon, <1>1 DEF Used, tcp_time_wait
    <2> QED BY Zenon, <1>0, <2>2, <2>3 DEF Counting
  <1>2. ASSUME TimeWaitEnds(s) PROVE Counting /\ Used'
    <2>1. \A t \in Socks : /\ sk_state'[t] = IF t = s THEN "CLOSE" ELSE sk_state[t]
                           /\ bind_hash'[t] = IF t = s THEN 0 ELSE bind_hash[t]
      BY Zenon, <1>2 DEF TimeWaitEnds, Forget, IInv, TypeOK
    <2>2. SameHeld
      BY Zenon, <1>2, <2>1 DEF SameHeld, Held, TimeWaitEnds
    <2>3. ASSUME NEW q \in buckets' PROVE \E t \in Socks : bind_hash'[t] = q
      <3>1. q \in buckets /\ (q = bind_hash[s] => Owners(q) # {s})
        BY Zenon, <1>2, <2>3 DEF TimeWaitEnds
      <3>2. PICK t \in Socks : bind_hash[t] = q /\ t # s
        BY Zenon, <3>1 DEF Used, Owners
      <3> QED BY Zenon, <2>1, <3>2
    <2> QED BY Zenon, <2>2, <2>3 DEF Counting, Used
  <1> QED BY Zenon, <1>1, <1>2

\* TIME_WAIT beside a socket the user still has open.
LEMMA TimeWaitOpenCounts ==
    ASSUME IInv, Used, NEW s \in Socks, NEW t \in Socks \ {s}, TimeWaitOpen(s, t)
    PROVE  Counting /\ Used'
  <1> DEFINE p == bind_hash[s]
  <1>0. p \in Ports
    <2>1. hashed[s] = "ehash"
      BY Zenon DEF TimeWaitOpen
    <2>2. bind_hash[s] \in Ports \cup {0} /\ bind_hash[s] # 0
      BY Zenon, <2>1 DEF IInv, TypeOK, Owned, OwnedOk
    <2> QED BY Zenon, <2>2
  <1>1. /\ sk_state[s] # "TIME_WAIT" /\ sk_state[t] = "CLOSE" /\ inet_num[t] = 0
        /\ num_owners' = [num_owners EXCEPT ![p] = IF port_lock[s] THEN @ ELSE @ - 1]
        /\ bsockets' = IF port_lock[s] THEN bsockets ELSE bsockets - 1
        /\ buckets' = buckets
    BY Zenon DEF TimeWaitOpen
  <1>2. bind_hash[t] = 0
    BY Zenon, <1>1 DEF IInv, CallShape, CallOk
  <1>3. /\ sk_state' = [sk_state EXCEPT ![s] = "CLOSE", ![t] = "TIME_WAIT"]
        /\ bind_hash' = [bind_hash EXCEPT ![s] = IF port_lock[s] THEN p ELSE 0, ![t] = p]
    BY Zenon DEF TimeWaitOpen
  <1>4. \A u \in Socks :
           /\ sk_state'[u] = IF u = s THEN "CLOSE" ELSE IF u = t THEN "TIME_WAIT" ELSE sk_state[u]
           /\ bind_hash'[u] = IF u = s THEN (IF port_lock[s] THEN p ELSE 0)
                              ELSE IF u = t THEN p ELSE bind_hash[u]
    BY Zenon, <1>3 DEF IInv, TypeOK
  <1>5. \A u \in Socks \ {s} : Held(u)' = Held(u)
    BY Zenon, <1>1, <1>2, <1>4 DEF Held
  <1>6. Held(s) = p /\ Held(s)' = IF port_lock[s] THEN p ELSE 0
    BY Zenon, <1>1, <1>4 DEF Held
  <1>7. ASSUME port_lock[s] PROVE Counting
    <2>1. num_owners' = num_owners
      BY Zenon, <1>1, <1>7 DEF IInv, TypeOK
    <2>2. SameHeld
      BY Zenon, <1>1, <1>5, <1>6, <1>7, <2>1 DEF SameHeld
    <2> QED BY Zenon, <2>2 DEF Counting
  <1>8. Counting
    BY Zenon, <1>0, <1>1, <1>5, <1>6, <1>7 DEF Loses, Counting
  <1>9. ASSUME NEW q \in buckets PROVE \E u \in Socks : bind_hash'[u] = q
    <2>1. PICK u \in Socks : bind_hash[u] = q
      BY Zenon, <1>9 DEF Used
    <2>2. q # 0
      BY Zenon, <1>9, PortConstants DEF IInv, TypeOK
    <2> QED BY Zenon, <1>2, <1>4, <2>1, <2>2
  <1> QED BY Zenon, <1>1, <1>8, <1>9 DEF Used

\* The steps that leave the holders alone.
LEMMA OtherCounts ==
    ASSUME IInv, Used, NEW s \in Socks,
           \/ \E a \in Addrs \cup {Wild}, p \in Ports \cup {0} : inet_bind(s, a, p)
           \/ inet_csk_listen_start(s)
           \/ \E b \in BOOLEAN : SetReuse(s, b)
    PROVE  Counting /\ Used'
  <1>1. UNCHANGED <<bind_hash, table>>
    BY Zenon DEF inet_bind, inet_csk_listen_start, SetReuse
  <1>2. \/ sk_state' = sk_state
        \/ sk_state[s] = "CLOSE" /\ sk_state' = [sk_state EXCEPT ![s] = "LISTEN"]
    BY Zenon DEF inet_bind, inet_csk_listen_start, SetReuse
  <1>3. \A t \in Socks : sk_state'[t] = "TIME_WAIT" <=> sk_state[t] = "TIME_WAIT"
    BY Zenon, <1>2 DEF IInv, TypeOK
  <1> QED BY Zenon, <1>1, <1>3, QuietCounts

\* Every step.
LEMMA StepCounting ==
    ASSUME IInv, Used, [Next]_vars
    PROVE  Counting /\ Used'
  <1>1. CASE UNCHANGED vars
    BY Zenon, <1>1, QuietCounts DEF vars, socks
  <1>2. ASSUME NEW s \in Socks, SocketStep(s) PROVE Counting /\ Used'
    <2>1. \/ \E a \in Addrs \cup {Wild}, p \in Ports \cup {0} : inet_bind(s, a, p)
          \/ inet_csk_listen_start(s)
          \/ \E b \in BOOLEAN : SetReuse(s, b)
          \/ \E a \in Addrs, r \in Remotes :
                (\E p \in LocalRange : ConnectAutomatic(s, a, r, p)) \/ ConnectBound(s, a, r)
          \/ \E a \in Addrs, r \in Remotes : ConnectFails(s, a, r)
          \/ tcp_set_state_CLOSE(s) \/ tcp_v4_destroy_sock(s)
          \/ \E c \in Socks \ {s}, a \in Addrs, p \in Ports, r \in Remotes :
                inherit_port(s, c, a, p, r)
          \/ tcp_time_wait(s) \/ TimeWaitEnds(s)
          \/ \E t \in Socks \ {s} : TimeWaitOpen(s, t)
      BY Zenon, <1>2 DEF SocketStep
    <2> QED BY ZenonT(40), <2>1, OtherCounts, ConnectCounts, CloseCounts, InheritCounts,
               TimeWaitCounts, TimeWaitOpenCounts
  <1> QED BY Zenon, <1>1, <1>2, GetPortCounts DEF Next

\* The bind table is exact in every reachable state: buckets have owners, and the
\* counters that steer the automatic search (num_owners, bsockets) count the full
\* sockets, however bind(), connect(), close() and TIME_WAIT interleave.
THEOREM BucketsAlwaysExact == Spec => []BucketsExact
  <1>1. Init => Used /\ CountsOk
    <2> SUFFICES ASSUME Init PROVE Used /\ CountsOk
      BY Zenon
    <2>1. AllFull = {} /\ \A p \in Ports : Full(p) = {}
      BY Zenon, PortConstants DEF Init, AllFull, Held, Full, Owners
    <2>2. Used
      BY Zenon DEF Init, Used
    <2> QED BY Zenon, <2>1, <2>2, FS_EmptySet DEF CountsOk, Init
  <1>2. IInv /\ Used /\ CountsOk /\ [Next]_vars => Used' /\ CountsOk'
    <2> SUFFICES ASSUME IInv, Used, CountsOk, [Next]_vars PROVE Used' /\ CountsOk'
      BY Zenon
    <2>1. Counting /\ Used'
      BY Zenon, StepCounting
    <2>2. num_owners \in [Ports -> Int]
      BY Zenon DEF IInv, TypeOK
    <2> QED BY Zenon, <2>1, <2>2, SameCounts, GainCounts, LoseCounts DEF Counting
  <1>3. IInv /\ Used /\ CountsOk => BucketsExact
    <2> SUFFICES ASSUME IInv, Used, CountsOk PROVE BucketsExact
      BY Zenon
    <2>1. ASSUME NEW p \in Ports PROVE p \in buckets <=> Owners(p) # {}
      <3>1. p # 0
        BY Zenon, PortConstants
      <3> QED BY <3>1 DEF Used, Owners, IInv, Owned, OwnedOk
    <2>2. UNION {Full(p) : p \in Ports} = AllFull
      <3>1. \A s \in Socks : bind_hash[s] \in Ports \cup {0}
        BY Zenon DEF IInv, TypeOK
      <3>2. \A s \in Socks : Held(s) # 0 => Held(s) \in Ports
        BY Zenon, <3>1 DEF Held
      <3>3. \A s : s \in UNION {Full(p) : p \in Ports} <=> s \in AllFull
        <4>1. ASSUME NEW s \in Socks, Held(s) # 0 PROVE \E p \in Ports : s \in Full(p)
          BY Zenon, <3>2, <4>1, FullHeld
        <4>2. ASSUME NEW p \in Ports, NEW s \in Full(p) PROVE s \in Socks /\ Held(s) # 0
          <5>1. s \in Socks /\ Held(s) = p
            BY Zenon, <4>2, FullHeld
          <5> QED BY Zenon, <5>1, PortConstants
        <4> QED BY Zenon, <4>1, <4>2 DEF AllFull
      <3> QED BY Zenon, <3>3
    <2>3. ASSUME NEW s \in Socks
          PROVE  /\ inet_num[s] = bind_hash[s]
                 /\ hashed[s] # "no" => bind_hash[s] # 0
                 /\ call[s].pc \in {"search", "have_snum"} /\ bind_hash[s] # 0
                      => call[s].pc = "have_snum" /\ call[s].snum = bind_hash[s]
      <3>1. CallOk(s) /\ OwnedOk(s)
        BY Zenon DEF IInv, CallShape, Owned
      <3> QED BY Zenon, <3>1 DEF CallOk, OwnedOk
    <2> QED BY Zenon, <2>1, <2>2, <2>3 DEF BucketsExact, CountsOk
  <1> QED BY <1>1, <1>2, <1>3, PortInvariant, PTL DEF Spec

-----------------------------------------------------------------------------
(* Identities. *)

Identity(s) == <<rcv_saddr[s], bind_hash[s], daddr[s]>>

\* A step after which t, if it is in ehash, was there before, with its identity.
Stays(t) == hashed'[t] = "ehash" => hashed[t] = "ehash" /\ Identity(t)' = Identity(t)

\* No step that only takes entries out of ehash makes two of one identity, ...
LEMMA StayUnique ==
    ASSUME UniqueIdentity, \A t \in Socks : Stays(t)
    PROVE  UniqueIdentity'
  BY Zenon DEF UniqueIdentity, Stays, Identity

\* ... nor does an entry that differs from those that stay.
LEMMA EntryUnique ==
    ASSUME UniqueIdentity, NEW s \in Socks, \A t \in Socks \ {s} : Stays(t),
           \A t \in Socks \ {s} : hashed'[t] = "ehash" /\ Identity(t)' = Identity(s)'
                                    => bound_dev[t] # bound_dev[s]
    PROVE  UniqueIdentity'
  <1> SUFFICES ASSUME NEW x \in Socks, NEW y \in Socks, x # y, hashed'[x] = "ehash",
                      hashed'[y] = "ehash", Identity(x)' = Identity(y)'
               PROVE  bound_dev[x] # bound_dev[y]
    BY Zenon DEF UniqueIdentity, Identity
  <1>1. CASE x = s
    BY Zenon, <1>1
  <1>2. CASE y = s
    BY Zenon, <1>2
  <1>3. CASE x # s /\ y # s
    BY Zenon, <1>3 DEF Stays, UniqueIdentity, Identity
  <1> QED BY Zenon, <1>1, <1>2, <1>3

\* Either all sockets are bound to a device or none is.
OneKind == \A s, t \in Socks : bound_dev[s] = Wild => bound_dev[t] = Wild

\* connect(): the check of __inet_check_established, the sole owner that leaves it out,
\* and the fresh bucket.
LEMMA ConnectUnique ==
    ASSUME IInv, UniqueIdentity, OneKind, NEW s \in Socks, NEW a \in Addrs, NEW r \in Remotes,
           (\E p \in LocalRange : ConnectAutomatic(s, a, r, p)) \/ ConnectBound(s, a, r)
    PROVE  UniqueIdentity'
  <1>1. ASSUME NEW p \in Ports, NEW tw \in SUBSET Socks, Connected(s, a, p, r, tw),
               \A t \in Socks \ ({s} \cup tw) :
                  INET_MATCH(t, s, a, p, r) => bound_dev[t] # bound_dev[s]
        PROVE  UniqueIdentity'
    <2>1. /\ rcv_saddr'[s] = a /\ bind_hash'[s] = p /\ daddr'[s] = r
          /\ \A t \in tw \ {s} : hashed'[t] = "no"
          /\ \A t \in Socks \ ({s} \cup tw) :
                /\ hashed'[t] = hashed[t] /\ rcv_saddr'[t] = rcv_saddr[t]
                /\ bind_hash'[t] = bind_hash[t] /\ daddr'[t] = daddr[t]
      BY Zenon, <1>1 DEF Connected
    <2>2. \A t \in Socks \ {s} : Stays(t)
      BY Zenon, <2>1 DEF Stays, Identity
    <2>3. ASSUME NEW t \in Socks \ {s}, hashed'[t] = "ehash", Identity(t)' = Identity(s)',
                 bound_dev[t] = bound_dev[s]
          PROVE  FALSE
      <3>1. t \notin tw
        BY Zenon, <2>1, <2>3
      <3>2. /\ hashed[t] = "ehash" /\ rcv_saddr[t] = a /\ bind_hash[t] = p /\ daddr[t] = r
        BY Zenon, <2>1, <2>3, <3>1 DEF Identity
      <3> QED BY Zenon, <1>1, <2>3, <3>1, <3>2 DEF INET_MATCH
    <2> QED BY Zenon, <2>2, <2>3, EntryUnique
  <1>2. ASSUME NEW p \in Ports, check_established(s, a, p, r) PROVE UniqueIdentity'
    <2>1. CASE {t \in Socks : INET_MATCH(t, s, a, p, r)} = {} /\ Connected(s, a, p, r, {})
      BY Zenon, <1>1, <2>1
    <2>2. CASE \E t \in Socks : INET_MATCH(t, s, a, p, r) /\ Connected(s, a, p, r, {t})
      <3>1. PICK u \in Socks : INET_MATCH(u, s, a, p, r) /\ Connected(s, a, p, r, {u})
        BY Zenon, <2>2
      <3>2. bound_dev[u] = bound_dev[s]
        BY Zenon, <3>1 DEF INET_MATCH, OneKind
      <3>3. ASSUME NEW t \in Socks \ ({s} \cup {u}), INET_MATCH(t, s, a, p, r)
            PROVE  bound_dev[t] # bound_dev[s]
        BY Zenon, <3>1, <3>2, <3>3 DEF INET_MATCH, UniqueIdentity
      <3> QED BY Zenon, <1>1, <3>1, <3>3
    <2> QED BY Zenon, <1>2, <2>1, <2>2 DEF check_established
  <1>3. ASSUME NEW p \in LocalRange, ConnectAutomatic(s, a, r, p) PROVE UniqueIdentity'
    <2>1. p \in Ports /\ p # 0
      BY Zenon, PortConstants
    <2>2. CASE p \notin buckets /\ Connected(s, a, p, r, {})
      <3>1. \A t \in Socks : ~INET_MATCH(t, s, a, p, r)
        BY Zenon, <2>1, <2>2 DEF INET_MATCH, IInv, Owned, OwnedOk
      <3> QED BY <1>1, <2>1, <2>2, <3>1
    <2> QED BY Zenon, <1>2, <1>3, <2>1, <2>2 DEF ConnectAutomatic
  <1>4. ASSUME ConnectBound(s, a, r) PROVE UniqueIdentity'
    <2> DEFINE p == bind_hash[s]
    <2>1. p \in Ports
      <3>1. bind_hash[s] \in Ports \cup {0} /\ inet_num[s] = bind_hash[s] /\ inet_num[s] # 0
        BY Zenon, <1>4 DEF ConnectBound, IInv, TypeOK, CallShape, CallOk
      <3> QED BY Zenon, <3>1
    <2>2. CASE Owners(p) = {s} /\ Connected(s, a, p, r, {})
      <3>1. \A t \in Socks \ {s} : ~INET_MATCH(t, s, a, p, r)
        BY Zenon, <2>2 DEF INET_MATCH, Owners
      <3> QED BY <1>1, <2>1, <2>2, <3>1
    <2> QED BY Zenon, <1>2, <1>4, <2>1, <2>2 DEF ConnectBound
  <1> QED BY Zenon, <1>3, <1>4

\* A child: the lookup that chose the listener found no socket with its identity.
LEMMA InheritUnique ==
    ASSUME IInv, UniqueIdentity, ~LateSegments, NEW l \in Socks, NEW c \in Socks \ {l},
           NEW a \in Addrs, NEW p \in Ports, NEW r \in Remotes, inherit_port(l, c, a, p, r)
    PROVE  UniqueIdentity'
  <1>1. /\ \A t \in Socks : ~INET_MATCH(t, l, a, p, r)
        /\ bound_dev[c] = bound_dev[l]
    BY Zenon DEF inherit_port
  <1>2. /\ rcv_saddr'[c] = a /\ bind_hash'[c] = p /\ daddr'[c] = r
        /\ \A t \in Socks \ {c} : /\ hashed'[t] = hashed[t] /\ rcv_saddr'[t] = rcv_saddr[t]
                                  /\ bind_hash'[t] = bind_hash[t] /\ daddr'[t] = daddr[t]
    BY Zenon DEF inherit_port, inet_bind_hash, IInv, TypeOK
  <1>3. \A t \in Socks \ {c} : Stays(t)
    BY Zenon, <1>2 DEF Stays, Identity
  <1>4. ASSUME NEW t \in Socks \ {c}, hashed'[t] = "ehash", Identity(t)' = Identity(c)',
               bound_dev[t] = bound_dev[c]
        PROVE  FALSE
    BY Zenon, <1>1, <1>2, <1>4 DEF Identity, INET_MATCH
  <1> QED BY Zenon, <1>3, <1>4, EntryUnique

\* TIME_WAIT takes over an identity.
LEMMA TimeWaitOpenUnique ==
    ASSUME IInv, UniqueIdentity, NEW s \in Socks, NEW t \in Socks \ {s}, TimeWaitOpen(s, t)
    PROVE  UniqueIdentity'
  <1>1. /\ hashed'[s] = "no" /\ Identity(t)' = Identity(s) /\ hashed[s] = "ehash"
        /\ bound_dev[t] = bound_dev[s]
        /\ \A u \in Socks \ {s, t} : hashed'[u] = hashed[u] /\ Identity(u)' = Identity(u)
    BY Zenon DEF IInv, TypeOK, TimeWaitOpen, Identity
  <1>2. \A u \in Socks \ {t} : Stays(u)
    BY Zenon, <1>1 DEF Stays
  <1>3. ASSUME NEW u \in Socks \ {t}, hashed'[u] = "ehash", Identity(u)' = Identity(t)'
        PROVE  bound_dev[u] # bound_dev[t]
    BY Zenon, <1>1, <1>3 DEF UniqueIdentity, Identity
  <1> QED BY Zenon, <1>2, <1>3, EntryUnique

\* The other steps add nothing to ehash.
LEMMA OtherUnique ==
    ASSUME IInv, UniqueIdentity, NEW s \in Socks,
           \/ CallStep(s)
           \/ \E a \in Addrs \cup {Wild}, p \in Ports \cup {0} : inet_bind(s, a, p)
           \/ inet_csk_listen_start(s)
           \/ \E a \in Addrs, r \in Remotes : ConnectFails(s, a, r)
           \/ tcp_set_state_CLOSE(s) \/ tcp_v4_destroy_sock(s)
           \/ tcp_time_wait(s) \/ TimeWaitEnds(s)
           \/ \E b \in BOOLEAN : SetReuse(s, b)
    PROVE  UniqueIdentity'
  <1>1. /\ \A t \in Socks \ {s} : hashed'[t] = hashed[t] /\ Identity(t)' = Identity(t)
        /\ Stays(s)
    <2>1. CASE \/ CallStep(s) \/ inet_csk_listen_start(s)
               \/ \E a \in Addrs \cup {Wild}, p \in Ports \cup {0} : inet_bind(s, a, p)
               \/ \E a \in Addrs, r \in Remotes : ConnectFails(s, a, r)
      <3>1. \E x : rcv_saddr' = [rcv_saddr EXCEPT ![s] = x]
        <4>1. rcv_saddr' = rcv_saddr \/ \E x : rcv_saddr' = [rcv_saddr EXCEPT ![s] = x]
          BY ZenonT(40), <2>1 DEF CallStep, SearchPort, HaveSnum, CreatePort, TakePort, Succeed,
             GetPortFails, ListenHash, Unlisten, inet_bind, inet_csk_listen_start, ConnectFails
        <4> QED BY Zenon, <4>1 DEF IInv, TypeOK
      <3>2. \E x : bind_hash' = [bind_hash EXCEPT ![s] = x]
        <4>1. bind_hash' = bind_hash \/ \E x : bind_hash' = [bind_hash EXCEPT ![s] = x]
          BY ZenonT(40), <2>1 DEF CallStep, SearchPort, HaveSnum, CreatePort, TakePort, Succeed,
             inet_bind_hash, inet_put_port, ListenHash, Unlisten, inet_bind,
             inet_csk_listen_start, ConnectFails
        <4> QED BY Zenon, <4>1 DEF IInv, TypeOK
      <3>3. daddr' = daddr /\ (hashed' = hashed \/ hashed' = [hashed EXCEPT ![s] = "listening_hash"])
        BY ZenonT(40), <2>1 DEF CallStep, SearchPort, HaveSnum, ListenHash, Unlisten, inet_bind,
           inet_csk_listen_start, ConnectFails
      <3>4. hashed[s] = "no"
        <4>1. CallOk(s) /\ OwnedOk(s)
          BY Zenon DEF IInv, CallShape, Owned
        <4>2. call[s].pc \in {"search", "have_snum", "hash", "unlisten"} \/ sk_state[s] = "CLOSE"
          BY Zenon, <2>1 DEF CallStep, SearchPort, HaveSnum, ListenHash, Unlisten, inet_bind,
             inet_csk_listen_start, ConnectFails
        <4> QED BY Zenon, <4>1, <4>2 DEF CallOk, OwnedOk
      <3>5. hashed'[s] # "ehash" /\ \A t \in Socks \ {s} : hashed'[t] = hashed[t]
        BY Zenon, <3>3, <3>4 DEF IInv, TypeOK
      <3>6. \A t \in Socks \ {s} : rcv_saddr'[t] = rcv_saddr[t] /\ bind_hash'[t] = bind_hash[t]
        BY Zenon, <3>1, <3>2 DEF IInv, TypeOK
      <3> QED BY Zenon, <3>3, <3>5, <3>6 DEF Stays, Identity
    <2>2. CASE tcp_set_state_CLOSE(s) \/ tcp_v4_destroy_sock(s) \/ TimeWaitEnds(s)
      <3>1. hashed' = [hashed EXCEPT ![s] = "no"] \/ (hashed' = hashed /\ hashed[s] = "no")
        BY Zenon, <2>2 DEF tcp_set_state_CLOSE, tcp_v4_destroy_sock, TimeWaitEnds, Forget
      <3>2. hashed'[s] # "ehash" /\ \A t \in Socks \ {s} : hashed'[t] = hashed[t]
        BY Zenon, <3>1 DEF IInv, TypeOK
      <3>3. /\ bind_hash' = bind_hash \/ bind_hash' = [bind_hash EXCEPT ![s] = 0]
            /\ rcv_saddr' = rcv_saddr \/ rcv_saddr' = [rcv_saddr EXCEPT ![s] = Wild]
            /\ daddr' = [daddr EXCEPT ![s] = Wild]
        BY Zenon, <2>2 DEF tcp_set_state_CLOSE, tcp_v4_destroy_sock, TimeWaitEnds, Forget,
           inet_put_port
      <3>4. \A t \in Socks \ {s} : /\ rcv_saddr'[t] = rcv_saddr[t] /\ bind_hash'[t] = bind_hash[t]
                                   /\ daddr'[t] = daddr[t]
        BY Zenon, <3>3 DEF IInv, TypeOK
      <3> QED BY Zenon, <3>2, <3>4 DEF Stays, Identity
    <2>3. CASE tcp_time_wait(s) \/ \E b \in BOOLEAN : SetReuse(s, b)
      <3>1. UNCHANGED <<hashed, rcv_saddr, bind_hash, daddr>>
        BY Zenon, <2>3 DEF tcp_time_wait, SetReuse
      <3> QED BY Zenon, <3>1 DEF Stays, Identity
    <2> QED BY Zenon, <2>1, <2>2, <2>3
  <1>2. \A t \in Socks : Stays(t)
    BY Zenon, <1>1 DEF Stays
  <1> QED BY Zenon, <1>2, StayUnique

\* No two entries of ehash have one identity, although a sole owner of a port skips the
\* check and __inet_check_established stops at the first TIME_WAIT socket it meets: for
\* any sockets, ports and addresses, if lookup and child creation are not separated by a
\* connect() and sockets bound to a device are not mixed with sockets that are not.
\* (Mixed, the walk may stop at a TIME_WAIT socket without a device and never see the
\* connection of the device itself.)
THEOREM IdentityAlwaysUnique ==
    ASSUME ~LateSegments, OneKind
    PROVE  Spec => []UniqueIdentity
  <1>1. Init => UniqueIdentity
    BY Zenon DEF Init, UniqueIdentity
  <1>2. IInv /\ UniqueIdentity /\ [Next]_vars => UniqueIdentity'
    <2> SUFFICES ASSUME IInv, UniqueIdentity, [Next]_vars PROVE UniqueIdentity'
      BY Zenon
    <2>1. CASE UNCHANGED vars
      BY Zenon, <2>1, StayUnique DEF vars, socks, Stays, Identity
    <2>2. ASSUME NEW s \in Socks, SocketStep(s) PROVE UniqueIdentity'
      <3>1. \/ \E a \in Addrs \cup {Wild}, p \in Ports \cup {0} : inet_bind(s, a, p)
            \/ inet_csk_listen_start(s)
            \/ \E b \in BOOLEAN : SetReuse(s, b)
            \/ \E a \in Addrs, r \in Remotes :
                  (\E p \in LocalRange : ConnectAutomatic(s, a, r, p)) \/ ConnectBound(s, a, r)
            \/ \E a \in Addrs, r \in Remotes : ConnectFails(s, a, r)
            \/ tcp_set_state_CLOSE(s) \/ tcp_v4_destroy_sock(s)
            \/ \E c \in Socks \ {s}, a \in Addrs, p \in Ports, r \in Remotes :
                  inherit_port(s, c, a, p, r)
            \/ tcp_time_wait(s) \/ TimeWaitEnds(s)
            \/ \E t \in Socks \ {s} : TimeWaitOpen(s, t)
        BY Zenon, <2>2 DEF SocketStep
      <3> QED BY ZenonT(40), <3>1, OtherUnique, ConnectUnique, InheritUnique, TimeWaitOpenUnique
    <2> QED BY Zenon, <2>1, <2>2, OtherUnique DEF Next
  <1> QED BY <1>1, <1>2, PortInvariant, PTL DEF Spec
=============================================================================
