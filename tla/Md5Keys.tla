------------------------------ MODULE Md5Keys ------------------------------
(***************************************************************************)
(* The MD5 keys of TCP sockets (tcp_ipv4.c): an array of keys per socket    *)
(* that grows by one slot when it is full, is closed up when a key is       *)
(* deleted and goes with its last key; the copies a child and a TIME_WAIT   *)
(* socket take; and the users of the pool of hash contexts.                 *)
(*                                                                         *)
(* Keys are kernel memory: an object of Objs that is free, or holds a key.  *)
(* Every allocation may fail.  An operation runs under the lock of its      *)
(* socket, the pool is shared.                                              *)
(***************************************************************************)
EXTENDS Integers, FiniteSets

CONSTANTS
    Socks, Tws,       \* sockets, TIME_WAIT sockets
    Addrs, NoAddr,    \* peer addresses, and none
    Keys, NoKey,      \* keys, and none
    Objs              \* kernel memory for keys

ASSUME NoneAssumption == NoAddr \notin Addrs /\ NoKey \notin Keys

ASSUME FiniteAssumption == IsFiniteSet(Socks) /\ IsFiniteSet(Tws)

VARIABLES
    sk,               \* each socket: its state and its peer
    info,             \* each socket's md5sig_info
    mem,              \* the key each object holds, NoKey when it is free
    tw,               \* each TIME_WAIT socket: in use, and the key it keeps
    users,            \* tcp_md5sig_users
    verdict           \* what was decided of the last segment

vars == <<sk, info, mem, tw, users, verdict>>

NoVerdict == [sk |-> "none", from |-> NoAddr, sig |-> NoKey, taken |-> FALSE]

\* The list of a socket without keys; its md5sig_info may be allocated or not yet.
NoInfo == [entries4 |-> 0, alloced4 |-> 0, keys4 |-> [i \in 1..0 |-> i]]

Unused == [st |-> "free", daddr |-> NoAddr]

NoTw == [there |-> FALSE, key |-> NoKey]

Init ==
    /\ sk = [s \in Socks |-> Unused]
    /\ info = [s \in Socks |-> NoInfo]
    /\ mem = [o \in Objs |-> NoKey]
    /\ tw = [t \in Tws |-> NoTw]
    /\ users = 0
    /\ verdict = NoVerdict

-----------------------------------------------------------------------------
(* The key list of a socket. *)

\* The slots in use, and those for an address.
Used(inf) == 1..inf.entries4

SlotsFor(inf, a) == {i \in Used(inf) : inf.keys4[i].addr = a}

\* The first slot for an address.
tcp_v4_md5_do_lookup(inf, a) ==
    CHOOSE i \in SlotsFor(inf, a) : \A j \in SlotsFor(inf, a) : i <= j

KeyIn(heap, inf, a) ==
    IF SlotsFor(inf, a) = {} THEN NoKey
    ELSE heap[inf.keys4[tcp_v4_md5_do_lookup(inf, a)].key]

KeyFor(inf, a) == KeyIn(mem, inf, a)

\* A slot more in use; when none is free, an array with one more is allocated and
\* the old one copied.
Appended(inf, new) ==
    LET n == inf.entries4 + 1
        alloced == IF inf.alloced4 = inf.entries4 THEN n ELSE inf.alloced4
    IN  [entries4 |-> n, alloced4 |-> alloced,
         keys4 |-> [i \in 1..alloced |-> IF i = n THEN new ELSE inf.keys4[i]]]

\* A memmove of one slot too few.
ClosedShort(inf, i) ==
    [j \in 1..inf.alloced4 |->
        IF j \in i..(inf.entries4 - 2) THEN inf.keys4[j + 1] ELSE inf.keys4[j]]

\* The memmove that closes slot i up, over the slots that are left.
Closed(inf, i) ==
    [j \in 1..inf.alloced4 |->
        IF j \in i..(inf.entries4 - 1) THEN inf.keys4[j + 1] ELSE inf.keys4[j]]

Removed(inf, i) ==
    IF inf.entries4 = 1 THEN NoInfo
    ELSE [entries4 |-> inf.entries4 - 1, alloced4 |-> inf.alloced4, keys4 |-> Closed(inf, i)]

Updated(inf, i, o) ==
    [entries4 |-> inf.entries4, alloced4 |-> inf.alloced4,
     keys4 |-> [inf.keys4 EXCEPT ![i] = [addr |-> inf.keys4[i].addr, key |-> o]]]

\* An existing slot gets the new key, and the old one is freed.
Update(s, inf, heap, a, o) ==
    LET i == tcp_v4_md5_do_lookup(inf, a) IN
    /\ SlotsFor(inf, a) # {}
    /\ info' = [info EXCEPT ![s] = Updated(inf, i, o)]
    /\ mem' = [heap EXCEPT ![inf.keys4[i].key] = NoKey]
    /\ UNCHANGED users

\* No memory: for the md5sig_info (which may be there already), for the pool (which is
\* there when it has users), or for the array.  The new key is freed.
AddFails(s, inf, heap, a, o) ==
    /\ SlotsFor(inf, a) = {}
    /\ inf.alloced4 = inf.entries4
    /\ mem' = [heap EXCEPT ![o] = NoKey]
    /\ info' = [info EXCEPT ![s] = inf]
    /\ UNCHANGED users

AddSlot(s, inf, heap, a, o) ==
    /\ SlotsFor(inf, a) = {}
    /\ info' = [info EXCEPT ![s] = Appended(inf, [addr |-> a, key |-> o])]
    /\ mem' = heap
    /\ users' = IF inf.entries4 = 0 THEN users + 1 ELSE users

\* tcp_v4_md5_do_add, of the list inf of s and an object o of the heap.
tcp_v4_md5_do_add(s, inf, heap, a, o) ==
    \/ Update(s, inf, heap, a, o)
    \/ AddFails(s, inf, heap, a, o)
    \/ AddSlot(s, inf, heap, a, o)

FreeObjs == {o \in Objs : mem[o] = NoKey}

Alive == {"open", "listen", "conn", "done"}

\* TCP_MD5SIG with a key, once the md5sig_info and the copy of the key are there.
SetKey(s, a, k) ==
    /\ sk[s].st \in Alive
    /\ \E o \in FreeObjs : tcp_v4_md5_do_add(s, info[s], [mem EXCEPT ![o] = k], a, o)
    /\ verdict' = NoVerdict
    /\ UNCHANGED <<sk, tw>>

\* TCP_MD5SIG without a key: tcp_v4_md5_do_del.
DelKey(s, a) ==
    LET inf == info[s]
        i == tcp_v4_md5_do_lookup(inf, a)
    IN
    /\ sk[s].st \in Alive
    /\ SlotsFor(inf, a) # {}
    /\ mem' = [mem EXCEPT ![inf.keys4[i].key] = NoKey]
    /\ info' = [info EXCEPT ![s] = Removed(inf, i)]
    /\ users' = IF inf.entries4 = 1 THEN users - 1 ELSE users
    /\ verdict' = NoVerdict
    /\ UNCHANGED <<sk, tw>>

-----------------------------------------------------------------------------
(* Sockets come, connect and go. *)

Open(s) ==
    /\ sk[s].st = "free"
    /\ sk' = [sk EXCEPT ![s].st = "open"]
    /\ verdict' = NoVerdict
    /\ UNCHANGED <<info, mem, tw, users>>

Listen(s) ==
    /\ sk[s].st = "open"
    /\ sk' = [sk EXCEPT ![s].st = "listen"]
    /\ verdict' = NoVerdict
    /\ UNCHANGED <<info, mem, tw, users>>

Connect(s, a) ==
    /\ sk[s].st = "open"
    /\ sk' = [sk EXCEPT ![s] = [st |-> "conn", daddr |-> a]]
    /\ verdict' = NoVerdict
    /\ UNCHANGED <<info, mem, tw, users>>

\* The child keeps the clone's pointer.
ChildInfoShared(l) == info[l]

\* The list a child starts with: the clone's pointer to the listener's is reset.
ChildInfo(l) == NoInfo

\* The child of a listener.  Its peer's key is copied over if there is memory.  When
\* the port cannot be inherited the child is put once, and nobody puts it again.
SynRecvSock(l, c, a) ==
    /\ sk[l].st = "listen"
    /\ sk[c].st = "free"
    /\ \E st \in {"conn", "leaked"} : sk' = [sk EXCEPT ![c] = [st |-> st, daddr |-> a]]
    /\ \/ /\ info' = [info EXCEPT ![c] = ChildInfo(l)]
          /\ UNCHANGED <<mem, users>>
       \/ /\ SlotsFor(info[l], a) # {}
          /\ \E o \in FreeObjs :
                tcp_v4_md5_do_add(c, ChildInfo(l), [mem EXCEPT ![o] = KeyFor(info[l], a)], a, o)
    /\ verdict' = NoVerdict
    /\ UNCHANGED tw

\* The users of the pool a TIME_WAIT socket adds: one when it keeps a key.
TwUsers(key) == IF key = NoKey THEN 0 ELSE 1

\* tcp_time_wait: a TIME_WAIT socket with a copy of the key of the peer, or none.
TimeWait(s, t) ==
    LET key == KeyFor(info[s], sk[s].daddr) IN
    /\ sk[s].st = "conn"
    /\ ~tw[t].there
    /\ tw' = [tw EXCEPT ![t] = [there |-> TRUE, key |-> key]]
    /\ users' = users + TwUsers(key)
    /\ sk' = [sk EXCEPT ![s].st = "done"]
    /\ verdict' = NoVerdict
    /\ UNCHANGED <<info, mem>>

TimeWaitOverflow(s) ==
    /\ sk[s].st = "conn"
    /\ sk' = [sk EXCEPT ![s].st = "done"]
    /\ verdict' = NoVerdict
    /\ UNCHANGED <<info, mem, tw, users>>

TwskDestructor(t) ==
    /\ tw[t].there
    /\ users' = users - TwUsers(tw[t].key)
    /\ tw' = [tw EXCEPT ![t] = NoTw]
    /\ verdict' = NoVerdict
    /\ UNCHANGED <<sk, info, mem>>

\* The objects a list holds.
Held(inf) == {inf.keys4[i].key : i \in Used(inf)}

\* tcp_v4_destroy_sock, with tcp_v4_clear_md5_list.
DestroySock(s) ==
    /\ sk[s].st \in Alive
    /\ mem' = [o \in Objs |-> IF o \in Held(info[s]) THEN NoKey ELSE mem[o]]
    /\ users' = IF info[s].entries4 > 0 THEN users - 1 ELSE users
    /\ info' = [info EXCEPT ![s] = NoInfo]
    /\ sk' = [sk EXCEPT ![s] = Unused]
    /\ verdict' = NoVerdict
    /\ UNCHANGED tw

-----------------------------------------------------------------------------
(* Segments. *)

\* tcp_v4_inbound_md5_hash: 0 means taken.  The hash of a segment stands for the key
\* it was made with; making it fails without a pool, or in the crypto layer.
Takes(s, a, sig, hashed) ==
    LET expected == SlotsFor(info[s], a) # {} IN
    \/ ~expected /\ sig = NoKey
    \/ expected /\ sig # NoKey /\ hashed /\ users > 0 /\ sig = KeyFor(info[s], a)

Segment(s, a, sig) ==
    /\ sk[s].st \in {"listen", "conn"}
    /\ \E hashed \in BOOLEAN :
          verdict' = [sk |-> s, from |-> a, sig |-> sig, taken |-> Takes(s, a, sig, hashed)]
    /\ UNCHANGED <<sk, info, mem, tw, users>>

-----------------------------------------------------------------------------
Next ==
    \/ \E s \in Socks : Open(s) \/ Listen(s) \/ TimeWaitOverflow(s) \/ DestroySock(s)
    \/ \E s \in Socks, a \in Addrs : Connect(s, a) \/ DelKey(s, a)
    \/ \E s \in Socks, a \in Addrs, k \in Keys : SetKey(s, a, k)
    \/ \E l, c \in Socks, a \in Addrs : SynRecvSock(l, c, a)
    \/ \E s \in Socks, t \in Tws : TimeWait(s, t)
    \/ \E t \in Tws : TwskDestructor(t)
    \/ \E s \in Socks, a \in Addrs, sig \in Keys \cup {NoKey} : Segment(s, a, sig)

Spec == Init /\ [][Next]_vars

-----------------------------------------------------------------------------
(* Properties. *)

Slot == [addr : Addrs, key : Objs]

\* A list: slots up to alloced4, of which entries4 are in use; no array without a key.
InfoType(inf) ==
    /\ inf.entries4 \in 0..inf.alloced4
    /\ inf.keys4 \in [1..inf.alloced4 -> Slot]
    /\ inf.entries4 = 0 => inf.alloced4 = 0

\* Types, of the arrays as tcp_v4_md5_do_add and tcp_v4_md5_do_del keep them: never more
\* slots in use than allocated, and the array freed with its last key.
TypeOK ==
    /\ sk \in [Socks -> [st : Alive \cup {"free", "leaked"}, daddr : Addrs \cup {NoAddr}]]
    /\ DOMAIN info = Socks /\ \A s \in Socks : InfoType(info[s])
    /\ mem \in [Objs -> Keys \cup {NoKey}]
    /\ tw \in [Tws -> [there : BOOLEAN, key : Keys \cup {NoKey}]]
    /\ users \in Int

\* The pool of hash contexts has one user for every socket with a key and every TIME_WAIT
\* socket with one, so it is there whenever a key is found: the BUG() of tcp_time_wait
\* is not reached, and the pool goes with the last key (tcp_alloc_md5sig_pool and
\* tcp_free_md5sig_pool, called from the two ends of five functions).
PoolExact ==
    users = Cardinality({s \in Socks : info[s].entries4 > 0})
            + Cardinality({t \in Tws : tw[t].key # NoKey})

\* Key memory is owned once: every slot in use of every socket holds an object of its
\* own that is allocated, and every allocated object is in such a slot.  Nothing is
\* freed twice, used after it is freed, or lost when one allocation of several fails.
KeysOwnedOnce ==
    /\ {o \in Objs : mem[o] # NoKey} = UNION {Held(info[s]) : s \in Socks}
    /\ \A s, r \in Socks : \A i \in Used(info[s]), j \in Used(info[r]) :
          info[s].keys4[i].key = info[r].keys4[j].key => s = r /\ i = j

\* What tcp_v4_md5_do_add, tcp_v4_md5_do_del and tcp_v4_clear_md5_list take and give back
\* is balanced: memory for the keys, and users of the pool.
OwnershipExact == KeysOwnedOnce /\ PoolExact

\* An address has at most one slot of a list: deleting the key of an address leaves no
\* older one behind.
OneSlotEach ==
    \A s \in Socks : \A i, j \in Used(info[s]) :
        info[s].keys4[i].addr = info[s].keys4[j].addr => i = j

\* The comment above tcp_v4_md5_do_lookup: "RFC2385 MD5 checksumming requires a mapping of
\* IP address->MD5 Key."  The arrays, their growth and their memmove implement that map,
\* children and TIME_WAIT sockets copy the entry of their peer, and
\* tcp_v4_inbound_md5_hash takes a segment only with the signature the map asks for.
M == INSTANCE KeyMap WITH
        map <- [s \in Socks |-> [a \in Addrs |-> KeyFor(info[s], a)]],
        peer <- [s \in Socks |-> sk[s].daddr],
        twkey <- [t \in Tws |-> tw[t].key]

KeysAsMap == M!Spec
=============================================================================
