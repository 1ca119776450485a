------------------------------- MODULE Lookup -------------------------------
(***************************************************************************)
(* The lookup of a segment's socket without locks (inet_hashtables.c): the  *)
(* chain of established sockets, the chain of TIME_WAIT ones beside it, and *)
(* the chain of listeners, walked pointer by pointer while other processors *)
(* hash, unhash, free and reuse the sockets.                                *)
(*                                                                         *)
(* A freed socket is reused at once (SLAB_DESTROY_BY_RCU), so a walk may    *)
(* stand on a socket that has left its chain, died, or joined another one.  *)
(* A chain ends in a null that names its bucket.  One lookup, of one        *)
(* segment; writers change a chain under its lock, so their pointer writes  *)
(* are steps of their own and not interleaved with each other.              *)
(***************************************************************************)
EXTENDS Integers, FiniteSets

CONSTANTS
    Socks,        \* the objects of the slab of sockets
    Tws,          \* the objects of the slab of TIME_WAIT sockets
    IdSets        \* sets of identities, one of which is in play

VARIABLES
    ids,          \* the identities in play
    obj,          \* each object: free, references, identity, chain and successor
    head,         \* the first object of each chain
    dance,        \* the object whose successor is hashed and that is yet to be unhashed
    rd            \* the lookup

vars == <<ids, obj, head, dance, rd>>

Objs == Socks \cup Tws

(***************************************************************************)
(* Identities: the connection the segment belongs to ("t"), one that shares *)
(* its bucket ("o"), one that does not ("x"), a listener bound to the       *)
(* segment's address ("l") and one bound to any ("w").                      *)
(***************************************************************************)
Listeners == {"l", "w"}

Ids == {"t", "o", "x"} \cup Listeners

ASSUME IdsAssumption == IdSets \subseteq SUBSET Ids

\* Two slabs; an object is told from the end of a chain by its lowest bit.
ASSUME SlabsAssumption == Socks \cap Tws = {} /\ (Socks \cup Tws) \cap 0..3 = {}

Target == "t"

\* The chain an object with an identity is hashed in.
ChainOf(o, id) ==
    CASE id \in Listeners -> "listen"
      [] o \in Tws /\ id \notin Listeners -> IF id = "x" THEN "tw2" ELSE "tw1"
      [] OTHER -> IF id = "x" THEN "est2" ELSE "est1"

Chains == {"est1", "est2", "tw1", "tw2", "listen"}

\* The null at the end of a chain: the slot, the same for both chains of a bucket,
\* or the slot from LISTENING_NULLS_BASE on.
Null(c) ==
    CASE c \in {"est1", "tw1"} -> 1
      [] c \in {"est2", "tw2"} -> 2
      [] c = "listen" -> 3

Nulls == {1, 2, 3}

None == 0

Unused == [free |-> TRUE, owned |-> FALSE, refs |-> 0, id |-> "x", in |-> "none", next |-> None]

\* stable: the identities of the segment that were hashed all along this lookup;
\* died: the listener it had chosen died under it.
Idle == [pc |-> "idle", walk |-> "est1", cur |-> None, best |-> None, hi |-> -1, res |-> None,
         stable |-> {}, died |-> FALSE]

Init ==
    /\ ids \in IdSets
    /\ obj = [o \in Objs |-> Unused]
    /\ head = [c \in Chains |-> Null(c)]
    /\ dance = None
    /\ rd = Idle

-----------------------------------------------------------------------------
(* What the other processors do. *)

Hashed(x, id) == {o \in Objs : x[o].in # "none" /\ x[o].id = id}

Watched(r, x) == [r EXCEPT !.stable = {id \in @ : Hashed(x, id) # {}}]

\* __sk_nulls_add_node_rcu, at the head of the chain.
AddNode(x, o, id) ==
    /\ obj' = [x EXCEPT ![o].in = ChainOf(o, id), ![o].id = id, ![o].next = head[ChainOf(o, id)]]
    /\ head' = [head EXCEPT ![ChainOf(o, id)] = o]

\* MUTANT: the node forgets its successor.
DelNodeInit(x, o) ==
    LET c == x[o].in
    IN  /\ obj' = [p \in Objs |->
                    IF p = o THEN [x[o] EXCEPT !.in = "none", !.next = Null(c)]
                    ELSE IF x[p].in = c /\ x[p].next = o THEN [x[p] EXCEPT !.next = x[o].next]
                    ELSE x[p]]
        /\ head' = IF head[c] = o THEN [head EXCEPT ![c] = x[o].next] ELSE head

\* __sk_nulls_del_node_init_rcu: the node keeps its next for the walks on it.
DelNode(x, o) ==
    LET c == x[o].in
    IN  /\ obj' = [p \in Objs |->
                    IF p = o THEN [x[o] EXCEPT !.in = "none"]
                    ELSE IF x[p].in = c /\ x[p].next = o THEN [x[p] EXCEPT !.next = x[o].next]
                    ELSE x[p]]
        /\ head' = IF head[c] = o THEN [head EXCEPT ![c] = x[o].next] ELSE head

\* sock_put: with the last reference the memory is free.
Put(x, o) ==
    [x EXCEPT ![o].refs = @ - 1, ![o].free = (x[o].refs = 1)]

\* Memory is taken from the slab; the node is left as it is.
Alloc(o) ==
    /\ o \in Socks /\ obj[o].free
    /\ obj' = [obj EXCEPT ![o].free = FALSE, ![o].owned = TRUE, ![o].refs = 1]
    /\ UNCHANGED <<head, dance, rd>>

\* The lock of a bucket is held between the two steps of a dance.
Unlocked(c) == dance \in Objs => Null(obj[dance].in) # Null(c)

\* The identity is written when it is known to be free, and the socket is hashed
\* (__inet_check_established, __inet_hash_nolisten, __inet_hash of a listener).
Hash(o, id) ==
    /\ o \in Socks /\ obj[o].owned /\ obj[o].in = "none"
    /\ Hashed(obj, id) = {} /\ Unlocked(ChainOf(o, id))
    /\ AddNode(obj, o, id)
    /\ rd' = Watched(rd, obj')
    /\ UNCHANGED dance

\* inet_unhash.
Unhash(o) ==
    /\ o \in Socks /\ obj[o].in # "none" /\ Unlocked(obj[o].in)
    /\ DelNode(obj, o)
    /\ rd' = Watched(rd, obj')
    /\ UNCHANGED dance

\* The owner is done with the socket.
Release(o) ==
    /\ o \in Socks /\ obj[o].owned /\ obj[o].in = "none"
    /\ obj' = [Put(obj, o) EXCEPT ![o].owned = FALSE]
    /\ UNCHANGED <<head, dance, rd>>

\* tcp_time_wait: __inet_twsk_hashdance hashes the twin first ...
TwHash(o, w) ==
    /\ o \in Socks /\ obj[o].in \in {"est1", "est2"} /\ dance = None
    /\ w \in Tws /\ obj[w].free
    /\ AddNode([obj EXCEPT ![w].free = FALSE, ![w].refs = 1], w, obj[o].id)
    /\ dance' = o
    /\ rd' = Watched(rd, obj')

\* __inet_check_established takes the identity of a TIME_WAIT socket over
\* (twsk_unique): the new socket enters its chain first.  A walk that is between the
\* two chains will see neither, so the identity does not count as hashed all along.
Recycle(o, w) ==
    /\ o \in Socks /\ obj[o].owned /\ obj[o].in = "none" /\ dance = None
    /\ w \in Tws /\ obj[w].in # "none"
    /\ AddNode(obj, o, obj[w].id)
    /\ dance' = w
    /\ rd' = [rd EXCEPT !.stable = @ \ {obj[w].id}]

\* In both cases the old one leaves its chain after that.
UnhashOld ==
    /\ dance # None
    /\ DelNode(IF dance \in Tws THEN Put(obj, dance) ELSE obj, dance)
    /\ dance' = None
    /\ rd' = Watched(rd, obj')

\* The time of a TIME_WAIT socket is over.
TwKill(w) ==
    /\ w \in Tws /\ obj[w].in # "none" /\ dance = None
    /\ DelNode(Put(obj, w), w)
    /\ rd' = Watched(rd, obj')
    /\ UNCHANGED dance

-----------------------------------------------------------------------------
(* __inet_lookup. *)

\* compute_score, for the segment's address and port; a connection accepted by a
\* listener has its address and port too.
compute_score(id) == CASE id \in {"t", "l"} -> 3 [] id = "w" -> 1 [] OTHER -> -1

Walks(r, c) == [r EXCEPT !.pc = "look", !.walk = c, !.cur = head[c], !.best = None, !.hi = -1,
                         !.res = None]

Found(r, o) == [r EXCEPT !.pc = "done", !.res = o]

LookupStart ==
    /\ rd.pc = "idle"
    /\ rd' = [Walks(Idle, "est1") EXCEPT !.stable = {id \in {"t", "l", "w"} : Hashed(obj, id) # {}}]
    /\ UNCHANGED <<obj, head, dance>>

\* INET_MATCH and INET_TW_MATCH of the object the walk stands on.
Match ==
    /\ rd.pc = "look" /\ rd.cur \in Objs /\ rd.walk # "listen"
    /\ rd' = [rd EXCEPT !.pc = IF obj[rd.cur].id = Target THEN "take" ELSE "next"]
    /\ UNCHANGED <<obj, head, dance>>

Score ==
    /\ rd.pc = "look" /\ rd.cur \in Objs /\ rd.walk = "listen"
    /\ LET score == compute_score(obj[rd.cur].id)
       IN  rd' = IF score > rd.hi THEN [rd EXCEPT !.pc = "next", !.best = rd.cur, !.hi = score]
                 ELSE [rd EXCEPT !.pc = "next"]
    /\ UNCHANGED <<obj, head, dance>>

Advance ==
    /\ rd.pc = "next"
    /\ rd' = [rd EXCEPT !.pc = "look", !.cur = obj[rd.cur].next]
    /\ UNCHANGED <<obj, head, dance>>

\* The chain after the one that had no match; after the last the best listener.
NextChain(r) ==
    CASE r.walk = "est1" -> Walks(r, "tw1")
      [] r.walk = "tw1" -> Walks(r, "listen")
      [] r.walk = "listen" -> IF r.best = None THEN Found(r, None) ELSE [r EXCEPT !.pc = "take", !.cur = r.best]

\* MUTANT: any end is an end.
EndOfAnyChain(r) == NextChain(r)

\* The null tells whether the walk ended in the chain it began in.
EndOfChain(r) == IF r.cur # Null(r.walk) THEN Walks(r, r.walk) ELSE NextChain(r)

End ==
    /\ rd.pc = "look" /\ rd.cur \in Nulls
    /\ rd' = EndOfChain(rd)
    /\ UNCHANGED <<obj, head, dance>>

\* atomic_inc_not_zero failed: on to TIME_WAIT, to the listeners, or to no result.
TakeFailed(r) == IF r.walk = "listen" THEN [Found(r, None) EXCEPT !.died = TRUE] ELSE NextChain(r)

\* MUTANT: the count is raised whatever it is.
MayTakeAny(o) == TRUE

MayTake(o) == obj[o].refs # 0

Take ==
    /\ rd.pc = "take"
    /\ IF MayTake(rd.cur)
       THEN /\ rd' = [rd EXCEPT !.pc = "recheck", !.res = rd.cur]
            /\ obj' = [obj EXCEPT ![rd.cur].refs = @ + 1]
       ELSE rd' = TakeFailed(rd) /\ UNCHANGED obj
    /\ UNCHANGED <<head, dance>>

\* The match, or the score, once more.
Fits(r, o) == IF r.walk = "listen" THEN compute_score(o.id) >= r.hi ELSE o.id = Target

Recheck ==
    /\ rd.pc = "recheck"
    /\ IF Fits(rd, obj[rd.res])
       THEN rd' = Found(rd, rd.res) /\ UNCHANGED obj
       ELSE rd' = Walks(rd, rd.walk) /\ obj' = Put(obj, rd.res)
    /\ UNCHANGED <<head, dance>>

\* The segment is processed and the reference dropped.
Processed ==
    /\ rd.pc = "done"
    /\ rd' = Idle
    /\ obj' = IF rd.res = None THEN obj ELSE Put(obj, rd.res)
    /\ UNCHANGED <<head, dance>>

Next ==
    /\ UNCHANGED ids
    /\ \/ \E o \in Socks :
           \/ Alloc(o) \/ Unhash(o) \/ Release(o)
           \/ \E id \in ids : Hash(o, id)
           \/ \E w \in Tws : TwHash(o, w) \/ Recycle(o, w)
       \/ \E w \in Tws : TwKill(w)
       \/ UnhashOld
       \/ LookupStart \/ Match \/ Score \/ Advance \/ End \/ Take \/ Recheck \/ Processed

Spec == Init /\ [][Next]_vars

-----------------------------------------------------------------------------
(* Properties. *)

TypeOK ==
    /\ obj \in [Objs -> [free : BOOLEAN, owned : BOOLEAN, refs : 0..2,
                         id : Ids, in : Chains \cup {"none"},
                         next : Objs \cup Nulls \cup {None}]]
    /\ head \in [Chains -> Objs \cup Nulls]
    /\ dance \in Objs \cup {None}
    /\ rd \in [pc : {"idle", "look", "next", "take", "recheck", "done"}, walk : {"est1", "tw1", "listen"},
               cur : Objs \cup Nulls \cup {None}, best : Objs \cup {None}, hi : {-1, 1, 3},
               res : Objs \cup {None}, stable : SUBSET {"t", "l", "w"}, died : BOOLEAN]

\* What a lookup holds is not free: a reference taken without a lock never brings a
\* dead socket back, nor is it lost when the memory is used again.
HeldIsLive == rd.res # None => ~obj[rd.res].free /\ obj[rd.res].refs > 0

\* A lookup returns a socket with the segment's identity, or a listener that fits it
\* as well as the one it chose, at the moment it returns it.
FoundFits ==
    [][rd.pc # "done" /\ rd'.pc = "done" /\ rd'.res # None
         => IF rd'.walk = "listen" THEN compute_score(obj'[rd'.res].id) >= rd'.hi
            ELSE obj'[rd'.res].id = Target]_vars

\* A connection that is hashed all along is found, also while it passes to its
\* TIME_WAIT socket: its segments never reach a listener or a reset.
ConnectionFound == rd.pc = "done" /\ Target \in rd.stable => rd.res # None /\ rd.walk # "listen"

\* A listener that is hashed all along is not overlooked, nor is a worse one
\* returned, unless the listener that was chosen died before it could be held.
ListenerFound ==
    rd.pc = "done" /\ rd.walk = "listen" /\ ~rd.died
      => \A id \in rd.stable \cap Listeners : rd.res # None /\ compute_score(id) <= rd.hi
=============================================================================
