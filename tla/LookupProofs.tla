---------------------------- MODULE LookupProofs ----------------------------
(***************************************************************************)
(* A lookup without locks finds what was hashed all along and holds what it *)
(* returns, for any number of sockets, TIME_WAIT sockets and identities.    *)
(*                                                                         *)
(* The argument for the walk: call a set of nodes closed for a hashed       *)
(* object T if it holds the heads of the chains of T's slab, holds with     *)
(* every object but T its successor, and does not hold the null of T's      *)
(* chain.  A walk that is in such a set passes T, or ends in the null of    *)
(* another chain and begins again.  No writer takes a walk out of the set:  *)
(* an object that is added points to a head, and one that is removed hands  *)
(* its successor to its predecessor and keeps it.                           *)
(***************************************************************************)
EXTENDS Lookup, TLAPS

ObjType ==
    [free : BOOLEAN, owned : BOOLEAN, refs : Nat, id : Ids, in : Chains \cup {"none"},
     next : Objs \cup Nulls \cup {None}]

RdType ==
    [pc : {"idle", "look", "next", "take", "recheck", "done"}, walk : {"est1", "tw1", "listen"},
     cur : Objs \cup Nulls \cup {None}, best : Objs \cup {None}, hi : {-1, 1, 3},
     res : Objs \cup {None}, stable : SUBSET {"t", "l", "w"}, died : BOOLEAN]

Types ==
    /\ obj \in [Objs -> ObjType]
    /\ head \in [Chains -> Objs \cup Nulls]
    /\ dance \in Objs \cup {None}
    /\ rd \in RdType
    /\ ids \subseteq Ids

Slab(o) == IF o \in Socks THEN Socks ELSE Tws

SlabChains(o) == IF o \in Socks THEN {"est1", "est2", "listen"} ELSE {"tw1", "tw2"}

\* Every chain is a list of the objects that say they are in it, no object having two
\* predecessors.  x and h stand for obj and head.
Follows(x, c, n) == n = Null(c) \/ (n \in Objs /\ x[n].in = c)

ChainsOk(x, h) ==
    /\ \A o \in Objs : x[o].in # "none" =>
         /\ x[o].in = ChainOf(o, x[o].id) /\ x[o].in \in SlabChains(o)
         /\ Follows(x, x[o].in, x[o].next)
    /\ \A c \in Chains : Follows(x, c, h[c])
    /\ \A o, p \in Objs :
         x[o].in # "none" /\ x[p].in = x[o].in /\ x[o].next \in Objs /\ x[p].next = x[o].next
           => o = p
    /\ \A o \in Objs : x[o].in # "none" /\ x[o].next \in Objs => h[x[o].in] # x[o].next

\* The set S is closed for T.
Leads(S, x, h, T) ==
    /\ S \subseteq Slab(T) \cup Nulls
    /\ Null(x[T].in) \notin S
    /\ \A c \in SlabChains(T) : h[c] \in S
    /\ \A o \in S : o \in Objs /\ o # T => x[o].next \in S /\ x[o].id # x[T].id

Ahead(x, h, T, n) == \E S \in SUBSET (Slab(T) \cup Nulls) : Leads(S, x, h, T) /\ n \in S

Reachable(x, h) == \A T \in Objs : x[T].in # "none" => Ahead(x, h, T, h[x[T].in])

B(p) == IF p THEN 1 ELSE 0

\* References: the owner's, that of a TIME_WAIT socket's chain and timer, the lookup's.
CountedAt(x, res, o) ==
    /\ x[o].refs = B(x[o].owned) + B(o \in Tws /\ x[o].in # "none") + B(res = o)
    /\ x[o].free <=> x[o].refs = 0
    /\ x[o].owned => o \in Socks
    /\ o \in Socks /\ x[o].in # "none" => x[o].owned

Counted(x, res) == \A o \in Objs : CountedAt(x, res, o)

\* Two holders of an identity: a socket and its TIME_WAIT socket, one being replaced by the
\* other.
Unique(x, d) ==
    /\ d # None => x[d].in # "none"
    /\ \A o, p \in Objs :
         x[o].in # "none" /\ x[p].in # "none" /\ x[o].id = x[p].id /\ o # p
           => d \in {o, p} /\ Slab(o) # Slab(p)

Stable(x, r) == \A id \in r.stable : Hashed(x, id) # {}

\* Where a walk may stand.
Stands(r) ==
    /\ r.pc \in {"next", "take"} => r.cur \in Objs
    /\ r.pc = "recheck" => r.res # None
    /\ r.res # None => r.pc \in {"recheck", "done"}
    /\ r.pc = "done" /\ r.walk # "listen" => r.res # None
    /\ r.hi # -1 => r.best # None

\* The walk has yet to pass T.
Before(x, h, r, T) ==
    /\ r.pc \in {"look", "next"} => Ahead(x, h, T, r.cur)
    /\ r.pc = "next" => r.cur # T

\* A connection that is hashed all along is ahead of the walk, or it is where the walk
\* stands, or it is in TIME_WAIT and the walk is in the chain before.
SeesConnection(x, h, r) ==
    Target \in r.stable /\ r.pc # "idle" =>
        /\ r.walk # "listen"
        /\ \A T \in Hashed(x, Target) :
             /\ r.walk = "tw1" /\ r.pc # "done" => T \in Tws
             /\ r.pc # "done" /\ (T \in Socks \/ r.walk = "tw1") =>
                  /\ Before(x, h, r, T)
                  /\ r.pc = "take" => r.cur = T

\* A listener that is hashed all along is ahead of the walk, or it has been compared.
SeesListener(x, h, r) ==
    r.walk = "listen" /\ r.pc # "idle" =>
        \A id \in r.stable \cap Listeners :
            \/ compute_score(id) <= r.hi
               /\ (r.pc = "done" /\ ~r.died => r.res # None)
            \/ r.pc = "done" /\ r.died
            \/ r.pc \in {"look", "next"} /\ \A T \in Hashed(x, id) : Before(x, h, r, T)

IInv ==
    /\ Types
    /\ ChainsOk(obj, head)
    /\ Reachable(obj, head)
    /\ Counted(obj, rd.res)
    /\ Unique(obj, dance)
    /\ Stable(obj, rd)
    /\ Stands(rd)
    /\ SeesConnection(obj, head, rd)
    /\ SeesListener(obj, head, rd)

-----------------------------------------------------------------------------
(* What the operators do to an object, field by field. *)

Same(x, y) ==
    \A p \in Objs : y[p].in = x[p].in /\ y[p].id = x[p].id /\ y[p].next = x[p].next

SameRefs(x, y, p) ==
    y[p].free = x[p].free /\ y[p].owned = x[p].owned /\ y[p].refs = x[p].refs

Added(x, h, y, g, o, id) ==
    /\ g = [h EXCEPT ![ChainOf(o, id)] = o]
    /\ y[o].in = ChainOf(o, id) /\ y[o].id = id /\ y[o].next = h[ChainOf(o, id)]
    /\ \A p \in Objs : p # o => y[p].in = x[p].in /\ y[p].id = x[p].id /\ y[p].next = x[p].next

Removed(x, h, y, g, o) ==
    /\ g = IF h[x[o].in] = o THEN [h EXCEPT ![x[o].in] = x[o].next] ELSE h
    /\ y[o].in = "none" /\ y[o].id = x[o].id /\ y[o].next = x[o].next
    /\ \A p \in Objs : p # o =>
         /\ y[p].in = x[p].in /\ y[p].id = x[p].id
         /\ y[p].next = IF x[p].in = x[o].in /\ x[p].next = o THEN x[o].next ELSE x[p].next

\* A null is not an object.
LEMMA NullsApart ==
    /\ \A c \in Chains : Null(c) \in Nulls /\ Null(c) \notin Objs
    /\ None \notin Objs /\ None \notin Nulls
BY SlabsAssumption DEF Null, Nulls, Chains, Objs, None

LEMMA NullIsNoObject == Nulls \cap Objs = {}
BY SlabsAssumption DEF Nulls, Objs

\* Every identity has a chain.
LEMMA ChainType ==
    ASSUME NEW o \in Objs, NEW id \in Ids
    PROVE  ChainOf(o, id) \in Chains
BY Zenon DEF ChainOf, Chains, Ids, Listeners

LEMMA AddNodeDoes ==
    ASSUME NEW x \in [Objs -> ObjType], head \in [Chains -> Objs \cup Nulls],
           NEW o \in Objs, NEW id \in Ids, AddNode(x, o, id)
    PROVE  /\ obj' \in [Objs -> ObjType] /\ head' \in [Chains -> Objs \cup Nulls]
           /\ Added(x, head, obj', head', o, id)
           /\ \A p \in Objs : SameRefs(x, obj', p)
<1>0. ChainOf(o, id) \in Chains /\ head[ChainOf(o, id)] \in Objs \cup Nulls
  BY Zenon, ChainType
<1> DEFINE c == ChainOf(o, id)
           n == [x[o] EXCEPT !.in = c, !.id = id, !.next = head[c]]
<1>1. obj' = [x EXCEPT ![o] = n] /\ head' = [head EXCEPT ![c] = o]
  BY Zenon DEF AddNode
<1>2. x[o] \in ObjType
  BY Zenon
<1> HIDE DEF c
<1>3. n \in ObjType /\ n.in = c /\ n.id = id /\ n.next = head[c]
      /\ n.free = x[o].free /\ n.owned = x[o].owned /\ n.refs = x[o].refs
  BY <1>0, <1>2, ZenonT(40) DEF ObjType, c
<1> HIDE DEF n
<1>4. QED
  BY Zenon, <1>0, <1>1, <1>3 DEF Added, SameRefs, c

\* The object that leaves a chain keeps its successor; its predecessors get it.
LEMMA DelNodeDoes ==
    ASSUME NEW x \in [Objs -> ObjType], head \in [Chains -> Objs \cup Nulls],
           NEW o \in Objs, x[o].in \in Chains, x[o].next \in Objs \cup Nulls, DelNode(x, o)
    PROVE  /\ obj' \in [Objs -> ObjType] /\ head' \in [Chains -> Objs \cup Nulls]
           /\ Removed(x, head, obj', head', o)
           /\ \A p \in Objs : SameRefs(x, obj', p)
<1> DEFINE c == x[o].in
           out == [x[o] EXCEPT !.in = "none"]
           past(p) == [x[p] EXCEPT !.next = x[o].next]
<1>0. \A p \in Objs : x[p] \in ObjType
  BY Zenon
<1>1. /\ obj' = [p \in Objs |-> IF p = o THEN out
                               ELSE IF x[p].in = c /\ x[p].next = o THEN past(p) ELSE x[p]]
      /\ head' = IF head[c] = o THEN [head EXCEPT ![c] = x[o].next] ELSE head
  BY Zenon DEF DelNode
<1>2. out \in ObjType /\ out.in = "none" /\ out.id = x[o].id /\ out.next = x[o].next
      /\ out.free = x[o].free /\ out.owned = x[o].owned /\ out.refs = x[o].refs
  BY <1>0, ZenonT(40) DEF ObjType
<1>3. ASSUME NEW p \in Objs
      PROVE  past(p) \in ObjType /\ past(p).in = x[p].in /\ past(p).id = x[p].id
             /\ past(p).next = x[o].next /\ past(p).free = x[p].free
             /\ past(p).owned = x[p].owned /\ past(p).refs = x[p].refs
  BY <1>0, ZenonT(40) DEF ObjType
<1> HIDE DEF out, past
<1>4. obj' \in [Objs -> ObjType]
  BY Zenon, <1>0, <1>1, <1>2, <1>3
<1>5. head' \in [Chains -> Objs \cup Nulls]
  BY Zenon, <1>1
<1>6. Removed(x, head, obj', head', o)
  BY Zenon, <1>1, <1>2, <1>3 DEF Removed
<1>7. ASSUME NEW p \in Objs PROVE SameRefs(x, obj', p)
  BY Zenon, <1>1, <1>2, <1>3 DEF SameRefs
<1>8. QED
  BY Zenon, <1>4, <1>5, <1>6, <1>7

\* sock_put changes one count.
LEMMA PutDoes ==
    ASSUME NEW x \in [Objs -> ObjType], NEW o \in Objs, x[o].refs > 0
    PROVE  /\ Put(x, o) \in [Objs -> ObjType]
           /\ Same(x, Put(x, o))
           /\ \A p \in Objs : p # o => SameRefs(x, Put(x, o), p)
           /\ Put(x, o)[o].refs = x[o].refs - 1 /\ (Put(x, o)[o].free <=> x[o].refs = 1)
           /\ Put(x, o)[o].owned = x[o].owned
<1> DEFINE r == x[o].refs - 1
           f == (x[o].refs = 1)
           n == [x[o] EXCEPT !.refs = r, !.free = f]
<1>0. x[o] \in ObjType /\ r \in Nat /\ f \in BOOLEAN
  BY DEF ObjType
<1>1. Put(x, o) = [x EXCEPT ![o] = n]
  BY Zenon DEF Put
<1> HIDE DEF r, f
<1>2. n \in ObjType /\ n.in = x[o].in /\ n.id = x[o].id /\ n.next = x[o].next
      /\ n.free = f /\ n.owned = x[o].owned /\ n.refs = r
  BY <1>0, ZenonT(40) DEF ObjType
<1> HIDE DEF n
<1>3. QED
  BY Zenon, <1>1, <1>2 DEF Same, SameRefs, r, f

\* Memory is taken for an owner.
LEMMA OwnDoes ==
    ASSUME NEW x \in [Objs -> ObjType], NEW o \in Objs
    PROVE  LET y == [x EXCEPT ![o].free = FALSE, ![o].owned = TRUE, ![o].refs = 1]
           IN  /\ y \in [Objs -> ObjType] /\ Same(x, y)
               /\ \A p \in Objs : p # o => SameRefs(x, y, p)
               /\ y[o].free = FALSE /\ y[o].owned = TRUE /\ y[o].refs = 1
<1> DEFINE m == [x[o] EXCEPT !.free = FALSE, !.owned = TRUE, !.refs = 1]
           y == [x EXCEPT ![o].free = FALSE, ![o].owned = TRUE, ![o].refs = 1]
<1>1. x[o] \in ObjType /\ 1 \in Nat
  BY Zenon
<1>2. m \in ObjType /\ m.in = x[o].in /\ m.id = x[o].id /\ m.next = x[o].next
      /\ m.free = FALSE /\ m.owned = TRUE /\ m.refs = 1
  BY <1>1, ZenonT(40) DEF ObjType
<1>3. y = [x EXCEPT ![o] = m]
  BY Zenon
<1> HIDE DEF m, y
<1>4. y \in [Objs -> ObjType] /\ Same(x, y) /\ (\A p \in Objs : p # o => SameRefs(x, y, p))
      /\ y[o].free = FALSE /\ y[o].owned = TRUE /\ y[o].refs = 1
  BY Zenon, <1>2, <1>3 DEF Same, SameRefs
<1>5. QED
  BY Zenon, <1>4 DEF y

-----------------------------------------------------------------------------
(* The chains as lists. *)

\* An object that is added at the head.
LEMMA AddChains ==
    ASSUME NEW x \in [Objs -> ObjType], NEW y \in [Objs -> ObjType],
           NEW h \in [Chains -> Objs \cup Nulls], NEW g \in [Chains -> Objs \cup Nulls],
           ChainsOk(x, h), NEW o \in Objs, x[o].in = "none", NEW id \in Ids,
           ChainOf(o, id) \in SlabChains(o), Added(x, h, y, g, o, id)
    PROVE  ChainsOk(y, g)
<1> DEFINE c == ChainOf(o, id)
<1>0. /\ c \in Chains /\ c # "none" /\ g = [h EXCEPT ![c] = o]
      /\ y[o].in = c /\ y[o].id = id /\ y[o].next = h[c] /\ c \in SlabChains(o)
      /\ c = ChainOf(o, y[o].id)
      /\ \A p \in Objs : p # o => y[p].in = x[p].in /\ y[p].id = x[p].id /\ y[p].next = x[p].next
  BY Zenon, ChainType DEF Added, Chains
<1> HIDE DEF c
<1>1. ASSUME NEW n, NEW d \in Chains, Follows(x, d, n) PROVE Follows(y, d, n) /\ n # o
  <2>1. d # "none"
    BY Zenon DEF Chains
  <2>2. n # o
    BY Zenon, <1>1, <2>1, NullsApart DEF Follows
  <2>3. QED
    BY Zenon, <1>0, <1>1, <2>2 DEF Follows
<1>2. ASSUME NEW p \in Objs, y[p].in # "none"
      PROVE  /\ y[p].in = ChainOf(p, y[p].id) /\ y[p].in \in SlabChains(p)
             /\ Follows(y, y[p].in, y[p].next) /\ y[p].next # o
  <2>1. CASE p = o
    <3>1. Follows(x, c, h[c])
      BY Zenon, <1>0 DEF ChainsOk
    <3>2. QED
      BY Zenon, <1>0, <1>1, <2>1, <3>1
  <2>2. CASE p # o
    <3>1. y[p].in = x[p].in /\ y[p].id = x[p].id /\ y[p].next = x[p].next
      BY Zenon, <1>0, <2>2
    <3>2. x[p].in \in Chains
      BY Zenon, <1>2, <3>1 DEF ObjType
    <3>3. x[p].in = ChainOf(p, x[p].id) /\ x[p].in \in SlabChains(p) /\ Follows(x, x[p].in, x[p].next)
      BY Zenon, <1>2, <3>1 DEF ChainsOk
    <3>4. QED
      BY Zenon, <1>1, <3>1, <3>2, <3>3
  <2>3. QED
    BY Zenon, <2>1, <2>2
<1>3. ASSUME NEW d \in Chains PROVE Follows(y, d, g[d])
  <2>1. CASE d = c
    BY Zenon, <1>0, <2>1 DEF Follows
  <2>2. CASE d # c
    <3>1. g[d] = h[d] /\ Follows(x, d, h[d])
      BY Zenon, <1>0, <2>2 DEF ChainsOk
    <3>2. QED
      BY Zenon, <1>1, <3>1
  <2>3. QED
    BY Zenon, <2>1, <2>2
<1>4. ASSUME NEW p \in Objs, NEW q \in Objs, y[p].in # "none", y[q].in = y[p].in,
             y[p].next \in Objs, y[q].next = y[p].next
      PROVE  p = q
  <2>1. ASSUME NEW r \in Objs, r # o, y[r].in = c, y[r].next \in Objs PROVE y[r].next # h[c]
    BY <1>0, <2>1 DEF ChainsOk
  <2>2. CASE p # o /\ q # o
    BY <1>0, <1>4, <2>2 DEF ChainsOk
  <2>3. QED
    BY Zenon, <1>0, <1>4, <2>1, <2>2
<1>5. ASSUME NEW p \in Objs, y[p].in # "none", y[p].next \in Objs PROVE g[y[p].in] # y[p].next
  <2>1. y[p].next # o
    BY Zenon, <1>2, <1>5
  <2>2. y[p].in \in Chains
    BY Zenon, <1>5 DEF ObjType
  <2>3. CASE y[p].in = c
    BY Zenon, <1>0, <2>1, <2>3
  <2>4. CASE y[p].in # c
    <3>1. p # o /\ g[y[p].in] = h[y[p].in]
      BY Zenon, <1>0, <2>2, <2>4
    <3>2. QED
      BY <1>0, <1>5, <3>1 DEF ChainsOk
  <2>5. QED
    BY Zenon, <2>3, <2>4
<1>6. QED
  BY Zenon, <1>2, <1>3, <1>4, <1>5 DEF ChainsOk

\* An object that is removed.
LEMMA RemoveChains ==
    ASSUME NEW x \in [Objs -> ObjType], NEW y \in [Objs -> ObjType],
           NEW h \in [Chains -> Objs \cup Nulls], NEW g \in [Chains -> Objs \cup Nulls],
           ChainsOk(x, h), NEW o \in Objs, x[o].in # "none", Removed(x, h, y, g, o)
    PROVE  ChainsOk(y, g)
<1> DEFINE c == x[o].in
<1>0. /\ c \in Chains /\ g = IF h[c] = o THEN [h EXCEPT ![c] = x[o].next] ELSE h
      /\ y[o].in = "none" /\ Follows(x, c, x[o].next)
      /\ \A p \in Objs : p # o => y[p].in = x[p].in /\ y[p].id = x[p].id
           /\ y[p].next = IF x[p].in = c /\ x[p].next = o THEN x[o].next ELSE x[p].next
  BY Zenon DEF Removed, ObjType, ChainsOk
<1>1. \A d \in Chains : d # "none"
  BY Zenon DEF Chains
\* Who comes after the object is not the object, if somebody comes before it.
<1>2. ASSUME NEW p \in Objs, p # o, x[p].in = c, x[p].next = o PROVE x[o].next # o
  BY Zenon, <1>0, <1>1, <1>2 DEF ChainsOk
<1>3. h[c] = o => x[o].next # o
  BY Zenon, <1>0, <1>1 DEF ChainsOk
<1> HIDE DEF c
<1>4. ASSUME NEW n, NEW d \in Chains, Follows(x, d, n), n # o PROVE Follows(y, d, n)
  BY Zenon, <1>0, <1>4 DEF Follows
<1>5. ASSUME NEW p \in Objs, y[p].in # "none"
      PROVE  /\ p # o /\ x[p].in = y[p].in /\ x[p].in \in Chains /\ x[p].in # "none"
             /\ y[p].in = ChainOf(p, y[p].id) /\ y[p].in \in SlabChains(p)
             /\ Follows(y, y[p].in, y[p].next)
  <2>1. p # o
    BY Zenon, <1>0, <1>5
  <2>2. x[p].in = y[p].in /\ y[p].id = x[p].id /\ x[p].in \in Chains
    BY Zenon, <1>0, <1>5, <2>1 DEF ObjType
  <2>3. x[p].in = ChainOf(p, x[p].id) /\ x[p].in \in SlabChains(p) /\ Follows(x, x[p].in, x[p].next)
    BY Zenon, <1>5, <2>2 DEF ChainsOk
  <2>4. CASE x[p].in = c /\ x[p].next = o
    BY Zenon, <1>0, <1>2, <1>4, <1>5, <2>1, <2>2, <2>3, <2>4
  <2>5. CASE ~(x[p].in = c /\ x[p].next = o)
    <3>1. y[p].next = x[p].next
      BY Zenon, <1>0, <2>1, <2>5
    <3>2. x[p].next # o
      <4>1. CASE x[p].next = o
        <5>1. x[o].in = x[p].in
          BY Zenon, <2>2, <2>3, <4>1, NullsApart DEF Follows
        <5>2. QED
          BY Zenon, <2>5, <4>1, <5>1 DEF c
      <4>2. QED
        BY Zenon, <4>1
    <3>3. QED
      BY Zenon, <1>4, <1>5, <2>1, <2>2, <2>3, <3>1, <3>2
  <2>6. QED
    BY Zenon, <2>4, <2>5
<1>6. ASSUME NEW d \in Chains PROVE Follows(y, d, g[d])
  <2>1. Follows(x, d, h[d])
    BY Zenon DEF ChainsOk
  <2>2. CASE h[d] = o
    <3>1. d = c
      BY Zenon, <2>1, <2>2, NullsApart DEF Follows, c
    <3>2. QED
      BY Zenon, <1>0, <1>3, <1>4, <2>2, <3>1
  <2>3. CASE h[d] # o
    <3>1. g[d] = h[d]
      BY Zenon, <1>0, <2>3
    <3>2. QED
      BY Zenon, <1>4, <2>1, <2>3, <3>1
  <2>4. QED
    BY Zenon, <2>2, <2>3
<1>7. ASSUME NEW p \in Objs, NEW q \in Objs, y[p].in # "none", y[q].in = y[p].in,
             y[p].next \in Objs, y[q].next = y[p].next
      PROVE  p = q
  <2>1. p # o /\ q # o /\ x[p].in # "none" /\ x[q].in = x[p].in
    BY Zenon, <1>5, <1>7
  <2>2. CASE x[p].in = c /\ x[p].next = o /\ x[q].next = o
    BY Zenon, <2>1, <2>2 DEF ChainsOk
  <2>3. CASE ~(x[p].in = c /\ x[p].next = o) /\ ~(x[q].in = c /\ x[q].next = o)
    BY <1>0, <1>7, <2>1, <2>3 DEF ChainsOk
  <2>4. ASSUME NEW r \in Objs, r # o, x[r].in = c, x[r].next = x[o].next, x[r].next \in Objs PROVE FALSE
    BY Zenon, <2>4 DEF ChainsOk, c
  <2>5. QED
    BY Zenon, <1>0, <1>7, <2>1, <2>2, <2>3, <2>4
<1>8. ASSUME NEW p \in Objs, y[p].in # "none", y[p].next \in Objs PROVE g[y[p].in] # y[p].next
  <2>1. p # o /\ x[p].in # "none" /\ x[p].in = y[p].in /\ x[p].in \in Chains
    BY Zenon, <1>5, <1>8
  <2>2. CASE x[p].in = c /\ h[c] = o
    <3>1. g[c] = x[o].next /\ x[p].next # o
      BY Zenon, <1>0, <2>1, <2>2 DEF ChainsOk
    <3>2. y[p].next = x[p].next
      BY Zenon, <1>0, <2>1, <3>1
    <3>3. QED
      BY Zenon, <1>8, <2>1, <2>2, <3>1, <3>2 DEF ChainsOk, c
  <2>3. CASE ~(x[p].in = c /\ h[c] = o)
    <3>1. g[x[p].in] = h[x[p].in]
      BY Zenon, <1>0, <2>1, <2>3
    <3>2. CASE x[p].in = c /\ x[p].next = o
      <4>1. y[p].next = x[o].next
        BY Zenon, <1>0, <2>1, <3>2
      <4>2. QED
        BY Zenon, <1>1, <1>8, <2>1, <3>1, <3>2, <4>1 DEF ChainsOk, c
    <3>3. CASE ~(x[p].in = c /\ x[p].next = o)
      <4>1. y[p].next = x[p].next
        BY Zenon, <1>0, <2>1, <3>3
      <4>2. QED
        BY Zenon, <1>8, <2>1, <3>1, <4>1 DEF ChainsOk
    <3>4. QED
      BY Zenon, <3>2, <3>3
  <2>4. QED
    BY Zenon, <2>2, <2>3
<1>9. QED
  BY Zenon, <1>5, <1>6, <1>7, <1>8 DEF ChainsOk

-----------------------------------------------------------------------------
(* Closed sets. *)

\* The chains of one slab end in different nulls, and the slabs have no chain in common.
LEMMA SlabFacts ==
    ASSUME NEW o \in Objs
    PROVE  /\ SlabChains(o) \subseteq Chains /\ o \in Slab(o) /\ Slab(o) \subseteq Objs
           /\ \A c, d \in SlabChains(o) : Null(c) = Null(d) => c = d
           /\ \A p \in Slab(o) : Slab(p) = Slab(o) /\ SlabChains(p) = SlabChains(o)
           /\ \A p \in Objs : p \notin Slab(o) => SlabChains(p) \cap SlabChains(o) = {}
<1>1. Socks \cap Tws = {} /\ Objs = Socks \cup Tws
  BY Zenon, SlabsAssumption DEF Objs
<1>2. CASE o \in Socks
  BY <1>1, <1>2 DEF SlabChains, Slab, Chains, Null
<1>3. CASE o \notin Socks
  BY <1>1, <1>3 DEF SlabChains, Slab, Chains, Null
<1>4. QED
  BY Zenon, <1>2, <1>3

\* What is added at a head leads where the head leads.
LEMMA AddLeads ==
    ASSUME NEW x \in [Objs -> ObjType], NEW y \in [Objs -> ObjType],
           NEW h \in [Chains -> Objs \cup Nulls], NEW g \in [Chains -> Objs \cup Nulls],
           NEW o \in Objs, NEW id \in Ids,
           ChainOf(o, id) \in SlabChains(o), Added(x, h, y, g, o, id),
           NEW T \in Objs, x[T].in \in Chains, T # o, o \in Slab(T) => id # x[T].id,
           NEW n, Ahead(x, h, T, n)
    PROVE  Ahead(y, g, T, n)
<1>1. PICK S \in SUBSET (Slab(T) \cup Nulls) : Leads(S, x, h, T) /\ n \in S
  BY Zenon DEF Ahead
<1>0. /\ S \subseteq Slab(T) \cup Nulls /\ Null(x[T].in) \notin S
      /\ \A c \in SlabChains(T) : h[c] \in S
      /\ \A p \in S : p \in Objs /\ p # T => x[p].next \in S /\ x[p].id # x[T].id
  BY Zenon, <1>1 DEF Leads
<1> DEFINE c == ChainOf(o, id)
<1>2. /\ c \in Chains /\ g = [h EXCEPT ![c] = o] /\ c \in SlabChains(o)
      /\ y[o].in = c /\ y[o].id = id /\ y[o].next = h[c]
      /\ \A p \in Objs : p # o => y[p].in = x[p].in /\ y[p].id = x[p].id /\ y[p].next = x[p].next
  BY Zenon, ChainType DEF Added
<1> HIDE DEF c
<1>3. y[T].in = x[T].in /\ y[T].id = x[T].id
  BY Zenon, <1>2
<1>4. CASE o \in Slab(T)
  <2> DEFINE R == S \cup {o}
  <2>1. c \in SlabChains(T) /\ h[c] \in S
    BY Zenon, <1>0, <1>2, <1>4, SlabFacts
  <2>2. Null(x[T].in) \notin R
    BY Zenon, <1>0, NullsApart
  <2>3. R \subseteq Slab(T) \cup Nulls
    BY Zenon, <1>0, <1>4
  <2>4. \A d \in SlabChains(T) : g[d] \in R
    BY Zenon, <1>0, <1>2, SlabFacts
  <2>5. \A p \in R : p \in Objs /\ p # T => y[p].next \in R /\ y[p].id # y[T].id
    BY Zenon, <1>0, <1>2, <1>3, <1>4, <2>1
  <2>6. Leads(R, y, g, T)
    BY Zenon, <1>3, <2>2, <2>3, <2>4, <2>5 DEF Leads
  <2>7. QED
    BY Zenon, <1>1, <2>3, <2>6 DEF Ahead
<1>5. CASE o \notin Slab(T)
  <2>1. o \notin S
    BY Zenon, <1>0, <1>5, NullsApart, NullIsNoObject
  <2>2. \A d \in SlabChains(T) : g[d] \in S
    BY <1>0, <1>2, <1>5, SlabFacts
  <2>3. \A p \in S : p \in Objs /\ p # T => y[p].next \in S /\ y[p].id # y[T].id
    BY Zenon, <1>0, <1>2, <1>3, <2>1
  <2>4. Leads(S, y, g, T)
    BY Zenon, <1>0, <1>3, <2>2, <2>3 DEF Leads
  <2>5. QED
    BY Zenon, <1>1, <2>4 DEF Ahead
<1>6. QED
  BY Zenon, <1>4, <1>5

\* What is removed leads where it led, and so do those before it.
LEMMA RemoveLeads ==
    ASSUME NEW x \in [Objs -> ObjType], NEW y \in [Objs -> ObjType],
           NEW h \in [Chains -> Objs \cup Nulls], NEW g \in [Chains -> Objs \cup Nulls],
           NEW o \in Objs, x[o].in \in Chains, Removed(x, h, y, g, o),
           NEW T \in Objs, T # o, NEW n, Ahead(x, h, T, n)
    PROVE  Ahead(y, g, T, n)
<1>1. PICK S \in SUBSET (Slab(T) \cup Nulls) : Leads(S, x, h, T) /\ n \in S
  BY Zenon DEF Ahead
<1>0. /\ S \subseteq Slab(T) \cup Nulls /\ Null(x[T].in) \notin S
      /\ \A c \in SlabChains(T) : h[c] \in S
      /\ \A p \in S : p \in Objs /\ p # T => x[p].next \in S /\ x[p].id # x[T].id
  BY Zenon, <1>1 DEF Leads
<1>2. /\ g = IF h[x[o].in] = o THEN [h EXCEPT ![x[o].in] = x[o].next] ELSE h
      /\ y[o].id = x[o].id /\ y[o].next = x[o].next
      /\ \A p \in Objs : p # o =>
           /\ y[p].in = x[p].in /\ y[p].id = x[p].id
           /\ y[p].next = IF x[p].in = x[o].in /\ x[p].next = o THEN x[o].next ELSE x[p].next
  BY Zenon DEF Removed
<1>3. y[T].in = x[T].in /\ y[T].id = x[T].id
  BY Zenon, <1>2
<1>4. \A d \in SlabChains(T) : g[d] \in S
  BY Zenon, <1>0, <1>2, SlabFacts
<1>5. \A p \in S : p \in Objs /\ p # T => y[p].next \in S /\ y[p].id # y[T].id
  BY Zenon, <1>0, <1>2, <1>3
<1>6. Leads(S, y, g, T)
  BY Zenon, <1>0, <1>3, <1>4, <1>5 DEF Leads
<1>7. QED
  BY Zenon, <1>1, <1>6 DEF Ahead

\* Steps that change no chain.
LEMMA SameLeads ==
    ASSUME NEW x, NEW y, NEW h, Same(x, y), NEW T \in Objs, NEW n, Ahead(x, h, T, n)
    PROVE  Ahead(y, h, T, n)
<1>1. PICK S \in SUBSET (Slab(T) \cup Nulls) : Leads(S, x, h, T) /\ n \in S
  BY Zenon DEF Ahead
<1>2. Leads(S, y, h, T)
  BY Zenon, <1>1 DEF Leads, Same
<1>3. QED
  BY Zenon, <1>1, <1>2 DEF Ahead

\* The heads of the slab's chains are in every closed set, and the null of the object's
\* chain in none.
LEMMA AheadFacts ==
    ASSUME NEW x, NEW h, NEW T \in Objs, NEW n, Ahead(x, h, T, n)
    PROVE  /\ n # Null(x[T].in)
           /\ \A c \in SlabChains(T) : Ahead(x, h, T, h[c])
           /\ n \in Objs /\ n # T => Ahead(x, h, T, x[n].next) /\ x[n].id # x[T].id
<1>1. PICK S \in SUBSET (Slab(T) \cup Nulls) : Leads(S, x, h, T) /\ n \in S
  BY Zenon DEF Ahead
<1>2. QED
  BY Zenon, <1>1 DEF Leads, Ahead

\* An object that has just been added leads to itself, and the other chains of its slab to
\* their own nulls.
LEMMA NewLeads ==
    ASSUME NEW x \in [Objs -> ObjType], NEW h \in [Chains -> Objs \cup Nulls], ChainsOk(x, h),
           NEW T \in Objs, x[T].in # "none", h[x[T].in] = T
    PROVE  Ahead(x, h, T, T)
<1> DEFINE S == {T} \cup {p \in Slab(T) : x[p].in # "none" /\ x[p].in # x[T].in}
                    \cup (Nulls \ {Null(x[T].in)})
<1>0. x[T].in \in SlabChains(T) /\ x[T].in \in Chains /\ x[T].in = ChainOf(T, x[T].id)
  BY Zenon DEF ChainsOk, ObjType
<1>1. S \subseteq Slab(T) \cup Nulls
  BY SlabFacts
<1>2. Null(x[T].in) \notin S
  BY <1>0, SlabFacts, NullsApart
<1>3. ASSUME NEW c \in SlabChains(T), c # x[T].in, NEW n, Follows(x, c, n) PROVE n \in S
  <2>1. Null(c) # Null(x[T].in) /\ Null(c) \in Nulls /\ c # "none"
    BY Zenon, <1>0, <1>3, SlabFacts, NullsApart DEF Chains
  <2>2. CASE n \in Objs /\ x[n].in = c
    <3>1. c \in SlabChains(n)
      BY Zenon, <2>1, <2>2 DEF ChainsOk
    <3>2. n \in Slab(T)
      BY Zenon, <2>2, <3>1, SlabFacts
    <3>3. QED
      BY Zenon, <1>3, <2>1, <2>2, <3>2
  <2>3. QED
    BY Zenon, <1>3, <2>1, <2>2 DEF Follows
<1>4. \A c \in SlabChains(T) : h[c] \in S
  <2> SUFFICES ASSUME NEW c \in SlabChains(T), c # x[T].in PROVE h[c] \in S
    BY Zenon
  <2>1. Follows(x, c, h[c])
    BY Zenon, SlabFacts DEF ChainsOk
  <2>2. QED
    BY Zenon, <1>3, <2>1
<1>5. ASSUME NEW p \in S, p \in Objs, p # T PROVE x[p].next \in S /\ x[p].id # x[T].id
  <2>1. p \in Slab(T) /\ x[p].in # "none" /\ x[p].in # x[T].in
    BY Zenon, <1>5, NullIsNoObject
  <2>2. /\ x[p].in \in SlabChains(T) /\ Follows(x, x[p].in, x[p].next)
        /\ x[p].in = ChainOf(p, x[p].id)
    BY Zenon, <1>5, <2>1, SlabFacts DEF ChainsOk
  <2>3. \A i \in Ids : ChainOf(p, i) = ChainOf(T, i)
    BY Zenon, <2>1, SlabsAssumption DEF ChainOf, Slab, Objs
  <2>4. QED
    BY Zenon, <1>0, <1>3, <2>1, <2>2, <2>3 DEF ObjType
<1> HIDE DEF S
<1>6. Leads(S, x, h, T)
  BY Zenon, <1>1, <1>2, <1>4, <1>5 DEF Leads
<1>7. QED
  BY Zenon, <1>1, <1>6 DEF Ahead, S

-----------------------------------------------------------------------------
(* What the writers keep. *)

Places == Objs \cup Nulls \cup {None}

\* A walk that has an object ahead of it still has.
Keeps(x, h, y, g) ==
    \A T \in Objs, n \in Places :
        x[T].in # "none" /\ y[T].in # "none" /\ Ahead(x, h, T, n) => Ahead(y, g, T, n)

\* Hashing an object.
LEMMA AddStep ==
    ASSUME NEW x \in [Objs -> ObjType], NEW y \in [Objs -> ObjType],
           NEW h \in [Chains -> Objs \cup Nulls], NEW g \in [Chains -> Objs \cup Nulls],
           ChainsOk(x, h), Reachable(x, h), NEW o \in Objs, x[o].in = "none", NEW id \in Ids,
           ChainOf(o, id) \in SlabChains(o), Added(x, h, y, g, o, id),
           \A T \in Slab(o) : x[T].in # "none" => x[T].id # id
    PROVE  ChainsOk(y, g) /\ Reachable(y, g) /\ Keeps(x, h, y, g)
<1>1. ChainsOk(y, g)
  BY Zenon, AddChains
<1>2. ASSUME NEW T \in Objs, NEW n, x[T].in # "none", Ahead(x, h, T, n)
      PROVE  Ahead(y, g, T, n)
  <2>1. x[T].in \in Chains /\ T # o
    BY Zenon, <1>2 DEF ObjType
  <2>2. o \in Slab(T) => id # x[T].id
    BY Zenon, <1>2, SlabFacts
  <2>3. QED
    BY Zenon, <1>2, <2>1, <2>2, AddLeads
<1>3. ASSUME NEW T \in Objs, y[T].in # "none" PROVE Ahead(y, g, T, g[y[T].in])
  <2>1. y[T].in \in SlabChains(T)
    BY Zenon, <1>1, <1>3 DEF ChainsOk
  <2>2. CASE T = o
    <3>1. g[y[T].in] = T
      BY Zenon, <2>2, ChainType DEF Added
    <3>2. QED
      BY Zenon, <1>1, <1>3, <3>1, NewLeads
  <2>3. CASE T # o
    <3>1. x[T].in # "none"
      BY Zenon, <1>3, <2>3 DEF Added
    <3>2. Ahead(y, g, T, h[x[T].in])
      BY Zenon, <1>2, <3>1 DEF Reachable
    <3>3. QED
      BY Zenon, <2>1, <3>2, AheadFacts
  <2>4. QED
    BY Zenon, <2>2, <2>3
<1>4. QED
  BY Zenon, <1>1, <1>2, <1>3 DEF Keeps, Reachable

\* Unhashing an object.
LEMMA RemoveStep ==
    ASSUME NEW x \in [Objs -> ObjType], NEW y \in [Objs -> ObjType],
           NEW h \in [Chains -> Objs \cup Nulls], NEW g \in [Chains -> Objs \cup Nulls],
           ChainsOk(x, h), Reachable(x, h), NEW o \in Objs, x[o].in # "none",
           Removed(x, h, y, g, o)
    PROVE  ChainsOk(y, g) /\ Reachable(y, g) /\ Keeps(x, h, y, g)
<1>0. x[o].in \in Chains /\ y[o].in = "none"
  BY Zenon DEF ObjType, Removed
<1>1. ChainsOk(y, g)
  BY Zenon, RemoveChains
<1>2. ASSUME NEW T \in Objs, NEW n, y[T].in # "none", Ahead(x, h, T, n)
      PROVE  Ahead(y, g, T, n) /\ x[T].in # "none"
  <2>1. T # o
    BY Zenon, <1>0, <1>2
  <2>2. x[T].in # "none"
    BY Zenon, <1>2, <2>1 DEF Removed
  <2>3. QED
    BY Zenon, <1>0, <1>2, <2>1, <2>2, RemoveLeads
<1>3. ASSUME NEW T \in Objs, y[T].in # "none" PROVE Ahead(y, g, T, g[y[T].in])
  <2>1. y[T].in \in SlabChains(T) /\ T # o
    BY Zenon, <1>0, <1>1, <1>3 DEF ChainsOk
  <2>2. x[T].in # "none"
    BY Zenon, <1>3, <2>1 DEF Removed
  <2>3. Ahead(y, g, T, h[x[T].in])
    BY Zenon, <1>2, <1>3, <2>2 DEF Reachable
  <2>4. QED
    BY Zenon, <2>1, <2>3, AheadFacts
<1>4. QED
  BY Zenon, <1>1, <1>2, <1>3 DEF Keeps, Reachable

\* Changing counts only.
LEMMA SameStep ==
    ASSUME NEW x, NEW y, NEW h, ChainsOk(x, h), Reachable(x, h), Same(x, y)
    PROVE  ChainsOk(y, h) /\ Reachable(y, h) /\ Keeps(x, h, y, h)
<1>1. ChainsOk(y, h)
  BY DEF ChainsOk, Follows, Same
<1>2. Keeps(x, h, y, h)
  BY Zenon, SameLeads DEF Keeps
<1>3. Reachable(y, h)
  BY Zenon, SameLeads DEF Reachable, Same
<1>4. QED
  BY Zenon, <1>1, <1>2, <1>3

\* A lookup that nothing happens to but that an identity is no longer stable.
SameWalk(r, q) ==
    /\ q.pc = r.pc /\ q.walk = r.walk /\ q.cur = r.cur /\ q.best = r.best /\ q.hi = r.hi
    /\ q.res = r.res /\ q.died = r.died /\ q.stable \subseteq r.stable

\* Whoever holds a stable identity after the step held it before, or is the TIME_WAIT
\* socket of one who did.
HoldersStay(x, y, q) ==
    \A id \in q.stable : \A T \in Hashed(y, id) :
        T \in Hashed(x, id) \/ (id = Target /\ T \in Tws /\ Hashed(x, id) \cap Socks # {})

LEMMA WriterSees ==
    ASSUME NEW x, NEW y, NEW h, NEW g, NEW r \in RdType, NEW q \in RdType, SameWalk(r, q),
           Keeps(x, h, y, g), HoldersStay(x, y, q),
           SeesConnection(x, h, r), SeesListener(x, h, r)
    PROVE  SeesConnection(y, g, q) /\ SeesListener(y, g, q)
<1>0. /\ q.pc = r.pc /\ q.walk = r.walk /\ q.cur = r.cur /\ q.best = r.best /\ q.hi = r.hi
      /\ q.res = r.res /\ q.died = r.died /\ q.stable \subseteq r.stable /\ r.cur \in Places
  BY Zenon DEF SameWalk, RdType, Places
<1>1. ASSUME NEW T \in Objs, x[T].in # "none", y[T].in # "none", Before(x, h, r, T)
      PROVE  Before(y, g, q, T)
  BY Zenon, <1>0, <1>1 DEF Before, Keeps
<1>2. SeesConnection(y, g, q)
  <2> SUFFICES ASSUME Target \in q.stable, q.pc # "idle", NEW T \in Hashed(y, Target)
               PROVE  /\ q.walk # "listen"
                      /\ q.walk = "tw1" /\ q.pc # "done" => T \in Tws
                      /\ q.pc # "done" /\ (T \in Socks \/ q.walk = "tw1") =>
                           Before(y, g, q, T) /\ (q.pc = "take" => q.cur = T)
    <3>1. q.walk # "listen" \/ Target \notin q.stable \/ q.pc = "idle"
      BY Zenon, <1>0 DEF SeesConnection
    <3>2. QED
      BY Zenon, <3>1 DEF SeesConnection
  <2>0. Target \in r.stable /\ r.pc # "idle" /\ T \in Objs /\ y[T].in # "none"
    BY Zenon, <1>0 DEF Hashed
  <2>1. q.walk # "listen"
    BY Zenon, <1>0, <2>0 DEF SeesConnection
  <2>2. CASE T \in Hashed(x, Target)
    <3>1. x[T].in # "none"
      BY Zenon, <2>2 DEF Hashed
    <3>2. QED
      BY Zenon, <1>0, <1>1, <2>0, <2>1, <2>2, <3>1 DEF SeesConnection
  <2>3. CASE T \in Tws /\ Hashed(x, Target) \cap Socks # {}
    <3>1. ~(r.walk = "tw1" /\ r.pc # "done")
      BY Zenon, <2>0, <2>3, SlabsAssumption DEF SeesConnection
    <3>2. T \notin Socks
      BY Zenon, <2>3, SlabsAssumption
    <3>3. QED
      BY Zenon, <1>0, <2>1, <3>1, <3>2
  <2>4. QED
    BY Zenon, <2>2, <2>3 DEF HoldersStay
<1>3. SeesListener(y, g, q)
  <2> SUFFICES ASSUME q.walk = "listen", q.pc # "idle", NEW id \in q.stable \cap Listeners,
                      r.pc \in {"look", "next"}, \A T \in Hashed(x, id) : Before(x, h, r, T),
                      NEW T \in Hashed(y, id)
               PROVE  Before(y, g, q, T)
    BY Zenon, <1>0 DEF SeesListener
  <2>1. T \in Hashed(x, id)
    BY Zenon DEF HoldersStay, Target, Listeners
  <2>2. T \in Objs /\ x[T].in # "none" /\ y[T].in # "none"
    BY Zenon, <2>1 DEF Hashed
  <2>3. QED
    BY Zenon, <1>1, <2>1, <2>2
<1>4. QED
  BY Zenon, <1>2, <1>3

-----------------------------------------------------------------------------
(* The steps of the other processors. *)

\* Forgetting an identity that is no longer hashed.
LEMMA WatchedDoes ==
    ASSUME NEW r \in RdType, NEW x
    PROVE  /\ Watched(r, x) \in RdType /\ SameWalk(r, Watched(r, x)) /\ Stable(x, Watched(r, x))
           /\ Watched(r, x).stable \subseteq r.stable
<1> DEFINE s == {id \in r.stable : Hashed(x, id) # {}}
<1>0. s \in SUBSET {"t", "l", "w"} /\ s \subseteq r.stable
  BY Zenon DEF RdType
<1>1. Watched(r, x) = [r EXCEPT !.stable = s]
  BY Zenon DEF Watched
<1>2. \A id \in s : Hashed(x, id) # {}
  BY Zenon
<1> HIDE DEF s
<1>3. /\ [r EXCEPT !.stable = s] \in RdType /\ [r EXCEPT !.stable = s].stable = s
      /\ SameWalk(r, [r EXCEPT !.stable = s])
  BY <1>0, ZenonT(40) DEF RdType, SameWalk
<1>4. QED
  BY Zenon, <1>0, <1>1, <1>2, <1>3 DEF Stable

\* Another lookup state of the same walk stands as well.
LEMMA SameStands ==
    ASSUME NEW r, NEW q, SameWalk(r, q), Stands(r)
    PROVE  Stands(q) /\ q.res = r.res
BY Zenon DEF SameWalk, Stands

\* What is to be shown of a writer's step.
LEMMA WriterInv ==
    ASSUME IInv, Types', ChainsOk(obj', head') /\ Reachable(obj', head') /\ Keeps(obj, head, obj', head'),
           Counted(obj', rd.res), Unique(obj', dance'), Stable(obj', rd'), SameWalk(rd, rd'),
           HoldersStay(obj, obj', rd')
    PROVE  IInv'
<1>1. rd \in RdType /\ rd' \in RdType
  BY Zenon DEF IInv, Types
<1>2. Stands(rd') /\ rd'.res = rd.res
  BY Zenon, SameStands DEF IInv
<1>3. SeesConnection(obj', head', rd') /\ SeesListener(obj', head', rd')
  BY Zenon, <1>1, WriterSees DEF IInv
<1>4. QED
  BY Zenon, <1>2, <1>3 DEF IInv

LEMMA HashStep ==
    ASSUME IInv, NEW o \in Socks, NEW id \in ids, Hash(o, id), ids' = ids
    PROVE  IInv'
<1>0. /\ o \in Objs /\ id \in Ids /\ o \notin Tws
      /\ obj \in [Objs -> ObjType] /\ head \in [Chains -> Objs \cup Nulls] /\ rd \in RdType
      /\ ChainsOk(obj, head) /\ Reachable(obj, head) /\ Counted(obj, rd.res)
      /\ Unique(obj, dance) /\ Stable(obj, rd) /\ dance \in Objs \cup {None}
  BY Zenon, SlabsAssumption DEF IInv, Types, Objs
<1>1. /\ obj[o].owned /\ obj[o].in = "none" /\ Hashed(obj, id) = {} /\ AddNode(obj, o, id)
      /\ rd' = Watched(rd, obj') /\ dance' = dance
  BY Zenon DEF Hash
<1>2. /\ obj' \in [Objs -> ObjType] /\ head' \in [Chains -> Objs \cup Nulls]
      /\ Added(obj, head, obj', head', o, id) /\ \A p \in Objs : SameRefs(obj, obj', p)
  BY Zenon, <1>0, <1>1, AddNodeDoes
<1>3. ChainOf(o, id) \in SlabChains(o) /\ ChainOf(o, id) # "none"
  BY Zenon, <1>0 DEF ChainOf, SlabChains, Ids, Listeners
<1>4. \A T \in Objs : obj[T].in # "none" => obj[T].id # id
  BY Zenon, <1>1 DEF Hashed
<1>5. ChainsOk(obj', head') /\ Reachable(obj', head') /\ Keeps(obj, head, obj', head')
  BY <1>0, <1>1, <1>2, <1>3, <1>4, AddStep, SlabFacts
<1>6. /\ rd' \in RdType /\ SameWalk(rd, rd') /\ Stable(obj', rd') /\ rd'.stable \subseteq rd.stable
  BY Zenon, <1>0, <1>1, WatchedDoes
<1>7. /\ obj'[o].in # "none" /\ obj'[o].id = id
      /\ \A p \in Objs : p # o => obj'[p].in = obj[p].in /\ obj'[p].id = obj[p].id
  BY Zenon, <1>2, <1>3 DEF Added
<1>8. Counted(obj', rd.res)
  BY <1>0, <1>1, <1>2, <1>7 DEF Counted, CountedAt, SameRefs
<1>9. Unique(obj', dance')
  BY <1>0, <1>1, <1>4, <1>7, NullsApart DEF Unique
<1>10. HoldersStay(obj, obj', rd')
  BY <1>0, <1>1, <1>6, <1>7 DEF HoldersStay, Hashed, Stable
<1>11. Types'
  BY Zenon, <1>0, <1>1, <1>2, <1>6 DEF Types, IInv
<1>12. QED
  BY Zenon, <1>5, <1>6, <1>8, <1>9, <1>10, <1>11, WriterInv

LEMMA UnhashStep ==
    ASSUME IInv, NEW o \in Socks, Unhash(o), ids' = ids
    PROVE  IInv'
<1>0. /\ o \in Objs /\ o \notin Tws
      /\ obj \in [Objs -> ObjType] /\ head \in [Chains -> Objs \cup Nulls] /\ rd \in RdType
      /\ ChainsOk(obj, head) /\ Reachable(obj, head) /\ Counted(obj, rd.res)
      /\ Unique(obj, dance) /\ Stable(obj, rd) /\ dance \in Objs \cup {None}
  BY Zenon, SlabsAssumption DEF IInv, Types, Objs
<1>1. /\ obj[o].in # "none" /\ Unlocked(obj[o].in) /\ DelNode(obj, o)
      /\ rd' = Watched(rd, obj') /\ dance' = dance
  BY Zenon DEF Unhash
<1>2. obj[o].in \in Chains /\ obj[o].next \in Objs \cup Nulls
  BY <1>0, <1>1, NullsApart DEF ObjType, ChainsOk, Follows
<1>3. /\ obj' \in [Objs -> ObjType] /\ head' \in [Chains -> Objs \cup Nulls]
      /\ Removed(obj, head, obj', head', o) /\ \A p \in Objs : SameRefs(obj, obj', p)
  BY Zenon, <1>0, <1>1, <1>2, DelNodeDoes
<1>4. ChainsOk(obj', head') /\ Reachable(obj', head') /\ Keeps(obj, head, obj', head')
  BY Zenon, <1>0, <1>1, <1>3, RemoveStep
<1>5. /\ rd' \in RdType /\ SameWalk(rd, rd') /\ Stable(obj', rd') /\ rd'.stable \subseteq rd.stable
  BY Zenon, <1>0, <1>1, WatchedDoes
<1>6. /\ obj'[o].in = "none"
      /\ \A p \in Objs : obj'[p].id = obj[p].id /\ (p # o => obj'[p].in = obj[p].in)
  BY Zenon, <1>3 DEF Removed
<1>7. Counted(obj', rd.res)
  BY <1>0, <1>1, <1>3, <1>6 DEF Counted, CountedAt, SameRefs
<1>8. o # dance
  BY Zenon, <1>0, <1>1 DEF Unlocked
<1>9. Unique(obj', dance')
  BY Zenon, <1>0, <1>1, <1>6, <1>8 DEF Unique
<1>10. HoldersStay(obj, obj', rd')
  BY Zenon, <1>6 DEF HoldersStay, Hashed
<1>11. Types'
  BY Zenon, <1>0, <1>1, <1>3, <1>5 DEF Types, IInv
<1>12. QED
  BY Zenon, <1>4, <1>5, <1>7, <1>9, <1>10, <1>11, WriterInv

\* An object's memory is taken, with one reference.
LEMMA FillDoes ==
    ASSUME NEW x \in [Objs -> ObjType], NEW o \in Objs
    PROVE  LET y == [x EXCEPT ![o].free = FALSE, ![o].refs = 1]
           IN  /\ y \in [Objs -> ObjType] /\ Same(x, y)
               /\ \A p \in Objs : p # o => SameRefs(x, y, p)
               /\ y[o].free = FALSE /\ y[o].owned = x[o].owned /\ y[o].refs = 1
<1> DEFINE m == [x[o] EXCEPT !.free = FALSE, !.refs = 1]
           y == [x EXCEPT ![o].free = FALSE, ![o].refs = 1]
<1>1. x[o] \in ObjType /\ 1 \in Nat
  BY Zenon
<1>2. m \in ObjType /\ m.in = x[o].in /\ m.id = x[o].id /\ m.next = x[o].next
      /\ m.free = FALSE /\ m.owned = x[o].owned /\ m.refs = 1
  BY <1>1, ZenonT(40) DEF ObjType
<1>3. y = [x EXCEPT ![o] = m]
  BY Zenon
<1> HIDE DEF m, y
<1>4. y \in [Objs -> ObjType] /\ Same(x, y) /\ (\A p \in Objs : p # o => SameRefs(x, y, p))
      /\ y[o].free = FALSE /\ y[o].owned = x[o].owned /\ y[o].refs = 1
  BY Zenon, <1>2, <1>3 DEF Same, SameRefs
<1>5. QED
  BY Zenon, <1>4 DEF y

\* The TIME_WAIT socket enters its chain.
LEMMA TwHashStep ==
    ASSUME IInv, NEW o \in Socks, NEW w \in Tws, TwHash(o, w), ids' = ids
    PROVE  IInv'
<1> DEFINE x == [obj EXCEPT ![w].free = FALSE, ![w].refs = 1]
           id == obj[o].id
<1>0. /\ o \in Objs /\ w \in Objs /\ o \notin Tws /\ w \notin Socks /\ o # w
      /\ obj \in [Objs -> ObjType] /\ head \in [Chains -> Objs \cup Nulls] /\ rd \in RdType
      /\ ChainsOk(obj, head) /\ Reachable(obj, head) /\ Counted(obj, rd.res)
      /\ Unique(obj, dance) /\ Stable(obj, rd)
  BY Zenon, SlabsAssumption DEF IInv, Types, Objs
<1>1. /\ obj[o].in \in {"est1", "est2"} /\ dance = None /\ obj[w].free /\ dance' = o
      /\ AddNode(x, w, id) /\ rd' = Watched(rd, obj')
  BY Zenon DEF TwHash
<1>2. obj[w].refs = 0 /\ obj[w].in = "none" /\ obj[w].owned = FALSE /\ rd.res # w
  <2>1. /\ obj[w].refs = B(obj[w].owned) + B(obj[w].in # "none") + B(rd.res = w)
        /\ obj[w].refs = 0 /\ obj[w].owned = FALSE
    BY Zenon, <1>0, <1>1 DEF Counted, CountedAt, ObjType
  <2>2. QED
    BY <2>1 DEF B
<1>3. /\ x \in [Objs -> ObjType] /\ Same(obj, x) /\ (\A p \in Objs : p # w => SameRefs(obj, x, p))
      /\ x[w].free = FALSE /\ x[w].owned = obj[w].owned /\ x[w].refs = 1
  BY Zenon, <1>0, FillDoes
<1>4. id \in Ids /\ id \notin Listeners /\ obj[o].in # "none"
  <2>1. obj[o].in # "none" /\ obj[o].in # "listen" /\ id \in Ids
    BY Zenon, <1>0, <1>1 DEF ObjType
  <2>2. QED
    BY Zenon, <1>0, <2>1 DEF ChainsOk, ChainOf
<1> HIDE DEF x, id
<1>5. /\ obj' \in [Objs -> ObjType] /\ head' \in [Chains -> Objs \cup Nulls]
      /\ Added(x, head, obj', head', w, id) /\ \A p \in Objs : SameRefs(x, obj', p)
  BY Zenon, <1>0, <1>1, <1>3, <1>4, AddNodeDoes
<1>6. Added(obj, head, obj', head', w, id)
  BY Zenon, <1>3, <1>5 DEF Added, Same
<1>7. ChainOf(w, id) \in SlabChains(w) /\ ChainOf(w, id) # "none"
  BY Zenon, <1>0, <1>4 DEF ChainOf, SlabChains
<1>8. \A T \in Objs : obj[T].in # "none" /\ obj[T].id = id => T = o
  BY Zenon, <1>0, <1>1, <1>4, NullsApart DEF Unique, id
<1>9. ChainsOk(obj', head') /\ Reachable(obj', head') /\ Keeps(obj, head, obj', head')
  <2>1. \A T \in Slab(w) : obj[T].in # "none" => obj[T].id # id
    BY <1>0, <1>8, SlabFacts DEF Slab
  <2>2. QED
    BY Zenon, <1>0, <1>2, <1>4, <1>5, <1>6, <1>7, <2>1, AddStep
<1>10. /\ rd' \in RdType /\ SameWalk(rd, rd') /\ Stable(obj', rd') /\ rd'.stable \subseteq rd.stable
  BY Zenon, <1>0, <1>1, WatchedDoes
<1>11. /\ obj'[w].in # "none" /\ obj'[w].id = id
       /\ \A p \in Objs : p # w => obj'[p].in = obj[p].in /\ obj'[p].id = obj[p].id
  BY Zenon, <1>6, <1>7 DEF Added
<1>12. Counted(obj', rd.res)
  <2>1. ASSUME NEW p \in Objs, p # w PROVE SameRefs(obj, obj', p) /\ obj'[p].in = obj[p].in
    BY Zenon, <1>3, <1>5, <1>11, <2>1 DEF SameRefs
  <2>2. obj'[w].refs = 1 /\ obj'[w].free = FALSE /\ obj'[w].owned = FALSE
    BY Zenon, <1>0, <1>2, <1>3, <1>5 DEF SameRefs
  <2>3. ASSUME NEW p \in Objs, p # w PROVE CountedAt(obj', rd.res, p)
    <3>1. CountedAt(obj, rd.res, p)
      BY Zenon, <1>0 DEF Counted
    <3>2. QED
      BY ONLY Zenon, <2>1, <2>3, <3>1, SlabsAssumption DEF CountedAt, SameRefs
  <2>4. CountedAt(obj', rd.res, w)
    <3>1. ~obj'[w].owned /\ (w \in Tws /\ obj'[w].in # "none") /\ ~(rd.res = w) /\ w \notin Socks
      BY Zenon, <1>0, <1>2, <1>11, <2>2
    <3>2. /\ B(obj'[w].owned) = 0 /\ B(w \in Tws /\ obj'[w].in # "none") = 1
          /\ B(rd.res = w) = 0
      BY ONLY Zenon, <3>1 DEF B
    <3>3. obj'[w].free <=> obj'[w].refs = 0
      BY <2>2
    <3>4. QED
      BY ONLY <2>2, <3>1, <3>2, <3>3 DEF CountedAt
  <2>5. QED
    BY Zenon, <2>3, <2>4 DEF Counted
<1>13. Unique(obj', dance')
  <2>1. ASSUME NEW p \in Objs, NEW q \in Objs, obj'[p].in # "none", obj'[q].in # "none",
               obj'[p].id = obj'[q].id, p # q
        PROVE  {p, q} = {o, w}
    <3>1. CASE p # w /\ q # w
      BY <1>0, <1>1, <1>11, <2>1, <3>1, NullsApart DEF Unique
    <3>2. QED
      BY Zenon, <1>8, <1>11, <2>1, <3>1
  <2>2. Slab(o) # Slab(w)
    BY Zenon, <1>0 DEF Slab
  <2>3. obj'[o].in # "none"
    BY Zenon, <1>0, <1>4, <1>11
  <2>4. QED
    BY <1>1, <2>1, <2>2, <2>3 DEF Unique
<1>14. HoldersStay(obj, obj', rd')
  <2>1. ASSUME NEW i \in rd'.stable, NEW T \in Hashed(obj', i), T \notin Hashed(obj, i)
        PROVE  i = Target /\ T \in Tws /\ Hashed(obj, i) \cap Socks # {}
    <3>1. T = w /\ i = id
      BY Zenon, <1>11, <2>1 DEF Hashed
    <3>2. o \in Hashed(obj, i)
      BY Zenon, <1>0, <1>4, <3>1 DEF Hashed, id
    <3>3. i = Target
      BY Zenon, <1>4, <1>10, <2>1, <3>1 DEF RdType, Listeners, Target
    <3>4. QED
      BY Zenon, <3>1, <3>2, <3>3
  <2>2. QED
    BY Zenon, <2>1 DEF HoldersStay
<1>15. Types'
  BY Zenon, <1>0, <1>1, <1>5, <1>10 DEF Types, IInv
<1>16. QED
  BY Zenon, <1>9, <1>10, <1>12, <1>13, <1>14, <1>15, WriterInv

\* A new socket takes the identity of a TIME_WAIT socket over.
LEMMA RecycleStep ==
    ASSUME IInv, NEW o \in Socks, NEW w \in Tws, Recycle(o, w), ids' = ids
    PROVE  IInv'
<1> DEFINE id == obj[w].id
           s == rd.stable \ {id}
<1>0. /\ o \in Objs /\ w \in Objs /\ o \notin Tws /\ w \notin Socks /\ o # w
      /\ obj \in [Objs -> ObjType] /\ head \in [Chains -> Objs \cup Nulls] /\ rd \in RdType
      /\ ChainsOk(obj, head) /\ Reachable(obj, head) /\ Counted(obj, rd.res)
      /\ Unique(obj, dance) /\ Stable(obj, rd)
  BY Zenon, SlabsAssumption DEF IInv, Types, Objs
<1>1. /\ obj[o].owned /\ obj[o].in = "none" /\ dance = None /\ obj[w].in # "none" /\ dance' = w
      /\ AddNode(obj, o, id) /\ rd' = [rd EXCEPT !.stable = s]
  BY Zenon DEF Recycle
<1>2. id \in Ids /\ s \in SUBSET {"t", "l", "w"} /\ s \subseteq rd.stable
  BY Zenon, <1>0 DEF ObjType, RdType
<1>3. id \notin s
  BY Zenon
<1>4. \A T \in Objs : obj[T].in # "none" /\ obj[T].id = id => T = w
  BY Zenon, <1>0, <1>1, NullsApart DEF Unique
<1> HIDE DEF id, s
<1>5. rd' \in RdType /\ SameWalk(rd, rd') /\ rd'.stable = s
  BY <1>0, <1>1, <1>2, ZenonT(40) DEF RdType, SameWalk
<1>6. /\ obj' \in [Objs -> ObjType] /\ head' \in [Chains -> Objs \cup Nulls]
      /\ Added(obj, head, obj', head', o, id) /\ \A p \in Objs : SameRefs(obj, obj', p)
  BY Zenon, <1>0, <1>1, <1>2, AddNodeDoes
<1>7. ChainOf(o, id) \in SlabChains(o) /\ ChainOf(o, id) # "none"
  BY Zenon, <1>0, <1>2 DEF ChainOf, SlabChains, Ids, Listeners
<1>8. ChainsOk(obj', head') /\ Reachable(obj', head') /\ Keeps(obj, head, obj', head')
  <2>1. \A T \in Slab(o) : obj[T].in # "none" => obj[T].id # id
    BY <1>0, <1>4, SlabFacts DEF Slab
  <2>2. QED
    BY Zenon, <1>0, <1>1, <1>2, <1>6, <1>7, <2>1, AddStep
<1>9. /\ obj'[o].in # "none" /\ obj'[o].id = id
      /\ \A p \in Objs : p # o => obj'[p].in = obj[p].in /\ obj'[p].id = obj[p].id
  BY Zenon, <1>6, <1>7 DEF Added
<1>10. Counted(obj', rd.res)
  BY <1>0, <1>1, <1>6, <1>9 DEF Counted, CountedAt, SameRefs
<1>11. Unique(obj', dance')
  <2>1. ASSUME NEW p \in Objs, NEW q \in Objs, obj'[p].in # "none", obj'[q].in # "none",
               obj'[p].id = obj'[q].id, p # q
        PROVE  {p, q} = {o, w}
    <3>1. CASE p # o /\ q # o
      BY Zenon, <1>0, <1>1, <1>9, <2>1, <3>1, NullsApart DEF Unique
    <3>2. QED
      BY Zenon, <1>4, <1>9, <2>1, <3>1
  <2>2. Slab(o) # Slab(w)
    BY Zenon, <1>0 DEF Slab
  <2>3. obj'[w].in # "none"
    BY Zenon, <1>0, <1>1, <1>9
  <2>4. QED
    BY <1>1, <2>1, <2>2, <2>3 DEF Unique
<1>12. HoldersStay(obj, obj', rd')
  BY Zenon, <1>3, <1>5, <1>9 DEF HoldersStay, Hashed
<1>13. Stable(obj', rd')
  <2> SUFFICES ASSUME NEW i \in s PROVE Hashed(obj', i) # {}
    BY Zenon, <1>5 DEF Stable
  <2>1. PICK T \in Objs : obj[T].in # "none" /\ obj[T].id = i
    BY Zenon, <1>0, <1>2 DEF Stable, Hashed
  <2>2. T # o
    BY Zenon, <1>1, <2>1
  <2>3. QED
    BY Zenon, <1>9, <2>1, <2>2 DEF Hashed
<1>14. Types'
  BY Zenon, <1>0, <1>1, <1>5, <1>6 DEF Types, IInv
<1>15. QED
  BY Zenon, <1>5, <1>8, <1>10, <1>11, <1>12, <1>13, <1>14, WriterInv

\* An object leaves its chain, a TIME_WAIT socket losing its reference with that, and no
\* dance is left.
LEMMA LeaveStep ==
    ASSUME IInv, NEW o \in Objs, obj[o].in # "none", dance \in {o, None},
           DelNode(IF o \in Tws THEN Put(obj, o) ELSE obj, o), dance' = None,
           rd' = Watched(rd, obj'), ids' = ids
    PROVE  IInv'
<1> DEFINE x == IF o \in Tws THEN Put(obj, o) ELSE obj
<1>0. /\ obj \in [Objs -> ObjType] /\ head \in [Chains -> Objs \cup Nulls] /\ rd \in RdType
      /\ ChainsOk(obj, head) /\ Reachable(obj, head) /\ Counted(obj, rd.res)
      /\ Unique(obj, dance) /\ Stable(obj, rd)
  BY Zenon DEF IInv, Types
<1>1. obj[o].in \in Chains /\ obj[o].next \in Objs \cup Nulls
  BY <1>0, NullsApart DEF ObjType, ChainsOk, Follows
<1>2. CountedAt(obj, rd.res, o)
  BY Zenon, <1>0 DEF Counted
<1>3. o \in Tws => obj[o].refs > 0 /\ obj[o].refs \in Nat
  BY <1>0, <1>2 DEF CountedAt, B, ObjType
<1>4. /\ x \in [Objs -> ObjType] /\ Same(obj, x) /\ (\A p \in Objs : p # o => SameRefs(obj, x, p))
      /\ x[o].owned = obj[o].owned
      /\ o \notin Tws => SameRefs(obj, x, o)
      /\ o \in Tws => x[o].refs = obj[o].refs - 1 /\ (x[o].free <=> obj[o].refs = 1)
  <2>1. CASE o \in Tws
    BY Zenon, <1>0, <1>3, <2>1, PutDoes
  <2>2. CASE o \notin Tws
    BY Zenon, <1>0, <2>2 DEF Same, SameRefs
  <2>3. QED
    BY Zenon, <2>1, <2>2
<1>5. DelNode(x, o)
  BY Zenon
<1> HIDE DEF x
<1>6. /\ obj' \in [Objs -> ObjType] /\ head' \in [Chains -> Objs \cup Nulls]
      /\ Removed(x, head, obj', head', o) /\ \A p \in Objs : SameRefs(x, obj', p)
  <2>1. x[o].in \in Chains /\ x[o].next \in Objs \cup Nulls
    BY Zenon, <1>1, <1>4 DEF Same
  <2>2. QED
    BY Zenon, <1>0, <1>4, <1>5, <2>1, DelNodeDoes
<1>7. Removed(obj, head, obj', head', o)
  <2>1. \A p \in Objs : x[p].in = obj[p].in /\ x[p].id = obj[p].id /\ x[p].next = obj[p].next
    BY Zenon, <1>4 DEF Same
  <2>2. x[o].in = obj[o].in /\ x[o].id = obj[o].id /\ x[o].next = obj[o].next
    BY Zenon, <2>1
  <2>3. QED
    BY ONLY Zenon, <1>6, <2>1, <2>2 DEF Removed
<1>8. ChainsOk(obj', head') /\ Reachable(obj', head') /\ Keeps(obj, head, obj', head')
  BY Zenon, <1>0, <1>6, <1>7, RemoveStep
<1>9. /\ rd' \in RdType /\ SameWalk(rd, rd') /\ Stable(obj', rd') /\ rd'.stable \subseteq rd.stable
  BY Zenon, <1>0, WatchedDoes
<1>10. /\ obj'[o].in = "none"
       /\ \A p \in Objs : obj'[p].id = obj[p].id /\ (p # o => obj'[p].in = obj[p].in)
  BY Zenon, <1>7 DEF Removed
<1>11. Counted(obj', rd.res)
  <2>1. ASSUME NEW p \in Objs, p # o PROVE CountedAt(obj', rd.res, p)
    <3>1. CountedAt(obj, rd.res, p) /\ SameRefs(obj, x, p) /\ SameRefs(x, obj', p)
          /\ obj'[p].in = obj[p].in
      BY Zenon, <1>0, <1>4, <1>6, <1>10, <2>1 DEF Counted
    <3>2. QED
      BY ONLY Zenon, <3>1 DEF CountedAt, SameRefs
  <2>2. ASSUME o \in Tws PROVE CountedAt(obj', rd.res, o)
    <3>1. /\ obj'[o].refs = obj[o].refs - 1 /\ (obj'[o].free <=> obj[o].refs = 1)
          /\ obj'[o].owned = obj[o].owned
      BY Zenon, <1>4, <1>6, <2>2 DEF SameRefs
    <3>2. B(o \in Tws /\ obj[o].in # "none") = 1 /\ B(o \in Tws /\ obj'[o].in # "none") = 0
      BY Zenon, <1>10, <2>2 DEF B
    <3>3. obj'[o].refs = B(obj'[o].owned) + B(o \in Tws /\ obj'[o].in # "none") + B(rd.res = o)
      BY <1>2, <3>1, <3>2 DEF CountedAt, B
    <3>4. QED
      BY <1>2, <1>3, <1>10, <2>2, <3>1, <3>3 DEF CountedAt
  <2>3. ASSUME o \notin Tws PROVE CountedAt(obj', rd.res, o)
    <3>1. SameRefs(obj, x, o) /\ SameRefs(x, obj', o)
      BY Zenon, <1>4, <1>6, <2>3
    <3>2. QED
      BY ONLY Zenon, <1>2, <1>10, <2>3, <3>1 DEF CountedAt, SameRefs
  <2>4. QED
    BY Zenon, <2>1, <2>2, <2>3 DEF Counted
<1>12. Unique(obj', dance')
  BY <1>0, <1>10, NullsApart DEF Unique
<1>13. HoldersStay(obj, obj', rd')
  BY Zenon, <1>10 DEF HoldersStay, Hashed
<1>14. Types'
  BY Zenon, <1>0, <1>6, <1>9 DEF Types, IInv
<1>15. QED
  BY Zenon, <1>8, <1>9, <1>11, <1>12, <1>13, <1>14, WriterInv

-----------------------------------------------------------------------------
(* Steps that leave the chains alone. *)

LEMMA SameSees ==
    ASSUME NEW x, NEW y, NEW h, NEW q \in RdType, ChainsOk(x, h), Reachable(x, h), Same(x, y),
           SeesConnection(x, h, q), SeesListener(x, h, q), Stable(x, q)
    PROVE  SeesConnection(y, h, q) /\ SeesListener(y, h, q) /\ Stable(y, q)
<1>1. \A id : Hashed(y, id) = Hashed(x, id)
  BY Zenon DEF Hashed, Same
<1>2. Keeps(x, h, y, h)
  BY Zenon, SameStep
<1>3. SameWalk(q, q) /\ HoldersStay(x, y, q)
  BY Zenon, <1>1 DEF SameWalk, HoldersStay
<1>4. Stable(y, q)
  BY Zenon, <1>1 DEF Stable
<1>5. QED
  BY Zenon, <1>2, <1>3, <1>4, WriterSees

\* What is to be shown of such a step.
LEMMA CountInv ==
    ASSUME IInv, obj' \in [Objs -> ObjType], Same(obj, obj'), head' = head, dance' = dance,
           ids' = ids, rd' \in RdType, Counted(obj', rd'.res), Stable(obj, rd'), Stands(rd'),
           SeesConnection(obj, head, rd'), SeesListener(obj, head, rd')
    PROVE  IInv'
<1>1. ChainsOk(obj, head) /\ Reachable(obj, head)
  BY Zenon DEF IInv
<1>2. ChainsOk(obj', head) /\ Reachable(obj', head)
  BY Zenon, <1>1, SameStep
<1>3. SeesConnection(obj', head, rd') /\ SeesListener(obj', head, rd') /\ Stable(obj', rd')
  BY Zenon, <1>1, SameSees
<1>4. Unique(obj', dance)
  <2>1. Unique(obj, dance) /\ (dance \in Objs \/ dance = None)
    BY Zenon DEF IInv, Types
  <2>2. QED
    BY Zenon, <2>1 DEF Unique, Same
<1>5. Types'
  BY Zenon DEF IInv, Types
<1>6. QED
  BY Zenon, <1>2, <1>3, <1>4, <1>5 DEF IInv

\* One object's count changes as its references do.
LEMMA CountOne ==
    ASSUME NEW x, NEW y, NEW res, NEW ses, Counted(x, res), NEW o \in Objs, Same(x, y),
           \A p \in Objs : p # o => SameRefs(x, y, p) /\ (p = res <=> p = ses),
           CountedAt(y, ses, o)
    PROVE  Counted(y, ses)
<1>1. ASSUME NEW p \in Objs, p # o PROVE CountedAt(y, ses, p)
  <2>1. CountedAt(x, res, p) /\ SameRefs(x, y, p) /\ (p = res <=> p = ses) /\ y[p].in = x[p].in
    BY Zenon, <1>1 DEF Counted, Same
  <2>2. B(res = p) = B(ses = p)
    BY Zenon, <2>1 DEF B
  <2>3. QED
    BY ONLY Zenon, <2>1, <2>2 DEF CountedAt, SameRefs
<1>2. QED
  BY Zenon, <1>1 DEF Counted

LEMMA AllocStep ==
    ASSUME IInv, NEW o \in Socks, Alloc(o), ids' = ids
    PROVE  IInv'
<1>0. /\ o \in Objs /\ o \notin Tws /\ obj \in [Objs -> ObjType] /\ rd \in RdType
      /\ Counted(obj, rd.res) /\ Stable(obj, rd) /\ Stands(rd)
      /\ SeesConnection(obj, head, rd) /\ SeesListener(obj, head, rd)
  BY Zenon, SlabsAssumption DEF IInv, Types, Objs
<1>1. /\ obj' = [obj EXCEPT ![o].free = FALSE, ![o].owned = TRUE, ![o].refs = 1]
      /\ head' = head /\ dance' = dance /\ rd' = rd /\ obj[o].free
  BY Zenon DEF Alloc
<1>2. /\ obj' \in [Objs -> ObjType] /\ Same(obj, obj')
      /\ \A p \in Objs : p # o => SameRefs(obj, obj', p)
      /\ obj'[o].free = FALSE /\ obj'[o].owned = TRUE /\ obj'[o].refs = 1
  BY Zenon, <1>0, <1>1, OwnDoes
<1>3. CountedAt(obj', rd.res, o)
  <2>1. CountedAt(obj, rd.res, o) /\ obj[o].refs = 0
    BY Zenon, <1>0, <1>1 DEF Counted, CountedAt
  <2>2. rd.res # o
    BY <1>0, <2>1 DEF CountedAt, B
  <2>3. /\ B(obj'[o].owned) = 1 /\ B(o \in Tws /\ obj'[o].in # "none") = 0 /\ B(rd.res = o) = 0
    BY Zenon, <1>0, <1>2, <2>2 DEF B
  <2>4. QED
    BY ONLY <1>0, <1>2, <2>3 DEF CountedAt
<1>4. Counted(obj', rd.res)
  BY <1>0, <1>2, <1>3, CountOne
<1>5. QED
  BY Zenon, <1>0, <1>1, <1>2, <1>4, CountInv

LEMMA ReleaseStep ==
    ASSUME IInv, NEW o \in Socks, Release(o), ids' = ids
    PROVE  IInv'
<1> DEFINE x == Put(obj, o)
           n == [x[o] EXCEPT !.owned = FALSE]
<1>0. /\ o \in Objs /\ o \notin Tws /\ obj \in [Objs -> ObjType] /\ rd \in RdType
      /\ Counted(obj, rd.res) /\ Stable(obj, rd) /\ Stands(rd)
      /\ SeesConnection(obj, head, rd) /\ SeesListener(obj, head, rd)
  BY Zenon, SlabsAssumption DEF IInv, Types, Objs
<1>1. /\ obj' = [x EXCEPT ![o] = n] /\ obj[o].owned /\ obj[o].in = "none"
      /\ head' = head /\ dance' = dance /\ rd' = rd
  BY Zenon DEF Release
<1>2. CountedAt(obj, rd.res, o)
  BY Zenon, <1>0 DEF Counted
<1>3. obj[o].refs \in Nat /\ obj[o].refs = 1 + B(rd.res = o) /\ obj[o].refs > 0
  BY <1>0, <1>1, <1>2 DEF CountedAt, B, ObjType
<1>4. /\ x \in [Objs -> ObjType] /\ Same(obj, x) /\ (\A p \in Objs : p # o => SameRefs(obj, x, p))
      /\ x[o].refs = obj[o].refs - 1 /\ (x[o].free <=> obj[o].refs = 1)
  BY Zenon, <1>0, <1>3, PutDoes
<1> HIDE DEF x
<1>5. x[o] \in ObjType
  BY Zenon, <1>0, <1>4
<1>6. n \in ObjType /\ n.in = x[o].in /\ n.id = x[o].id /\ n.next = x[o].next
      /\ n.free = x[o].free /\ n.owned = FALSE /\ n.refs = x[o].refs
  BY <1>5, ZenonT(40) DEF ObjType
<1> HIDE DEF n
<1>7. /\ obj' \in [Objs -> ObjType] /\ Same(obj, obj')
      /\ \A p \in Objs : p # o => SameRefs(obj, obj', p)
  BY <1>1, <1>4, <1>6 DEF Same, SameRefs
<1>8. /\ ~obj'[o].owned /\ obj'[o].refs = obj[o].refs - 1 /\ (obj'[o].free <=> obj[o].refs = 1)
      /\ obj'[o].in = "none"
  <2>1. obj'[o] = n /\ x[o].in = "none"
    BY Zenon, <1>0, <1>1, <1>4 DEF Same
  <2>2. ~obj'[o].owned /\ obj'[o].refs = x[o].refs /\ obj'[o].in = "none" /\ obj'[o].free = x[o].free
    BY Zenon, <1>6, <2>1
  <2>3. obj'[o].free <=> obj[o].refs = 1
    BY <1>4, <2>2, ZenonT(40)
  <2>4. QED
    BY Zenon, <1>4, <2>2, <2>3
<1>9. CountedAt(obj', rd.res, o)
  <2>1. B(obj'[o].owned) = 0 /\ B(o \in Tws /\ obj'[o].in # "none") = 0 /\ B(rd.res = o) \in {0, 1}
    BY Zenon, <1>0, <1>8 DEF B
  <2>2. QED
    BY ONLY <1>0, <1>3, <1>8, <2>1 DEF CountedAt
<1>10. Counted(obj', rd.res)
  BY <1>0, <1>7, <1>9, CountOne
<1>11. QED
  BY Zenon, <1>0, <1>1, <1>7, <1>10, CountInv

-----------------------------------------------------------------------------
(* The steps of the lookup. *)

\* A lookup that begins a chain has what is hashed in it ahead, if what is left behind is
\* not there.
LEMMA BeginSees ==
    ASSUME IInv, NEW q \in RdType, q.pc = "look", q.cur = head[q.walk],
           Target \in q.stable => /\ q.walk # "listen"
                                  /\ q.walk = "tw1" => Hashed(obj, Target) \subseteq Tws
    PROVE  SeesConnection(obj, head, q) /\ SeesListener(obj, head, q)
<1>0. ChainsOk(obj, head) /\ Reachable(obj, head) /\ q.walk \in {"est1", "tw1", "listen"}
  BY Zenon DEF IInv, RdType
<1>1. ASSUME NEW T \in Objs, obj[T].in = q.walk PROVE Before(obj, head, q, T)
  <2>1. obj[T].in # "none"
    BY Zenon, <1>0, <1>1
  <2>2. Ahead(obj, head, T, q.cur)
    BY Zenon, <1>0, <1>1, <2>1 DEF Reachable
  <2>3. QED
    BY Zenon, <2>2 DEF Before
<1>2. ASSUME NEW id \in {"t", "l", "w"}, NEW T \in Hashed(obj, id)
      PROVE  /\ T \in Objs
             /\ obj[T].in = IF id = "t" THEN IF T \in Tws THEN "tw1" ELSE "est1" ELSE "listen"
  <2>1. T \in Objs /\ obj[T].in # "none" /\ obj[T].id = id
    BY Zenon DEF Hashed
  <2>2. obj[T].in = ChainOf(T, id)
    BY Zenon, <1>0, <2>1 DEF ChainsOk
  <2>3. CASE id = "t"
    <3>1. id \notin Listeners /\ id # "x"
      BY Zenon, <2>3 DEF Listeners
    <3>2. ChainOf(T, id) = IF T \in Tws THEN "tw1" ELSE "est1"
      BY ONLY Zenon, <3>1 DEF ChainOf
    <3>3. QED
      BY Zenon, <2>1, <2>2, <2>3, <3>2
  <2>4. CASE id # "t"
    <3>1. id \in Listeners
      BY Zenon, <2>4 DEF Listeners
    <3>2. ChainOf(T, id) = "listen"
      BY ONLY Zenon, <3>1 DEF ChainOf
    <3>3. QED
      BY Zenon, <2>1, <2>2, <2>4, <3>2
  <2>5. QED
    BY Zenon, <2>3, <2>4
<1>3. SeesConnection(obj, head, q)
  <2> SUFFICES ASSUME Target \in q.stable, NEW T \in Hashed(obj, Target),
                      T \in Socks \/ q.walk = "tw1"
               PROVE  Before(obj, head, q, T)
    BY Zenon, <1>2 DEF SeesConnection, Target
  <2>1. T \in Objs /\ obj[T].in = IF T \in Tws THEN "tw1" ELSE "est1"
    BY Zenon, <1>2 DEF Target
  <2>2. obj[T].in = q.walk
    BY Zenon, <1>0, <2>1, SlabsAssumption
  <2>3. QED
    BY Zenon, <1>1, <2>1, <2>2
<1>4. SeesListener(obj, head, q)
  <2> SUFFICES ASSUME q.walk = "listen", NEW id \in q.stable \cap Listeners,
                      NEW T \in Hashed(obj, id)
               PROVE  Before(obj, head, q, T)
    BY Zenon DEF SeesListener
  <2>1. id \in {"t", "l", "w"} /\ id # "t"
    BY Zenon DEF Listeners
  <2>2. T \in Objs /\ obj[T].in = "listen"
    BY Zenon, <1>2, <2>1
  <2>3. QED
    BY Zenon, <1>1, <2>2
<1>5. QED
  BY Zenon, <1>3, <1>4

LEMMA WalksDoes ==
    ASSUME NEW r \in RdType, NEW c \in {"est1", "tw1", "listen"},
           head \in [Chains -> Objs \cup Nulls]
    PROVE  LET q == Walks(r, c)
           IN  /\ q \in RdType /\ q.pc = "look" /\ q.walk = c /\ q.cur = head[q.walk]
               /\ q.hi = -1 /\ q.res = None /\ q.stable = r.stable /\ Stands(q)
<1> DEFINE n == head[c]
           q == [r EXCEPT !.pc = "look", !.walk = c, !.cur = n, !.best = None, !.hi = -1,
                          !.res = None]
<1>0. n \in Objs \cup Nulls \cup {None} /\ None \in Objs \cup {None} /\ -1 \in {-1, 1, 3}
  BY Zenon DEF Chains
<1>1. Walks(r, c) = q
  BY Zenon DEF Walks
<1> HIDE DEF n
<1>2. q \in RdType /\ q.pc = "look" /\ q.walk = c /\ q.cur = n
      /\ q.hi = -1 /\ q.res = None /\ q.stable = r.stable
  BY <1>0, ZenonT(40) DEF RdType
<1> HIDE DEF q
<1>3. Stands(q)
  BY Zenon, <1>2 DEF Stands
<1>4. QED
  BY Zenon, <1>1, <1>2, <1>3 DEF n

\* Beginning a chain.
LEMMA BeginStep ==
    ASSUME IInv, NEW r \in RdType, NEW c \in {"est1", "tw1", "listen"}, r.stable \subseteq rd.stable,
           Target \in r.stable => c # "listen" /\ (c = "tw1" => Hashed(obj, Target) \subseteq Tws),
           rd' = Walks(r, c), head' = head, dance' = dance, ids' = ids,
           obj' \in [Objs -> ObjType], Same(obj, obj'), Counted(obj', None)
    PROVE  IInv'
<1>1. /\ rd' \in RdType /\ rd'.pc = "look" /\ rd'.walk = c /\ rd'.cur = head[rd'.walk]
      /\ rd'.res = None /\ rd'.stable = r.stable /\ Stands(rd')
  BY Zenon, WalksDoes DEF IInv, Types
<1>2. SeesConnection(obj, head, rd') /\ SeesListener(obj, head, rd')
  BY Zenon, <1>1, BeginSees
<1>3. Stable(obj, rd')
  BY Zenon, <1>1 DEF IInv, Stable
<1>4. QED
  BY Zenon, <1>1, <1>2, <1>3, CountInv

Pcs == {"idle", "look", "next", "take", "recheck", "done"}

\* The other ways a lookup's state changes.
LEMMA MovesDoes ==
    ASSUME NEW r \in RdType, NEW p \in Pcs,
           NEW n \in Places,
           NEW q, q = [r EXCEPT !.pc = p, !.cur = n]
    PROVE  /\ q \in RdType /\ q.pc = p /\ q.cur = n /\ q.walk = r.walk /\ q.best = r.best
           /\ q.hi = r.hi /\ q.res = r.res /\ q.stable = r.stable /\ q.died = r.died
BY ZenonT(40) DEF RdType, Pcs, Places

LEMMA GoesDoes ==
    ASSUME NEW r \in RdType, NEW p \in Pcs,
           NEW q, q = [r EXCEPT !.pc = p]
    PROVE  /\ q \in RdType /\ q.pc = p /\ q.cur = r.cur /\ q.walk = r.walk /\ q.best = r.best
           /\ q.hi = r.hi /\ q.res = r.res /\ q.stable = r.stable /\ q.died = r.died
BY ZenonT(40) DEF RdType, Pcs

LEMMA HoldsDoes ==
    ASSUME NEW r \in RdType, NEW p \in Pcs,
           NEW n \in Objs \cup {None},
           NEW q, q = [r EXCEPT !.pc = p, !.res = n]
    PROVE  /\ q \in RdType /\ q.pc = p /\ q.cur = r.cur /\ q.walk = r.walk /\ q.best = r.best
           /\ q.hi = r.hi /\ q.res = n /\ q.stable = r.stable /\ q.died = r.died
BY ZenonT(40) DEF RdType, Pcs

LEMMA DiesDoes ==
    ASSUME NEW r \in RdType,
           NEW q, q = [r EXCEPT !.died = TRUE]
    PROVE  /\ q \in RdType /\ q.pc = r.pc /\ q.cur = r.cur /\ q.walk = r.walk
           /\ q.best = r.best /\ q.hi = r.hi /\ q.res = r.res /\ q.stable = r.stable /\ q.died
BY ZenonT(40) DEF RdType

\* A walk leaves a chain with a connection hashed all along only if the connection is in
\* TIME_WAIT and the walk is in the chain before: it does not end in the null of the
\* connection's chain, and the reference to a hashed socket can be taken.
LEMMA LeavesBehind ==
    ASSUME IInv, Target \in rd.stable,
           \/ rd.pc = "look" /\ rd.cur = Null(rd.walk)
           \/ rd.pc = "take" /\ ~MayTake(rd.cur)
    PROVE  rd.walk = "est1" /\ Hashed(obj, Target) \subseteq Tws
<1>0. /\ ChainsOk(obj, head) /\ Counted(obj, rd.res) /\ Stable(obj, rd) /\ rd \in RdType
      /\ SeesConnection(obj, head, rd) /\ rd.walk \in {"est1", "tw1", "listen"}
      /\ obj \in [Objs -> ObjType]
  BY Zenon DEF IInv, Types, RdType
<1>1. rd.walk # "listen"
  BY Zenon, <1>0 DEF SeesConnection
<1>2. ASSUME NEW T \in Hashed(obj, Target) PROVE rd.walk = "est1" /\ T \in Tws
  <2>1. T \in Objs /\ obj[T].in # "none" /\ obj[T].id = Target
    BY Zenon DEF Hashed
  <2>2. CountedAt(obj, rd.res, T) /\ obj[T].refs \in Nat
    BY Zenon, <1>0, <2>1 DEF Counted, ObjType
  <2>3. obj[T].refs # 0
    <3>1. T \in Socks \/ T \in Tws
      BY Zenon, <2>1 DEF Objs
    <3>2. QED
      BY ONLY <2>1, <2>2, <3>1 DEF CountedAt, B
  <2>4. ASSUME T \in Socks \/ rd.walk = "tw1" PROVE FALSE
    <3>1. /\ Before(obj, head, rd, T) /\ (rd.pc = "take" => rd.cur = T)
          /\ rd.walk = "tw1" => T \in Tws
      BY Zenon, <1>0, <2>4 DEF SeesConnection
    <3>2. rd.pc = "look" /\ Ahead(obj, head, T, rd.cur) /\ rd.cur = Null(rd.walk)
      BY Zenon, <2>3, <3>1 DEF Before, MayTake
    <3>3. obj[T].in = IF T \in Tws THEN "tw1" ELSE "est1"
      BY Zenon, <1>0, <2>1 DEF ChainsOk, ChainOf, Target, Listeners
    <3>4. Null(obj[T].in) = 1 /\ Null(rd.walk) = 1
      BY Zenon, <1>0, <1>1, <3>3 DEF Null
    <3>5. QED
      BY Zenon, <2>1, <3>2, <3>4, AheadFacts
  <2>5. QED
    BY Zenon, <1>0, <1>1, <2>1, <2>4 DEF Objs
<1>3. Hashed(obj, Target) # {}
  BY Zenon, <1>0 DEF Stable
<1>4. QED
  BY Zenon, <1>2, <1>3

\* A walk leaves the listeners with every listener that was hashed all along compared.
LEMMA ComparedAll ==
    ASSUME IInv, rd.walk = "listen", NEW id \in rd.stable \cap Listeners,
           \/ rd.pc = "look" /\ rd.cur = Null(rd.walk)
           \/ rd.pc \in {"take", "recheck"}
    PROVE  compute_score(id) <= rd.hi
<1>0. ChainsOk(obj, head) /\ Stable(obj, rd) /\ SeesListener(obj, head, rd)
  BY Zenon DEF IInv
<1>1. PICK T : T \in Hashed(obj, id)
  BY Zenon, <1>0 DEF Stable
<1>2. T \in Objs /\ obj[T].in # "none" /\ obj[T].id = id
  BY Zenon, <1>1 DEF Hashed
<1>3. obj[T].in = "listen"
  BY Zenon, <1>0, <1>2 DEF ChainsOk, ChainOf
<1>4. ASSUME rd.pc \in {"look", "next"}, Before(obj, head, rd, T) PROVE FALSE
  BY Zenon, <1>2, <1>3, <1>4, AheadFacts DEF Before
<1>5. QED
  BY Zenon, <1>0, <1>1, <1>4 DEF SeesListener

\* Going on to the next chain, or choosing the best listener.
LEMMA NextChainStep ==
    ASSUME IInv, rd' = NextChain(rd), obj' = obj, head' = head, dance' = dance, ids' = ids,
           \/ rd.pc = "look" /\ rd.cur = Null(rd.walk)
           \/ rd.pc = "take" /\ ~MayTake(rd.cur) /\ rd.walk # "listen"
    PROVE  IInv'
<1>0. /\ rd \in RdType /\ obj \in [Objs -> ObjType] /\ Same(obj, obj') /\ Stands(rd)
      /\ Counted(obj, rd.res) /\ Stable(obj, rd) /\ rd.walk \in {"est1", "tw1", "listen"}
      /\ rd.best \in Objs \cup {None}
  BY Zenon DEF IInv, Types, Same, RdType
<1>1. rd.res = None /\ Counted(obj', None)
  BY Zenon, <1>0 DEF Stands
<1>2. Target \in rd.stable => rd.walk = "est1" /\ Hashed(obj, Target) \subseteq Tws
  BY Zenon, LeavesBehind
<1>3. CASE rd.walk = "est1"
  <2>1. rd' = Walks(rd, "tw1")
    BY Zenon, <1>3 DEF NextChain
  <2>2. QED
    BY Zenon, <1>0, <1>1, <1>2, <2>1, BeginStep
<1>4. CASE rd.walk = "tw1"
  <2>1. rd' = Walks(rd, "listen")
    BY Zenon, <1>4 DEF NextChain
  <2>2. QED
    BY Zenon, <1>0, <1>1, <1>2, <1>4, <2>1, BeginStep
<1>5. CASE rd.walk = "listen"
  <2>0. /\ rd.pc = "look" /\ rd.cur = Null(rd.walk) /\ Target \notin rd.stable
        /\ \A id \in rd.stable \cap Listeners : compute_score(id) <= rd.hi
    BY Zenon, <1>2, <1>5, ComparedAll
  <2>1. CASE rd.best = None
    <3>1. rd' = [rd EXCEPT !.pc = "done", !.res = None]
      BY Zenon, <1>5, <2>1 DEF NextChain, Found
    <3>2. /\ rd' \in RdType /\ rd'.pc = "done" /\ rd'.walk = "listen" /\ rd'.hi = rd.hi
          /\ rd'.best = rd.best /\ rd'.res = None /\ rd'.stable = rd.stable
      <4>1. "done" \in Pcs /\ None \in Objs \cup {None} /\ rd \in RdType
        BY Zenon, <1>0 DEF Pcs
      <4>2. /\ rd' \in RdType /\ rd'.pc = "done" /\ rd'.walk = rd.walk /\ rd'.hi = rd.hi
            /\ rd'.best = rd.best /\ rd'.res = None /\ rd'.stable = rd.stable
        BY ONLY <3>1, <4>1, ZenonT(40) DEF RdType, Pcs
      <4>3. QED
        BY Zenon, <1>5, <4>2
    <3>3. rd.hi = -1
      BY Zenon, <1>0, <2>1 DEF Stands
    <3>4. \A id \in Listeners : ~(compute_score(id) <= -1)
      BY DEF compute_score, Listeners
    <3>5. Stands(rd') /\ Stable(obj, rd')
      BY Zenon, <1>0, <3>2, <3>3 DEF Stands, Stable
    <3>6. SeesConnection(obj, head, rd') /\ SeesListener(obj, head, rd')
      BY Zenon, <2>0, <3>2, <3>3, <3>4 DEF SeesConnection, SeesListener
    <3>7. QED
      BY Zenon, <1>0, <1>1, <3>2, <3>5, <3>6, CountInv
  <2>2. CASE rd.best # None
    <3>1. rd' = [rd EXCEPT !.pc = "take", !.cur = rd.best]
      BY Zenon, <1>5, <2>2 DEF NextChain
    <3>2. /\ rd' \in RdType /\ rd'.pc = "take" /\ rd'.walk = "listen" /\ rd'.hi = rd.hi
          /\ rd'.best = rd.best /\ rd'.res = None /\ rd'.stable = rd.stable /\ rd'.cur = rd.best
      <4>1. "take" \in Pcs /\ rd.best \in Places /\ rd \in RdType
        BY Zenon, <1>0 DEF Pcs, Places
      <4>2. /\ rd' \in RdType /\ rd'.pc = "take" /\ rd'.walk = rd.walk /\ rd'.hi = rd.hi
            /\ rd'.best = rd.best /\ rd'.res = rd.res /\ rd'.stable = rd.stable /\ rd'.cur = rd.best
        BY ONLY <3>1, <4>1, ZenonT(40) DEF RdType, Pcs, Places
      <4>3. QED
        BY Zenon, <1>1, <1>5, <4>2
    <3>3. Stands(rd') /\ Stable(obj, rd')
      BY Zenon, <1>0, <2>2, <3>2 DEF Stands, Stable
    <3>4. SeesConnection(obj, head, rd') /\ SeesListener(obj, head, rd')
      BY Zenon, <2>0, <3>2 DEF SeesConnection, SeesListener
    <3>5. QED
      BY Zenon, <1>0, <1>1, <3>2, <3>3, <3>4, CountInv
  <2>3. QED
    BY Zenon, <2>1, <2>2
<1>6. QED
  BY Zenon, <1>0, <1>3, <1>4, <1>5

LEMMA EndStep ==
    ASSUME IInv, End, ids' = ids
    PROVE  IInv'
<1>0. /\ rd \in RdType /\ obj \in [Objs -> ObjType] /\ obj' = obj /\ Same(obj, obj') /\ Stands(rd)
      /\ Counted(obj, rd.res) /\ rd.walk \in {"est1", "tw1", "listen"}
      /\ head' = head /\ dance' = dance /\ rd.pc = "look" /\ rd' = EndOfChain(rd)
      /\ SeesConnection(obj, head, rd)
  BY Zenon DEF IInv, Types, Same, RdType, End
<1>1. CASE rd.cur # Null(rd.walk)
  <2>1. rd' = Walks(rd, rd.walk) /\ Counted(obj', None)
    BY Zenon, <1>0, <1>1 DEF EndOfChain, Stands
  <2>2. Target \in rd.stable => rd.walk # "listen" /\ (rd.walk = "tw1" => Hashed(obj, Target) \subseteq Tws)
    BY Zenon, <1>0 DEF SeesConnection
  <2>3. QED
    BY Zenon, <1>0, <2>1, <2>2, BeginStep
<1>2. CASE rd.cur = Null(rd.walk)
  <2>1. rd' = NextChain(rd)
    BY Zenon, <1>0, <1>2 DEF EndOfChain
  <2>2. QED
    BY Zenon, <1>0, <1>2, <2>1, NextChainStep
<1>3. QED
  BY Zenon, <1>1, <1>2

LEMMA StartStep ==
    ASSUME IInv, LookupStart, ids' = ids
    PROVE  IInv'
<1> DEFINE s == {id \in {"t", "l", "w"} : Hashed(obj, id) # {}}
           r == Walks(Idle, "est1")
<1>0. /\ obj \in [Objs -> ObjType] /\ obj' = obj /\ Same(obj, obj') /\ Stands(rd) /\ rd.pc = "idle"
      /\ Counted(obj, rd.res) /\ head' = head /\ dance' = dance /\ rd' = [r EXCEPT !.stable = s]
      /\ head \in [Chains -> Objs \cup Nulls]
  BY Zenon DEF IInv, Types, Same, LookupStart
<1>1. Idle \in RdType
  BY Zenon DEF Idle, RdType
<1>2. /\ r \in RdType /\ r.pc = "look" /\ r.walk = "est1" /\ r.cur = head[r.walk]
      /\ r.hi = -1 /\ r.res = None
  BY Zenon, <1>0, <1>1, WalksDoes
<1>3. s \in SUBSET {"t", "l", "w"} /\ \A id \in s : Hashed(obj, id) # {}
  BY Zenon
<1> HIDE DEF s, r
<1>4. /\ rd' \in RdType /\ rd'.pc = "look" /\ rd'.walk = "est1" /\ rd'.cur = head[rd'.walk]
      /\ rd'.hi = -1 /\ rd'.res = None /\ rd'.stable = s
  BY <1>0, <1>2, <1>3, ZenonT(40) DEF RdType
<1>5. SeesConnection(obj, head, rd') /\ SeesListener(obj, head, rd')
  BY Zenon, <1>4, BeginSees
<1>6. Stands(rd') /\ Stable(obj, rd') /\ Counted(obj', rd'.res)
  BY Zenon, <1>0, <1>3, <1>4 DEF Stands, Stable
<1>7. QED
  BY Zenon, <1>0, <1>4, <1>5, <1>6, CountInv

LEMMA MatchStep ==
    ASSUME IInv, Match, ids' = ids
    PROVE  IInv'
<1>0. /\ rd \in RdType /\ obj \in [Objs -> ObjType] /\ obj' = obj /\ Same(obj, obj') /\ Stands(rd)
      /\ Counted(obj, rd.res) /\ Stable(obj, rd) /\ SeesConnection(obj, head, rd)
      /\ head' = head /\ dance' = dance /\ rd.pc = "look" /\ rd.cur \in Objs /\ rd.walk # "listen"
  BY Zenon DEF IInv, Types, Same, Match
<1> DEFINE p == IF obj[rd.cur].id = Target THEN "take" ELSE "next"
<1>1. p \in {"take", "next"} /\ rd' = [rd EXCEPT !.pc = p]
  BY Zenon DEF Match
<1>2. /\ rd' \in RdType /\ rd'.pc = p /\ rd'.cur = rd.cur /\ rd'.walk = rd.walk
      /\ rd'.best = rd.best /\ rd'.hi = rd.hi /\ rd'.res = rd.res /\ rd'.stable = rd.stable
  <2>1. p \in Pcs
    BY Zenon, <1>1 DEF Pcs
  <2> HIDE DEF p
  <2>2. QED
    BY <1>0, <1>1, <2>1, GoesDoes
<1>3. Stands(rd') /\ Stable(obj, rd') /\ Counted(obj', rd'.res)
  BY Zenon, <1>0, <1>1, <1>2 DEF Stands, Stable
<1>4. SeesListener(obj, head, rd')
  BY Zenon, <1>0, <1>2 DEF SeesListener
<1>5. SeesConnection(obj, head, rd')
  <2> SUFFICES ASSUME Target \in rd.stable, NEW T \in Hashed(obj, Target)
               PROVE  /\ rd.walk = "tw1" => T \in Tws
                      /\ T \in Socks \/ rd.walk = "tw1" =>
                           Before(obj, head, rd', T) /\ (p = "take" => rd.cur = T)
    BY Zenon, <1>0, <1>2 DEF SeesConnection
  <2>1. /\ rd.walk = "tw1" => T \in Tws
        /\ T \in Socks \/ rd.walk = "tw1" => Ahead(obj, head, T, rd.cur)
    BY Zenon, <1>0 DEF SeesConnection, Before
  <2>2. T \in Objs /\ obj[T].id = Target
    BY Zenon DEF Hashed
  <2>3. ASSUME Ahead(obj, head, T, rd.cur) PROVE (p = "take" => rd.cur = T) /\ (p = "next" => rd.cur # T)
    BY Zenon, <1>0, <2>2, <2>3, AheadFacts
  <2>4. QED
    BY Zenon, <1>1, <1>2, <2>1, <2>3 DEF Before
<1>6. QED
  BY Zenon, <1>0, <1>2, <1>3, <1>4, <1>5, CountInv

LEMMA ScoreValues == \A id : compute_score(id) \in {-1, 1, 3}
BY Zenon DEF compute_score

\* What a listener that is better than the best so far makes of the lookup.
LEMMA ScoreStep ==
    ASSUME IInv, Score, ids' = ids
    PROVE  IInv'
<1>0. /\ rd \in RdType /\ obj \in [Objs -> ObjType] /\ obj' = obj /\ Same(obj, obj') /\ Stands(rd)
      /\ Counted(obj, rd.res) /\ Stable(obj, rd) /\ SeesConnection(obj, head, rd)
      /\ SeesListener(obj, head, rd) /\ rd.hi \in {-1, 1, 3}
      /\ head' = head /\ dance' = dance /\ rd.pc = "look" /\ rd.cur \in Objs /\ rd.walk = "listen"
  BY Zenon DEF IInv, Types, Same, Score, RdType
<1> DEFINE s == compute_score(obj[rd.cur].id)
<1>1. rd' = IF s > rd.hi THEN [rd EXCEPT !.pc = "next", !.best = rd.cur, !.hi = s]
            ELSE [rd EXCEPT !.pc = "next"]
  BY Zenon DEF Score
<1>2. s \in {-1, 1, 3}
  BY Zenon, ScoreValues
<1>3. /\ rd' \in RdType /\ rd'.pc = "next" /\ rd'.cur = rd.cur /\ rd'.walk = rd.walk
      /\ rd'.res = rd.res /\ rd'.stable = rd.stable
      /\ ((rd'.hi = rd.hi /\ rd'.best = rd.best) \/ (rd'.hi = s /\ rd'.best = rd.cur))
      /\ rd.hi <= rd'.hi /\ s <= rd'.hi
  <2> HIDE DEF s
  <2>1. CASE s > rd.hi
    <3>1. rd' = [rd EXCEPT !.pc = "next", !.best = rd.cur, !.hi = s]
      BY Zenon, <1>1, <2>1
    <3>2. /\ rd' \in RdType /\ rd'.pc = "next" /\ rd'.cur = rd.cur /\ rd'.walk = rd.walk
          /\ rd'.res = rd.res /\ rd'.stable = rd.stable /\ rd'.hi = s /\ rd'.best = rd.cur
      BY ONLY <1>0, <1>2, <3>1, ZenonT(40) DEF RdType
    <3>3. QED
      BY <1>0, <1>2, <2>1, <3>2
  <2>2. CASE ~(s > rd.hi)
    <3>1. rd' = [rd EXCEPT !.pc = "next"]
      BY Zenon, <1>1, <2>2
    <3>2. "next" \in Pcs
      BY Zenon DEF Pcs
    <3>3. /\ rd' \in RdType /\ rd'.pc = "next" /\ rd'.cur = rd.cur /\ rd'.walk = rd.walk
          /\ rd'.res = rd.res /\ rd'.stable = rd.stable /\ rd'.hi = rd.hi /\ rd'.best = rd.best
      BY ONLY <1>0, <3>1, <3>2, ZenonT(40) DEF RdType, Pcs
    <3>4. QED
      BY <1>0, <1>2, <2>2, <3>3
  <2>3. QED
    BY Zenon, <2>1, <2>2
<1>4. Stands(rd') /\ Stable(obj, rd') /\ Counted(obj', rd'.res)
  BY Zenon, <1>0, <1>3, NullsApart DEF Stands, Stable
<1>5. SeesConnection(obj, head, rd')
  BY Zenon, <1>0, <1>3 DEF SeesConnection
<1>6. SeesListener(obj, head, rd')
  <2> SUFFICES ASSUME NEW id \in rd.stable \cap Listeners, ~(compute_score(id) <= rd'.hi)
               PROVE  \A T \in Hashed(obj, id) : Before(obj, head, rd', T)
    BY Zenon, <1>0, <1>3 DEF SeesListener
  <2>1. rd'.hi \in {-1, 1, 3} /\ compute_score(id) \in {-1, 1, 3}
    BY Zenon, <1>3, ScoreValues DEF RdType
  <2>2. ~(compute_score(id) <= rd.hi)
    BY <1>0, <1>3, <2>1
  <2>3. \A T \in Hashed(obj, id) : Before(obj, head, rd, T)
    BY Zenon, <1>0, <2>2 DEF SeesListener
  <2>4. ASSUME NEW T \in Hashed(obj, id) PROVE T # rd.cur
    BY Zenon, <1>3 DEF Hashed
  <2>5. QED
    BY Zenon, <1>0, <1>3, <2>3, <2>4 DEF Before
<1>7. QED
  BY Zenon, <1>0, <1>3, <1>4, <1>5, <1>6, CountInv

LEMMA AdvanceStep ==
    ASSUME IInv, Advance, ids' = ids
    PROVE  IInv'
<1>0. /\ rd \in RdType /\ obj \in [Objs -> ObjType] /\ obj' = obj /\ Same(obj, obj') /\ Stands(rd)
      /\ Counted(obj, rd.res) /\ Stable(obj, rd) /\ SeesConnection(obj, head, rd)
      /\ SeesListener(obj, head, rd)
      /\ head' = head /\ dance' = dance /\ rd.pc = "next" /\ rd.cur \in Objs
  BY Zenon DEF IInv, Types, Same, Advance, Stands
<1> DEFINE n == obj[rd.cur].next
<1>1. rd' = [rd EXCEPT !.pc = "look", !.cur = n] /\ n \in Places
  BY Zenon, <1>0 DEF Advance, ObjType, Places
<1>2. /\ rd' \in RdType /\ rd'.pc = "look" /\ rd'.cur = n /\ rd'.walk = rd.walk
      /\ rd'.best = rd.best /\ rd'.hi = rd.hi /\ rd'.res = rd.res /\ rd'.stable = rd.stable
  <2> HIDE DEF n
  <2>1. "look" \in Pcs
    BY Zenon DEF Pcs
  <2>2. QED
    BY ONLY <1>0, <1>1, <2>1, ZenonT(40) DEF RdType, Pcs, Places
<1>3. Stands(rd') /\ Stable(obj, rd') /\ Counted(obj', rd'.res)
  BY Zenon, <1>0, <1>2 DEF Stands, Stable
<1>4. ASSUME NEW T \in Objs, Before(obj, head, rd, T) PROVE Before(obj, head, rd', T)
  <2>1. Ahead(obj, head, T, rd.cur) /\ rd.cur # T
    BY Zenon, <1>0, <1>4 DEF Before
  <2>2. Ahead(obj, head, T, n)
    BY Zenon, <1>0, <2>1, AheadFacts
  <2>3. QED
    BY Zenon, <1>2, <2>2 DEF Before
<1>5. SeesConnection(obj, head, rd')
  BY Zenon, <1>0, <1>2, <1>4 DEF SeesConnection, Hashed
<1>6. SeesListener(obj, head, rd')
  BY Zenon, <1>0, <1>2, <1>4 DEF SeesListener, Hashed
<1>7. QED
  BY Zenon, <1>0, <1>2, <1>3, <1>5, <1>6, CountInv

\* A reference is taken to an object that has one.
LEMMA GetDoes ==
    ASSUME NEW x \in [Objs -> ObjType], NEW o \in Objs
    PROVE  LET y == [x EXCEPT ![o].refs = @ + 1]
           IN  /\ y \in [Objs -> ObjType] /\ Same(x, y)
               /\ \A p \in Objs : p # o => SameRefs(x, y, p)
               /\ y[o].refs = x[o].refs + 1 /\ y[o].free = x[o].free /\ y[o].owned = x[o].owned
<1> DEFINE k == x[o].refs + 1
           m == [x[o] EXCEPT !.refs = k]
           y == [x EXCEPT ![o].refs = @ + 1]
<1>1. x[o] \in ObjType /\ k \in Nat
  BY DEF ObjType
<1>2. y = [x EXCEPT ![o] = m]
  BY Zenon
<1> HIDE DEF k
<1>3. m \in ObjType /\ m.in = x[o].in /\ m.id = x[o].id /\ m.next = x[o].next
      /\ m.free = x[o].free /\ m.owned = x[o].owned /\ m.refs = k
  BY <1>1, ZenonT(40) DEF ObjType
<1> HIDE DEF m, y
<1>4. y \in [Objs -> ObjType] /\ Same(x, y) /\ (\A p \in Objs : p # o => SameRefs(x, y, p))
  BY Zenon, <1>2, <1>3 DEF Same, SameRefs
<1>5. y[o].refs = x[o].refs + 1 /\ y[o].free = x[o].free /\ y[o].owned = x[o].owned
  <2>1. y[o] = m
    BY Zenon, <1>2
  <2>2. QED
    BY Zenon, <1>3, <2>1 DEF k
<1>6. QED
  BY Zenon, <1>4, <1>5 DEF y

LEMMA TakeStep ==
    ASSUME IInv, Take, ids' = ids
    PROVE  IInv'
<1>0. /\ rd \in RdType /\ obj \in [Objs -> ObjType] /\ Stands(rd) /\ Counted(obj, rd.res)
      /\ Stable(obj, rd) /\ SeesConnection(obj, head, rd)
      /\ head' = head /\ dance' = dance /\ rd.pc = "take" /\ rd.cur \in Objs /\ rd.res = None
  BY Zenon DEF IInv, Types, Take, Stands
<1>1. CASE MayTake(rd.cur)
  <2>1. /\ rd' = [rd EXCEPT !.pc = "recheck", !.res = rd.cur]
        /\ obj' = [obj EXCEPT ![rd.cur].refs = @ + 1]
    BY Zenon, <1>1 DEF Take
  <2>2. /\ rd' \in RdType /\ rd'.pc = "recheck" /\ rd'.walk = rd.walk /\ rd'.hi = rd.hi
        /\ rd'.best = rd.best /\ rd'.res = rd.cur /\ rd'.stable = rd.stable
    BY ONLY <1>0, <2>1, ZenonT(40) DEF RdType
  <2>3. /\ obj' \in [Objs -> ObjType] /\ Same(obj, obj')
        /\ \A p \in Objs : p # rd.cur => SameRefs(obj, obj', p)
        /\ obj'[rd.cur].refs = obj[rd.cur].refs + 1 /\ obj'[rd.cur].free = obj[rd.cur].free
        /\ obj'[rd.cur].owned = obj[rd.cur].owned
    BY ONLY Zenon, <1>0, <2>1, GetDoes
  <2>4. CountedAt(obj', rd.cur, rd.cur)
    <3>1. CountedAt(obj, None, rd.cur) /\ obj[rd.cur].refs # 0 /\ obj[rd.cur].refs \in Nat
      BY Zenon, <1>0, <1>1 DEF Counted, MayTake, ObjType
    <3>2. B(None = rd.cur) = 0 /\ B(rd.cur = rd.cur) = 1
      BY Zenon, <1>0, NullsApart DEF B
    <3>3. obj'[rd.cur].in = obj[rd.cur].in
      BY Zenon, <1>0, <2>3 DEF Same
    <3>4. /\ B(obj[rd.cur].owned) \in {0, 1}
          /\ B(rd.cur \in Tws /\ obj[rd.cur].in # "none") \in {0, 1}
      BY Zenon DEF B
    <3>5. QED
      BY ONLY <2>3, <3>1, <3>2, <3>3, <3>4 DEF CountedAt
  <2>5. Counted(obj', rd'.res)
    <3>1. \A p \in Objs : p # rd.cur => (p = None <=> p = rd.cur)
      BY Zenon, NullsApart
    <3>2. QED
      BY <1>0, <2>2, <2>3, <2>4, <3>1, CountOne
  <2>6. Stands(rd') /\ Stable(obj, rd')
    BY Zenon, <1>0, <2>2, NullsApart DEF Stands, Stable
  <2>7. SeesConnection(obj, head, rd')
    BY Zenon, <1>0, <2>2 DEF SeesConnection, Before
  <2>8. SeesListener(obj, head, rd')
    BY Zenon, <1>0, <2>2, ComparedAll DEF SeesListener
  <2>9. QED
    BY Zenon, <1>0, <2>2, <2>3, <2>5, <2>6, <2>7, <2>8, CountInv
<1>2. CASE ~MayTake(rd.cur) /\ rd.walk # "listen"
  <2>1. rd' = NextChain(rd) /\ obj' = obj
    BY Zenon, <1>2 DEF Take, TakeFailed
  <2>2. QED
    BY Zenon, <1>0, <1>2, <2>1, NextChainStep
<1>3. CASE ~MayTake(rd.cur) /\ rd.walk = "listen"
  <2>1. rd' = [[rd EXCEPT !.pc = "done", !.res = None] EXCEPT !.died = TRUE] /\ obj' = obj
    BY Zenon, <1>3 DEF Take, TakeFailed, Found
  <2>2. None \in Objs \cup {None}
    BY Zenon
  <2>3. /\ rd' \in RdType /\ rd'.pc = "done" /\ rd'.walk = rd.walk /\ rd'.hi = rd.hi
        /\ rd'.best = rd.best /\ rd'.res = None /\ rd'.stable = rd.stable /\ rd'.died
    <3> DEFINE q == [rd EXCEPT !.pc = "done", !.res = None]
    <3>1. /\ q \in RdType /\ q.pc = "done" /\ q.walk = rd.walk /\ q.hi = rd.hi
          /\ q.best = rd.best /\ q.res = None /\ q.stable = rd.stable
      BY ONLY <1>0, <2>2, ZenonT(40) DEF RdType
    <3>2. rd' = [q EXCEPT !.died = TRUE]
      BY Zenon, <2>1
    <3> HIDE DEF q
    <3>3. QED
      BY Zenon, <3>1, <3>2, DiesDoes
  <2>4. Stands(rd') /\ Stable(obj, rd') /\ Counted(obj', rd'.res)
    BY Zenon, <1>0, <1>3, <2>1, <2>3 DEF Stands, Stable
  <2>5. SeesConnection(obj, head, rd') /\ SeesListener(obj, head, rd')
    BY Zenon, <1>0, <1>3, <2>3 DEF SeesConnection, SeesListener
  <2>6. Same(obj, obj')
    BY Zenon, <2>1 DEF Same
  <2>7. QED
    BY Zenon, <1>0, <2>1, <2>3, <2>4, <2>5, <2>6, CountInv
<1>4. QED
  BY Zenon, <1>1, <1>2, <1>3

\* Dropping the lookup's reference.
LEMMA DropDoes ==
    ASSUME IInv, rd.res # None
    PROVE  /\ rd.res \in Objs /\ obj[rd.res].refs > 0 /\ ~obj[rd.res].free
           /\ Put(obj, rd.res) \in [Objs -> ObjType] /\ Same(obj, Put(obj, rd.res))
           /\ Counted(Put(obj, rd.res), None)
<1> DEFINE o == rd.res
           x == Put(obj, rd.res)
<1>0. o \in Objs /\ obj \in [Objs -> ObjType] /\ Counted(obj, o) /\ CountedAt(obj, o, o)
      /\ obj[o].refs \in Nat
  BY Zenon DEF IInv, Types, RdType, Counted, ObjType
<1> DEFINE a == B(obj[o].owned)
           b == B(o \in Tws /\ obj[o].in # "none")
<1>1. a \in {0, 1} /\ b \in {0, 1} /\ B(o = o) = 1 /\ B(None = o) = 0
  BY Zenon, <1>0, NullsApart DEF B
<1>2. obj[o].refs = a + b + 1 /\ (obj[o].free <=> obj[o].refs = 0)
  BY ONLY Zenon, <1>0, <1>1 DEF CountedAt
<1>3. obj[o].refs > 0 /\ ~obj[o].free
  <2> HIDE DEF a, b
  <2>1. QED
    BY <1>1, <1>2
<1>4. /\ x \in [Objs -> ObjType] /\ Same(obj, x) /\ (\A p \in Objs : p # o => SameRefs(obj, x, p))
      /\ x[o].refs = obj[o].refs - 1 /\ (x[o].free <=> obj[o].refs = 1)
      /\ x[o].owned = obj[o].owned
  BY Zenon, <1>0, <1>3, PutDoes
<1> HIDE DEF x
<1>5. CountedAt(x, None, o)
  <2>1. x[o].in = obj[o].in /\ x[o].refs = a + b + B(None = o)
    BY <1>0, <1>1, <1>2, <1>4 DEF Same
  <2>2. x[o].free <=> x[o].refs = 0
    BY <1>0, <1>4
  <2>3. QED
    BY ONLY Zenon, <1>0, <1>4, <2>1, <2>2 DEF CountedAt
<1>6. Counted(x, None)
  <2>1. \A p \in Objs : p # o => (p = o <=> p = None)
    BY Zenon, NullsApart
  <2>2. QED
    BY <1>0, <1>4, <1>5, <2>1, CountOne
<1>7. QED
  BY Zenon, <1>0, <1>3, <1>4, <1>6 DEF x

LEMMA RecheckStep ==
    ASSUME IInv, Recheck, ids' = ids
    PROVE  IInv'
<1>0. /\ rd \in RdType /\ obj \in [Objs -> ObjType] /\ Stands(rd) /\ Counted(obj, rd.res)
      /\ Stable(obj, rd) /\ SeesConnection(obj, head, rd) /\ rd.walk \in {"est1", "tw1", "listen"}
      /\ head' = head /\ dance' = dance /\ rd.pc = "recheck" /\ rd.res # None
      /\ rd.res \in Objs \cup {None}
  BY Zenon DEF IInv, Types, Recheck, Stands, RdType
<1>1. CASE Fits(rd, obj[rd.res])
  <2>1. rd' = [rd EXCEPT !.pc = "done", !.res = rd.res] /\ obj' = obj
    BY Zenon, <1>1 DEF Recheck, Found
  <2>2. /\ rd' \in RdType /\ rd'.pc = "done" /\ rd'.walk = rd.walk /\ rd'.hi = rd.hi
        /\ rd'.best = rd.best /\ rd'.res = rd.res /\ rd'.stable = rd.stable
    BY ONLY <1>0, <2>1, ZenonT(40) DEF RdType
  <2>3. Stands(rd') /\ Stable(obj, rd') /\ Counted(obj', rd'.res) /\ Same(obj, obj')
    BY Zenon, <1>0, <2>1, <2>2 DEF Stands, Stable, Same
  <2>4. SeesConnection(obj, head, rd')
    BY Zenon, <1>0, <2>2 DEF SeesConnection
  <2>5. SeesListener(obj, head, rd')
    BY Zenon, <1>0, <2>2, ComparedAll DEF SeesListener
  <2>6. QED
    BY Zenon, <1>0, <2>1, <2>2, <2>3, <2>4, <2>5, CountInv
<1>2. CASE ~Fits(rd, obj[rd.res])
  <2>1. rd' = Walks(rd, rd.walk) /\ obj' = Put(obj, rd.res)
    BY Zenon, <1>2 DEF Recheck
  <2>2. Target \in rd.stable => rd.walk # "listen" /\ (rd.walk = "tw1" => Hashed(obj, Target) \subseteq Tws)
    BY Zenon, <1>0 DEF SeesConnection
  <2>3. obj' \in [Objs -> ObjType] /\ Same(obj, obj') /\ Counted(obj', None)
    BY Zenon, <1>0, <2>1, DropDoes
  <2>4. QED
    BY Zenon, <1>0, <2>1, <2>2, <2>3, BeginStep
<1>3. QED
  BY Zenon, <1>1, <1>2

LEMMA IdleFacts ==
    /\ Idle \in RdType /\ Idle.pc = "idle" /\ Idle.res = None /\ Idle.stable = {} /\ Idle.hi = -1
    /\ Stands(Idle)
BY Zenon DEF Idle, RdType, Stands

LEMMA ProcessedStep ==
    ASSUME IInv, Processed, ids' = ids
    PROVE  IInv'
<1>1. /\ obj \in [Objs -> ObjType] /\ Counted(obj, rd.res) /\ head' = head /\ dance' = dance
      /\ rd' = Idle /\ obj' = IF rd.res = None THEN obj ELSE Put(obj, rd.res)
  BY Zenon DEF IInv, Types, Processed
<1>2. obj' \in [Objs -> ObjType] /\ Same(obj, obj') /\ Counted(obj', rd'.res)
  BY Zenon, <1>1, DropDoes, IdleFacts DEF Same
<1>3. rd' \in RdType /\ Stable(obj, rd') /\ Stands(rd')
  BY Zenon, <1>1, IdleFacts DEF Stable
<1>4. SeesConnection(obj, head, rd') /\ SeesListener(obj, head, rd')
  BY Zenon, <1>1, IdleFacts DEF SeesConnection, SeesListener
<1>5. QED
  BY Zenon, <1>1, <1>2, <1>3, <1>4, CountInv

LEMMA InitInv == Init => IInv
<1> SUFFICES ASSUME Init PROVE IInv
  BY Zenon
<1>0. /\ obj = [o \in Objs |-> Unused] /\ head = [c \in Chains |-> Null(c)] /\ dance = None
      /\ rd = Idle /\ ids \in IdSets
  BY Zenon DEF Init
<1>1. Unused \in ObjType /\ Unused.in = "none" /\ Unused.refs = 0 /\ Unused.free = TRUE /\ Unused.owned = FALSE
  BY Zenon DEF Unused, ObjType, Ids, Listeners
<1>2. Types
  BY Zenon, <1>0, <1>1, NullsApart, IdleFacts, IdsAssumption DEF Types
<1>3. \A o \in Objs : obj[o].in = "none" /\ obj[o].refs = 0 /\ obj[o].free /\ ~obj[o].owned
  BY Zenon, <1>0, <1>1
<1>4. ChainsOk(obj, head) /\ Reachable(obj, head)
  BY Zenon, <1>0, <1>3 DEF ChainsOk, Reachable, Follows
<1>5. Counted(obj, rd.res)
  <2>1. ASSUME NEW o \in Objs PROVE CountedAt(obj, rd.res, o)
    <3>1. /\ B(obj[o].owned) = 0 /\ B(o \in Tws /\ obj[o].in # "none") = 0 /\ B(rd.res = o) = 0
      BY Zenon, <1>0, <1>3, IdleFacts, NullsApart DEF B
    <3>2. QED
      BY ONLY <1>3, <2>1, <3>1 DEF CountedAt
  <2>2. QED
    BY Zenon, <2>1 DEF Counted
<1>6. Unique(obj, dance) /\ Stable(obj, rd) /\ Stands(rd)
  BY Zenon, <1>0, <1>3, IdleFacts DEF Unique, Stable
<1>7. SeesConnection(obj, head, rd) /\ SeesListener(obj, head, rd)
  BY Zenon, <1>0, IdleFacts DEF SeesConnection, SeesListener
<1>8. QED
  BY Zenon, <1>2, <1>4, <1>5, <1>6, <1>7 DEF IInv

LEMMA Step == IInv /\ [Next]_vars => IInv'
<1> SUFFICES ASSUME IInv, [Next]_vars PROVE IInv'
  BY Zenon
<1>0. Socks \subseteq Objs /\ Tws \subseteq Objs /\ ids \subseteq Ids /\ dance \in Objs \cup {None}
  BY Zenon DEF Objs, IInv, Types
<1>1. CASE UNCHANGED vars
  BY Zenon, <1>1 DEF vars, IInv, Types, ChainsOk, Reachable, Counted, Unique, Stable, Stands,
              SeesConnection, SeesListener
<1>2. CASE Next
  <2>0. ids' = ids
    BY Zenon, <1>2 DEF Next
  <2>1. ASSUME NEW o \in Socks, Alloc(o) PROVE IInv'
    BY Zenon, <2>0, <2>1, AllocStep
  <2>2. ASSUME NEW o \in Socks, Unhash(o) PROVE IInv'
    BY Zenon, <2>0, <2>2, UnhashStep
  <2>3. ASSUME NEW o \in Socks, Release(o) PROVE IInv'
    BY Zenon, <2>0, <2>3, ReleaseStep
  <2>4. ASSUME NEW o \in Socks, NEW id \in ids, Hash(o, id) PROVE IInv'
    BY Zenon, <1>0, <2>0, <2>4, HashStep
  <2>5. ASSUME NEW o \in Socks, NEW w \in Tws, TwHash(o, w) PROVE IInv'
    BY Zenon, <2>0, <2>5, TwHashStep
  <2>6. ASSUME NEW o \in Socks, NEW w \in Tws, Recycle(o, w) PROVE IInv'
    BY Zenon, <2>0, <2>6, RecycleStep
  <2>7. ASSUME NEW w \in Tws, TwKill(w) PROVE IInv'
    <3>1. /\ w \in Objs /\ obj[w].in # "none" /\ dance = None /\ dance' = None
          /\ rd' = Watched(rd, obj') /\ DelNode(Put(obj, w), w)
      BY Zenon, <1>0, <2>7 DEF TwKill
    <3>2. DelNode(IF w \in Tws THEN Put(obj, w) ELSE obj, w)
      BY Zenon, <2>7, <3>1
    <3>3. QED
      BY Zenon, <2>0, <3>1, <3>2, LeaveStep
  <2>8. ASSUME UnhashOld PROVE IInv'
    <3>1. /\ dance \in Objs /\ dance' = None /\ rd' = Watched(rd, obj')
          /\ DelNode(IF dance \in Tws THEN Put(obj, dance) ELSE obj, dance)
      BY Zenon, <1>0, <2>8 DEF UnhashOld
    <3>2. obj[dance].in # "none"
      BY Zenon, <3>1, NullsApart DEF IInv, Unique
    <3>3. QED
      BY Zenon, <2>0, <3>1, <3>2, LeaveStep
  <2>9. ASSUME LookupStart \/ Match \/ Score \/ Advance \/ End \/ Take \/ Recheck \/ Processed
        PROVE  IInv'
    BY Zenon, <2>0, <2>9, StartStep, MatchStep, ScoreStep, AdvanceStep, EndStep, TakeStep, RecheckStep,
       ProcessedStep
  <2>10. QED
    BY Zenon, <1>2, <2>1, <2>2, <2>3, <2>4, <2>5, <2>6, <2>7, <2>8, <2>9 DEF Next
<1>3. QED
  BY Zenon, <1>1, <1>2

-----------------------------------------------------------------------------
(* The theorems. *)

\* Every step of sockets, TIME_WAIT sockets and the lookup keeps the chains whole, the
\* references counted and what is hashed all along ahead of the walk.
THEOREM LookupInvariant == Spec => []IInv
BY InitInv, Step, PTL DEF Spec

\* No object of either slab has more than two references: its owner's or its chain's, and
\* the lookup's.
THEOREM LookupTypes == Spec => []TypeOK
<1>1. IInv => TypeOK
  <2> SUFFICES ASSUME IInv PROVE TypeOK
    BY Zenon
  <2>1. ASSUME NEW o \in Objs PROVE obj[o].refs \in 0..2
    <3>1. CountedAt(obj, rd.res, o)
      BY Zenon DEF IInv, Counted
    <3>2. B(obj[o].owned) + B(o \in Tws /\ obj[o].in # "none") \in {0, 1} /\ B(rd.res = o) \in {0, 1}
      BY <3>1, SlabsAssumption DEF CountedAt, B
    <3>3. QED
      BY <3>1, <3>2 DEF CountedAt
  <2> DEFINE T == [free : BOOLEAN, owned : BOOLEAN, refs : 0..2, id : Ids, in : Chains \cup {"none"},
                   next : Objs \cup Nulls \cup {None}]
  <2>2. ASSUME NEW o \in Objs PROVE obj[o] \in T
    <3>1. obj[o] \in ObjType /\ obj[o].refs \in 0..2
      BY Zenon, <2>1 DEF IInv, Types
    <3>2. QED
      BY ONLY <3>1, ZenonT(40) DEF ObjType
  <2> HIDE DEF T
  <2>3. obj \in [Objs -> T]
    BY Zenon, <2>2 DEF IInv, Types
  <2>4. QED
    BY Zenon, <2>3 DEF T, TypeOK, IInv, Types, RdType
<1>2. QED
  BY <1>1, LookupInvariant, PTL

\* What __inet_lookup holds (atomic_inc_not_zero) is neither free nor without a reference,
\* however its memory was used before.
THEOREM HeldIsAlwaysLive == Spec => []HeldIsLive
<1>1. IInv => HeldIsLive
  BY Zenon, DropDoes DEF HeldIsLive
<1>2. QED
  BY <1>1, LookupInvariant, PTL

\* A connection hashed all along a lookup (__inet_lookup_established) is found, also while
\* __inet_twsk_hashdance replaces it by its TIME_WAIT socket.
THEOREM ConnectionAlwaysFound == Spec => []ConnectionFound
<1>1. IInv => ConnectionFound
  BY Zenon DEF IInv, SeesConnection, Stands, ConnectionFound
<1>2. QED
  BY <1>1, LookupInvariant, PTL

\* A listener hashed all along a lookup (__inet_lookup_listener) is not overlooked for none
\* or for a worse one.
THEOREM ListenerAlwaysFound == Spec => []ListenerFound
<1>1. IInv => ListenerFound
  <2> SUFFICES ASSUME IInv, rd.pc = "done", rd.walk = "listen", ~rd.died,
                      NEW id \in rd.stable \cap Listeners
               PROVE  rd.res # None /\ compute_score(id) <= rd.hi
    BY Zenon DEF ListenerFound
  <2>1. QED
    BY Zenon DEF IInv, SeesListener
<1>2. QED
  BY <1>1, LookupInvariant, PTL

\* A step that ends a lookup with a result is the second comparison (Recheck).
LEMMA EndsByRecheck ==
    ASSUME IInv, [Next]_vars, rd.pc # "done", rd'.pc = "done", rd'.res # None
    PROVE  Recheck
<1>0. rd \in RdType /\ head \in [Chains -> Objs \cup Nulls] /\ rd.walk \in {"est1", "tw1", "listen"}
      /\ None \in Objs \cup {None}
  BY Zenon DEF IInv, Types, RdType
<1>1. rd' # rd
  BY Zenon
<1>2. ASSUME NEW x, rd' = Watched(rd, x) PROVE FALSE
  BY Zenon, <1>0, <1>2, WatchedDoes DEF SameWalk
<1>3. ASSUME NEW r \in RdType, NEW c \in {"est1", "tw1", "listen"}, rd' = Walks(r, c) PROVE FALSE
  BY Zenon, <1>0, <1>3, WalksDoes
<1>4. ASSUME NEW p \in Pcs, rd' = [rd EXCEPT !.pc = p], p # "done" PROVE FALSE
  BY <1>0, <1>4, GoesDoes
<1>5. ASSUME NEW o \in Socks, NEW w \in Tws, Recycle(o, w) PROVE FALSE
  <2> DEFINE s == rd.stable \ {obj[w].id}
  <2>1. rd' = [rd EXCEPT !.stable = s]
    BY Zenon, <1>5 DEF Recycle
  <2> HIDE DEF s
  <2>2. rd'.pc = rd.pc
    BY ONLY <1>0, <2>1, ZenonT(40) DEF RdType
  <2>3. QED
    BY Zenon, <2>2
<1>6. ASSUME LookupStart PROVE FALSE
  <2> DEFINE s == {id \in {"t", "l", "w"} : Hashed(obj, id) # {}}
             r == Walks(Idle, "est1")
  <2>1. rd' = [r EXCEPT !.stable = s] /\ r \in RdType /\ r.pc = "look"
    BY Zenon, <1>0, <1>6, WalksDoes, IdleFacts DEF LookupStart
  <2> HIDE DEF s, r
  <2>2. rd'.pc = "look"
    BY ONLY <2>1, ZenonT(40) DEF RdType
  <2>3. QED
    BY Zenon, <2>2
<1>7. ASSUME Match PROVE FALSE
  BY Zenon, <1>4, <1>7 DEF Match, Pcs
<1>8. ASSUME Score PROVE FALSE
  <2> DEFINE s == compute_score(obj[rd.cur].id)
  <2>1. rd' = [rd EXCEPT !.pc = "next", !.best = rd.cur, !.hi = s] \/ rd' = [rd EXCEPT !.pc = "next"]
    BY Zenon, <1>8 DEF Score
  <2> HIDE DEF s
  <2>2. rd'.pc = "next"
    BY ONLY <1>0, <2>1, ZenonT(40) DEF RdType
  <2>3. QED
    BY Zenon, <2>2
<1>9. ASSUME Advance PROVE FALSE
  <2> DEFINE n == obj[rd.cur].next
  <2>1. rd' = [rd EXCEPT !.pc = "look", !.cur = n]
    BY Zenon, <1>9 DEF Advance
  <2> HIDE DEF n
  <2>2. rd'.pc = "look"
    BY ONLY <1>0, <2>1, ZenonT(40) DEF RdType
  <2>3. QED
    BY Zenon, <2>2
<1>10. ASSUME rd' = [rd EXCEPT !.pc = "done", !.res = None] PROVE FALSE
  <2>1. rd'.res = None
    BY ONLY <1>0, <1>10, ZenonT(40) DEF RdType
  <2>2. QED
    BY Zenon, <2>1
<1>11. ASSUME rd' = NextChain(rd) PROVE FALSE
  <2>1. CASE rd.walk \in {"est1", "tw1"}
    BY Zenon, <1>0, <1>3, <1>11, <2>1 DEF NextChain
  <2>2. CASE rd.walk = "listen" /\ rd.best = None
    BY Zenon, <1>10, <1>11, <2>2 DEF NextChain, Found
  <2>3. CASE rd.walk = "listen" /\ rd.best # None
    <3>1. rd' = [rd EXCEPT !.pc = "take", !.cur = rd.best]
      BY Zenon, <1>11, <2>3 DEF NextChain
    <3>2. rd'.pc = "take"
      BY ONLY <1>0, <3>1, ZenonT(40) DEF RdType
    <3>3. QED
      BY Zenon, <3>2
  <2>4. QED
    BY Zenon, <1>0, <2>1, <2>2, <2>3
<1>12. ASSUME End PROVE FALSE
  BY Zenon, <1>0, <1>3, <1>11, <1>12 DEF End, EndOfChain
<1>13. ASSUME Take PROVE FALSE
  <2>1. CASE MayTake(rd.cur)
    <3>1. rd' = [rd EXCEPT !.pc = "recheck", !.res = rd.cur]
      BY Zenon, <1>13, <2>1 DEF Take
    <3>2. rd'.pc = "recheck"
      BY ONLY <1>0, <3>1, ZenonT(40) DEF RdType
    <3>3. QED
      BY Zenon, <3>2
  <2>2. CASE ~MayTake(rd.cur) /\ rd.walk # "listen"
    BY Zenon, <1>11, <1>13, <2>2 DEF Take, TakeFailed
  <2>3. CASE ~MayTake(rd.cur) /\ rd.walk = "listen"
    <3> DEFINE q == [rd EXCEPT !.pc = "done", !.res = None]
    <3>1. rd' = [q EXCEPT !.died = TRUE]
      BY Zenon, <1>13, <2>3 DEF Take, TakeFailed, Found
    <3>2. q \in RdType /\ q.res = None
      BY ONLY <1>0, ZenonT(40) DEF RdType
    <3> HIDE DEF q
    <3>3. QED
      BY Zenon, <3>1, <3>2, DiesDoes
  <2>4. QED
    BY Zenon, <2>1, <2>2, <2>3
<1>14. ASSUME Processed PROVE FALSE
  BY Zenon, <1>14 DEF Processed
<1>15. QED
  BY Zenon, <1>1, <1>2, <1>5, <1>6, <1>7, <1>8, <1>9, <1>12, <1>13, <1>14
  DEF Next, vars, Alloc, Unhash, Release, Hash, TwHash, TwKill, UnhashOld

\* A lookup only returns a socket that still fits the segment once a reference to it is held:
\* the comparison after atomic_inc_not_zero sees an object that was reused in between.
THEOREM AlwaysFits == Spec => FoundFits
<1>1. ASSUME IInv, [Next]_vars, rd.pc # "done", rd'.pc = "done", rd'.res # None
      PROVE  IF rd'.walk = "listen" THEN compute_score(obj'[rd'.res].id) >= rd'.hi
             ELSE obj'[rd'.res].id = Target
  <2>0. rd \in RdType /\ head \in [Chains -> Objs \cup Nulls] /\ rd.walk \in {"est1", "tw1", "listen"}
    BY Zenon, <1>1 DEF IInv, Types, RdType
  <2>1. Recheck
    BY Zenon, <1>1, EndsByRecheck
  <2>2. Fits(rd, obj[rd.res])
    <3>1. ASSUME rd' = Walks(rd, rd.walk) PROVE FALSE
      BY Zenon, <1>1, <2>0, <3>1, WalksDoes
    <3>2. QED
      BY Zenon, <2>1, <3>1 DEF Recheck
  <2>3. rd' = [rd EXCEPT !.pc = "done", !.res = rd.res] /\ obj' = obj
    BY Zenon, <2>1, <2>2 DEF Recheck, Found
  <2>4. rd'.walk = rd.walk /\ rd'.hi = rd.hi /\ rd'.res = rd.res
    BY ONLY <2>0, <2>3, ZenonT(40) DEF RdType
  <2>5. QED
    BY Zenon, <2>2, <2>3, <2>4 DEF Fits
<1>2. QED
  BY <1>1, LookupInvariant, PTL DEF Spec, FoundFits
=============================================================================
