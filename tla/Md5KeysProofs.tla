--------------------------- MODULE Md5KeysProofs ---------------------------
(***************************************************************************)
(* The arrays of MD5 keys implement a map from addresses to keys, and own   *)
(* their memory once, for every number of sockets, addresses and keys.      *)
(***************************************************************************)
EXTENDS Md5Keys, FiniteSetTheorems, TLAPS

-----------------------------------------------------------------------------
(* One list: its shape, and what each operation makes of its slots. *)

\* No address has two slots.
Distinct(inf) ==
    \A i, j \in Used(inf) : inf.keys4[i].addr = inf.keys4[j].addr => i = j

Good(inf) ==
    /\ inf.alloced4 \in Nat
    /\ InfoType(inf)
    /\ Distinct(inf)

LEMMA NoInfoGood == Good(NoInfo) /\ Used(NoInfo) = {} /\ Held(NoInfo) = {}
BY DEF Good, NoInfo, InfoType, Distinct, Used, Held

\* A slot in use.
LEMMA SlotType ==
    ASSUME NEW inf, Good(inf), NEW i \in Used(inf)
    PROVE  i \in 1..inf.alloced4 /\ i \in Nat /\ inf.keys4[i] \in Slot
           /\ inf.keys4[i].addr \in Addrs /\ inf.keys4[i].key \in Objs
BY DEF Good, InfoType, Used, Slot

\* tcp_v4_md5_do_lookup finds the one slot of an address.
LEMMA LookupFinds ==
    ASSUME NEW inf, Good(inf), NEW i \in Used(inf)
    PROVE  LET a == inf.keys4[i].addr
           IN  SlotsFor(inf, a) # {} /\ tcp_v4_md5_do_lookup(inf, a) = i
<1> DEFINE a == inf.keys4[i].addr
<1>1. SlotsFor(inf, a) = {i}
  BY DEF Good, Distinct, SlotsFor
<1>2. i <= i
  BY SlotType
<1>3. QED
  BY <1>1, <1>2 DEF tcp_v4_md5_do_lookup

LEMMA LookupSlot ==
    ASSUME NEW inf, Good(inf), NEW a, SlotsFor(inf, a) # {}
    PROVE  tcp_v4_md5_do_lookup(inf, a) \in Used(inf)
           /\ inf.keys4[tcp_v4_md5_do_lookup(inf, a)].addr = a
<1>1. PICK i \in Used(inf) : inf.keys4[i].addr = a
  BY DEF SlotsFor
<1>2. QED
  BY <1>1, LookupFinds

\* The key of an address is the content of its slot, or none.
LEMMA KeyOfSlot ==
    ASSUME NEW heap, NEW inf, Good(inf), NEW i \in Used(inf)
    PROVE  KeyIn(heap, inf, inf.keys4[i].addr) = heap[inf.keys4[i].key]
BY LookupFinds DEF KeyIn

LEMMA KeyOfNone ==
    ASSUME NEW heap, NEW inf, NEW a, \A i \in Used(inf) : inf.keys4[i].addr # a
    PROVE  SlotsFor(inf, a) = {} /\ KeyIn(heap, inf, a) = NoKey
BY DEF SlotsFor, KeyIn

\* Appending: the slots in use stay, and one is new.
LEMMA AppendGood ==
    ASSUME NEW inf, Good(inf), NEW a \in Addrs, NEW o \in Objs, SlotsFor(inf, a) = {}
    PROVE  LET n == inf.entries4 + 1
               new == Appended(inf, [addr |-> a, key |-> o])
           IN  /\ Good(new)
               /\ new.entries4 = n
               /\ Used(new) = Used(inf) \cup {n} /\ n \notin Used(inf)
               /\ new.keys4[n] = [addr |-> a, key |-> o]
               /\ \A i \in Used(inf) : new.keys4[i] = inf.keys4[i]
<1> DEFINE slot == [addr |-> a, key |-> o]
           n == inf.entries4 + 1
           new == Appended(inf, slot)
<1>0. slot \in Slot /\ slot.addr = a
  BY DEF Slot
<1> HIDE DEF slot
<1>1. inf.entries4 \in Nat /\ inf.alloced4 \in Nat /\ inf.entries4 <= inf.alloced4
      /\ inf.keys4 \in [1..inf.alloced4 -> Slot]
  BY DEF Good, InfoType
<1>2. /\ new.entries4 = n /\ new.alloced4 \in Nat /\ n <= new.alloced4
      /\ new.keys4 = [i \in 1..new.alloced4 |-> IF i = n THEN slot ELSE inf.keys4[i]]
      /\ \A i \in 1..new.alloced4 : i # n => i \in 1..inf.alloced4
  BY <1>1 DEF Appended
<1> HIDE DEF new
<1>3. Used(new) = Used(inf) \cup {n} /\ n \notin Used(inf)
  BY <1>1, <1>2 DEF Used
<1>4. new.keys4[n] = slot /\ \A i \in Used(inf) : new.keys4[i] = inf.keys4[i]
  BY <1>1, <1>2 DEF Used
<1>5. \A i \in Used(inf) : inf.keys4[i].addr # a
  BY DEF SlotsFor
<1>6. Distinct(new)
  BY <1>0, <1>3, <1>4, <1>5 DEF Distinct, Good
<1>7. InfoType(new)
  BY <1>0, <1>1, <1>2 DEF InfoType
<1>8. QED
  BY <1>2, <1>3, <1>4, <1>6, <1>7 DEF new, slot, Good

\* Updating: one slot gets another object.
LEMMA UpdateGood ==
    ASSUME NEW inf, Good(inf), NEW i \in Used(inf), NEW o \in Objs
    PROVE  LET new == Updated(inf, i, o)
           IN  /\ Good(new)
               /\ new.entries4 = inf.entries4
               /\ Used(new) = Used(inf)
               /\ new.keys4[i].key = o /\ new.keys4[i].addr = inf.keys4[i].addr
               /\ \A j \in Used(inf) : j # i => new.keys4[j] = inf.keys4[j]
<1> DEFINE slot == [addr |-> inf.keys4[i].addr, key |-> o]
           new == Updated(inf, i, o)
<1>0. slot \in Slot /\ slot.addr = inf.keys4[i].addr /\ slot.key = o
  BY SlotType DEF Slot
<1>1. new.entries4 = inf.entries4 /\ new.alloced4 = inf.alloced4 /\ new.keys4 = [inf.keys4 EXCEPT ![i] = slot]
  BY DEF Updated
<1> HIDE DEF slot, new
<1>2. inf.keys4 \in [1..inf.alloced4 -> Slot] /\ i \in 1..inf.alloced4 /\ Used(inf) \subseteq 1..inf.alloced4
  BY SlotType DEF Good, InfoType
<1>3. Used(new) = Used(inf)
  BY <1>1 DEF Used
<1>4. new.keys4[i] = slot /\ \A j \in Used(inf) : j # i => new.keys4[j] = inf.keys4[j]
  BY ZenonT(40), <1>1, <1>2
<1>5. \A j \in Used(inf) : new.keys4[j].addr = inf.keys4[j].addr
  BY <1>0, <1>4
<1>6. Distinct(new)
  BY <1>3, <1>5 DEF Distinct, Good
<1>7. InfoType(new)
  BY <1>0, <1>1, <1>2 DEF InfoType, Good
<1>8. QED
  BY <1>0, <1>1, <1>3, <1>4, <1>6, <1>7 DEF new, Good

\* Closing up: every other slot stays or moves down by one.
Shift(i, j) == IF j < i THEN j ELSE j + 1

LEMMA RemoveGood ==
    ASSUME NEW inf, Good(inf), NEW i \in Used(inf)
    PROVE  LET new == Removed(inf, i)
           IN  /\ Good(new)
               /\ new.entries4 = inf.entries4 - 1
               /\ \A j \in Used(new) : /\ Shift(i, j) \in Used(inf) \ {i}
                                       /\ new.keys4[j] = inf.keys4[Shift(i, j)]
               /\ \A k \in Used(inf) \ {i} : \E j \in Used(new) : k = Shift(i, j)
<1> DEFINE new == Removed(inf, i)
<1>1. inf.entries4 \in Nat /\ inf.alloced4 \in Nat /\ inf.entries4 <= inf.alloced4 /\ inf.entries4 >= 1
      /\ i \in Nat /\ i >= 1 /\ i <= inf.entries4 /\ inf.keys4 \in [1..inf.alloced4 -> Slot]
  BY DEF Good, InfoType, Used
<1>2. CASE inf.entries4 = 1
  <2>1. Used(inf) = {i}
    BY <1>1, <1>2 DEF Used
  <2>2. new = NoInfo /\ NoInfo.entries4 = 0
    BY <1>2 DEF Removed, NoInfo
  <2>3. QED
    BY <1>2, <2>1, <2>2, NoInfoGood
<1>3. CASE inf.entries4 # 1
  <2>1. /\ new.entries4 = inf.entries4 - 1 /\ new.alloced4 = inf.alloced4
        /\ new.keys4 = [j \in 1..inf.alloced4 |->
                          IF j \in i..(inf.entries4 - 1) THEN inf.keys4[j + 1] ELSE inf.keys4[j]]
    BY <1>3 DEF Removed, Closed
  <2> HIDE DEF new
  <2>2. \A j \in Used(new) : /\ Shift(i, j) \in Used(inf) \ {i}
                             /\ new.keys4[j] = inf.keys4[Shift(i, j)]
    BY <1>1, <1>3, <2>1 DEF Used, Shift
  <2>3. ASSUME NEW k \in Used(inf) \ {i}
        PROVE  \E j \in Used(new) : k = Shift(i, j)
    <3>1. CASE k < i
      <4>1. k \in Used(new) /\ k = Shift(i, k)
        BY <1>1, <2>1, <3>1 DEF Used, Shift
      <4>2. QED
        BY <4>1
    <3>2. CASE ~(k < i)
      <4>1. k - 1 \in Used(new) /\ k = Shift(i, k - 1)
        BY <1>1, <2>1, <3>2 DEF Used, Shift
      <4>2. QED
        BY <4>1
    <3>3. QED
      BY <3>1, <3>2
  <2>4. \A j, k \in Used(new) : Shift(i, j) = Shift(i, k) => j = k
    BY <1>1, <2>1 DEF Used, Shift
  <2>5. Distinct(new)
    BY <2>2, <2>4 DEF Distinct, Good
  <2>6. InfoType(new)
    BY SMTT(40), <1>1, <1>3, <2>1 DEF InfoType
  <2>7. QED
    BY <1>1, <2>1, <2>2, <2>3, <2>5, <2>6 DEF Good, new
<1>4. QED
  BY <1>2, <1>3

\* A list has the same keys in two heaps that agree on its objects.
LEMMA SameKeys ==
    ASSUME NEW inf, Good(inf), NEW h, NEW g,
           \A i \in Used(inf) : h[inf.keys4[i].key] = g[inf.keys4[i].key], NEW a
    PROVE  KeyIn(h, inf, a) = KeyIn(g, inf, a)
BY LookupSlot DEF KeyIn

-----------------------------------------------------------------------------
(* All lists and the heap: the inductive invariant. *)

\* The object of a slot.
Obj(inf, i) == inf.keys4[i].key

\* Lists f of the sockets in a heap h.
Lists(f, h) ==
    /\ f = [s \in Socks |-> f[s]]
    /\ \A s \in Socks : Good(f[s])
    /\ h \in [Objs -> Keys \cup {NoKey}]
    /\ \A s \in Socks : \A i \in Used(f[s]) : h[Obj(f[s], i)] # NoKey
    /\ \A o \in Objs : h[o] # NoKey => \E s \in Socks : \E i \in Used(f[s]) : Obj(f[s], i) = o
    /\ \A s, r \in Socks : \A i \in Used(f[s]), j \in Used(f[r]) :
          Obj(f[s], i) = Obj(f[r], j) => s = r /\ i = j

LEMMA KeyType ==
    ASSUME NEW f, NEW h, Lists(f, h), NEW s \in Socks, NEW a
    PROVE  KeyIn(h, f[s], a) \in Keys \cup {NoKey} /\ (KeyIn(h, f[s], a) = NoKey <=> SlotsFor(f[s], a) = {})
<1>1. CASE SlotsFor(f[s], a) = {}
  BY <1>1 DEF KeyIn
<1>2. CASE SlotsFor(f[s], a) # {}
  <2>1. PICK i \in Used(f[s]) : f[s].keys4[i].addr = a
    BY <1>2 DEF SlotsFor
  <2>2. KeyIn(h, f[s], a) = h[Obj(f[s], i)] /\ Obj(f[s], i) \in Objs
    BY <2>1, KeyOfSlot, SlotType DEF Lists, Obj
  <2>3. QED
    BY <1>2, <2>2 DEF Lists
<1>3. QED
  BY <1>1, <1>2

\* From lists f in a heap h to lists g in a heap e, the key of s for a becomes k, and
\* nothing else changes.
Becomes(f, h, g, e, s, a, k) ==
    \A r \in Socks, b \in Addrs : KeyIn(e, g[r], b) = IF r = s /\ b = a THEN k ELSE KeyIn(h, f[r], b)

\* The three ways to change one slot.
Adding(f, h, g, e, s, a, k, o) ==
    /\ Lists(f, h) /\ s \in Socks /\ a \in Addrs /\ k \in Keys /\ o \in Objs /\ h[o] = NoKey
    /\ SlotsFor(f[s], a) = {}
    /\ g = [f EXCEPT ![s] = Appended(f[s], [addr |-> a, key |-> o])]
    /\ e = [h EXCEPT ![o] = k]

Updating(f, h, g, e, s, n, k, o) ==
    /\ Lists(f, h) /\ s \in Socks /\ n \in Used(f[s]) /\ k \in Keys /\ o \in Objs /\ h[o] = NoKey
    /\ g = [f EXCEPT ![s] = Updated(f[s], n, o)]
    /\ e = [[h EXCEPT ![o] = k] EXCEPT ![f[s].keys4[n].key] = NoKey]

Removing(f, h, g, e, s, n) ==
    /\ Lists(f, h) /\ s \in Socks /\ n \in Used(f[s])
    /\ g = [f EXCEPT ![s] = Removed(f[s], n)]
    /\ e = [h EXCEPT ![f[s].keys4[n].key] = NoKey]

\* A new slot: its address gets the key, and nothing else changes.
LEMMA AddSlotStep ==
    ASSUME NEW f, NEW h, NEW g, NEW e, NEW s, NEW a, NEW k, NEW o, Adding(f, h, g, e, s, a, k, o)
    PROVE  Lists(g, e) /\ Becomes(f, h, g, e, s, a, k)
<1>0. /\ Lists(f, h) /\ s \in Socks /\ a \in Addrs /\ k \in Keys /\ o \in Objs /\ h[o] = NoKey
      /\ SlotsFor(f[s], a) = {}
      /\ g = [f EXCEPT ![s] = Appended(f[s], [addr |-> a, key |-> o])]
      /\ e = [h EXCEPT ![o] = k]
  BY DEF Adding
<1> USE <1>0
<1> DEFINE new == Appended(f[s], [addr |-> a, key |-> o])
           n == f[s].entries4 + 1
<1>1. /\ Good(new) /\ Used(new) = Used(f[s]) \cup {n} /\ n \notin Used(f[s])
      /\ new.keys4[n] = [addr |-> a, key |-> o]
      /\ \A i \in Used(f[s]) : new.keys4[i] = f[s].keys4[i]
  BY AppendGood DEF Lists
<1> HIDE DEF new, n
<1>2. g = [r \in Socks |-> g[r]] /\ g[s] = new /\ \A r \in Socks \ {s} : g[r] = f[r]
  BY DEF Lists, new
<1>3. e \in [Objs -> Keys \cup {NoKey}] /\ e[o] = k /\ (\A q \in Objs \ {o} : e[q] = h[q]) /\ k # NoKey
  BY SMTT(40), NoneAssumption DEF Lists
<1>4. \A r \in Socks : \A i \in Used(f[r]) : Obj(f[r], i) \in Objs \ {o} /\ e[Obj(f[r], i)] = h[Obj(f[r], i)]
  BY <1>3, SlotType DEF Lists, Obj
<1>5. /\ Used(g[s]) = Used(f[s]) \cup {n}
      /\ Obj(g[s], n) = o /\ g[s].keys4[n].addr = a
      /\ \A i \in Used(f[s]) : Obj(g[s], i) = Obj(f[s], i) /\ g[s].keys4[i].addr = f[s].keys4[i].addr
  BY <1>1, <1>2 DEF Obj
<1>6. \A r \in Socks : Good(g[r])
  BY <1>1, <1>2 DEF Lists
<1>7. \A r \in Socks : \A i \in Used(g[r]) :
        \/ r = s /\ i = n /\ Obj(g[r], i) = o
        \/ i \in Used(f[r]) /\ Obj(g[r], i) = Obj(f[r], i) /\ Obj(g[r], i) # o
  BY <1>2, <1>4, <1>5
<1>8. \A r \in Socks : \A i \in Used(g[r]) : e[Obj(g[r], i)] # NoKey
  BY SMTT(40), <1>3, <1>4, <1>7 DEF Lists
<1>9. ASSUME NEW q \in Objs, e[q] # NoKey
      PROVE  \E r \in Socks : \E i \in Used(g[r]) : Obj(g[r], i) = q
  <2>1. CASE q = o
    BY <1>5, <2>1
  <2>2. CASE q # o
    <3>1. PICK r \in Socks : \E i \in Used(f[r]) : Obj(f[r], i) = q
      BY SMTT(40), <1>3, <1>9, <2>2 DEF Lists
    <3>2. PICK i \in Used(f[r]) : Obj(f[r], i) = q
      BY <3>1
    <3>3. i \in Used(g[r]) /\ Obj(g[r], i) = q
      BY <1>2, <1>5, <3>2
    <3>4. QED
      BY <3>3
  <2>3. QED
    BY <2>1, <2>2
<1>10. \A r, t \in Socks : \A i \in Used(g[r]), j \in Used(g[t]) :
          Obj(g[r], i) = Obj(g[t], j) => r = t /\ i = j
  BY SMTT(40), <1>7 DEF Lists
<1>11. Lists(g, e)
  BY ZenonT(40), <1>2, <1>3, <1>6, <1>8, <1>9, <1>10 DEF Lists
<1>12. ASSUME NEW r \in Socks, NEW b \in Addrs, r # s
       PROVE  KeyIn(e, g[r], b) = KeyIn(h, f[r], b)
  <2>1. Good(f[r]) /\ \A i \in Used(f[r]) : e[f[r].keys4[i].key] = h[f[r].keys4[i].key]
    BY <1>4 DEF Lists, Obj
  <2>2. KeyIn(e, f[r], b) = KeyIn(h, f[r], b)
    BY ONLY <2>1, SameKeys, SMTT(40)
  <2>3. QED
    BY <1>2, <1>12, <2>2
<1>13. KeyIn(e, g[s], a) = k
  <2>1. n \in Used(g[s]) /\ Good(g[s])
    BY <1>5, <1>6
  <2>2. KeyIn(e, g[s], g[s].keys4[n].addr) = e[g[s].keys4[n].key]
    BY ONLY <2>1, KeyOfSlot
  <2>3. QED
    BY <1>3, <1>5, <2>2 DEF Obj
<1>14. ASSUME NEW b \in Addrs, b # a
       PROVE  KeyIn(e, g[s], b) = KeyIn(h, f[s], b)
  <2>1. CASE SlotsFor(f[s], b) = {}
    <3>1. \A i \in Used(g[s]) : g[s].keys4[i].addr # b
      BY SMTT(40), <1>5, <1>14, <2>1 DEF SlotsFor
    <3>2. QED
      BY ZenonT(40), <2>1, <3>1, KeyOfNone DEF KeyIn
  <2>2. CASE SlotsFor(f[s], b) # {}
    <3>1. PICK i \in Used(f[s]) : f[s].keys4[i].addr = b
      BY <2>2 DEF SlotsFor
    <3>2. KeyIn(h, f[s], b) = h[f[s].keys4[i].key]
      BY SMTT(40), <3>1, KeyOfSlot DEF Lists
    <3>3. i \in Used(g[s]) /\ Good(g[s]) /\ g[s].keys4[i].addr = b
      BY <1>5, <1>6, <3>1
    <3>4. KeyIn(e, g[s], b) = e[g[s].keys4[i].key]
      BY ONLY <3>3, KeyOfSlot, SMTT(40)
    <3>5. QED
      BY SMTT(40), <1>4, <1>5, <3>1, <3>2, <3>4 DEF Obj
  <2>3. QED
    BY <2>1, <2>2
<1>15. QED
  BY ZenonT(40), <1>11, <1>12, <1>13, <1>14 DEF Becomes

\* The slots in use hold allocated objects, each its own.
LEMMA SlotObjs ==
    ASSUME NEW f, NEW h, Lists(f, h)
    PROVE  /\ \A r \in Socks : \A i \in Used(f[r]) : Obj(f[r], i) \in Objs /\ h[Obj(f[r], i)] # NoKey
           /\ \A r, t \in Socks : \A i \in Used(f[r]), j \in Used(f[t]) :
                 Obj(f[r], i) = Obj(f[t], j) => r = t /\ i = j
<1>1. \A r \in Socks : Good(f[r])
  BY DEF Lists
<1>2. \A r \in Socks : \A i \in Used(f[r]) : Obj(f[r], i) \in Objs
  BY ONLY <1>1, SlotType, SMTT(40) DEF Obj
<1>3. QED
  BY <1>2 DEF Lists

\* An updated slot: its address gets the key, and nothing else changes.
LEMMA UpdateStep ==
    ASSUME NEW f, NEW h, NEW g, NEW e, NEW s, NEW n, NEW k, NEW o, Updating(f, h, g, e, s, n, k, o)
    PROVE  Lists(g, e) /\ Becomes(f, h, g, e, s, f[s].keys4[n].addr, k)
<1>0. /\ Lists(f, h) /\ s \in Socks /\ n \in Used(f[s]) /\ k \in Keys /\ o \in Objs /\ h[o] = NoKey
      /\ g = [f EXCEPT ![s] = Updated(f[s], n, o)]
      /\ e = [[h EXCEPT ![o] = k] EXCEPT ![f[s].keys4[n].key] = NoKey]
  BY DEF Updating
<1> USE <1>0
<1> DEFINE new == Updated(f[s], n, o)
           p == Obj(f[s], n)
<1>1. /\ Good(new) /\ Used(new) = Used(f[s])
      /\ new.keys4[n].key = o /\ new.keys4[n].addr = f[s].keys4[n].addr
      /\ \A i \in Used(f[s]) : i # n => new.keys4[i] = f[s].keys4[i]
  BY UpdateGood DEF Lists
<1> HIDE DEF new
<1>2. g = [r \in Socks |-> g[r]] /\ g[s] = new /\ \A r \in Socks \ {s} : g[r] = f[r]
  BY DEF Lists, new
<1>3. p \in Objs /\ p # o /\ h[p] # NoKey
  BY SMTT(40), SlotType DEF Lists, Obj
<1>4. e \in [Objs -> Keys \cup {NoKey}] /\ e[o] = k /\ e[p] = NoKey /\ (\A q \in Objs \ {o, p} : e[q] = h[q]) /\ k # NoKey
  BY SMTT(40), <1>3, NoneAssumption DEF Lists, Obj
<1>5. \A r \in Socks : \A i \in Used(f[r]) : ~(r = s /\ i = n) =>
        Obj(f[r], i) \in Objs \ {o, p} /\ e[Obj(f[r], i)] = h[Obj(f[r], i)]
  <2>1. /\ \A r \in Socks : \A i \in Used(f[r]) : Obj(f[r], i) \in Objs /\ h[Obj(f[r], i)] # NoKey
        /\ \A r, t \in Socks : \A i \in Used(f[r]), j \in Used(f[t]) :
              Obj(f[r], i) = Obj(f[t], j) => r = t /\ i = j
    BY ONLY <1>0, SlotObjs, ZenonT(40)
  <2>2. p = Obj(f[s], n)
    OBVIOUS
  <2> HIDE DEF p
  <2>3. QED
    BY ONLY <1>4, <2>1, <2>2, s \in Socks, n \in Used(f[s]), h[o] = NoKey, SMTT(40)
<1> HIDE DEF p
<1>6. /\ Used(g[s]) = Used(f[s]) /\ Obj(g[s], n) = o /\ g[s].keys4[n].addr = f[s].keys4[n].addr
      /\ \A i \in Used(f[s]) : i # n => Obj(g[s], i) = Obj(f[s], i) /\ g[s].keys4[i].addr = f[s].keys4[i].addr
  BY SMTT(40), <1>1, <1>2 DEF Obj
<1>7. \A r \in Socks : Good(g[r])
  BY SMTT(40), <1>1, <1>2 DEF Lists
<1>8. \A r \in Socks : \A i \in Used(g[r]) :
        \/ r = s /\ i = n /\ Obj(g[r], i) = o
        \/ ~(r = s /\ i = n) /\ i \in Used(f[r]) /\ Obj(g[r], i) = Obj(f[r], i) /\ Obj(g[r], i) \in Objs \ {o, p}
  BY <1>2, <1>5, <1>6
<1>9. \A r \in Socks : \A i \in Used(g[r]) : e[Obj(g[r], i)] # NoKey
  <2>1. \A r \in Socks : \A i \in Used(f[r]) : h[Obj(f[r], i)] # NoKey
    BY DEF Lists
  <2>2. QED
    BY ONLY <1>4, <1>5, <1>8, <2>1, SMTT(40)
<1>10. ASSUME NEW q \in Objs, e[q] # NoKey
       PROVE  \E r \in Socks : \E i \in Used(g[r]) : Obj(g[r], i) = q
  <2>1. CASE q = o
    BY <1>6, <2>1
  <2>2. CASE q # o
    <3>1. PICK r \in Socks : \E i \in Used(f[r]) : Obj(f[r], i) = q
      BY ZenonT(40), <1>4, <1>10, <2>2 DEF Lists
    <3>2. PICK i \in Used(f[r]) : Obj(f[r], i) = q
      BY SMTT(40), <3>1
    <3>3. ~(r = s /\ i = n)
      BY SMTT(40), <1>4, <1>10, <3>2 DEF p
    <3>4. i \in Used(g[r]) /\ Obj(g[r], i) = q
      BY SMTT(40), <1>2, <1>6, <3>2, <3>3
    <3>5. QED
      BY <3>4
  <2>3. QED
    BY SMTT(40), <2>1, <2>2
<1>11. \A r, t \in Socks : \A i \in Used(g[r]), j \in Used(g[t]) :
          Obj(g[r], i) = Obj(g[t], j) => r = t /\ i = j
  <2>1. \A r, t \in Socks : \A i \in Used(f[r]), j \in Used(f[t]) :
          Obj(f[r], i) = Obj(f[t], j) => r = t /\ i = j
    BY DEF Lists
  <2>2. QED
    BY ONLY <1>8, <2>1, SMTT(40)
<1>12. Lists(g, e)
  BY ZenonT(40), <1>2, <1>4, <1>7, <1>9, <1>10, <1>11 DEF Lists
<1>13. ASSUME NEW r \in Socks, NEW b \in Addrs, r # s
       PROVE  KeyIn(e, g[r], b) = KeyIn(h, f[r], b)
  <2>1. Good(f[r]) /\ \A i \in Used(f[r]) : e[f[r].keys4[i].key] = h[f[r].keys4[i].key]
    BY SMTT(40), <1>5, <1>13 DEF Lists, Obj
  <2>2. KeyIn(e, f[r], b) = KeyIn(h, f[r], b)
    BY ONLY <2>1, SameKeys
  <2>3. QED
    BY SMTT(40), <1>2, <1>13, <2>2
<1>14. KeyIn(e, g[s], f[s].keys4[n].addr) = k
  <2>1. n \in Used(g[s]) /\ Good(g[s])
    BY SMTT(40), <1>6, <1>7
  <2>2. KeyIn(e, g[s], g[s].keys4[n].addr) = e[g[s].keys4[n].key]
    BY ONLY <2>1, KeyOfSlot, SMTT(40)
  <2>3. QED
    BY ONLY <1>4, <1>6, <2>2, ZenonT(40) DEF Obj
<1>15. ASSUME NEW b \in Addrs, b # f[s].keys4[n].addr
       PROVE  KeyIn(e, g[s], b) = KeyIn(h, f[s], b)
  <2>1. CASE SlotsFor(f[s], b) = {}
    <3>1. \A i \in Used(g[s]) : g[s].keys4[i].addr # b
      BY SMTT(40), <1>6, <1>15, <2>1 DEF SlotsFor
    <3>2. QED
      BY ZenonT(40), <2>1, <3>1, KeyOfNone DEF KeyIn
  <2>2. CASE SlotsFor(f[s], b) # {}
    <3>1. PICK i \in Used(f[s]) : f[s].keys4[i].addr = b
      BY SMTT(40), <2>2 DEF SlotsFor
    <3>2. KeyIn(h, f[s], b) = h[f[s].keys4[i].key]
      BY SMTT(40), <3>1, KeyOfSlot DEF Lists
    <3>3. i \in Used(g[s]) /\ Good(g[s]) /\ g[s].keys4[i].addr = b /\ i # n
      BY SMTT(40), <1>6, <1>7, <1>15, <3>1
    <3>4. KeyIn(e, g[s], b) = e[g[s].keys4[i].key]
      BY ONLY <3>3, KeyOfSlot, SMTT(40)
    <3>5. e[g[s].keys4[i].key] = h[f[s].keys4[i].key]
      <4>1. Obj(g[s], i) = Obj(f[s], i)
        BY ONLY <1>6, <3>1, <3>3, i \in Used(f[s]), ZenonT(40)
      <4>2. e[Obj(f[s], i)] = h[Obj(f[s], i)]
        BY ONLY <1>0, <1>5, <3>1, <3>3, i \in Used(f[s]), ZenonT(40)
      <4>3. QED
        BY ONLY <4>1, <4>2, ZenonT(40) DEF Obj
    <3>6. QED
      BY ONLY <3>2, <3>4, <3>5, ZenonT(40)
  <2>3. QED
    BY SMTT(40), <2>1, <2>2
<1>16. QED
  BY ZenonT(40), <1>12, <1>13, <1>14, <1>15 DEF Becomes

\* A slot closed up: its address has no key, and nothing else changes.
LEMMA RemoveStep ==
    ASSUME NEW f, NEW h, NEW g, NEW e, NEW s, NEW n, Removing(f, h, g, e, s, n)
    PROVE  Lists(g, e) /\ Becomes(f, h, g, e, s, f[s].keys4[n].addr, NoKey)
<1>0. /\ Lists(f, h) /\ s \in Socks /\ n \in Used(f[s])
      /\ g = [f EXCEPT ![s] = Removed(f[s], n)]
      /\ e = [h EXCEPT ![f[s].keys4[n].key] = NoKey]
  BY DEF Removing
<1> USE <1>0
<1> DEFINE new == Removed(f[s], n)
           p == Obj(f[s], n)
<1>1. /\ Good(new)
      /\ \A j \in Used(new) : Shift(n, j) \in Used(f[s]) \ {n} /\ new.keys4[j] = f[s].keys4[Shift(n, j)]
      /\ \A i \in Used(f[s]) \ {n} : \E j \in Used(new) : i = Shift(n, j)
      /\ \A i, j \in Used(new) : Shift(n, i) = Shift(n, j) => i = j
  <2>1. Good(f[s]) /\ n \in Nat
    BY SlotType DEF Lists
  <2>2. \A i, j \in Nat : Shift(n, i) = Shift(n, j) => i = j
    BY <2>1 DEF Shift
  <2>3. Good(new)
    BY SMTT(40), <2>1, RemoveGood
  <2>4. Used(new) \subseteq Nat
    BY SMTT(40), <2>3, SlotType
  <2>5. QED
    BY <2>1, <2>2, <2>3, <2>4, RemoveGood
<1> HIDE DEF new
<1>2. g = [r \in Socks |-> g[r]] /\ g[s] = new /\ \A r \in Socks \ {s} : g[r] = f[r]
  BY SMTT(40) DEF Lists, new
<1>3. p \in Objs /\ h[p] # NoKey
  BY SMTT(40), SlotType DEF Lists, Obj
<1>4. e \in [Objs -> Keys \cup {NoKey}] /\ e[p] = NoKey /\ (\A q \in Objs \ {p} : e[q] = h[q])
  BY SMTT(40), <1>3 DEF Lists, Obj
<1>5. \A r \in Socks : \A i \in Used(f[r]) : ~(r = s /\ i = n) =>
        Obj(f[r], i) \in Objs \ {p} /\ e[Obj(f[r], i)] = h[Obj(f[r], i)]
  <2>1. /\ \A r \in Socks : \A i \in Used(f[r]) : Obj(f[r], i) \in Objs /\ h[Obj(f[r], i)] # NoKey
        /\ \A r, t \in Socks : \A i \in Used(f[r]), j \in Used(f[t]) :
              Obj(f[r], i) = Obj(f[t], j) => r = t /\ i = j
    BY ONLY <1>0, SlotObjs, ZenonT(40)
  <2>2. p = Obj(f[s], n)
    OBVIOUS
  <2> HIDE DEF p
  <2>3. QED
    BY ONLY <1>4, <2>1, <2>2, s \in Socks, n \in Used(f[s]), SMTT(40)
<1> HIDE DEF p
<1>6. /\ \A j \in Used(g[s]) : Shift(n, j) \in Used(f[s]) \ {n} /\ g[s].keys4[j] = f[s].keys4[Shift(n, j)]
                                /\ Obj(g[s], j) = Obj(f[s], Shift(n, j))
      /\ \A i \in Used(f[s]) \ {n} : \E j \in Used(g[s]) : i = Shift(n, j)
  BY SMTT(40), <1>1, <1>2 DEF Obj
<1>7. \A r \in Socks : Good(g[r])
  BY SMTT(40), <1>1, <1>2 DEF Lists
<1> DEFINE from(r, i) == IF r = s THEN Shift(n, i) ELSE i
<1>8. \A r \in Socks : \A i \in Used(g[r]) :
        ~(r = s /\ from(r, i) = n) /\ from(r, i) \in Used(f[r]) /\ Obj(g[r], i) = Obj(f[r], from(r, i))
  BY <1>2, <1>6
<1>9. \A r \in Socks : \A i, j \in Used(g[r]) : from(r, i) = from(r, j) => i = j
  BY SMTT(40), <1>1, <1>2
<1> HIDE DEF from
<1>10. \A r \in Socks : \A i \in Used(g[r]) : e[Obj(g[r], i)] # NoKey
  BY <1>5, <1>8 DEF Lists
<1>11. ASSUME NEW q \in Objs, e[q] # NoKey
       PROVE  \E r \in Socks : \E i \in Used(g[r]) : Obj(g[r], i) = q
  <2>1. PICK r \in Socks : \E i \in Used(f[r]) : Obj(f[r], i) = q
    BY SMTT(40), <1>4, <1>11 DEF Lists
  <2>2. PICK i \in Used(f[r]) : Obj(f[r], i) = q
    BY <2>1
  <2>3. ~(r = s /\ i = n)
    BY SMTT(40), <1>4, <1>11, <2>2 DEF p
  <2>4. CASE r = s
    <3>1. PICK j \in Used(g[s]) : i = Shift(n, j)
      BY SMTT(40), <1>6, <2>2, <2>3, <2>4
    <3>2. Obj(g[s], j) = q
      BY SMTT(40), <1>6, <2>2, <2>4, <3>1
    <3>3. QED
      BY SMTT(40), <3>2
  <2>5. CASE r # s
    BY SMTT(40), <1>2, <2>2, <2>5
  <2>6. QED
    BY SMTT(40), <2>4, <2>5
<1>12. \A r, t \in Socks : \A i \in Used(g[r]), j \in Used(g[t]) :
          Obj(g[r], i) = Obj(g[t], j) => r = t /\ i = j
  BY SMTT(40), <1>8, <1>9 DEF Lists
<1>13. Lists(g, e)
  BY ZenonT(40), <1>2, <1>4, <1>7, <1>10, <1>11, <1>12 DEF Lists
<1>14. ASSUME NEW r \in Socks, NEW b \in Addrs, r # s
       PROVE  KeyIn(e, g[r], b) = KeyIn(h, f[r], b)
  <2>1. Good(f[r]) /\ \A i \in Used(f[r]) : e[f[r].keys4[i].key] = h[f[r].keys4[i].key]
    BY SMTT(40), <1>5, <1>14 DEF Lists, Obj
  <2>2. KeyIn(e, f[r], b) = KeyIn(h, f[r], b)
    BY ONLY <2>1, SameKeys
  <2>3. QED
    BY SMTT(40), <1>2, <1>14, <2>2
<1>15. ASSUME NEW b \in Addrs, b = f[s].keys4[n].addr \/ SlotsFor(f[s], b) = {}
       PROVE  KeyIn(e, g[s], b) = NoKey
  <2>1. \A j \in Used(g[s]) : g[s].keys4[j].addr # b
    BY SMTT(40), <1>6, <1>15 DEF Lists, Good, Distinct, SlotsFor
  <2>2. QED
    BY SMTT(40), <2>1, KeyOfNone
<1>16. ASSUME NEW b \in Addrs, b # f[s].keys4[n].addr, SlotsFor(f[s], b) # {}
       PROVE  KeyIn(e, g[s], b) = KeyIn(h, f[s], b)
  <2>1. PICK i \in Used(f[s]) : f[s].keys4[i].addr = b
    BY SMTT(40), <1>16 DEF SlotsFor
  <2>2. KeyIn(h, f[s], b) = h[f[s].keys4[i].key] /\ i # n
    BY SMTT(40), <1>16, <2>1, KeyOfSlot DEF Lists
  <2>3. PICK j \in Used(g[s]) : i = Shift(n, j)
    BY SMTT(40), <1>6, <2>2
  <2>4. Good(g[s]) /\ g[s].keys4[j].addr = b /\ g[s].keys4[j].key = f[s].keys4[i].key
    BY SMTT(40), <1>6, <1>7, <2>1, <2>3
  <2>5. KeyIn(e, g[s], b) = e[g[s].keys4[j].key]
    BY ONLY j \in Used(g[s]), <2>4, KeyOfSlot, SMTT(40)
  <2>6. e[f[s].keys4[i].key] = h[f[s].keys4[i].key]
    <3>1. e[Obj(f[s], i)] = h[Obj(f[s], i)]
      BY ONLY <1>0, <1>5, i \in Used(f[s]), <2>2, ZenonT(40)
    <3>2. QED
      BY ONLY <3>1, ZenonT(40) DEF Obj
  <2>7. QED
    BY ONLY <2>2, <2>4, <2>5, <2>6, ZenonT(40)
<1>17. ASSUME NEW b \in Addrs, SlotsFor(f[s], b) = {}
       PROVE  KeyIn(h, f[s], b) = NoKey
  BY <1>17 DEF KeyIn
<1>18. QED
  BY ZenonT(40), <1>13, <1>14, <1>15, <1>16, <1>17 DEF Becomes

Clearing(f, h, g, e, s) ==
    /\ Lists(f, h) /\ s \in Socks
    /\ g = [f EXCEPT ![s] = NoInfo]
    /\ e = [q \in Objs |-> IF q \in Held(f[s]) THEN NoKey ELSE h[q]]

\* A list cleared: no address has a key, and nothing else changes.
LEMMA ClearStep ==
    ASSUME NEW f, NEW h, NEW g, NEW e, NEW s, Clearing(f, h, g, e, s)
    PROVE  /\ Lists(g, e)
           /\ \A r \in Socks, b \in Addrs : KeyIn(e, g[r], b) = IF r = s THEN NoKey ELSE KeyIn(h, f[r], b)
<1>0. /\ Lists(f, h) /\ s \in Socks
      /\ g = [f EXCEPT ![s] = NoInfo]
      /\ e = [q \in Objs |-> IF q \in Held(f[s]) THEN NoKey ELSE h[q]]
  BY DEF Clearing
<1> USE <1>0
<1>1. g = [r \in Socks |-> g[r]] /\ g[s] = NoInfo /\ (\A r \in Socks \ {s} : g[r] = f[r])
      /\ Used(g[s]) = {} /\ Good(g[s])
  BY SMTT(40), NoInfoGood DEF Lists
<1>2. \A r \in Socks : \A i \in Used(f[r]) : r # s =>
        Obj(f[r], i) \in Objs \ Held(f[s]) /\ e[Obj(f[r], i)] = h[Obj(f[r], i)]
  BY SMTT(40), SlotType DEF Lists, Obj, Held
<1>3. e \in [Objs -> Keys \cup {NoKey}]
  BY DEF Lists
<1>4. \A r \in Socks : Good(g[r])
  BY <1>1 DEF Lists
<1>5. \A r \in Socks : \A i \in Used(g[r]) : r # s /\ i \in Used(f[r]) /\ Obj(g[r], i) = Obj(f[r], i)
  BY <1>1
<1>6. \A r \in Socks : \A i \in Used(g[r]) : e[Obj(g[r], i)] # NoKey
  <2>1. \A r \in Socks : \A i \in Used(f[r]) : h[Obj(f[r], i)] # NoKey
    BY DEF Lists
  <2>2. QED
    BY ONLY <1>2, <1>5, <2>1
<1>7. ASSUME NEW q \in Objs, e[q] # NoKey
      PROVE  \E r \in Socks : \E i \in Used(g[r]) : Obj(g[r], i) = q
  <2>1. h[q] # NoKey /\ q \notin Held(f[s])
    BY <1>7
  <2>2. PICK r \in Socks : \E i \in Used(f[r]) : Obj(f[r], i) = q
    BY <2>1 DEF Lists
  <2>3. r # s
    BY <2>1, <2>2 DEF Held, Obj
  <2>4. QED
    BY <1>1, <2>2, <2>3
<1>8. \A r, t \in Socks : \A i \in Used(g[r]), j \in Used(g[t]) :
          Obj(g[r], i) = Obj(g[t], j) => r = t /\ i = j
  BY SMTT(40), <1>5 DEF Lists
<1>9. Lists(g, e)
  BY ZenonT(40), <1>1, <1>3, <1>4, <1>6, <1>7, <1>8 DEF Lists
<1>10. ASSUME NEW r \in Socks, NEW b \in Addrs, r # s
       PROVE  KeyIn(e, g[r], b) = KeyIn(h, f[r], b)
  <2>1. Good(f[r]) /\ \A i \in Used(f[r]) : e[f[r].keys4[i].key] = h[f[r].keys4[i].key]
    BY SMTT(40), <1>2, <1>10 DEF Lists, Obj
  <2>2. KeyIn(e, f[r], b) = KeyIn(h, f[r], b)
    BY ONLY <2>1, SameKeys
  <2>3. QED
    BY <1>1, <1>10, <2>2
<1>11. ASSUME NEW b \in Addrs
       PROVE  KeyIn(e, g[s], b) = NoKey
  <2>1. \A i \in Used(g[s]) : g[s].keys4[i].addr # b
    BY <1>1
  <2>2. QED
    BY ONLY <2>1, KeyOfNone
<1>12. QED
  BY <1>9, <1>10, <1>11

-----------------------------------------------------------------------------
(* The steps of the specification. *)

\* The map that lists f in a heap h stand for.
MapOf(f, h) == [s \in Socks |-> [a \in Addrs |-> KeyIn(h, f[s], a)]]

LEMMA MapSet ==
    ASSUME NEW f, NEW h, NEW g, NEW e, NEW s \in Socks, NEW a \in Addrs, NEW k,
           Becomes(f, h, g, e, s, a, k)
    PROVE  MapOf(g, e) = [MapOf(f, h) EXCEPT ![s][a] = k]
BY ZenonT(40) DEF MapOf, Becomes

SockInv ==
    /\ sk \in [Socks -> [st : Alive \cup {"free", "leaked"}, daddr : Addrs \cup {NoAddr}]]
    /\ tw \in [Tws -> [there : BOOLEAN, key : Keys \cup {NoKey}]]
    /\ \A s \in Socks : sk[s].st = "free" => info[s] = NoInfo
    /\ \A s \in Socks : sk[s].st = "conn" => sk[s].daddr \in Addrs

IInv == Lists(info, mem) /\ SockInv

\* tcp_v4_md5_do_add sets the key, or leaves everything as it was.
LEMMA AddStep ==
    ASSUME Lists(info, mem), NEW s \in Socks, NEW a \in Addrs, NEW k \in Keys, NEW o \in FreeObjs,
           tcp_v4_md5_do_add(s, info[s], [mem EXCEPT ![o] = k], a, o)
    PROVE  /\ Lists(info', mem')
           /\ \A r \in Socks : r # s => info'[r] = info[r]
           /\ \/ MapOf(info', mem') = [MapOf(info, mem) EXCEPT ![s][a] = k]
              \/ MapOf(info', mem') = MapOf(info, mem)
<1>0. o \in Objs /\ mem[o] = NoKey
  BY DEF FreeObjs
<1>1. CASE Update(s, info[s], [mem EXCEPT ![o] = k], a, o)
  <2> DEFINE n == tcp_v4_md5_do_lookup(info[s], a)
  <2>1. n \in Used(info[s]) /\ info[s].keys4[n].addr = a
    BY <1>1, LookupSlot DEF Update, Lists
  <2>2. info' = [info EXCEPT ![s] = Updated(info[s], n, o)]
        /\ mem' = [[mem EXCEPT ![o] = k] EXCEPT ![info[s].keys4[n].key] = NoKey]
    BY <1>1 DEF Update
  <2> HIDE DEF n
  <2>3. Updating(info, mem, info', mem', s, n, k, o)
    BY <1>0, <2>1, <2>2 DEF Updating
  <2>4. Lists(info', mem') /\ Becomes(info, mem, info', mem', s, a, k)
    BY ONLY <2>1, <2>3, UpdateStep
  <2>5. MapOf(info', mem') = [MapOf(info, mem) EXCEPT ![s][a] = k]
    BY ONLY s \in Socks, a \in Addrs, <2>4, MapSet
  <2>6. QED
    BY ZenonT(40), <2>2, <2>4, <2>5 DEF Lists
<1>2. CASE AddFails(s, info[s], [mem EXCEPT ![o] = k], a, o)
  <2>1. info' = info /\ mem' = mem
    BY SMTT(40), <1>0, <1>2 DEF AddFails, Lists
  <2>2. QED
    BY <2>1
<1>3. CASE AddSlot(s, info[s], [mem EXCEPT ![o] = k], a, o)
  <2>1. /\ SlotsFor(info[s], a) = {}
        /\ info' = [info EXCEPT ![s] = Appended(info[s], [addr |-> a, key |-> o])]
        /\ mem' = [mem EXCEPT ![o] = k]
    BY <1>3 DEF AddSlot
  <2>2. Adding(info, mem, info', mem', s, a, k, o)
    BY <1>0, <2>1 DEF Adding
  <2>3. Lists(info', mem') /\ Becomes(info, mem, info', mem', s, a, k)
    BY ONLY <2>2, AddSlotStep
  <2>4. MapOf(info', mem') = [MapOf(info, mem) EXCEPT ![s][a] = k]
    BY ONLY s \in Socks, a \in Addrs, <2>3, MapSet
  <2>5. QED
    BY ZenonT(40), <2>1, <2>3, <2>4 DEF Lists
<1>4. QED
  BY <1>1, <1>2, <1>3 DEF tcp_v4_md5_do_add

LEMMA InitInv == Init => IInv
<1> SUFFICES ASSUME Init PROVE IInv
  OBVIOUS
<1>1. Lists(info, mem)
  BY NoInfoGood DEF Init, Lists
<1>2. SockInv
  BY SMTT(40), NoneAssumption DEF Init, SockInv, Unused, NoTw, Alive
<1>3. QED
  BY <1>1, <1>2 DEF IInv

\* The state that KeyMap sees.
map == MapOf(info, mem)

peer == [s \in Socks |-> sk[s].daddr]

twkey == [t \in Tws |-> tw[t].key]

\* A step that KeyMap does not see.
LEMMA Unseen ==
    ASSUME map' = map, peer' = peer, twkey' = twkey, verdict' = NoVerdict
    PROVE  M!Next
BY DEF M!Next, M!Quiet, M!NoVerdict, NoVerdict, map, peer, twkey, MapOf, KeyFor

LEMMA SetKeyStep ==
    ASSUME IInv, NEW s \in Socks, NEW a \in Addrs, NEW k \in Keys, SetKey(s, a, k)
    PROVE  IInv' /\ M!Next
<1>1. PICK o \in FreeObjs : tcp_v4_md5_do_add(s, info[s], [mem EXCEPT ![o] = k], a, o)
  BY DEF SetKey
<1>2. /\ Lists(info', mem')
      /\ \A r \in Socks : r # s => info'[r] = info[r]
      /\ map' = [map EXCEPT ![s][a] = k] \/ map' = map
  BY <1>1, AddStep DEF IInv, map
<1>3. sk' = sk /\ tw' = tw /\ verdict' = NoVerdict /\ sk[s].st \in Alive
  BY DEF SetKey
<1>4. IInv'
  BY <1>2, <1>3 DEF IInv, SockInv, Alive
<1>5. peer' = peer /\ twkey' = twkey
  BY <1>3 DEF peer, twkey
<1>6. CASE map' = map
  BY SMTT(40), <1>3, <1>4, <1>5, <1>6, Unseen
<1>7. CASE map' = [map EXCEPT ![s][a] = k]
  BY ZenonT(40), <1>3, <1>4, <1>5, <1>7 DEF M!Next, M!Set, M!NoVerdict, NoVerdict, map, peer, twkey, MapOf, KeyFor
<1>8. QED
  BY SMTT(40), <1>2, <1>4, <1>6, <1>7

LEMMA DelKeyStep ==
    ASSUME IInv, NEW s \in Socks, NEW a \in Addrs, DelKey(s, a)
    PROVE  IInv' /\ M!Next
<1> DEFINE n == tcp_v4_md5_do_lookup(info[s], a)
<1>1. n \in Used(info[s]) /\ info[s].keys4[n].addr = a
  BY LookupSlot DEF DelKey, IInv, Lists
<1>2. info' = [info EXCEPT ![s] = Removed(info[s], n)] /\ mem' = [mem EXCEPT ![info[s].keys4[n].key] = NoKey]
  BY DEF DelKey
<1> HIDE DEF n
<1>3. Removing(info, mem, info', mem', s, n)
  BY SMTT(40), <1>1, <1>2 DEF Removing, IInv
<1>4. Lists(info', mem') /\ Becomes(info, mem, info', mem', s, a, NoKey)
  BY ONLY <1>1, <1>3, RemoveStep
<1>5. map' = [map EXCEPT ![s][a] = NoKey]
  <2>1. MapOf(info', mem') = [MapOf(info, mem) EXCEPT ![s][a] = NoKey]
    BY ZenonT(40), <1>4 DEF Becomes, MapOf
  <2>2. QED
    BY <2>1 DEF map
<1>6. sk' = sk /\ tw' = tw /\ verdict' = NoVerdict /\ sk[s].st \in Alive
  BY DEF DelKey
<1>7. IInv'
  BY ZenonT(40), <1>2, <1>4, <1>6 DEF IInv, SockInv, Alive, Lists
<1>8. peer' = peer /\ twkey' = twkey
  BY <1>6 DEF peer, twkey
<1>9. QED
  BY ZenonT(40), <1>5, <1>6, <1>7, <1>8 DEF M!Next, M!Set, M!NoVerdict, NoVerdict, map, peer, twkey, MapOf, KeyFor

\* Steps of the sockets alone.
LEMMA SocketStep ==
    ASSUME IInv, NEW s \in Socks, Open(s) \/ Listen(s) \/ TimeWaitOverflow(s)
    PROVE  IInv' /\ M!Next
<1>1. /\ info' = info /\ mem' = mem /\ tw' = tw /\ verdict' = NoVerdict
      /\ \E st \in {"open", "listen", "done"} : sk' = [sk EXCEPT ![s].st = st]
  BY DEF Open, Listen, TimeWaitOverflow
<1>2. PICK st \in {"open", "listen", "done"} : sk' = [sk EXCEPT ![s].st = st]
  BY ZenonT(40), <1>1
<1>3. SockInv'
  BY <1>1, <1>2 DEF IInv, SockInv, Alive
<1>4. peer' = peer /\ twkey' = twkey /\ map' = map
  BY <1>1, <1>2 DEF peer, twkey, map, IInv, SockInv
<1>5. QED
  BY <1>1, <1>3, <1>4, Unseen DEF IInv

LEMMA ConnectStep ==
    ASSUME IInv, NEW s \in Socks, NEW a \in Addrs, Connect(s, a)
    PROVE  IInv' /\ M!Next
<1>1. /\ info' = info /\ mem' = mem /\ tw' = tw /\ verdict' = NoVerdict
      /\ sk' = [sk EXCEPT ![s] = [st |-> "conn", daddr |-> a]]
  BY DEF Connect
<1>2. SockInv'
  BY <1>1 DEF IInv, SockInv, Alive
<1>3. peer' = [peer EXCEPT ![s] = a] /\ twkey' = twkey /\ map' = map
  BY ZenonT(40), <1>1 DEF peer, twkey, map, IInv, SockInv
<1>4. QED
  BY ZenonT(40), <1>1, <1>2, <1>3 DEF IInv, M!Next, M!Connect, M!NoVerdict, NoVerdict, map, peer, twkey, MapOf, KeyFor

LEMMA SynRecvSockStep ==
    ASSUME IInv, NEW l \in Socks, NEW c \in Socks, NEW a \in Addrs, SynRecvSock(l, c, a)
    PROVE  IInv' /\ M!Next
<1>1. /\ sk[c].st = "free" /\ info[c] = NoInfo /\ tw' = tw /\ verdict' = NoVerdict
      /\ \E st \in {"conn", "leaked"} : sk' = [sk EXCEPT ![c] = [st |-> st, daddr |-> a]]
  BY ZenonT(40) DEF SynRecvSock, IInv, SockInv
<1>2. PICK st \in {"conn", "leaked"} : sk' = [sk EXCEPT ![c] = [st |-> st, daddr |-> a]]
  BY ZenonT(40), <1>1
<1>3. peer' = [peer EXCEPT ![c] = a] /\ twkey' = twkey
  BY ZenonT(40), <1>1, <1>2 DEF peer, twkey, IInv, SockInv
<1>4. map[c] = [b \in Addrs |-> NoKey]
  <2>1. \A b \in Addrs : KeyIn(mem, info[c], b) = NoKey
    BY <1>1, NoInfoGood, KeyOfNone
  <2>2. QED
    BY <2>1 DEF map, MapOf
<1>5. CASE info' = [info EXCEPT ![c] = ChildInfo(l)] /\ mem' = mem
  <2>1. info' = info
    BY <1>1, <1>5 DEF ChildInfo, IInv, Lists
  <2>2. map' = map
    BY SMTT(40), <1>5, <2>1 DEF map
  <2>3. SockInv'
    BY <1>1, <1>2, <2>1 DEF IInv, SockInv, Alive
  <2>4. QED
    BY ZenonT(40), <1>1, <1>3, <1>5, <2>1, <2>2, <2>3
       DEF IInv, M!Next, M!Connect, M!NoVerdict, NoVerdict, map, peer, twkey, MapOf, KeyFor
<1>6. CASE /\ SlotsFor(info[l], a) # {}
           /\ \E o \in FreeObjs :
                 tcp_v4_md5_do_add(c, ChildInfo(l), [mem EXCEPT ![o] = KeyFor(info[l], a)], a, o)
  <2> DEFINE k == KeyFor(info[l], a)
  <2>1. k \in Keys /\ k = map[l][a]
    BY SMTT(40), <1>6, KeyType DEF IInv, KeyFor, map, MapOf
  <2> HIDE DEF k
  <2>2. PICK o \in FreeObjs : tcp_v4_md5_do_add(c, info[c], [mem EXCEPT ![o] = k], a, o)
    BY ZenonT(40), <1>1, <1>6 DEF ChildInfo, k
  <2>3. /\ Lists(info', mem')
        /\ \A r \in Socks : r # c => info'[r] = info[r]
        /\ map' = [map EXCEPT ![c][a] = k] \/ map' = map
    BY SMTT(40), <2>1, <2>2, AddStep DEF IInv, map
  <2>4. IInv'
    BY <1>1, <1>2, <2>3 DEF IInv, SockInv, Alive
  <2>5. CASE map' = map
    BY ZenonT(40), <1>1, <1>3, <2>4, <2>5 DEF M!Next, M!Connect, M!NoVerdict, NoVerdict, map, peer, twkey, MapOf, KeyFor
  <2>6. CASE map' = [map EXCEPT ![c][a] = k]
    <3>1. map' = [map EXCEPT ![c][a] = map[l][a]]
      BY SMTT(40), <2>1, <2>6
    <3>2. M!Inherit(l, c, a)
      BY <1>1, <1>3, <1>4, <3>1 DEF M!Inherit, M!NoKeys, M!NoVerdict, NoVerdict, map, peer, twkey, MapOf, KeyFor
    <3>3. QED
      BY <2>4, <3>2 DEF M!Next
  <2>7. QED
    BY <2>3, <2>5, <2>6
<1>7. QED
  BY <1>5, <1>6 DEF SynRecvSock

LEMMA TimeWaitStep ==
    ASSUME IInv, NEW s \in Socks, NEW t \in Tws, TimeWait(s, t)
    PROVE  IInv' /\ M!Next
<1> DEFINE key == KeyFor(info[s], sk[s].daddr)
<1>1. /\ sk[s].st = "conn" /\ info' = info /\ mem' = mem /\ verdict' = NoVerdict
      /\ tw' = [tw EXCEPT ![t] = [there |-> TRUE, key |-> key]]
      /\ sk' = [sk EXCEPT ![s].st = "done"]
  BY DEF TimeWait
<1>2. sk[s].daddr \in Addrs
  BY SMTT(40), <1>1 DEF IInv, SockInv
<1>3. key \in Keys \cup {NoKey} /\ key = map[s][peer[s]]
  BY <1>2, KeyType DEF IInv, KeyFor, map, MapOf, peer
<1> HIDE DEF key
<1>4. SockInv'
  BY <1>1, <1>3 DEF IInv, SockInv, Alive
<1>5. twkey' = [twkey EXCEPT ![t] = map[s][peer[s]]] /\ peer' = peer /\ map' = map /\ peer[s] \in Addrs
  BY ZenonT(40), <1>1, <1>2, <1>3 DEF peer, twkey, map, IInv, SockInv
<1>6. QED
  BY ZenonT(40), <1>1, <1>4, <1>5 DEF IInv, M!Next, M!TimeWait, M!NoVerdict, NoVerdict, map, peer, twkey, MapOf, KeyFor

LEMMA TwskDestructorStep ==
    ASSUME IInv, NEW t \in Tws, TwskDestructor(t)
    PROVE  IInv' /\ M!Next
<1>1. sk' = sk /\ info' = info /\ mem' = mem /\ verdict' = NoVerdict /\ tw' = [tw EXCEPT ![t] = NoTw]
  BY DEF TwskDestructor
<1>2. SockInv'
  BY <1>1 DEF IInv, SockInv, NoTw
<1>3. twkey' = [twkey EXCEPT ![t] = NoKey] /\ peer' = peer /\ map' = map
  BY ZenonT(40), <1>1 DEF peer, twkey, map, IInv, SockInv, NoTw
<1>4. QED
  BY ZenonT(40), <1>1, <1>2, <1>3 DEF IInv, M!Next, M!EndTimeWait, M!NoVerdict, NoVerdict, map, peer, twkey, MapOf, KeyFor

LEMMA DestroySockStep ==
    ASSUME IInv, NEW s \in Socks, DestroySock(s)
    PROVE  IInv' /\ M!Next
<1>1. /\ info' = [info EXCEPT ![s] = NoInfo] /\ sk' = [sk EXCEPT ![s] = Unused] /\ tw' = tw
      /\ mem' = [q \in Objs |-> IF q \in Held(info[s]) THEN NoKey ELSE mem[q]] /\ verdict' = NoVerdict
  BY DEF DestroySock
<1>2. Clearing(info, mem, info', mem', s)
  BY SMTT(40), <1>1 DEF Clearing, IInv
<1>3. /\ Lists(info', mem')
      /\ \A r \in Socks, b \in Addrs : KeyIn(mem', info'[r], b) = IF r = s THEN NoKey ELSE KeyIn(mem, info[r], b)
  BY ONLY <1>2, ClearStep
<1>4. map' = [map EXCEPT ![s] = [b \in Addrs |-> NoKey]]
  BY ZenonT(40), <1>3 DEF map, MapOf
<1>5. SockInv'
  BY <1>1, NoneAssumption DEF IInv, SockInv, Unused, Alive, Lists
<1>6. peer' = [peer EXCEPT ![s] = NoAddr] /\ twkey' = twkey
  BY ZenonT(40), <1>1 DEF peer, twkey, IInv, SockInv, Unused
<1>7. M!Destroy(s)
  BY SMTT(40), <1>1, <1>4, <1>6 DEF M!Destroy, M!NoKeys, M!NoVerdict, NoVerdict, map, peer, twkey, MapOf, KeyFor
<1>8. QED
  BY SMTT(40), <1>3, <1>5, <1>7 DEF IInv, M!Next

LEMMA SegmentStep ==
    ASSUME IInv, NEW s \in Socks, NEW a \in Addrs, NEW sig \in Keys \cup {NoKey}, Segment(s, a, sig)
    PROVE  IInv' /\ M!Next
<1>1. PICK hashed \in BOOLEAN :
        verdict' = [sk |-> s, from |-> a, sig |-> sig, taken |-> Takes(s, a, sig, hashed)]
  BY DEF Segment
<1>2. sk' = sk /\ info' = info /\ mem' = mem /\ tw' = tw
  BY DEF Segment
<1>3. IInv'
  BY <1>2 DEF IInv, SockInv
<1>4. map' = map /\ peer' = peer /\ twkey' = twkey
  BY <1>2 DEF map, peer, twkey
<1> DEFINE taken == Takes(s, a, sig, hashed)
<1>5. taken \in BOOLEAN
  BY DEF Takes
<1>6. map[s][a] = KeyFor(info[s], a) /\ (map[s][a] = NoKey <=> SlotsFor(info[s], a) = {})
  BY SMTT(40), KeyType DEF map, MapOf, KeyFor, IInv
<1>7. /\ taken => sig = map[s][a]
      /\ map[s][a] = NoKey /\ sig = NoKey => taken
  BY SMTT(40), <1>6 DEF Takes
<1> HIDE DEF taken
<1>8. M!Segment(s, a, sig)
  BY SMTT(40), <1>1, <1>4, <1>5, <1>7 DEF M!Segment, map, peer, twkey, MapOf, KeyFor, taken
<1>9. QED
  BY SMTT(40), <1>3, <1>8 DEF M!Next

\* Every step keeps the invariant and is a step of KeyMap, or changes nothing.
LEMMA Step == IInv /\ [Next]_vars => IInv' /\ [M!Next]_(M!vars)
<1> SUFFICES ASSUME IInv, [Next]_vars PROVE IInv' /\ [M!Next]_(M!vars)
  BY SMTT(40)
<1>1. CASE Next
  BY SMTT(40), <1>1, SetKeyStep, DelKeyStep, SocketStep, ConnectStep, SynRecvSockStep, TimeWaitStep,
     TwskDestructorStep, DestroySockStep, SegmentStep DEF Next
<1>2. CASE UNCHANGED vars
  <2>1. IInv'
    BY <1>2 DEF vars, IInv, SockInv
  <2>2. UNCHANGED M!vars
    BY SMTT(40), <1>2 DEF vars, M!vars, KeyFor
  <2>3. QED
    BY SMTT(40), <2>1, <2>2
<1>3. QED
  BY <1>1, <1>2

LEMMA InitAbstract == Init => M!Init
<1> SUFFICES ASSUME Init PROVE M!Init
  OBVIOUS
<1>1. \A s \in Socks, a \in Addrs : KeyFor(info[s], a) = NoKey
  BY NoInfoGood, KeyOfNone DEF Init, KeyFor
<1>2. QED
  BY SMTT(40), <1>1 DEF Init, M!Init, M!NoKeys, M!NoVerdict, NoVerdict, Unused, NoTw

-----------------------------------------------------------------------------
(* The theorems. *)

\* The arrays of keys implement the map of RFC 2385, for every number of sockets, peers
\* and keys: setting, deleting, inheriting and copying keys, and the verdict on segments
\* (tcp_v4_md5_do_add, tcp_v4_md5_do_del, tcp_v4_inbound_md5_hash).
THEOREM KeysImplementMap == Spec => KeysAsMap
<1>1. Init => IInv /\ M!Init
  BY InitInv, InitAbstract
<1>2. IInv /\ [Next]_vars => IInv' /\ [M!Next]_(M!vars)
  BY Step
<1>3. QED
  BY <1>1, <1>2, PTL DEF Spec, KeysAsMap, M!Spec

\* Key memory is owned once, always: no key is freed twice, used after it is freed or
\* lost, whichever allocation fails (kfree in tcp_v4_md5_do_add, tcp_v4_md5_do_del and
\* tcp_v4_clear_md5_list).
THEOREM KeysAlwaysOwnedOnce == Spec => []KeysOwnedOnce
<1>1. Init => IInv
  BY InitInv
<1>2. IInv /\ [Next]_vars => IInv'
  BY SMTT(40), Step
<1>3. IInv => KeysOwnedOnce
  <2> SUFFICES ASSUME IInv PROVE KeysOwnedOnce
    BY SMTT(40)
  <2>1. {o \in Objs : mem[o] # NoKey} = UNION {Held(info[s]) : s \in Socks}
    <3>1. ASSUME NEW o \in Objs, mem[o] # NoKey
          PROVE  o \in UNION {Held(info[s]) : s \in Socks}
      BY SMTT(40), <3>1 DEF IInv, Lists, Held, Obj
    <3>2. ASSUME NEW s \in Socks, NEW i \in Used(info[s])
          PROVE  info[s].keys4[i].key \in Objs /\ mem[info[s].keys4[i].key] # NoKey
      BY SMTT(40), SlotType DEF IInv, Lists, Obj
    <3>3. QED
      BY SMTT(40), <3>1, <3>2 DEF Held
  <2>2. QED
    BY <2>1 DEF KeysOwnedOnce, IInv, Lists, Obj
<1>4. QED
  BY <1>1, <1>2, <1>3, PTL DEF Spec

\* No list ever has two slots for an address (tcp_v4_md5_do_add looks before it adds).
THEOREM SlotsAlwaysUnique == Spec => []OneSlotEach
<1>1. Init => IInv
  BY InitInv
<1>2. IInv /\ [Next]_vars => IInv'
  BY Step
<1>3. IInv => OneSlotEach
  BY DEF IInv, Lists, Good, Distinct, OneSlotEach
<1>4. QED
  BY <1>1, <1>2, <1>3, PTL DEF Spec

-----------------------------------------------------------------------------
(* The users of the pool. *)

\* The sockets with a key and the TIME_WAIT sockets with one.
Holders == {s \in Socks : info[s].entries4 > 0}

TwHolders == {t \in Tws : tw[t].key # NoKey}

PoolInv ==
    /\ PoolExact
    /\ \A t \in Tws : ~tw[t].there => tw[t].key = NoKey

\* Adding an element to a finite set counts once, and so does taking one out.
LEMMA CountIn ==
    ASSUME NEW S, IsFiniteSet(S), NEW x, x \notin S
    PROVE  Cardinality(S \cup {x}) = Cardinality(S) + 1
BY FS_AddElement

LEMMA CountOut ==
    ASSUME NEW S, IsFiniteSet(S), NEW x, x \in S
    PROVE  Cardinality(S \ {x}) = Cardinality(S) - 1
BY FS_RemoveElement

LEMMA HoldersFinite ==
    /\ IsFiniteSet(Holders) /\ Cardinality(Holders) \in Nat
    /\ IsFiniteSet(TwHolders) /\ Cardinality(TwHolders) \in Nat
<1>1. IsFiniteSet(Holders) /\ IsFiniteSet(TwHolders)
  BY SMTT(40), FiniteAssumption, FS_Subset DEF Holders, TwHolders
<1>2. QED
  BY SMTT(40), <1>1, FS_CardinalityType

LEMMA PoolCount == PoolExact <=> users = Cardinality(Holders) + Cardinality(TwHolders)
BY SMTT(40) DEF PoolExact, Holders, TwHolders

\* tcp_v4_md5_do_add holds the pool once per list.
LEMMA AddCounts ==
    ASSUME Lists(info, mem), PoolExact, NEW s \in Socks, NEW a \in Addrs, NEW k \in Keys, NEW o \in FreeObjs,
           tcp_v4_md5_do_add(s, info[s], [mem EXCEPT ![o] = k], a, o), tw' = tw
    PROVE  PoolExact'
<1>0. o \in Objs /\ Good(info[s]) /\ info[s].entries4 \in Nat /\ TwHolders' = TwHolders
  BY DEF FreeObjs, Lists, Good, InfoType, TwHolders
<1>1. CASE Update(s, info[s], [mem EXCEPT ![o] = k], a, o)
  <2> DEFINE n == tcp_v4_md5_do_lookup(info[s], a)
  <2>1. n \in Used(info[s])
    BY SMTT(40), <1>0, <1>1, LookupSlot DEF Update
  <2>2. info' = [info EXCEPT ![s] = Updated(info[s], n, o)] /\ users' = users
    BY SMTT(40), <1>1 DEF Update
  <2>3. Updated(info[s], n, o).entries4 = info[s].entries4
    BY DEF Updated
  <2> HIDE DEF n
  <2>4. Holders' = Holders
    BY SMTT(40), <2>2, <2>3 DEF Holders, Lists
  <2>5. QED
    BY ZenonT(40), <1>0, <2>2, <2>4, PoolCount DEF PoolExact, Holders, TwHolders
<1>2. CASE AddFails(s, info[s], [mem EXCEPT ![o] = k], a, o)
  <2>1. info' = info /\ users' = users
    BY SMTT(40), <1>2 DEF AddFails, Lists
  <2>2. QED
    BY SMTT(40), <2>1 DEF PoolExact
<1>3. CASE AddSlot(s, info[s], [mem EXCEPT ![o] = k], a, o)
  <2> DEFINE new == Appended(info[s], [addr |-> a, key |-> o])
  <2>1. new.entries4 = info[s].entries4 + 1
    BY SMTT(40) DEF Appended
  <2>2. info' = [info EXCEPT ![s] = new] /\ users' = IF info[s].entries4 = 0 THEN users + 1 ELSE users
    BY SMTT(40), <1>3 DEF AddSlot
  <2> HIDE DEF new
  <2>3. Holders' = Holders \cup {s} /\ (s \in Holders <=> info[s].entries4 # 0)
    BY SMTT(40), <1>0, <2>1, <2>2 DEF Holders, Lists
  <2>4. Cardinality(Holders') = Cardinality(Holders) + (IF info[s].entries4 = 0 THEN 1 ELSE 0)
    <3>1. CASE info[s].entries4 = 0
      BY SMTT(40), <2>3, <3>1, HoldersFinite, CountIn
    <3>2. CASE info[s].entries4 # 0
      <4>1. Holders' = Holders
        BY SMTT(40), <2>3, <3>2
      <4>2. QED
        BY SMTT(40), <3>2, <4>1, HoldersFinite
    <3>3. QED
      BY SMTT(40), <3>1, <3>2
  <2>5. users' = Cardinality(Holders') + Cardinality(TwHolders')
    BY SMTT(40), <1>0, <2>2, <2>4, PoolCount, HoldersFinite
  <2>6. QED
    BY SMTT(40), <2>5 DEF PoolExact, Holders, TwHolders
<1>4. QED
  BY SMTT(40), <1>1, <1>2, <1>3 DEF tcp_v4_md5_do_add

\* The pool has the users it counts, always: it is there whenever a key is found, so the
\* BUG() of tcp_time_wait is never reached.
THEOREM PoolAlwaysExact == Spec => []PoolExact
<1>1. Init => IInv /\ PoolInv
  <2> SUFFICES ASSUME Init PROVE PoolInv
    BY SMTT(40), InitInv
  <2>1. Holders = {} /\ TwHolders = {} /\ users = 0
    BY DEF Init, Holders, TwHolders, NoInfo, NoTw
  <2>2. Cardinality({}) = 0
    BY FS_EmptySet
  <2>3. PoolExact
    BY SMTT(40), <2>1, <2>2, PoolCount
  <2>4. QED
    BY <2>3 DEF PoolInv, Init, NoTw
<1>2. IInv /\ PoolInv /\ [Next]_vars => IInv' /\ PoolInv'
  <2> SUFFICES ASSUME IInv, PoolInv, [Next]_vars PROVE PoolInv'
    BY SMTT(40), Step
  <2>0. PoolExact /\ Lists(info, mem) /\ tw \in [Tws -> [there : BOOLEAN, key : Keys \cup {NoKey}]]
    BY DEF IInv, PoolInv, SockInv
  <2>1. ASSUME NEW s \in Socks, NEW a \in Addrs, NEW k \in Keys, SetKey(s, a, k)
        PROVE  PoolInv'
    <3>1. PICK o \in FreeObjs : tcp_v4_md5_do_add(s, info[s], [mem EXCEPT ![o] = k], a, o)
      BY SMTT(40), <2>1 DEF SetKey
    <3>2. tw' = tw
      BY SMTT(40), <2>1 DEF SetKey
    <3>3. PoolExact'
      BY SMTT(40), <2>0, <3>1, <3>2, AddCounts
    <3>4. QED
      BY SMTT(40), <3>2, <3>3 DEF PoolInv
  <2>2. ASSUME NEW s \in Socks, NEW a \in Addrs, DelKey(s, a)
        PROVE  PoolInv'
    <3> DEFINE n == tcp_v4_md5_do_lookup(info[s], a)
    <3>1. n \in Used(info[s]) /\ Good(info[s])
      BY SMTT(40), <2>0, <2>2, LookupSlot DEF DelKey, Lists
    <3>2. /\ info' = [info EXCEPT ![s] = Removed(info[s], n)] /\ tw' = tw
          /\ users' = IF info[s].entries4 = 1 THEN users - 1 ELSE users
      BY SMTT(40), <2>2 DEF DelKey
    <3> HIDE DEF n
    <3>3. Removed(info[s], n).entries4 = info[s].entries4 - 1 /\ info[s].entries4 \in Nat /\ info[s].entries4 > 0
      BY SMTT(40), <3>1, RemoveGood DEF Good, InfoType, Used
    <3>4. s \in Holders /\ TwHolders' = TwHolders
          /\ Holders' = IF info[s].entries4 = 1 THEN Holders \ {s} ELSE Holders
      BY SMTT(40), <2>0, <3>2, <3>3 DEF Holders, TwHolders, Lists
    <3>5. Cardinality(Holders') = Cardinality(Holders) - (IF info[s].entries4 = 1 THEN 1 ELSE 0)
      <4>1. CASE info[s].entries4 = 1
        BY SMTT(40), <3>4, <4>1, HoldersFinite, CountOut
      <4>2. CASE info[s].entries4 # 1
        <5>1. Holders' = Holders
          BY SMTT(40), <3>4, <4>2
        <5>2. QED
          BY SMTT(40), <4>2, <5>1, HoldersFinite
      <4>3. QED
        BY SMTT(40), <4>1, <4>2
    <3>6. users' = Cardinality(Holders') + Cardinality(TwHolders')
      BY SMTT(40), <2>0, <3>2, <3>4, <3>5, PoolCount, HoldersFinite
    <3>7. QED
      BY SMTT(40), <3>2, <3>6 DEF PoolInv, PoolExact, Holders, TwHolders
  <2>3. ASSUME NEW l \in Socks, NEW c \in Socks, NEW a \in Addrs, SynRecvSock(l, c, a)
        PROVE  PoolInv'
    <3>1. info[c] = NoInfo /\ tw' = tw
      BY SMTT(40), <2>3 DEF SynRecvSock, IInv, SockInv
    <3>2. CASE info' = [info EXCEPT ![c] = ChildInfo(l)] /\ users' = users
      <4>1. info' = info
        BY SMTT(40), <2>0, <3>1, <3>2 DEF ChildInfo, Lists
      <4>2. QED
        BY SMTT(40), <3>1, <3>2, <4>1 DEF PoolInv, PoolExact
    <3>3. CASE /\ SlotsFor(info[l], a) # {}
               /\ \E o \in FreeObjs :
                     tcp_v4_md5_do_add(c, ChildInfo(l), [mem EXCEPT ![o] = KeyFor(info[l], a)], a, o)
      <4> DEFINE k == KeyFor(info[l], a)
      <4>1. k \in Keys
        BY SMTT(40), <2>0, <3>3, KeyType DEF KeyFor
      <4> HIDE DEF k
      <4>2. PICK o \in FreeObjs : tcp_v4_md5_do_add(c, info[c], [mem EXCEPT ![o] = k], a, o)
        BY <3>1, <3>3 DEF ChildInfo, k
      <4>3. PoolExact'
        BY SMTT(40), <2>0, <3>1, <4>1, <4>2, AddCounts
      <4>4. QED
        BY SMTT(40), <3>1, <4>3 DEF PoolInv
    <3>4. QED
      BY SMTT(40), <2>3, <3>2, <3>3 DEF SynRecvSock
  <2>4. ASSUME NEW s \in Socks, NEW t \in Tws, TimeWait(s, t)
        PROVE  PoolInv'
    <3> DEFINE key == KeyFor(info[s], sk[s].daddr)
    <3>1. /\ info' = info /\ tw' = [tw EXCEPT ![t] = [there |-> TRUE, key |-> key]]
          /\ users' = users + TwUsers(key) /\ ~tw[t].there
      BY SMTT(40), <2>4 DEF TimeWait
    <3> HIDE DEF key
    <3>2. t \notin TwHolders /\ Holders' = Holders
          /\ TwHolders' = IF key = NoKey THEN TwHolders ELSE TwHolders \cup {t}
      BY SMTT(40), <2>0, <3>1 DEF PoolInv, TwHolders, Holders
    <3>3. Cardinality(TwHolders') = Cardinality(TwHolders) + TwUsers(key)
      <4>1. CASE key = NoKey
        <5>1. TwHolders' = TwHolders
          BY SMTT(40), <3>2, <4>1
        <5>2. QED
          BY <4>1, <5>1, HoldersFinite DEF TwUsers
      <4>2. CASE key # NoKey
        BY SMTT(40), <3>2, <4>2, HoldersFinite, CountIn DEF TwUsers
      <4>3. QED
        BY <4>1, <4>2
    <3>4. users' = Cardinality(Holders') + Cardinality(TwHolders')
      BY SMTT(40), <2>0, <3>1, <3>2, <3>3, PoolCount, HoldersFinite DEF TwUsers
    <3>5. \A u \in Tws : ~tw'[u].there => tw'[u].key = NoKey
      BY SMTT(40), <2>0, <3>1 DEF PoolInv
    <3>6. QED
      BY <3>4, <3>5 DEF PoolInv, PoolExact, Holders, TwHolders
  <2>5. ASSUME NEW t \in Tws, TwskDestructor(t)
        PROVE  PoolInv'
    <3>1. info' = info /\ tw' = [tw EXCEPT ![t] = NoTw] /\ users' = users - TwUsers(tw[t].key)
      BY SMTT(40), <2>5 DEF TwskDestructor
    <3>2. Holders' = Holders /\ TwHolders' = TwHolders \ {t} /\ (t \in TwHolders <=> tw[t].key # NoKey)
      BY SMTT(40), <2>0, <3>1 DEF TwHolders, Holders, NoTw
    <3>3. Cardinality(TwHolders') = Cardinality(TwHolders) - TwUsers(tw[t].key)
      <4>1. CASE tw[t].key = NoKey
        <5>1. TwHolders' = TwHolders
          BY SMTT(40), <3>2, <4>1
        <5>2. QED
          BY SMTT(40), <4>1, <5>1, HoldersFinite DEF TwUsers
      <4>2. CASE tw[t].key # NoKey
        BY SMTT(40), <3>2, <4>2, HoldersFinite, CountOut DEF TwUsers
      <4>3. QED
        BY SMTT(40), <4>1, <4>2
    <3>4. users' = Cardinality(Holders') + Cardinality(TwHolders')
      BY SMTT(40), <2>0, <3>1, <3>2, <3>3, PoolCount, HoldersFinite DEF TwUsers
    <3>5. \A u \in Tws : ~tw'[u].there => tw'[u].key = NoKey
      BY SMTT(40), <2>0, <3>1 DEF PoolInv, NoTw
    <3>6. QED
      BY SMTT(40), <3>4, <3>5 DEF PoolInv, PoolExact, Holders, TwHolders
  <2>6. ASSUME NEW s \in Socks, DestroySock(s)
        PROVE  PoolInv'
    <3>1. /\ info' = [info EXCEPT ![s] = NoInfo] /\ tw' = tw
          /\ users' = IF info[s].entries4 > 0 THEN users - 1 ELSE users
      BY SMTT(40), <2>6 DEF DestroySock
    <3>2. TwHolders' = TwHolders /\ Holders' = Holders \ {s} /\ (s \in Holders <=> info[s].entries4 > 0)
      BY SMTT(40), <2>0, <3>1 DEF Holders, TwHolders, NoInfo, Lists
    <3>3. Cardinality(Holders') = Cardinality(Holders) - (IF info[s].entries4 > 0 THEN 1 ELSE 0)
      <4>1. CASE info[s].entries4 > 0
        BY SMTT(40), <3>2, <4>1, HoldersFinite, CountOut
      <4>2. CASE ~(info[s].entries4 > 0)
        <5>1. Holders' = Holders
          BY SMTT(40), <3>2, <4>2
        <5>2. QED
          BY SMTT(40), <4>2, <5>1, HoldersFinite
      <4>3. QED
        BY SMTT(40), <4>1, <4>2
    <3>4. users' = Cardinality(Holders') + Cardinality(TwHolders')
      BY SMTT(40), <2>0, <3>1, <3>2, <3>3, PoolCount, HoldersFinite
    <3>5. QED
      BY SMTT(40), <3>1, <3>4 DEF PoolInv, PoolExact, Holders, TwHolders
  <2>7. ASSUME info' = info /\ tw' = tw /\ users' = users
        PROVE  PoolInv'
    BY <2>7 DEF PoolInv, PoolExact
  <2>8. QED
    BY SMTT(40), <2>1, <2>2, <2>3, <2>4, <2>5, <2>6, <2>7
       DEF Next, vars, Open, Listen, TimeWaitOverflow, Connect, Segment
<1>3. PoolInv => PoolExact
  BY DEF PoolInv
<1>4. QED
  BY <1>1, <1>2, <1>3, PTL DEF Spec

\* Keys and pool together: a key object is in one list or free, and the transform pool has
\* exactly the users it counts.
THEOREM OwnershipAlwaysExact == Spec => []OwnershipExact
<1>1. KeysOwnedOnce /\ PoolExact => OwnershipExact
  BY DEF OwnershipExact
<1>2. QED
  BY <1>1, KeysAlwaysOwnedOnce, PoolAlwaysExact, PTL
=============================================================================
