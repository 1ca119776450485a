------------------------- MODULE SocketFilesProofs -------------------------
(***************************************************************************)
(* Sockets, files, descriptors and the protocol module are accounted for,   *)
(* for any number of threads, sockets and descriptors.                      *)
(*                                                                         *)
(* A socket is in one of four phases, and the calls of the threads say      *)
(* which: raw in a create, made while it waits for its file, filed while    *)
(* there are references, absent otherwise.  KInv states this of a table     *)
(* alone, given what the threads have in hand; every operator on tables is  *)
(* shown to take KInv to KInv, and the actions are chains of operators.     *)
(***************************************************************************)
EXTENDS SocketFiles, FiniteSetTheorems, TLAPS

\* The back end of every leaf that names no other.
USE Zenon

SockType == [live : BOOLEAN, ops : BOOLEAN, sk : BOOLEAN, file : BOOLEAN, inode : Int]

KType == [sock : [Socks -> SockType], refs : [Socks -> Int], fd : [Fds -> Socks \cup {NoSock}],
          reserved : SUBSET Fds, in_use : Int, users : Int]

ThType == [pc : Pcs, held : Socks \cup {NoSock}, new : Socks \cup {NoSock},
           new2 : Socks \cup {NoSock}, newfd : Fds \cup {NoFd}, newfd2 : Fds \cup {NoFd},
           pair : BOOLEAN]

\* The phases.
Absent(r) == ~r.live /\ ~r.ops /\ ~r.file /\ r.inode = 0

Raw(r) == r.live /\ ~r.ops /\ ~r.file /\ r.inode = 1

Made(r) == r.live /\ r.ops /\ ~r.file /\ r.inode = 1

Filed(r) == r.live /\ r.ops /\ r.file /\ r.inode = 1

Phases(x, R, M) ==
    /\ R \subseteq Socks /\ M \subseteq Socks /\ R \cap M = {}
    /\ \A s \in R : Raw(x.sock[s]) /\ x.refs[s] = 0
    /\ \A s \in M : Made(x.sock[s]) /\ x.refs[s] = 0
    /\ \A s \in Socks \ (R \cup M) : \/ Absent(x.sock[s]) /\ x.refs[s] = 0
                                     \/ Filed(x.sock[s]) /\ x.refs[s] > 0

LiveIn(x) == {s \in Socks : x.sock[s].live}

\* Every live socket is counted once in sockets_in_use and once in the module's users:
\* by the call that creates it, then by its operations.
Counted(x) == x.in_use = Cardinality(LiveIn(x)) /\ x.users = Cardinality(LiveIn(x))

FdsTo(x, s) == {f \in Fds : x.fd[f] = s}

PendingTo(P, s) == {p \in P : p[2] = s}

HoldersOf(h, s) == {t \in Threads : Shared /\ h[t] = s}

\* f_count; e is the file whose reference somebody has in hand, about to put it.
RefAt(x, P, h, e, s) ==
    x.refs[s] = Cardinality(FdsTo(x, s)) + Cardinality(PendingTo(P, s))
                + Cardinality(HoldersOf(h, s)) + (IF s = e THEN 1 ELSE 0)

RefsOk(x, P, h, e) == \A s \in Socks : RefAt(x, P, h, e, s)

KInv(x, R, M, P, h, e) ==
    x \in KType /\ P \subseteq Fds \X Socks /\ Phases(x, R, M) /\ Counted(x) /\ RefsOk(x, P, h, e)

-----------------------------------------------------------------------------
\* What a call has in hand: sockets without a file, files without a descriptor.
RawOf(r) == IF r.pc = "create" THEN {r.new} ELSE {}

MadeOf(r) ==
    IF r.pc \in {"map", "second"} THEN {r.new} ELSE IF r.pc = "pair" THEN {r.new, r.new2} ELSE {}

PendingOf(r) ==
    IF r.pc \in {"install", "accept"} THEN {<<r.newfd, r.new>>}
    ELSE IF r.pc = "install1" THEN {<<r.newfd, r.new>>, <<r.newfd2, r.new2>>}
    ELSE IF r.pc = "install2" THEN {<<r.newfd2, r.new2>>}
    ELSE {}

FdsOf(r) == {p[1] : p \in PendingOf(r)}

\* The fields a call uses at each point are set.
Shape(r) ==
    /\ r.pc = "idle" => r = Idle
    /\ r.pc \in {"create", "map", "second", "pair", "install", "install1", "accept"} => r.new \in Socks
    /\ r.pc \in {"pair", "install1", "install2"} => r.new2 \in Socks
    /\ r.pc = "pair" => r.new # r.new2
    /\ r.pc \in {"install", "install1", "install2", "copyout", "accept"} => r.newfd \in Fds
    /\ r.pc \in {"install1", "install2", "copyout"} => r.newfd2 \in Fds
    /\ r.pc = "install1" => r.newfd # r.newfd2
    /\ r.pc \in {"accept", "call"} => r.held \in Socks
    /\ r.pc \notin {"accept", "call", "install"} => r.held = NoSock

AllRaw == UNION {RawOf(th[t]) : t \in Threads}

AllMade == UNION {MadeOf(th[t]) : t \in Threads}

Waiting == UNION {PendingOf(th[t]) : t \in Threads}

HeldNow == [t \in Threads |-> th[t].held]

\* Two calls have nothing in common that is not installed yet.
Separate ==
    \A t, u \in Threads :
        t # u => /\ (RawOf(th[t]) \cup MadeOf(th[t])) \cap (RawOf(th[u]) \cup MadeOf(th[u])) = {}
                 /\ FdsOf(th[t]) \cap FdsOf(th[u]) = {}

IInv ==
    /\ th \in [Threads -> ThType] /\ \A t \in Threads : Shape(th[t])
    /\ mod \in [live : BOOLEAN, family : BOOLEAN]
    /\ KInv(k, AllRaw, AllMade, Waiting, HeldNow, NoSock)
    /\ Separate
    /\ k.reserved = UNION {FdsOf(th[t]) : t \in Threads}
    /\ \A f \in k.reserved : k.fd[f] = NoSock
    /\ ~Shared => \A t \in Threads : th[t].held # NoSock => \E f \in Fds : k.fd[f] = th[t].held
    /\ LiveIn(k) # {} => mod.live /\ mod.family

-----------------------------------------------------------------------------
(* Tables and steps, named for the lemmas. *)

\* A table in which only the record of socket s differs, and the counters, by m and n.
Step(x, y, s, m, n) ==
    /\ y \in KType /\ y.refs = x.refs /\ y.fd = x.fd /\ y.reserved = x.reserved
    /\ \A u \in Socks \ {s} : y.sock[u] = x.sock[u]
    /\ y.in_use = x.in_use + m /\ y.users = x.users + n

\* One component of the table is given another value.
SetSock(x, s, v) == [x EXCEPT !.sock[s] = v]

SetOps(x, s, b) == [x EXCEPT !.sock[s].ops = b]

SetSk(x, s, b) == [x EXCEPT !.sock[s].sk = b]

SetFile(x, s, b) == [x EXCEPT !.sock[s].file = b]

SetRefs(x, g) == [x EXCEPT !.refs = g]

SetFd(x, g) == [x EXCEPT !.fd = g]

SetReserved(x, g) == [x EXCEPT !.reserved = g]

SetInUse(x, n) == [x EXCEPT !.in_use = n]

SetUsers(x, n) == [x EXCEPT !.users = n]

\* The descriptors point where they did, and f is reserved too.
FdsMore(x, y, f) == y.fd = x.fd /\ y.reserved = x.reserved \cup {f}

\* Descriptor f stands for a in x and for b in y; nothing else differs.
FdDiff(x, y, f, a, b) == x.fd[f] = a /\ y.fd[f] = b /\ \A g \in Fds \ {f} : y.fd[g] = x.fd[g]

\* Where a descriptor points.
FdIs(x, f, v) == x.fd[f] = v

\* What dup() does to the table.
DupTo(x, g, s) == [x EXCEPT !.fd[g] = s, !.refs[s] = @ + 1]

\* All descriptors but one point where they did, and the same ones are reserved.
RestSame(x, y, f) == y.reserved = x.reserved /\ \A u \in Fds \ {f} : y.fd[u] = x.fd[u]

\* The file thread t holds.
HoldsAt(h, t, s) == h \in [Threads -> Socks \cup {NoSock}] /\ h[t] = s

\* The descriptors point where they did, and gone are no longer reserved.
FdsSame(x, y, gone) == y.fd = x.fd /\ y.reserved = x.reserved \ gone

\* In y f_count of socket s is n, and nothing else differs.
RefsTo(x, y, s, n) ==
    /\ y \in KType /\ y.sock = x.sock /\ y.fd = x.fd /\ y.reserved = x.reserved
    /\ y.in_use = x.in_use /\ y.users = x.users
    /\ y.refs[s] = n /\ \A u \in Socks \ {s} : y.refs[u] = x.refs[u]
    /\ LiveIn(y) = LiveIn(x) /\ \A u : FdsTo(y, u) = FdsTo(x, u)
    /\ Counted(x) => Counted(y)
    /\ \A R, M : Phases(x, R, M) /\ Filed(x.sock[s]) /\ n > 0 => Phases(y, R, M)

\* The descriptors point where they did, and no socket is made.
Kept(x, y) == y.fd = x.fd /\ y.reserved = x.reserved /\ LiveIn(y) \subseteq LiveIn(x)

\* The sockets and the descriptors are as they were.
RefsOnly(x, y) ==
    y.sock = x.sock /\ y.fd = x.fd /\ y.reserved = x.reserved /\ LiveIn(y) = LiveIn(x)

\* In y the reserved numbers are g, and nothing else differs.
ReservedTo(x, y, g) ==
    y.sock = x.sock /\ y.fd = x.fd /\ y.reserved = g /\ LiveIn(y) = LiveIn(x)

\* One descriptor more stands for socket v, and no other socket is concerned.
OneMore(x, y, v) ==
    /\ Cardinality(FdsTo(y, v)) = Cardinality(FdsTo(x, v)) + 1
    /\ \A u \in Socks \ {v} : FdsTo(y, u) = FdsTo(x, u)

\* What the threads have in hand together.
UnionOf(T, F) == UNION {F[u] : u \in T}

\* Only what thread t has changes, and nobody else had any of it.
OnlyAt(T, t, F, G) == \A u \in T \ {t} : G[u] = F[u] /\ F[u] \cap F[t] = {}

\* What thread t has to show for its step, in which its call becomes r.
StepOk(t, r) ==
    /\ r \in ThType /\ Shape(r) /\ th' = [th EXCEPT ![t] = r] /\ mod' = mod
    /\ KInv(k', (AllRaw \ RawOf(th[t])) \cup RawOf(r), (AllMade \ MadeOf(th[t])) \cup MadeOf(r),
            (Waiting \ PendingOf(th[t])) \cup PendingOf(r), [HeldNow EXCEPT ![t] = r.held], NoSock)
    /\ \A s \in RawOf(r) \cup MadeOf(r) :
           s \in RawOf(th[t]) \cup MadeOf(th[t]) \/ (s \in Socks /\ ~k.sock[s].live)
    /\ \A f \in FdsOf(r) : f \in FdsOf(th[t]) \/ f \notin k.reserved
    /\ k'.reserved = (k.reserved \ FdsOf(th[t])) \cup FdsOf(r)
    /\ \A f \in k'.reserved : k'.fd[f] = NoSock
    /\ ~Shared /\ r.held # NoSock => \E f \in Fds : k'.fd[f] = r.held
    /\ LiveIn(k') # {} => mod.live /\ mod.family

-----------------------------------------------------------------------------
(* What a table and the calls in progress have in common, and what follows from it. *)

\* The record of a socket.
LEMMA SockRecord == \A x \in KType, s \in Socks : x.sock[s] \in SockType
  BY DEF KType

\* The sets that are counted are finite.
LEMMA Finite ==
    ASSUME NEW x, NEW P, P \subseteq Fds \X Socks, NEW h, NEW s
    PROVE  /\ IsFiniteSet(LiveIn(x)) /\ IsFiniteSet(FdsTo(x, s)) /\ IsFiniteSet(PendingTo(P, s))
           /\ IsFiniteSet(HoldersOf(h, s))
           /\ Cardinality(FdsTo(x, s)) \in Nat /\ Cardinality(PendingTo(P, s)) \in Nat
           /\ Cardinality(HoldersOf(h, s)) \in Nat /\ Cardinality(LiveIn(x)) \in Nat
  <1>1. IsFiniteSet(Fds) /\ IsFiniteSet(Socks) /\ IsFiniteSet(Threads)
    BY SocketConstants
  <1>2. IsFiniteSet(Fds \X Socks)
    BY <1>1, FS_Product
  <1>3. PendingTo(P, s) \subseteq Fds \X Socks
    BY DEF PendingTo
  <1>4. LiveIn(x) \subseteq Socks /\ FdsTo(x, s) \subseteq Fds /\ HoldersOf(h, s) \subseteq Threads
    BY DEF LiveIn, FdsTo, HoldersOf
  <1>5. /\ IsFiniteSet(LiveIn(x)) /\ IsFiniteSet(FdsTo(x, s)) /\ IsFiniteSet(PendingTo(P, s))
        /\ IsFiniteSet(HoldersOf(h, s))
    BY <1>1, <1>2, <1>3, <1>4, FS_Subset
  <1> QED BY <1>5, FS_CardinalityType

\* A socket that is not live is absent, and belongs to no call.
LEMMA NotLive ==
    ASSUME NEW x, NEW R, NEW M, Phases(x, R, M), NEW s \in Socks, ~x.sock[s].live
    PROVE  s \notin R /\ s \notin M /\ Absent(x.sock[s]) /\ x.refs[s] = 0
  BY DEF Phases, Raw, Made, Filed

\* Without another thread nobody counts as a holder.
LEMMA NoHolders == ~Shared => \A h, s : HoldersOf(h, s) = {}
  BY DEF HoldersOf

\* A socket to whose file somebody refers.
LEMMA Referred ==
    ASSUME NEW x, NEW R, NEW M, NEW P, NEW h, NEW e, KInv(x, R, M, P, h, e), NEW s \in Socks,
           FdsTo(x, s) # {} \/ PendingTo(P, s) # {} \/ HoldersOf(h, s) # {} \/ s = e
    PROVE  x.refs[s] > 0 /\ Filed(x.sock[s]) /\ s \notin R /\ s \notin M
  <1>1. P \subseteq Fds \X Socks /\ Phases(x, R, M) /\ RefsOk(x, P, h, e)
    BY DEF KInv
  <1> DEFINE a == Cardinality(FdsTo(x, s))
             b == Cardinality(PendingTo(P, s))
             c == Cardinality(HoldersOf(h, s))
  <1>2. /\ IsFiniteSet(FdsTo(x, s)) /\ IsFiniteSet(PendingTo(P, s)) /\ IsFiniteSet(HoldersOf(h, s))
        /\ a \in Nat /\ b \in Nat /\ c \in Nat
    BY <1>1, Finite
  <1>3. a # 0 \/ b # 0 \/ c # 0 \/ s = e
    BY <1>2, FS_EmptySet
  <1>4. x.refs[s] = a + b + c + (IF s = e THEN 1 ELSE 0)
    BY <1>1 DEF RefsOk, RefAt
  <1> HIDE DEF a, b, c
  <1>5. x.refs[s] > 0 /\ x.refs[s] # 0
    BY SMT, <1>2, <1>3, <1>4
  <1> QED BY <1>1, <1>5 DEF Phases

\* A socket that a call is making, or that a descriptor or a call refers to, is live,
\* so the module is there.
LEMMA ModuleThere ==
    ASSUME IInv, NEW s \in Socks, s \in AllRaw \/ s \in AllMade \/ FdsTo(k, s) # {} \/ PendingTo(Waiting, s) # {}
    PROVE  mod.live /\ mod.family
  <1>1. KInv(k, AllRaw, AllMade, Waiting, HeldNow, NoSock)
    BY DEF IInv
  <1>2. k.sock[s].live
    <2>1. CASE s \in AllRaw \/ s \in AllMade
      BY <1>1, <2>1 DEF KInv, Phases, Raw, Made
    <2>2. CASE FdsTo(k, s) # {} \/ PendingTo(Waiting, s) # {}
      BY <1>1, <2>2, Referred DEF Filed
    <2> QED BY <2>1, <2>2
  <1> QED BY <1>2 DEF IInv, LiveIn

-----------------------------------------------------------------------------
(* The calls: a step of one thread, judged by what it has in hand before and after. *)

\* The union of what the threads have changes with what one of them has.
LEMMA UnionMoves ==
    ASSUME NEW T, NEW F, NEW G, NEW t \in T, OnlyAt(T, t, F, G)
    PROVE  UnionOf(T, G) = (UnionOf(T, F) \ F[t]) \cup G[t]
  <1>1. \A s : s \in UnionOf(T, G) <=> \E u \in T : s \in G[u]
    BY DEF UnionOf
  <1>2. \A s : s \in UnionOf(T, F) <=> \E u \in T : s \in F[u]
    BY DEF UnionOf
  <1>3. \A s : s \in UnionOf(T, G) <=> s \in (UnionOf(T, F) \ F[t]) \cup G[t]
    BY <1>1, <1>2 DEF OnlyAt
  <1> QED BY <1>3

\* One thread has the table to itself.
LEMMA Alone == ~Shared => \A t, u \in Threads : t = u
  <1> SUFFICES ASSUME NEW t \in Threads, NEW u \in Threads, t # u
               PROVE  Shared
    OBVIOUS
  <1>1. IsFiniteSet(Threads) /\ IsFiniteSet(Threads \ {t})
    BY SocketConstants, FS_RemoveElement
  <1>2. Cardinality(Threads \ {t}) = Cardinality(Threads) - 1
    BY <1>1, FS_RemoveElement
  <1>3. u \in Threads \ {t} /\ Threads \ {t} # {}
    OBVIOUS
  <1>4. Cardinality(Threads \ {t}) # 0 /\ Cardinality(Threads \ {t}) \in Nat /\ Cardinality(Threads) \in Nat
    BY <1>1, <1>3, FS_EmptySet, FS_CardinalityType
  <1> QED BY SMT, <1>2, <1>4 DEF Shared

\* That is enough.
LEMMA StepKeeps ==
    ASSUME IInv, NEW t \in Threads, NEW r, StepOk(t, r)
    PROVE  IInv'
  <1>1. th \in [Threads -> ThType] /\ r \in ThType /\ th' = [th EXCEPT ![t] = r]
    BY DEF IInv, StepOk
  <1>2. th' \in [Threads -> ThType] /\ th'[t] = r /\ \A u \in Threads \ {t} : th'[u] = th[u]
    BY <1>1
  <1>3. \A u \in Threads \ {t} :
            /\ RawOf(th[u]) \cap RawOf(th[t]) = {} /\ MadeOf(th[u]) \cap MadeOf(th[t]) = {}
            /\ FdsOf(th[u]) \cap FdsOf(th[t]) = {}
    <2> SUFFICES ASSUME NEW u \in Threads \ {t}
                 PROVE  /\ RawOf(th[u]) \cap RawOf(th[t]) = {} /\ MadeOf(th[u]) \cap MadeOf(th[t]) = {}
                        /\ FdsOf(th[u]) \cap FdsOf(th[t]) = {}
      OBVIOUS
    <2>1. /\ (RawOf(th[u]) \cup MadeOf(th[u])) \cap (RawOf(th[t]) \cup MadeOf(th[t])) = {}
          /\ FdsOf(th[u]) \cap FdsOf(th[t]) = {}
      BY DEF IInv, Separate
    <2> QED BY <2>1
  <1>4. \A u \in Threads \ {t} : PendingOf(th[u]) \cap PendingOf(th[t]) = {}
    <2> SUFFICES ASSUME NEW u \in Threads \ {t}, NEW p \in PendingOf(th[u]), p \in PendingOf(th[t])
                 PROVE  FALSE
      OBVIOUS
    <2>1. p[1] \in FdsOf(th[u]) /\ p[1] \in FdsOf(th[t])
      BY DEF FdsOf
    <2> QED BY <1>3, <2>1
  <1>5. AllRaw' = (AllRaw \ RawOf(th[t])) \cup RawOf(r)
    <2> DEFINE F == [u \in Threads |-> RawOf(th[u])]
               G == [u \in Threads |-> RawOf(th'[u])]
    <2>1. OnlyAt(Threads, t, F, G)
      BY <1>2, <1>3 DEF OnlyAt
    <2>2. UnionOf(Threads, G) = (UnionOf(Threads, F) \ F[t]) \cup G[t]
      <3> HIDE DEF F, G
      <3> QED BY SMT, <2>1, UnionMoves
    <2>3. AllRaw' = UnionOf(Threads, G) /\ AllRaw = UnionOf(Threads, F)
      <3>1. {G[u] : u \in Threads} = {RawOf(th'[u]) : u \in Threads}
        OBVIOUS
      <3>2. {F[u] : u \in Threads} = {RawOf(th[u]) : u \in Threads}
        OBVIOUS
      <3> QED BY <3>1, <3>2 DEF AllRaw, UnionOf, RawOf
    <2>4. F[t] = RawOf(th[t]) /\ G[t] = RawOf(r)
      BY <1>2
    <2> HIDE DEF F, G
    <2> QED BY <2>2, <2>3, <2>4
  <1>6. AllMade' = (AllMade \ MadeOf(th[t])) \cup MadeOf(r)
    <2> DEFINE F == [u \in Threads |-> MadeOf(th[u])]
               G == [u \in Threads |-> MadeOf(th'[u])]
    <2>1. OnlyAt(Threads, t, F, G)
      BY <1>2, <1>3, <1>4 DEF OnlyAt
    <2>2. UnionOf(Threads, G) = (UnionOf(Threads, F) \ F[t]) \cup G[t]
      <3> HIDE DEF F, G
      <3> QED BY SMT, <2>1, UnionMoves
    <2>3. AllMade' = UnionOf(Threads, G) /\ AllMade = UnionOf(Threads, F)
      <3>1. {G[u] : u \in Threads} = {MadeOf(th'[u]) : u \in Threads}
        OBVIOUS
      <3>2. {F[u] : u \in Threads} = {MadeOf(th[u]) : u \in Threads}
        OBVIOUS
      <3> QED BY <3>1, <3>2 DEF AllMade, UnionOf, MadeOf
    <2>4. F[t] = MadeOf(th[t]) /\ G[t] = MadeOf(r)
      BY <1>2
    <2> HIDE DEF F, G
    <2> QED BY <2>2, <2>3, <2>4
  <1>7. Waiting' = (Waiting \ PendingOf(th[t])) \cup PendingOf(r)
    <2> DEFINE F == [u \in Threads |-> PendingOf(th[u])]
               G == [u \in Threads |-> PendingOf(th'[u])]
    <2>1. OnlyAt(Threads, t, F, G)
      BY <1>2, <1>3, <1>4 DEF OnlyAt
    <2>2. UnionOf(Threads, G) = (UnionOf(Threads, F) \ F[t]) \cup G[t]
      <3> HIDE DEF F, G
      <3> QED BY SMT, <2>1, UnionMoves
    <2>3. Waiting' = UnionOf(Threads, G) /\ Waiting = UnionOf(Threads, F)
      <3>1. {G[u] : u \in Threads} = {PendingOf(th'[u]) : u \in Threads}
        OBVIOUS
      <3>2. {F[u] : u \in Threads} = {PendingOf(th[u]) : u \in Threads}
        OBVIOUS
      <3> QED BY <3>1, <3>2 DEF Waiting, UnionOf, PendingOf
    <2>4. F[t] = PendingOf(th[t]) /\ G[t] = PendingOf(r)
      BY <1>2
    <2> HIDE DEF F, G
    <2> QED BY <2>2, <2>3, <2>4
  <1>8. UNION {FdsOf(th'[u]) : u \in Threads} = ((UNION {FdsOf(th[u]) : u \in Threads}) \ FdsOf(th[t])) \cup FdsOf(r)
    <2> DEFINE F == [u \in Threads |-> FdsOf(th[u])]
               G == [u \in Threads |-> FdsOf(th'[u])]
    <2>1. OnlyAt(Threads, t, F, G)
      BY <1>2, <1>3, <1>4 DEF OnlyAt
    <2>2. UnionOf(Threads, G) = (UnionOf(Threads, F) \ F[t]) \cup G[t]
      <3> HIDE DEF F, G
      <3> QED BY SMT, <2>1, UnionMoves
    <2>3. /\ UnionOf(Threads, G) = UNION {FdsOf(th'[u]) : u \in Threads}
          /\ UnionOf(Threads, F) = UNION {FdsOf(th[u]) : u \in Threads}
      <3>1. /\ {G[u] : u \in Threads} = {FdsOf(th'[u]) : u \in Threads}
            /\ {F[u] : u \in Threads} = {FdsOf(th[u]) : u \in Threads}
        OBVIOUS
      <3> QED BY <3>1 DEF UnionOf
    <2>4. F[t] = FdsOf(th[t]) /\ G[t] = FdsOf(r)
      BY <1>2
    <2> HIDE DEF F, G
    <2> QED BY <2>2, <2>3, <2>4
  <1>9. HeldNow' = [HeldNow EXCEPT ![t] = r.held]
    <2>1. \A u \in Threads : th'[u].held = [HeldNow EXCEPT ![t] = r.held][u]
      BY <1>2 DEF HeldNow
    <2>2. HeldNow' = [u \in Threads |-> th'[u].held]
      BY DEF HeldNow
    <2> QED BY <2>1, <2>2 DEF HeldNow
  <1>10. KInv(k', AllRaw', AllMade', Waiting', HeldNow', NoSock)
    BY <1>5, <1>6, <1>7, <1>9 DEF StepOk
  <1>11. Separate'
    <2>1. \A s \in Socks : ~k.sock[s].live => \A u \in Threads : s \notin RawOf(th[u]) /\ s \notin MadeOf(th[u])
      <3> SUFFICES ASSUME NEW s \in Socks, ~k.sock[s].live, NEW u \in Threads
                   PROVE  s \notin RawOf(th[u]) /\ s \notin MadeOf(th[u])
        OBVIOUS
      <3>1. Phases(k, AllRaw, AllMade)
        BY DEF IInv, KInv
      <3>2. s \notin AllRaw /\ s \notin AllMade
        BY <3>1, NotLive
      <3> QED BY <3>2 DEF AllRaw, AllMade
    <2>2. \A u \in Threads \ {t} : (RawOf(r) \cup MadeOf(r)) \cap (RawOf(th[u]) \cup MadeOf(th[u])) = {}
      <3> SUFFICES ASSUME NEW u \in Threads \ {t}, NEW s \in RawOf(r) \cup MadeOf(r),
                          s \in RawOf(th[u]) \cup MadeOf(th[u])
                   PROVE  FALSE
        OBVIOUS
      <3>1. (RawOf(th[u]) \cup MadeOf(th[u])) \cap (RawOf(th[t]) \cup MadeOf(th[t])) = {}
        BY DEF IInv, Separate
      <3>2. s \in RawOf(th[t]) \cup MadeOf(th[t]) \/ (s \in Socks /\ ~k.sock[s].live)
        BY DEF StepOk
      <3> QED BY <2>1, <3>1, <3>2
    <2>3. \A u \in Threads \ {t} : FdsOf(r) \cap FdsOf(th[u]) = {}
      <3> SUFFICES ASSUME NEW u \in Threads \ {t}, NEW f \in FdsOf(r), f \in FdsOf(th[u])
                   PROVE  FALSE
        OBVIOUS
      <3>1. f \in k.reserved
        BY DEF IInv
      <3>2. f \in FdsOf(th[t])
        BY <3>1 DEF StepOk
      <3> QED BY <1>3, <3>2
    <2> SUFFICES ASSUME NEW v \in Threads, NEW w \in Threads, v # w
                 PROVE  /\ (RawOf(th'[v]) \cup MadeOf(th'[v])) \cap (RawOf(th'[w]) \cup MadeOf(th'[w])) = {}
                        /\ FdsOf(th'[v]) \cap FdsOf(th'[w]) = {}
      BY DEF Separate, RawOf, MadeOf, FdsOf, PendingOf
    <2>4. CASE v = t
      BY <1>2, <2>2, <2>3, <2>4
    <2>5. CASE w = t
      BY <1>2, <2>2, <2>3, <2>5
    <2>6. CASE v # t /\ w # t
      BY <1>2, <2>6 DEF IInv, Separate
    <2> QED BY <2>4, <2>5, <2>6
  <1>12. \A u \in Threads : Shape(th'[u])
    BY <1>2 DEF IInv, StepOk
  <1>13. k'.reserved = UNION {FdsOf(th'[u]) : u \in Threads} /\ \A f \in k'.reserved : k'.fd[f] = NoSock
    BY <1>8 DEF IInv, StepOk
  <1>14. ~Shared => \A u \in Threads : th'[u].held # NoSock => \E f \in Fds : k'.fd[f] = th'[u].held
    BY <1>2, Alone DEF StepOk
  <1>15. mod' \in [live : BOOLEAN, family : BOOLEAN] /\ (LiveIn(k') # {} => mod'.live /\ mod'.family)
    BY DEF IInv, StepOk
  <1> QED BY <1>2, <1>10, <1>11, <1>12, <1>13, <1>14, <1>15 DEF IInv

\* A thread between calls has nothing in hand.
LEMMA IdleHas ==
    /\ Idle \in ThType /\ Shape(Idle) /\ Idle.held = NoSock /\ Idle.pc = "idle"
    /\ RawOf(Idle) = {} /\ MadeOf(Idle) = {} /\ PendingOf(Idle) = {} /\ FdsOf(Idle) = {}
  <1>1. Idle \in ThType /\ Idle.held = NoSock /\ Idle.pc = "idle"
    BY DEF Idle, ThType, Pcs
  <1>2. RawOf(Idle) = {} /\ MadeOf(Idle) = {} /\ PendingOf(Idle) = {}
    BY <1>1 DEF RawOf, MadeOf, PendingOf
  <1>3. FdsOf(Idle) = {}
    BY <1>2 DEF FdsOf
  <1>4. Shape(Idle)
    BY <1>1 DEF Shape
  <1> QED BY <1>1, <1>2, <1>3, <1>4

\* A call that ends here has to show less.
LEMMA EndKeeps ==
    ASSUME IInv, NEW t \in Threads, Goes(t, Idle), mod' = mod,
           KInv(k', AllRaw \ RawOf(th[t]), AllMade \ MadeOf(th[t]), Waiting \ PendingOf(th[t]),
                [HeldNow EXCEPT ![t] = NoSock], NoSock),
           k'.reserved = k.reserved \ FdsOf(th[t]), \A f \in k'.reserved : k'.fd[f] = NoSock,
           LiveIn(k') # {} => mod.live /\ mod.family
    PROVE  IInv'
  <1>1. /\ (AllRaw \ RawOf(th[t])) \cup RawOf(Idle) = AllRaw \ RawOf(th[t])
        /\ (AllMade \ MadeOf(th[t])) \cup MadeOf(Idle) = AllMade \ MadeOf(th[t])
        /\ (Waiting \ PendingOf(th[t])) \cup PendingOf(Idle) = Waiting \ PendingOf(th[t])
        /\ (k.reserved \ FdsOf(th[t])) \cup FdsOf(Idle) = k.reserved \ FdsOf(th[t])
    BY IdleHas
  <1>2. StepOk(t, Idle)
    <2>1. KInv(k', (AllRaw \ RawOf(th[t])) \cup RawOf(Idle), (AllMade \ MadeOf(th[t])) \cup MadeOf(Idle),
               (Waiting \ PendingOf(th[t])) \cup PendingOf(Idle), [HeldNow EXCEPT ![t] = Idle.held], NoSock)
      BY <1>1, IdleHas
    <2>2. k'.reserved = (k.reserved \ FdsOf(th[t])) \cup FdsOf(Idle)
      BY <1>1
    <2>3. /\ \A s \in RawOf(Idle) \cup MadeOf(Idle) :
                 s \in RawOf(th[t]) \cup MadeOf(th[t]) \/ (s \in Socks /\ ~k.sock[s].live)
          /\ \A f \in FdsOf(Idle) : f \in FdsOf(th[t]) \/ f \notin k.reserved
      BY IdleHas
    <2> QED BY <2>1, <2>2, <2>3, IdleHas DEF StepOk, Goes
  <1> QED BY <1>2, StepKeeps

\* What is known of a thread and of the table.
LEMMA Now ==
    ASSUME IInv, NEW t \in Threads
    PROVE  /\ th[t] \in ThType /\ Shape(th[t]) /\ k \in KType
           /\ KInv(k, AllRaw, AllMade, Waiting, HeldNow, NoSock)
           /\ AllRaw \subseteq Socks /\ AllMade \subseteq Socks /\ AllRaw \cap AllMade = {}
           /\ HeldNow \in [Threads -> Socks \cup {NoSock}] /\ HeldNow[t] = th[t].held
           /\ RawOf(th[t]) \subseteq AllRaw /\ MadeOf(th[t]) \subseteq AllMade
           /\ PendingOf(th[t]) \subseteq Waiting /\ FdsOf(th[t]) \subseteq k.reserved
           /\ k.reserved \subseteq Fds /\ \A f \in k.reserved : k.fd[f] = NoSock
  <1>1. th \in [Threads -> ThType] /\ Shape(th[t]) /\ KInv(k, AllRaw, AllMade, Waiting, HeldNow, NoSock)
    BY DEF IInv
  <1>2. th[t] \in ThType /\ \A u \in Threads : th[u] \in ThType
    BY <1>1
  <1>3. HeldNow \in [Threads -> Socks \cup {NoSock}] /\ HeldNow[t] = th[t].held
    <2>1. \A u \in Threads : th[u].held \in Socks \cup {NoSock}
      BY <1>2 DEF ThType
    <2> QED BY <2>1 DEF HeldNow
  <1>4. k \in KType /\ Phases(k, AllRaw, AllMade)
    BY <1>1 DEF KInv
  <1>5. AllRaw \subseteq Socks /\ AllMade \subseteq Socks /\ AllRaw \cap AllMade = {}
    BY <1>4 DEF Phases
  <1>6. /\ RawOf(th[t]) \subseteq AllRaw /\ MadeOf(th[t]) \subseteq AllMade
        /\ PendingOf(th[t]) \subseteq Waiting
    BY DEF AllRaw, AllMade, Waiting
  <1>7. FdsOf(th[t]) \subseteq k.reserved /\ \A f \in k.reserved : k.fd[f] = NoSock
    BY DEF IInv
  <1>8. k.reserved \subseteq Fds
    BY <1>4 DEF KType
  <1> QED BY <1>1, <1>2, <1>3, <1>4, <1>5, <1>6, <1>7, <1>8

\* The holder it had is put back, or it had none.
LEMMA HeldBack ==
    ASSUME IInv, NEW t \in Threads
    PROVE  /\ th[t].held = NoSock => [HeldNow EXCEPT ![t] = NoSock] = HeldNow
           /\ [HeldNow EXCEPT ![t] = th[t].held] = HeldNow
  <1>1. HeldNow \in [Threads -> Socks \cup {NoSock}] /\ HeldNow[t] = th[t].held
    BY Now
  <1> QED BY <1>1

\* What a call has in hand at each point.
LEMMA Has ==
    ASSUME NEW r
    PROVE  /\ r.pc = "create"
                => RawOf(r) = {r.new} /\ MadeOf(r) = {} /\ PendingOf(r) = {} /\ FdsOf(r) = {}
           /\ r.pc \in {"map", "second"}
                => RawOf(r) = {} /\ MadeOf(r) = {r.new} /\ PendingOf(r) = {} /\ FdsOf(r) = {}
           /\ r.pc = "pair"
                => RawOf(r) = {} /\ MadeOf(r) = {r.new, r.new2} /\ PendingOf(r) = {} /\ FdsOf(r) = {}
           /\ r.pc \in {"install", "accept"}
                => /\ RawOf(r) = {} /\ MadeOf(r) = {}
                   /\ PendingOf(r) = {<<r.newfd, r.new>>} /\ FdsOf(r) = {r.newfd}
           /\ r.pc = "install1"
                => /\ RawOf(r) = {} /\ MadeOf(r) = {}
                   /\ PendingOf(r) = {<<r.newfd, r.new>>, <<r.newfd2, r.new2>>}
                   /\ FdsOf(r) = {r.newfd, r.newfd2}
           /\ r.pc = "install2"
                => /\ RawOf(r) = {} /\ MadeOf(r) = {}
                   /\ PendingOf(r) = {<<r.newfd2, r.new2>>} /\ FdsOf(r) = {r.newfd2}
           /\ r.pc \in {"copyout", "call"}
                => RawOf(r) = {} /\ MadeOf(r) = {} /\ PendingOf(r) = {} /\ FdsOf(r) = {}
  <1>0. ASSUME PendingOf(r) = {} PROVE FdsOf(r) = {}
    BY <1>0 DEF FdsOf
  <1>00. ASSUME NEW a, NEW b, PendingOf(r) = {<<a, b>>} PROVE FdsOf(r) = {a}
    BY SMT, <1>00 DEF FdsOf
  <1>1. r.pc = "create" => RawOf(r) = {r.new} /\ MadeOf(r) = {} /\ PendingOf(r) = {}
    BY DEF RawOf, MadeOf, PendingOf
  <1>2. r.pc \in {"map", "second"} => RawOf(r) = {} /\ MadeOf(r) = {r.new} /\ PendingOf(r) = {}
    BY DEF RawOf, MadeOf, PendingOf
  <1>3. r.pc = "pair" => RawOf(r) = {} /\ MadeOf(r) = {r.new, r.new2} /\ PendingOf(r) = {}
    BY DEF RawOf, MadeOf, PendingOf
  <1>4. r.pc \in {"install", "accept"}
          => RawOf(r) = {} /\ MadeOf(r) = {} /\ PendingOf(r) = {<<r.newfd, r.new>>}
    BY DEF RawOf, MadeOf, PendingOf
  <1>5. r.pc = "install1"
          => /\ RawOf(r) = {} /\ MadeOf(r) = {}
             /\ PendingOf(r) = {<<r.newfd, r.new>>, <<r.newfd2, r.new2>>}
    BY DEF RawOf, MadeOf, PendingOf
  <1>6. r.pc = "install2" => RawOf(r) = {} /\ MadeOf(r) = {} /\ PendingOf(r) = {<<r.newfd2, r.new2>>}
    BY DEF RawOf, MadeOf, PendingOf
  <1>7. r.pc \in {"copyout", "call"} => RawOf(r) = {} /\ MadeOf(r) = {} /\ PendingOf(r) = {}
    BY DEF RawOf, MadeOf, PendingOf
  <1>8. r.pc = "install1" => FdsOf(r) = {r.newfd, r.newfd2}
    <2>1. \A f : f \in FdsOf(r) <=> \E p \in PendingOf(r) : f = p[1]
      BY DEF FdsOf
    <2> DEFINE p == <<r.newfd, r.new>>
               q == <<r.newfd2, r.new2>>
    <2>2. p[1] = r.newfd /\ q[1] = r.newfd2
      OBVIOUS
    <2>3. r.pc = "install1" => PendingOf(r) = {p, q}
      BY <1>5
    <2> HIDE DEF p, q
    <2>4. r.pc = "install1" => \A f : f \in FdsOf(r) <=> f \in {r.newfd, r.newfd2}
      BY <2>1, <2>2, <2>3
    <2> QED BY <2>4
  <1> QED BY <1>0, <1>00, <1>1, <1>2, <1>3, <1>4, <1>5, <1>6, <1>7, <1>8

\* A thread between calls, and a descriptor that stands for something.
LEMMA IdleNow ==
    ASSUME IInv, NEW t \in Threads, At(t, "idle")
    PROVE  /\ th[t] = Idle /\ [HeldNow EXCEPT ![t] = NoSock] = HeldNow /\ HoldsAt(HeldNow, t, NoSock)
           /\ AllRaw \ RawOf(th[t]) = AllRaw /\ AllMade \ MadeOf(th[t]) = AllMade
           /\ Waiting \ PendingOf(th[t]) = Waiting /\ k.reserved \ FdsOf(th[t]) = k.reserved
           /\ th = [th EXCEPT ![t] = Idle]
           /\ KInv(k, AllRaw, AllMade, Waiting, HeldNow, NoSock) /\ k \in KType
           /\ \A f \in k.reserved : k.fd[f] = NoSock
           /\ k.reserved \subseteq Fds
           /\ \A f \in Fds : k.fd[f] # NoSock
                => k.fd[f] \in Socks /\ FdsTo(k, k.fd[f]) # {} /\ mod.live /\ mod.family
  <1>1. th[t] = Idle
    BY Now DEF At, Shape
  <1>2. [HeldNow EXCEPT ![t] = NoSock] = HeldNow
    BY <1>1, IdleHas, HeldBack
  <1>3. HoldsAt(HeldNow, t, NoSock)
    BY <1>1, IdleHas, Now DEF HoldsAt
  <1>4. /\ AllRaw \ RawOf(th[t]) = AllRaw /\ AllMade \ MadeOf(th[t]) = AllMade
        /\ Waiting \ PendingOf(th[t]) = Waiting /\ k.reserved \ FdsOf(th[t]) = k.reserved
    BY <1>1, IdleHas
  <1>5. th = [th EXCEPT ![t] = Idle]
    <2>1. th \in [Threads -> ThType]
      BY DEF IInv
    <2> QED BY <1>1, <2>1
  <1>6. /\ KInv(k, AllRaw, AllMade, Waiting, HeldNow, NoSock) /\ k \in KType
        /\ \A f \in k.reserved : k.fd[f] = NoSock
        /\ k.reserved \subseteq Fds
    BY Now
  <1>7. ASSUME NEW f \in Fds, k.fd[f] # NoSock
        PROVE  k.fd[f] \in Socks /\ FdsTo(k, k.fd[f]) # {} /\ mod.live /\ mod.family
    <2>1. k.fd[f] \in Socks
      BY <1>6, <1>7 DEF KType
    <2>2. FdsTo(k, k.fd[f]) # {}
      BY DEF FdsTo
    <2> QED BY <2>1, <2>2, ModuleThere
  <1> QED BY <1>1, <1>2, <1>3, <1>4, <1>5, <1>6, <1>7

\* A number that is not reserved is waited for by nobody.
LEMMA NotWaiting ==
    ASSUME IInv, NEW f, f \notin k.reserved, NEW s
    PROVE  <<f, s>> \notin Waiting
  <1> DEFINE p == <<f, s>>
  <1> SUFFICES ASSUME p \in Waiting
               PROVE  FALSE
    OBVIOUS
  <1>0. p[1] = f
    OBVIOUS
  <1> HIDE DEF p
  <1>1. PICK t \in Threads : p \in PendingOf(th[t])
    BY DEF Waiting
  <1>2. p[1] \in FdsOf(th[t])
    BY <1>1 DEF FdsOf
  <1> QED BY <1>0, <1>2 DEF IInv

\* The module comes and goes; no call and no table is touched.
LEMMA ModChanges ==
    ASSUME IInv, k' = k, th' = th, mod' \in [live : BOOLEAN, family : BOOLEAN],
           LiveIn(k) # {} => mod'.live /\ mod'.family
    PROVE  IInv'
  <1>1. /\ AllRaw' = AllRaw /\ AllMade' = AllMade /\ Waiting' = Waiting /\ HeldNow' = HeldNow
        /\ (UNION {FdsOf(th[t]) : t \in Threads})' = UNION {FdsOf(th[t]) : t \in Threads}
    BY DEF AllRaw, AllMade, Waiting, HeldNow, RawOf, MadeOf, PendingOf, FdsOf
  <1>2. KInv(k', AllRaw', AllMade', Waiting', HeldNow', NoSock)
    BY <1>1 DEF IInv
  <1>3. Separate'
    BY DEF IInv, Separate
  <1>4. k'.reserved = (UNION {FdsOf(th[t]) : t \in Threads})' /\ \A f \in k'.reserved : k'.fd[f] = NoSock
    BY <1>1 DEF IInv
  <1>5. /\ th' \in [Threads -> ThType] /\ \A t \in Threads : Shape(th'[t])
        /\ ~Shared => \A t \in Threads : th'[t].held # NoSock => \E f \in Fds : k'.fd[f] = th'[t].held
        /\ LiveIn(k') # {} => mod'.live /\ mod'.family
    BY DEF IInv
  <1> QED BY <1>2, <1>3, <1>4, <1>5 DEF IInv

\* The module's count is that of the sockets, so it goes when there are none.
LEMMA ModuleKeeps ==
    ASSUME IInv, ModuleGoing \/ sock_unregister \/ sock_register
    PROVE  IInv'
  <1>1. mod \in [live : BOOLEAN, family : BOOLEAN] /\ k' = k /\ th' = th
    BY DEF IInv, ModuleGoing, sock_unregister, sock_register
  <1>2. LiveIn(k) = {}
    <2>1. CASE ModuleGoing
      <3>1. Cardinality(LiveIn(k)) = 0
        BY <2>1 DEF ModuleGoing, IInv, KInv, Counted
      <3>2. IsFiniteSet(LiveIn(k))
        <4>1. LiveIn(k) \subseteq Socks
          BY DEF LiveIn
        <4> QED BY <4>1, SocketConstants, FS_Subset
      <3> QED BY <3>1, <3>2, FS_EmptySet
    <2>2. CASE sock_unregister \/ sock_register
      BY <2>2 DEF IInv, sock_unregister, sock_register
    <2> QED BY <2>1, <2>2
  <1>3. mod' \in [live : BOOLEAN, family : BOOLEAN]
    <2>1. CASE ModuleGoing
      <3>1. mod' = [mod EXCEPT !.live = FALSE]
        BY <2>1 DEF ModuleGoing
      <3> QED BY <1>1, <3>1
    <2>2. CASE sock_unregister
      <3>1. mod' = [mod EXCEPT !.family = FALSE]
        BY <2>2 DEF sock_unregister
      <3> QED BY <1>1, <3>1
    <2>3. CASE sock_register
      <3>1. mod' = [live |-> TRUE, family |-> TRUE]
        BY <2>3 DEF sock_register
      <3> QED BY <3>1
    <2> QED BY <2>1, <2>2, <2>3
  <1> QED BY <1>1, <1>2, <1>3, ModChanges

\* At the start there is nothing to account for.
LEMMA InitHolds == Init => IInv
  <1> SUFFICES ASSUME Init
               PROVE  IInv
    OBVIOUS
  <1>1. \A t \in Threads : th[t] = Idle
    BY DEF Init
  <1>2. th \in [Threads -> ThType] /\ \A t \in Threads : Shape(th[t])
    BY <1>1, IdleHas DEF Init
  <1>3. \A t \in Threads : RawOf(th[t]) = {} /\ MadeOf(th[t]) = {} /\ PendingOf(th[t]) = {} /\ FdsOf(th[t]) = {}
    BY <1>1, IdleHas
  <1>4. AllRaw = {} /\ AllMade = {} /\ Waiting = {} /\ UNION {FdsOf(th[t]) : t \in Threads} = {}
    BY <1>3 DEF AllRaw, AllMade, Waiting
  <1>5. Separate
    BY <1>3 DEF Separate
  <1>6. /\ k \in KType /\ k.reserved = {} /\ k.in_use = 0 /\ k.users = 0
        /\ \A s \in Socks : Absent(k.sock[s]) /\ k.refs[s] = 0
        /\ \A f \in Fds : k.fd[f] = NoSock
    BY SMT DEF Init, KType, SockType, Free, Absent
  <1>7. LiveIn(k) = {}
    BY <1>6 DEF LiveIn, Absent
  <1>8. Counted(k)
    BY <1>6, <1>7, FS_EmptySet DEF Counted
  <1>9. Phases(k, AllRaw, AllMade)
    BY <1>4, <1>6 DEF Phases
  <1>10. RefsOk(k, Waiting, HeldNow, NoSock)
    <2> SUFFICES ASSUME NEW s \in Socks
                 PROVE  RefAt(k, Waiting, HeldNow, NoSock, s)
      BY DEF RefsOk
    <2>1. s # NoSock /\ FdsTo(k, s) = {}
      BY <1>6, SocketConstants DEF FdsTo
    <2>2. PendingTo(Waiting, s) = {}
      BY <1>4 DEF PendingTo
    <2>3. HoldersOf(HeldNow, s) = {}
      BY <1>1, <2>1, IdleHas DEF HoldersOf, HeldNow
    <2>4. Cardinality({}) = 0
      BY FS_EmptySet
    <2> QED BY SMT, <1>6, <2>1, <2>2, <2>3, <2>4 DEF RefAt
  <1>11. KInv(k, AllRaw, AllMade, Waiting, HeldNow, NoSock)
    <2>1. Waiting \subseteq Fds \X Socks
      BY <1>4
    <2> QED BY <1>6, <1>8, <1>9, <1>10, <2>1 DEF KInv
  <1>12. mod \in [live : BOOLEAN, family : BOOLEAN]
    BY DEF Init
  <1>13. \A t \in Threads : th[t].held = NoSock
    BY <1>1, IdleHas
  <1> QED BY <1>2, <1>4, <1>5, <1>6, <1>7, <1>11, <1>12, <1>13 DEF IInv

-----------------------------------------------------------------------------
(* What the runs check follows from the invariant. *)

\* The calls have in hand what the properties say they have.
LEMMA InHand ==
    ASSUME IInv
    PROVE  /\ AllPending = Waiting /\ Unmapped = AllRaw \cup AllMade
           /\ k.reserved = {p[1] : p \in AllPending}
  <1>1. ASSUME NEW t \in Threads PROVE Pending(t) = PendingOf(th[t])
    BY DEF Pending, PendingOf
  <1>2. AllPending = Waiting
    BY <1>1 DEF AllPending, Waiting
  <1>3. ASSUME NEW s PROVE s \in Unmapped <=> s \in AllRaw \cup AllMade
    <2>1. s \in Unmapped <=> \E t \in Threads :
              \/ th[t].pc \in {"create", "map", "second", "pair"} /\ s = th[t].new
              \/ th[t].pc = "pair" /\ s = th[t].new2
      BY DEF Unmapped
    <2>2. s \in AllRaw \cup AllMade <=> \E t \in Threads : s \in RawOf(th[t]) \cup MadeOf(th[t])
      BY DEF AllRaw, AllMade
    <2>3. ASSUME NEW t \in Threads
          PROVE  s \in RawOf(th[t]) \cup MadeOf(th[t])
                   <=> \/ th[t].pc \in {"create", "map", "second", "pair"} /\ s = th[t].new
                       \/ th[t].pc = "pair" /\ s = th[t].new2
      BY DEF RawOf, MadeOf
    <2> QED BY <2>1, <2>2, <2>3
  <1>4. Unmapped = AllRaw \cup AllMade
    BY <1>3
  <1>5. ASSUME NEW f PROVE f \in k.reserved <=> f \in {p[1] : p \in Waiting}
    <2>1. f \in k.reserved <=> \E t \in Threads : f \in FdsOf(th[t])
      BY DEF IInv
    <2>2. f \in {p[1] : p \in Waiting} <=> \E t \in Threads : \E p \in PendingOf(th[t]) : f = p[1]
      BY DEF Waiting
    <2> QED BY <2>1, <2>2 DEF FdsOf
  <1>6. k.reserved = {p[1] : p \in AllPending}
    BY <1>2, <1>5
  <1> QED BY <1>2, <1>4, <1>6

\* The accounts of sockets, references and reserved numbers follow from the phases.
LEMMA Accounts == IInv => AllAccounted
  <1> SUFFICES ASSUME IInv
               PROVE  AllAccounted
    OBVIOUS
  <1>1. /\ k \in KType /\ Waiting \subseteq Fds \X Socks /\ Phases(k, AllRaw, AllMade)
        /\ Counted(k) /\ RefsOk(k, Waiting, HeldNow, NoSock)
    BY DEF IInv, KInv
  <1>2. InUseExact
    BY <1>1 DEF InUseExact, Counted, Live, LiveIn
  <1>3. ReferencesExact
    <2> SUFFICES ASSUME NEW s \in Socks
                 PROVE  k.refs[s] = Cardinality({f \in Fds : k.fd[f] = s})
                                    + Cardinality({p \in AllPending : p[2] = s})
                                    + (IF Shared THEN Cardinality({t \in Threads : th[t].held = s}) ELSE 0)
      BY DEF ReferencesExact
    <2> DEFINE a == Cardinality({f \in Fds : k.fd[f] = s})
               b == Cardinality({p \in AllPending : p[2] = s})
               c == IF Shared THEN Cardinality({t \in Threads : th[t].held = s}) ELSE 0
    <2>1. a = Cardinality(FdsTo(k, s))
      BY DEF FdsTo
    <2>2. b = Cardinality(PendingTo(Waiting, s))
      BY InHand DEF PendingTo
    <2>3. c = Cardinality(HoldersOf(HeldNow, s))
      <3>1. CASE Shared
        <4>1. HoldersOf(HeldNow, s) = {t \in Threads : th[t].held = s}
          BY <3>1 DEF HoldersOf, HeldNow
        <4> QED BY <3>1, <4>1
      <3>2. CASE ~Shared
        <4>1. HoldersOf(HeldNow, s) = {}
          BY <3>2, NoHolders
        <4> QED BY <3>2, <4>1, FS_EmptySet
      <3> QED BY <3>1, <3>2
    <2>4. a \in Nat /\ b \in Nat /\ c \in Nat
      BY <1>1, <2>1, <2>2, <2>3, Finite
    <2>5. s # NoSock
      BY SocketConstants
    <2>6. k.refs[s] = a + b + c + 0
      <3>1. (IF s = NoSock THEN 1 ELSE 0) = 0
        BY <2>5
      <3>2. RefAt(k, Waiting, HeldNow, NoSock, s)
        BY <1>1 DEF RefsOk
      <3> HIDE DEF a, b, c
      <3> QED BY <2>1, <2>2, <2>3, <3>1, <3>2 DEF RefAt
    <2> HIDE DEF a, b, c
    <2>7. k.refs[s] = a + b + c
      BY SMT, <2>4, <2>6
    <2> QED BY <2>7 DEF a, b, c
  <1>4. NothingLost
    <2>1. \A s \in Live : k.refs[s] > 0 \/ s \in Unmapped
      BY <1>1, InHand DEF Live, Phases, Absent
    <2> QED BY <2>1, InHand DEF NothingLost
  <1> QED BY <1>2, <1>3, <1>4 DEF AllAccounted

\* What a call looked up or a descriptor stands for is filed.
LEMMA HeldHasFile == IInv => HeldIsAlive
  <1> SUFFICES ASSUME IInv, NEW s \in {th[t].held : t \in Threads} \cup {k.fd[f] : f \in Fds}, s # NoSock
               PROVE  k.sock[s].live /\ k.sock[s].ops /\ k.sock[s].file
    BY DEF HeldIsAlive
  <1>1. KInv(k, AllRaw, AllMade, Waiting, HeldNow, NoSock) /\ k \in KType /\ th \in [Threads -> ThType]
    BY DEF IInv, KInv
  <1>2. s \in Socks
    <2>1. \A t \in Threads : th[t].held \in Socks \cup {NoSock}
      BY <1>1 DEF ThType
    <2>2. \A f \in Fds : k.fd[f] \in Socks \cup {NoSock}
      BY <1>1 DEF KType
    <2> QED BY <2>1, <2>2
  <1>3. FdsTo(k, s) # {} \/ HoldersOf(HeldNow, s) # {}
    <2>1. CASE \E f \in Fds : k.fd[f] = s
      BY <2>1 DEF FdsTo
    <2>2. CASE \E t \in Threads : th[t].held = s
      <3>1. PICK t \in Threads : th[t].held = s
        BY <2>2
      <3>2. CASE Shared
        BY <3>1, <3>2 DEF HoldersOf, HeldNow
      <3>3. CASE ~Shared
        <4>1. \E f \in Fds : k.fd[f] = s
          BY <3>1, <3>3 DEF IInv
        <4> QED BY <4>1 DEF FdsTo
      <3> QED BY <3>2, <3>3
    <2> QED BY <2>1, <2>2
  <1>4. Filed(k.sock[s])
    BY <1>1, <1>2, <1>3, Referred
  <1> QED BY <1>4 DEF Filed

\* Calls in create have one raw socket each.
LEMMA OneEach ==
    ASSUME IInv
    PROVE  LET C == {t \in Threads : th[t].pc = "create"}
           IN  Cardinality(AllRaw) = Cardinality(C) /\ (C # {} => AllRaw # {})
  <1> DEFINE C == {t \in Threads : th[t].pc = "create"}
             F == [t \in C |-> th[t].new]
  <1>1. ASSUME NEW s PROVE s \in AllRaw <=> \E t \in C : s = th[t].new
    <2>1. s \in AllRaw <=> \E t \in Threads : s \in RawOf(th[t])
      BY DEF AllRaw
    <2>2. \A t \in Threads : s \in RawOf(th[t]) <=> th[t].pc = "create" /\ s = th[t].new
      BY DEF RawOf
    <2> QED BY <2>1, <2>2
  <1>2. F \in [C -> AllRaw] /\ \A s \in AllRaw : \E t \in C : F[t] = s
    BY <1>1
  <1>3. ASSUME NEW t \in C, NEW u \in C, F[t] = F[u] PROVE t = u
    <2>1. th[t].new \in RawOf(th[t]) /\ th[t].new \in RawOf(th[u])
      BY <1>3 DEF RawOf
    <2> QED BY <2>1 DEF IInv, Separate
  <1>4. C # {} => AllRaw # {}
    BY <1>1
  <1>5. IsFiniteSet(C)
    BY SocketConstants, FS_Subset
  <1>6. ExistsBijection(C, AllRaw)
    <2> HIDE DEF F, C
    <2>1. F \in Bijection(C, AllRaw)
      <3>1. DOMAIN F = C
        BY <1>2
      <3> QED BY <1>2, <1>3, <3>1 DEF Bijection, Injection, Surjection, IsInjective
    <2> QED BY <2>1 DEF ExistsBijection
  <1>7. Cardinality(AllRaw) = Cardinality(C)
    <2> HIDE DEF C
    <2> QED BY <1>5, <1>6, FS_Bijection
  <1> QED BY <1>4, <1>7

\* The users of the module are the creates and the sockets with operations.
LEMMA ModuleCounted == IInv => ModuleStays
  <1> SUFFICES ASSUME IInv
               PROVE  ModuleStays
    OBVIOUS
  <1> DEFINE C == {t \in Threads : th[t].pc = "create"}
             U == {s \in Socks : k.sock[s].ops}
  <1>1. Phases(k, AllRaw, AllMade) /\ Counted(k)
    BY DEF IInv, KInv
  <1>2. Cardinality(AllRaw) = Cardinality(C) /\ (C # {} => AllRaw # {})
    BY OneEach
  <1>3. LiveIn(k) = AllRaw \cup U /\ AllRaw \cap U = {}
    BY <1>1 DEF LiveIn, Phases, Raw, Made, Filed, Absent
  <1>4. IsFiniteSet(AllRaw) /\ IsFiniteSet(U)
    <2>1. AllRaw \subseteq Socks /\ U \subseteq Socks
      BY <1>1 DEF Phases
    <2> QED BY <2>1, SocketConstants, FS_Subset
  <1>5. Cardinality(LiveIn(k)) = Cardinality(AllRaw) + Cardinality(U) - Cardinality({})
    <2>1. Cardinality(AllRaw \cup U) = Cardinality(AllRaw) + Cardinality(U) - Cardinality(AllRaw \cap U)
      <3> HIDE DEF U
      <3> QED BY <1>4, FS_Union
    <2> QED BY <1>3, <2>1
  <1>6. Cardinality({}) = 0 /\ Cardinality(AllRaw) \in Nat /\ Cardinality(U) \in Nat
    <2> HIDE DEF U
    <2> QED BY <1>4, FS_EmptySet, FS_CardinalityType
  <1>7. k.users = Cardinality(C) + Cardinality(U)
    <2>1. k.users = Cardinality(LiveIn(k))
      BY <1>1 DEF Counted
    <2> HIDE DEF U, C
    <2> QED BY SMT, <1>2, <1>5, <1>6, <2>1
  <1>8. C # {} \/ U # {} => mod.live /\ mod.family
    <2>1. C # {} \/ U # {} => LiveIn(k) # {}
      <3> HIDE DEF U, C
      <3> QED BY <1>2, <1>3
    <2> QED BY <2>1 DEF IInv
  <1> QED BY <1>7, <1>8 DEF ModuleStays

\* The ranges of the counters.
LEMMA Ranges == IInv => TypeOK
  <1> SUFFICES ASSUME IInv
               PROVE  TypeOK
    OBVIOUS
  <1>1. /\ k \in KType /\ Waiting \subseteq Fds \X Socks /\ Phases(k, AllRaw, AllMade) /\ Counted(k)
        /\ th \in [Threads -> ThType] /\ mod \in [live : BOOLEAN, family : BOOLEAN]
    BY DEF IInv, KInv
  <1>2. k.in_use \in Nat /\ k.users \in Nat
    BY <1>1, Finite DEF Counted
  <1>3. \A s \in Socks : k.sock[s] \in SockType /\ k.sock[s].inode \in 0..1 /\ k.refs[s] \in Nat
    <2>1. ASSUME NEW s \in Socks
          PROVE  /\ k.sock[s] \in SockType /\ k.refs[s] \in Int
                 /\ k.sock[s].inode = 0 \/ k.sock[s].inode = 1
                 /\ k.refs[s] = 0 \/ k.refs[s] > 0
      <3>1. k.sock[s] \in SockType /\ k.refs[s] \in Int
        BY <1>1 DEF KType
      <3> QED BY <1>1, <3>1 DEF Phases, Raw, Made, Filed, Absent
    <2>2. \A n \in Int : n = 0 \/ n > 0 => n \in Nat
      BY SMT
    <2>3. 0 \in 0..1 /\ 1 \in 0..1
      BY SMT
    <2> QED BY <2>1, <2>2, <2>3
  <1> DEFINE T == [live : BOOLEAN, ops : BOOLEAN, sk : BOOLEAN, file : BOOLEAN, inode : 0..1]
  <1>4. \A s \in Socks : k.sock[s] \in T
    BY <1>3 DEF SockType
  <1>5. k.sock \in [Socks -> T]
    <2>1. k.sock \in [Socks -> SockType]
      BY <1>1 DEF KType
    <2> HIDE DEF T
    <2> QED BY <1>4, <2>1
  <1>6. k.refs \in [Socks -> Nat]
    <2>1. k.refs \in [Socks -> Int]
      BY <1>1 DEF KType
    <2> QED BY <1>3, <2>1
  <1> HIDE DEF T
  <1>7. k \in [sock : [Socks -> T], refs : [Socks -> Nat], fd : [Fds -> Socks \cup {NoSock}],
               reserved : SUBSET Fds, in_use : Nat, users : Nat]
    BY <1>1, <1>2, <1>5, <1>6 DEF KType
  <1> QED BY <1>1, <1>7 DEF TypeOK, T, ThType

-----------------------------------------------------------------------------
(* Files and descriptors: f_count is who refers to the file. *)

\* Setting f_count changes nothing else.
LEMMA RefsSet ==
    ASSUME NEW x \in KType, NEW g \in [Socks -> Int]
    PROVE  LET y == SetRefs(x, g)
           IN  /\ y \in KType /\ y.refs = g
               /\ y.sock = x.sock /\ y.fd = x.fd /\ y.reserved = x.reserved
               /\ y.in_use = x.in_use /\ y.users = x.users
  <1> DEFINE y == SetRefs(x, g)
  <1>1. y = [x EXCEPT !.refs = g]
    BY DEF SetRefs
  <1> HIDE DEF y
  <1>2. y \in KType
    BY <1>1 DEF KType
  <1>3. /\ y \in KType /\ y.refs = g
        /\ y.sock = x.sock /\ y.fd = x.fd /\ y.reserved = x.reserved
        /\ y.in_use = x.in_use /\ y.users = x.users
    BY <1>1, <1>2 DEF KType
  <1> QED BY <1>3 DEF y

\* f_count of one file changes, and nothing else.
LEMMA RefsMoved ==
    ASSUME NEW x \in KType, NEW s \in Socks, NEW n \in Int
    PROVE  RefsTo(x, SetRefs(x, [x.refs EXCEPT ![s] = n]), s, n)
  <1> DEFINE g == [x.refs EXCEPT ![s] = n]
             y == SetRefs(x, g)
  <1>1. g \in [Socks -> Int] /\ g[s] = n /\ \A u \in Socks \ {s} : g[u] = x.refs[u]
    BY DEF KType
  <1> HIDE DEF g
  <1>3. /\ y \in KType /\ y.sock = x.sock /\ y.fd = x.fd /\ y.reserved = x.reserved
        /\ y.in_use = x.in_use /\ y.users = x.users /\ y.refs = g
    BY <1>1, RefsSet
  <1> HIDE DEF y
  <1>4. LiveIn(y) = LiveIn(x) /\ \A u : FdsTo(y, u) = FdsTo(x, u)
    BY <1>3 DEF LiveIn, FdsTo
  <1>5. Counted(x) => Counted(y)
    BY <1>3, <1>4 DEF Counted
  <1>6. ASSUME NEW R, NEW M, Phases(x, R, M), Filed(x.sock[s]), n > 0
        PROVE  Phases(y, R, M)
    <2>1. s \notin R /\ s \notin M
      BY <1>6 DEF Phases, Raw, Made, Filed
    <2> QED BY <1>1, <1>3, <1>6, <2>1 DEF Phases
  <1>7. y.refs[s] = n /\ \A u \in Socks \ {s} : y.refs[u] = x.refs[u]
    BY <1>1, <1>3
  <1>8. RefsTo(x, y, s, n)
    BY <1>3, <1>4, <1>5, <1>6, <1>7 DEF RefsTo
  <1> QED BY <1>8 DEF y, g

\* Setting the descriptors changes nothing else.
LEMMA FdSet ==
    ASSUME NEW x \in KType, NEW g \in [Fds -> Socks \cup {NoSock}]
    PROVE  LET y == SetFd(x, g)
           IN  /\ y \in KType /\ y.fd = g
               /\ y.sock = x.sock /\ y.refs = x.refs /\ y.reserved = x.reserved
               /\ y.in_use = x.in_use /\ y.users = x.users
  <1> DEFINE y == SetFd(x, g)
  <1>1. y = [x EXCEPT !.fd = g]
    BY DEF SetFd
  <1> HIDE DEF y
  <1>2. y \in KType
    BY <1>1 DEF KType
  <1>3. /\ y \in KType /\ y.fd = g
        /\ y.sock = x.sock /\ y.refs = x.refs /\ y.reserved = x.reserved
        /\ y.in_use = x.in_use /\ y.users = x.users
    BY <1>1, <1>2 DEF KType
  <1> QED BY <1>3 DEF y

\* A descriptor is pointed at a socket or at nothing.
LEMMA FdMoved ==
    ASSUME NEW x \in KType, NEW f \in Fds, NEW v \in Socks \cup {NoSock}
    PROVE  LET y == SetFd(x, [x.fd EXCEPT ![f] = v])
           IN  /\ y \in KType /\ y.sock = x.sock /\ y.refs = x.refs /\ y.reserved = x.reserved
               /\ y.in_use = x.in_use /\ y.users = x.users
               /\ y.fd[f] = v /\ \A g \in Fds \ {f} : y.fd[g] = x.fd[g]
  <1> DEFINE g == [x.fd EXCEPT ![f] = v]
             y == SetFd(x, g)
  <1>1. g \in [Fds -> Socks \cup {NoSock}] /\ g[f] = v /\ \A u \in Fds \ {f} : g[u] = x.fd[u]
    BY DEF KType
  <1> HIDE DEF g
  <1>2. /\ y \in KType /\ y.fd = g /\ y.sock = x.sock /\ y.refs = x.refs /\ y.reserved = x.reserved
        /\ y.in_use = x.in_use /\ y.users = x.users
    BY <1>1, FdSet
  <1> HIDE DEF y
  <1>3. y.fd[f] = v /\ \A u \in Fds \ {f} : y.fd[u] = x.fd[u]
    BY <1>1, <1>2
  <1> QED BY <1>2, <1>3 DEF y, g

\* Setting the reserved numbers changes nothing else.
LEMMA ReservedSet ==
    ASSUME NEW x \in KType, NEW g \in SUBSET Fds
    PROVE  LET y == SetReserved(x, g)
           IN  /\ y \in KType /\ y.reserved = g
               /\ y.sock = x.sock /\ y.refs = x.refs /\ y.fd = x.fd
               /\ y.in_use = x.in_use /\ y.users = x.users
  <1> DEFINE y == SetReserved(x, g)
  <1>1. y = [x EXCEPT !.reserved = g]
    BY DEF SetReserved
  <1> HIDE DEF y
  <1>2. y \in KType
    BY <1>1 DEF KType
  <1>3. /\ y \in KType /\ y.reserved = g
        /\ y.sock = x.sock /\ y.refs = x.refs /\ y.fd = x.fd
        /\ y.in_use = x.in_use /\ y.users = x.users
    BY <1>1, <1>2 DEF KType
  <1> QED BY <1>3 DEF y

\* The phases and the counters depend on the sockets and f_count alone.
LEMMA SameSockets ==
    ASSUME NEW x, NEW y, y.sock = x.sock, y.refs = x.refs, y.in_use = x.in_use, y.users = x.users
    PROVE  /\ LiveIn(y) = LiveIn(x)
           /\ Counted(x) => Counted(y)
           /\ \A R, M : Phases(x, R, M) => Phases(y, R, M)
  <1>1. LiveIn(y) = LiveIn(x)
    BY DEF LiveIn
  <1>2. Counted(x) => Counted(y)
    BY <1>1 DEF Counted
  <1>3. \A R, M : Phases(x, R, M) => Phases(y, R, M)
    BY DEF Phases
  <1> QED BY <1>1, <1>2, <1>3

\* The reservations play no part.
LEMMA Unreserve ==
    ASSUME NEW x, NEW R, NEW M, NEW P, NEW h, NEW e, KInv(x, R, M, P, h, e), NEW g \in SUBSET Fds
    PROVE  LET y == SetReserved(x, g)
           IN  KInv(y, R, M, P, h, e) /\ ReservedTo(x, y, g)
  <1> DEFINE y == SetReserved(x, g)
  <1>1. x \in KType /\ P \subseteq Fds \X Socks /\ Phases(x, R, M) /\ Counted(x) /\ RefsOk(x, P, h, e)
    BY DEF KInv
  <1>2. /\ y \in KType /\ y.fd = x.fd /\ y.sock = x.sock /\ y.refs = x.refs /\ y.reserved = g
        /\ y.in_use = x.in_use /\ y.users = x.users
    BY <1>1, ReservedSet
  <1> HIDE DEF y
  <1>3. LiveIn(y) = LiveIn(x) /\ Counted(y) /\ Phases(y, R, M)
    BY <1>1, <1>2, SameSockets
  <1>4. \A u : FdsTo(y, u) = FdsTo(x, u)
    BY <1>2 DEF FdsTo
  <1>5. RefsOk(y, P, h, e)
    BY <1>1, <1>2, <1>4 DEF RefsOk, RefAt
  <1>6. KInv(y, R, M, P, h, e)
    BY <1>1, <1>2, <1>3, <1>5 DEF KInv
  <1>7. ReservedTo(x, y, g)
    BY <1>2, <1>3 DEF ReservedTo
  <1> QED BY <1>6, <1>7 DEF y

\* One descriptor more stands for socket v.
LEMMA FdMore ==
    ASSUME NEW x, NEW y, NEW f \in Fds, NEW v \in Socks, FdDiff(x, y, f, NoSock, v)
    PROVE  OneMore(x, y, v)
  <1>1. v # NoSock /\ \A u \in Socks : u # NoSock
    BY SocketConstants
  <1>2. IsFiniteSet(FdsTo(x, v))
    <2>1. FdsTo(x, v) \subseteq Fds
      BY DEF FdsTo
    <2> QED BY <2>1, SocketConstants, FS_Subset
  <1>3. f \notin FdsTo(x, v) /\ \A g : g \in FdsTo(y, v) <=> g \in FdsTo(x, v) \cup {f}
    BY <1>1 DEF FdsTo, FdDiff
  <1>4. FdsTo(y, v) = FdsTo(x, v) \cup {f}
    BY <1>3
  <1>5. Cardinality(FdsTo(x, v) \cup {f}) = Cardinality(FdsTo(x, v)) + 1
    BY <1>2, <1>3, FS_AddElement
  <1>6. \A u \in Socks \ {v} : \A g : g \in FdsTo(y, u) <=> g \in FdsTo(x, u)
    BY <1>1 DEF FdsTo, FdDiff
  <1> QED BY <1>4, <1>5, <1>6 DEF OneMore

\* One descriptor less stands for socket v.
LEMMA FdLess ==
    ASSUME NEW x, NEW y, NEW f \in Fds, NEW v \in Socks, FdDiff(x, y, f, v, NoSock)
    PROVE  /\ Cardinality(FdsTo(y, v)) = Cardinality(FdsTo(x, v)) - 1
           /\ \A u \in Socks \ {v} : FdsTo(y, u) = FdsTo(x, u)
  <1>1. v # NoSock /\ \A u \in Socks : u # NoSock
    BY SocketConstants
  <1>2. IsFiniteSet(FdsTo(x, v))
    <2>1. FdsTo(x, v) \subseteq Fds
      BY DEF FdsTo
    <2> QED BY <2>1, SocketConstants, FS_Subset
  <1>3. f \in FdsTo(x, v) /\ \A g : g \in FdsTo(y, v) <=> g \in FdsTo(x, v) \ {f}
    BY <1>1 DEF FdsTo, FdDiff
  <1>4. FdsTo(y, v) = FdsTo(x, v) \ {f}
    BY <1>3
  <1>5. Cardinality(FdsTo(x, v) \ {f}) = Cardinality(FdsTo(x, v)) - 1
    BY <1>2, <1>3, FS_RemoveElement
  <1>6. \A u \in Socks \ {v} : \A g : g \in FdsTo(y, u) <=> g \in FdsTo(x, u)
    BY <1>1 DEF FdsTo, FdDiff
  <1> QED BY <1>4, <1>5, <1>6

\* A call has one descriptor less to install.
LEMMA PendingCount ==
    ASSUME NEW P, P \subseteq Fds \X Socks, NEW f, NEW s \in Socks, <<f, s>> \in P
    PROVE  LET Q == P \ {<<f, s>>}
           IN  /\ Q \subseteq Fds \X Socks
               /\ Cardinality(PendingTo(Q, s)) = Cardinality(PendingTo(P, s)) - 1
               /\ \A u \in Socks \ {s} : PendingTo(Q, u) = PendingTo(P, u)
  <1> DEFINE Q == P \ {<<f, s>>}
  <1>1. <<f, s>> \in PendingTo(P, s) /\ \A p : p \in PendingTo(Q, s) <=> p \in PendingTo(P, s) \ {<<f, s>>}
    BY DEF PendingTo
  <1>2. PendingTo(Q, s) = PendingTo(P, s) \ {<<f, s>>}
    BY <1>1
  <1>3. IsFiniteSet(PendingTo(P, s))
    BY Finite
  <1>4. Cardinality(PendingTo(P, s) \ {<<f, s>>}) = Cardinality(PendingTo(P, s)) - 1
    BY <1>1, <1>3, FS_RemoveElement
  <1>5. \A u \in Socks \ {s} : \A p : p \in PendingTo(Q, u) <=> p \in PendingTo(P, u)
    BY SMT DEF PendingTo
  <1>6. Q \subseteq Fds \X Socks
    OBVIOUS
  <1> QED BY <1>2, <1>4, <1>5, <1>6

\* One thread more holds the file.
LEMMA HolderMore ==
    ASSUME Shared, NEW h \in [Threads -> Socks \cup {NoSock}], NEW t \in Threads, h[t] = NoSock,
           NEW s \in Socks
    PROVE  LET g == [h EXCEPT ![t] = s]
           IN  /\ Cardinality(HoldersOf(g, s)) = Cardinality(HoldersOf(h, s)) + 1
               /\ \A u \in Socks \ {s} : HoldersOf(g, u) = HoldersOf(h, u)
  <1> DEFINE g == [h EXCEPT ![t] = s]
  <1>1. s # NoSock /\ \A u \in Socks : u # NoSock
    BY SocketConstants
  <1>2. g[t] = s /\ \A u \in Threads \ {t} : g[u] = h[u]
    OBVIOUS
  <1> HIDE DEF g
  <1>3. IsFiniteSet(HoldersOf(h, s))
    <2>1. HoldersOf(h, s) \subseteq Threads
      BY DEF HoldersOf
    <2> QED BY <2>1, SocketConstants, FS_Subset
  <1>4. t \notin HoldersOf(h, s) /\ \A u : u \in HoldersOf(g, s) <=> u \in HoldersOf(h, s) \cup {t}
    BY <1>1, <1>2 DEF HoldersOf
  <1>5. HoldersOf(g, s) = HoldersOf(h, s) \cup {t}
    BY <1>4
  <1>6. Cardinality(HoldersOf(h, s) \cup {t}) = Cardinality(HoldersOf(h, s)) + 1
    BY <1>3, <1>4, FS_AddElement
  <1>7. \A u \in Socks \ {s} : \A v : v \in HoldersOf(g, u) <=> v \in HoldersOf(h, u)
    BY <1>1, <1>2 DEF HoldersOf
  <1> QED BY <1>5, <1>6, <1>7 DEF g

\* One thread less holds the file.
LEMMA HolderLess ==
    ASSUME Shared, NEW h \in [Threads -> Socks \cup {NoSock}], NEW t \in Threads,
           NEW s \in Socks, h[t] = s
    PROVE  LET g == [h EXCEPT ![t] = NoSock]
           IN  /\ Cardinality(HoldersOf(g, s)) = Cardinality(HoldersOf(h, s)) - 1
               /\ \A u \in Socks \ {s} : HoldersOf(g, u) = HoldersOf(h, u)
  <1> DEFINE g == [h EXCEPT ![t] = NoSock]
  <1>1. s # NoSock /\ \A u \in Socks : u # NoSock
    BY SocketConstants
  <1>2. g[t] = NoSock /\ \A u \in Threads \ {t} : g[u] = h[u]
    OBVIOUS
  <1> HIDE DEF g
  <1>3. IsFiniteSet(HoldersOf(h, s))
    <2>1. HoldersOf(h, s) \subseteq Threads
      BY DEF HoldersOf
    <2> QED BY <2>1, SocketConstants, FS_Subset
  <1>4. t \in HoldersOf(h, s) /\ \A u : u \in HoldersOf(g, s) <=> u \in HoldersOf(h, s) \ {t}
    BY <1>1, <1>2 DEF HoldersOf
  <1>5. HoldersOf(g, s) = HoldersOf(h, s) \ {t}
    BY <1>4
  <1>6. Cardinality(HoldersOf(h, s) \ {t}) = Cardinality(HoldersOf(h, s)) - 1
    BY <1>3, <1>4, FS_RemoveElement
  <1>7. \A u \in Socks \ {s} : \A v : v \in HoldersOf(g, u) <=> v \in HoldersOf(h, u)
    BY <1>1, <1>2 DEF HoldersOf
  <1> QED BY <1>5, <1>6, <1>7 DEF g

\* fd_install: the reference is the descriptor's now.
LEMMA InstallFd ==
    ASSUME NEW x, NEW R, NEW M, NEW P, NEW h, NEW e, KInv(x, R, M, P, h, e),
           NEW f \in Fds, NEW s \in Socks, <<f, s>> \in P, x.fd[f] = NoSock
    PROVE  LET y == fd_install(x, s, f)
           IN  /\ KInv(y, R, M, P \ {<<f, s>>}, h, e)
               /\ y.fd[f] = s /\ \A g \in Fds \ {f} : y.fd[g] = x.fd[g]
               /\ y.reserved = x.reserved \ {f} /\ LiveIn(y) = LiveIn(x)
  <1>1. x \in KType /\ P \subseteq Fds \X Socks /\ Phases(x, R, M) /\ Counted(x) /\ RefsOk(x, P, h, e)
    BY DEF KInv
  <1> DEFINE w == SetFd(x, [x.fd EXCEPT ![f] = s])
             g == x.reserved \ {f}
             y == SetReserved(w, g)
             Q == P \ {<<f, s>>}
  <1>2. /\ w \in KType /\ w.sock = x.sock /\ w.refs = x.refs /\ w.reserved = x.reserved
        /\ w.in_use = x.in_use /\ w.users = x.users
        /\ w.fd[f] = s /\ \A u \in Fds \ {f} : w.fd[u] = x.fd[u]
    <2>1. x \in KType /\ s \in Socks \cup {NoSock}
      BY <1>1
    <2> QED BY <2>1, FdMoved
  <1>3. fd_install(x, s, f) = y
    BY <1>2 DEF fd_install, SetReserved, SetFd
  <1> HIDE DEF w
  <1>4. LiveIn(w) = LiveIn(x) /\ Counted(w) /\ Phases(w, R, M)
    BY <1>1, <1>2, SameSockets
  <1>5. /\ Cardinality(FdsTo(w, s)) = Cardinality(FdsTo(x, s)) + 1
        /\ \A u \in Socks \ {s} : FdsTo(w, u) = FdsTo(x, u)
    <2>1. FdDiff(x, w, f, NoSock, s)
      BY <1>2 DEF FdDiff
    <2>2. OneMore(x, w, s)
      BY <2>1, FdMore
    <2> QED BY <2>2 DEF OneMore
  <1>6. /\ Q \subseteq Fds \X Socks
        /\ Cardinality(PendingTo(Q, s)) = Cardinality(PendingTo(P, s)) - 1
        /\ \A u \in Socks \ {s} : PendingTo(Q, u) = PendingTo(P, u)
    <2>1. P \subseteq Fds \X Socks
      BY <1>1
    <2> QED BY SMT, <2>1, PendingCount
  <1> HIDE DEF Q
  <1>7. RefAt(w, Q, h, e, s)
    <2> DEFINE a == Cardinality(FdsTo(x, s))
               b == Cardinality(PendingTo(P, s))
               c == Cardinality(HoldersOf(h, s))
               d == IF s = e THEN 1 ELSE 0
    <2>1. a \in Nat /\ b \in Nat /\ c \in Nat /\ d \in Nat
      BY <1>1, Finite
    <2>2. x.refs[s] = a + b + c + d
      BY <1>1 DEF RefsOk, RefAt
    <2> HIDE DEF a, b, c, d
    <2>3. x.refs[s] = (a + 1) + (b - 1) + c + d
      BY SMT, <2>1, <2>2
    <2> QED BY <1>2, <1>5, <1>6, <2>3 DEF RefAt, a, b, c, d
  <1>8. \A u \in Socks \ {s} : RefAt(w, Q, h, e, u)
    BY <1>1, <1>2, <1>5, <1>6 DEF RefsOk, RefAt
  <1>9. KInv(w, R, M, Q, h, e)
    BY <1>2, <1>4, <1>6, <1>7, <1>8 DEF KInv, RefsOk
  <1>10. g \in SUBSET Fds
    BY <1>1 DEF KType
  <1> HIDE DEF g
  <1>11. KInv(y, R, M, Q, h, e) /\ y.fd = w.fd /\ y.reserved = g /\ LiveIn(y) = LiveIn(w)
    <2>1. KInv(y, R, M, Q, h, e) /\ ReservedTo(w, y, g)
      BY <1>9, <1>10, Unreserve
    <2> QED BY <2>1 DEF ReservedTo
  <1> HIDE DEF y
  <1>12. y.fd[f] = s /\ \A u \in Fds \ {f} : y.fd[u] = x.fd[u]
    BY <1>2, <1>11
  <1> QED BY <1>3, <1>4, <1>11, <1>12 DEF Q, g

\* The first descriptor of a pair.
LEMMA PairInstall1Keeps ==
    ASSUME IInv, NEW t \in Threads, PairInstall1(t)
    PROVE  IInv'
  <1> DEFINE s == th[t].new
             f == th[t].newfd
             s2 == th[t].new2
             f2 == th[t].newfd2
             r == [th[t] EXCEPT !.pc = "install2", !.new = NoSock]
  <1>1. th[t].pc = "install1" /\ mod' = mod /\ th[t] \in ThType /\ Shape(th[t]) /\ Goes(t, r)
    BY Now DEF PairInstall1, At
  <1>2. s \in Socks /\ f \in Fds /\ s2 \in Socks /\ f2 \in Fds /\ f # f2 /\ th[t].held = NoSock
    BY <1>1 DEF Shape, ThType
  <1>3. /\ RawOf(th[t]) = {} /\ MadeOf(th[t]) = {}
        /\ PendingOf(th[t]) = {<<f, s>>, <<f2, s2>>} /\ FdsOf(th[t]) = {f, f2}
    BY <1>1, Has
  <1>4. k' = fd_install(k, s, f)
    BY DEF PairInstall1
  <1>5. /\ KInv(k, AllRaw, AllMade, Waiting, HeldNow, NoSock) /\ k \in KType
        /\ \A g \in k.reserved : k.fd[g] = NoSock
        /\ <<f, s>> \in Waiting /\ <<f2, s2>> \in Waiting /\ k.fd[f] = NoSock
        /\ f2 \in k.reserved /\ k.reserved \subseteq Fds
    BY <1>3, Now
  <1>6. mod.live /\ mod.family
    <2>1. PendingTo(Waiting, s) # {}
      BY SMT, <1>5 DEF PendingTo
    <2> QED BY <1>2, <2>1, ModuleThere
  <1>7. [HeldNow EXCEPT ![t] = NoSock] = HeldNow
    BY <1>2, HeldBack
  <1>8. /\ r \in ThType /\ r.pc = "install2" /\ r.new2 = s2 /\ r.newfd2 = f2 /\ r.newfd = f
        /\ r.held = NoSock
    BY <1>1, <1>2 DEF ThType, Pcs
  <1>9. <<f, s>> # <<f2, s2>>
    BY <1>2
  <1> HIDE DEF s, f, s2, f2, r
  <1>10. /\ KInv(k', AllRaw, AllMade, Waiting \ {<<f, s>>}, HeldNow, NoSock)
         /\ \A g \in Fds \ {f} : k'.fd[g] = k.fd[g]
         /\ k'.reserved = k.reserved \ {f}
    <2> DEFINE y == fd_install(k, s, f)
    <2>1. /\ KInv(k, AllRaw, AllMade, Waiting, HeldNow, NoSock)
          /\ f \in Fds /\ s \in Socks /\ <<f, s>> \in Waiting /\ k.fd[f] = NoSock
      BY <1>2, <1>5
    <2>2. /\ KInv(y, AllRaw, AllMade, Waiting \ {<<f, s>>}, HeldNow, NoSock)
          /\ \A g \in Fds \ {f} : y.fd[g] = k.fd[g]
          /\ y.reserved = k.reserved \ {f}
      BY SMT, <2>1, InstallFd
    <2> QED BY <1>4, <2>2
  <1>11. RawOf(r) = {} /\ MadeOf(r) = {} /\ PendingOf(r) = {<<f2, s2>>} /\ FdsOf(r) = {f2}
    BY <1>8, Has
  <1>12. Shape(r)
    BY <1>2, <1>8 DEF Shape
  <1> DEFINE p == <<f, s>>
             q == <<f2, s2>>
  <1>13. /\ (AllRaw \ RawOf(th[t])) \cup RawOf(r) = AllRaw
         /\ (AllMade \ MadeOf(th[t])) \cup MadeOf(r) = AllMade
         /\ (Waiting \ PendingOf(th[t])) \cup PendingOf(r) = Waiting \ {<<f, s>>}
         /\ (k.reserved \ FdsOf(th[t])) \cup FdsOf(r) = k.reserved \ {f}
    <2>1. p # q /\ q \in Waiting /\ PendingOf(th[t]) = {p, q} /\ PendingOf(r) = {q}
      BY <1>3, <1>5, <1>9, <1>11
    <2> HIDE DEF p, q
    <2>2. (Waiting \ PendingOf(th[t])) \cup PendingOf(r) = Waiting \ {p}
      BY <2>1
    <2>3. (k.reserved \ FdsOf(th[t])) \cup FdsOf(r) = k.reserved \ {f}
      BY <1>2, <1>3, <1>5, <1>11
    <2> QED BY <1>3, <1>11, <2>2, <2>3 DEF p
  <1>14. KInv(k', (AllRaw \ RawOf(th[t])) \cup RawOf(r), (AllMade \ MadeOf(th[t])) \cup MadeOf(r),
              (Waiting \ PendingOf(th[t])) \cup PendingOf(r), [HeldNow EXCEPT ![t] = r.held], NoSock)
    BY <1>7, <1>8, <1>10, <1>13
  <1>15. /\ k'.reserved = (k.reserved \ FdsOf(th[t])) \cup FdsOf(r)
         /\ \A g \in k'.reserved : k'.fd[g] = NoSock
         /\ \A g \in FdsOf(r) : g \in FdsOf(th[t])
    BY <1>3, <1>5, <1>10, <1>11, <1>13
  <1>16. StepOk(t, r)
    BY <1>1, <1>6, <1>8, <1>11, <1>12, <1>14, <1>15 DEF StepOk, Goes
  <1> QED BY <1>16, StepKeeps

\* The second one.
LEMMA PairInstall2Keeps ==
    ASSUME IInv, NEW t \in Threads, PairInstall2(t)
    PROVE  IInv'
  <1> DEFINE s == th[t].new2
             f == th[t].newfd2
             r == [th[t] EXCEPT !.pc = "copyout", !.new2 = NoSock]
  <1>1. th[t].pc = "install2" /\ mod' = mod /\ th[t] \in ThType /\ Shape(th[t]) /\ Goes(t, r)
    BY Now DEF PairInstall2, At
  <1>2. s \in Socks /\ f \in Fds /\ th[t].newfd \in Fds /\ th[t].held = NoSock
    BY <1>1 DEF Shape, ThType
  <1>3. /\ RawOf(th[t]) = {} /\ MadeOf(th[t]) = {}
        /\ PendingOf(th[t]) = {<<f, s>>} /\ FdsOf(th[t]) = {f}
    BY <1>1, Has
  <1>4. k' = fd_install(k, s, f)
    BY DEF PairInstall2
  <1>5. /\ KInv(k, AllRaw, AllMade, Waiting, HeldNow, NoSock) /\ k \in KType
        /\ \A g \in k.reserved : k.fd[g] = NoSock
        /\ <<f, s>> \in Waiting /\ k.fd[f] = NoSock /\ k.reserved \subseteq Fds
    BY <1>3, Now
  <1>6. mod.live /\ mod.family
    <2>1. PendingTo(Waiting, s) # {}
      BY SMT, <1>5 DEF PendingTo
    <2> QED BY <1>2, <2>1, ModuleThere
  <1>7. [HeldNow EXCEPT ![t] = NoSock] = HeldNow
    BY <1>2, HeldBack
  <1>8. /\ r \in ThType /\ r.pc = "copyout" /\ r.newfd2 = f /\ r.newfd \in Fds /\ r.held = NoSock
    BY <1>1, <1>2 DEF ThType, Pcs
  <1> HIDE DEF s, f, r
  <1>10. /\ KInv(k', AllRaw, AllMade, Waiting \ {<<f, s>>}, HeldNow, NoSock)
         /\ \A g \in Fds \ {f} : k'.fd[g] = k.fd[g]
         /\ k'.reserved = k.reserved \ {f}
    <2> DEFINE y == fd_install(k, s, f)
    <2>1. /\ KInv(k, AllRaw, AllMade, Waiting, HeldNow, NoSock)
          /\ f \in Fds /\ s \in Socks /\ <<f, s>> \in Waiting /\ k.fd[f] = NoSock
      BY <1>2, <1>5
    <2>2. /\ KInv(y, AllRaw, AllMade, Waiting \ {<<f, s>>}, HeldNow, NoSock)
          /\ \A g \in Fds \ {f} : y.fd[g] = k.fd[g]
          /\ y.reserved = k.reserved \ {f}
      BY SMT, <2>1, InstallFd
    <2> QED BY <1>4, <2>2
  <1>11. RawOf(r) = {} /\ MadeOf(r) = {} /\ PendingOf(r) = {} /\ FdsOf(r) = {}
    BY <1>8, Has
  <1>12. Shape(r)
    BY <1>2, <1>8 DEF Shape
  <1>13. /\ (AllRaw \ RawOf(th[t])) \cup RawOf(r) = AllRaw
         /\ (AllMade \ MadeOf(th[t])) \cup MadeOf(r) = AllMade
         /\ (Waiting \ PendingOf(th[t])) \cup PendingOf(r) = Waiting \ {<<f, s>>}
         /\ (k.reserved \ FdsOf(th[t])) \cup FdsOf(r) = k.reserved \ {f}
    BY <1>3, <1>11
  <1>14. KInv(k', (AllRaw \ RawOf(th[t])) \cup RawOf(r), (AllMade \ MadeOf(th[t])) \cup MadeOf(r),
              (Waiting \ PendingOf(th[t])) \cup PendingOf(r), [HeldNow EXCEPT ![t] = r.held], NoSock)
    BY <1>7, <1>8, <1>10, <1>13
  <1>15. /\ k'.reserved = (k.reserved \ FdsOf(th[t])) \cup FdsOf(r)
         /\ \A g \in k'.reserved : k'.fd[g] = NoSock
    BY <1>5, <1>10, <1>13
  <1>16. StepOk(t, r)
    BY <1>1, <1>6, <1>8, <1>11, <1>12, <1>14, <1>15 DEF StepOk, Goes
  <1> QED BY <1>16, StepKeeps

\* dup: another descriptor, another reference.
LEMMA DupFd ==
    ASSUME NEW x, NEW R, NEW M, NEW P, NEW h, NEW e, KInv(x, R, M, P, h, e),
           NEW f \in Fds, NEW g \in Fds, NEW s \in Socks, FdIs(x, f, s), FdIs(x, g, NoSock)
    PROVE  LET y == DupTo(x, g, s)
           IN  KInv(y, R, M, P, h, e) /\ RestSame(x, y, g)
  <1>1. x \in KType /\ P \subseteq Fds \X Socks /\ Phases(x, R, M) /\ Counted(x) /\ RefsOk(x, P, h, e)
    BY DEF KInv
  <1> DEFINE w == SetFd(x, [x.fd EXCEPT ![g] = s])
             n == w.refs[s] + 1
             y == SetRefs(w, [w.refs EXCEPT ![s] = n])
  <1>2. /\ w \in KType /\ w.sock = x.sock /\ w.refs = x.refs /\ w.reserved = x.reserved
        /\ w.in_use = x.in_use /\ w.users = x.users
        /\ w.fd[g] = s /\ \A u \in Fds \ {g} : w.fd[u] = x.fd[u]
    <2>1. x \in KType /\ s \in Socks \cup {NoSock}
      BY <1>1
    <2> QED BY <2>1, FdMoved
  <1>3. DupTo(x, g, s) = y
    BY DEF DupTo, SetRefs, SetFd
  <1> HIDE DEF w
  <1>4. LiveIn(w) = LiveIn(x) /\ Counted(w) /\ Phases(w, R, M)
    BY <1>1, <1>2, SameSockets
  <1>5. /\ Cardinality(FdsTo(w, s)) = Cardinality(FdsTo(x, s)) + 1
        /\ \A u \in Socks \ {s} : FdsTo(w, u) = FdsTo(x, u)
    <2>1. FdDiff(x, w, g, NoSock, s)
      BY <1>2 DEF FdDiff, FdIs
    <2>2. OneMore(x, w, s)
      BY <2>1, FdMore
    <2> QED BY <2>2 DEF OneMore
  <1>6. x.refs[s] > 0 /\ Filed(x.sock[s])
    <2>1. FdsTo(x, s) # {}
      BY DEF FdsTo, FdIs
    <2> QED BY <2>1, Referred
  <1>7. n \in Int /\ n > 0 /\ n = x.refs[s] + 1
    BY SMT, <1>1, <1>2, <1>6 DEF KType
  <1> HIDE DEF n
  <1>8. /\ y \in KType /\ y.fd = w.fd /\ y.reserved = w.reserved
        /\ y.refs[s] = n /\ \A u \in Socks \ {s} : y.refs[u] = w.refs[u]
        /\ LiveIn(y) = LiveIn(w) /\ \A u : FdsTo(y, u) = FdsTo(w, u)
        /\ Counted(y) /\ Phases(y, R, M)
    <2>1. Filed(w.sock[s])
      BY <1>2, <1>6
    <2>2. w \in KType /\ n \in Int
      BY <1>2, <1>7
    <2>3. /\ y \in KType /\ y.fd = w.fd /\ y.reserved = w.reserved
          /\ y.refs[s] = n /\ \A u \in Socks \ {s} : y.refs[u] = w.refs[u]
          /\ LiveIn(y) = LiveIn(w) /\ \A u : FdsTo(y, u) = FdsTo(w, u)
          /\ Counted(w) => Counted(y)
          /\ Phases(w, R, M) /\ Filed(w.sock[s]) /\ n > 0 => Phases(y, R, M)
      <3>1. RefsTo(w, y, s, n)
        BY <2>2, RefsMoved
      <3> HIDE DEF y
      <3> QED BY <3>1 DEF RefsTo
    <2> QED BY <1>4, <1>7, <2>1, <2>3
  <1> HIDE DEF y
  <1>9. RefAt(y, P, h, e, s)
    <2> DEFINE a == Cardinality(FdsTo(x, s))
               b == Cardinality(PendingTo(P, s))
               c == Cardinality(HoldersOf(h, s))
               d == IF s = e THEN 1 ELSE 0
    <2>1. a \in Nat /\ b \in Nat /\ c \in Nat /\ d \in Nat
      BY <1>1, Finite
    <2>2. x.refs[s] = a + b + c + d
      BY <1>1 DEF RefsOk, RefAt
    <2> HIDE DEF a, b, c, d
    <2>3. n = (a + 1) + b + c + d
      BY SMT, <1>7, <2>1, <2>2
    <2> QED BY <1>5, <1>8, <2>3 DEF RefAt, a, b, c, d
  <1>10. \A u \in Socks \ {s} : RefAt(y, P, h, e, u)
    <2>1. \A u \in Socks \ {s} : RefAt(x, P, h, e, u)
      BY <1>1 DEF RefsOk
    <2>2. \A u \in Socks \ {s} : y.refs[u] = x.refs[u] /\ FdsTo(y, u) = FdsTo(x, u)
      BY <1>2, <1>5, <1>8
    <2> QED BY <2>1, <2>2 DEF RefAt
  <1>11. KInv(y, R, M, P, h, e)
    BY <1>1, <1>8, <1>9, <1>10 DEF KInv, RefsOk
  <1>12. RestSame(x, y, g)
    BY <1>2, <1>8 DEF RestSame
  <1> QED BY <1>2, <1>3, <1>4, <1>8, <1>11, <1>12

\* dup().
LEMMA DupKeeps ==
    ASSUME IInv, NEW t \in Threads, NEW f \in Fds, NEW d \in Fds, Dup(t, f, d)
    PROVE  IInv'
  <1> DEFINE s == k.fd[f]
             y == DupTo(k, d, s)
  <1>0. /\ At(t, "idle") /\ s # NoSock /\ k' = y /\ th' = th /\ mod' = mod
        /\ k.fd[d] = NoSock /\ d \notin k.reserved /\ k.fd[f] = s
    BY DEF Dup, FreeFds, DupTo
  <1>1. /\ [HeldNow EXCEPT ![t] = NoSock] = HeldNow
        /\ AllRaw \ RawOf(th[t]) = AllRaw /\ AllMade \ MadeOf(th[t]) = AllMade
        /\ Waiting \ PendingOf(th[t]) = Waiting /\ k.reserved \ FdsOf(th[t]) = k.reserved
        /\ th = [th EXCEPT ![t] = Idle] /\ k.reserved \subseteq Fds
        /\ KInv(k, AllRaw, AllMade, Waiting, HeldNow, NoSock)
        /\ \A g \in k.reserved : k.fd[g] = NoSock
        /\ s \in Socks /\ FdsTo(k, s) # {} /\ mod.live /\ mod.family
    BY <1>0, IdleNow
  <1> HIDE DEF s
  <1>2. KInv(y, AllRaw, AllMade, Waiting, HeldNow, NoSock) /\ RestSame(k, y, d)
    <2>1. /\ KInv(k, AllRaw, AllMade, Waiting, HeldNow, NoSock)
          /\ s \in Socks /\ FdIs(k, f, s) /\ FdIs(k, d, NoSock)
      BY <1>0, <1>1 DEF FdIs
    <2>2. KInv(k, AllRaw, AllMade, Waiting, HeldNow, NoSock)
      BY <2>1
    <2>3. s \in Socks
      BY <2>1
    <2>4. FdIs(k, f, s) /\ FdIs(k, d, NoSock)
      BY <2>1
    <2> QED BY <2>2, <2>3, <2>4, DupFd
  <1>3. KInv(k', AllRaw \ RawOf(th[t]), AllMade \ MadeOf(th[t]), Waiting \ PendingOf(th[t]),
             [HeldNow EXCEPT ![t] = NoSock], NoSock)
    <2> HIDE DEF y
    <2> QED BY <1>0, <1>1, <1>2
  <1>4. k'.reserved = k.reserved \ FdsOf(th[t]) /\ \A g \in k'.reserved : k'.fd[g] = NoSock
    <2> HIDE DEF y
    <2> QED BY <1>0, <1>1, <1>2 DEF RestSame
  <1>5. Goes(t, Idle)
    BY <1>0, <1>1 DEF Goes
  <1> QED BY <1>0, <1>1, <1>3, <1>4, <1>5, EndKeeps

\* fget_light: a call looks the socket up.
LEMMA Hold ==
    ASSUME NEW x, NEW R, NEW M, NEW P, NEW h, KInv(x, R, M, P, h, NoSock),
           NEW t \in Threads, HoldsAt(h, t, NoSock), NEW s \in Socks, FdsTo(x, s) # {}
    PROVE  LET y == fget_light(x, s)
           IN  KInv(y, R, M, P, [h EXCEPT ![t] = s], NoSock) /\ RefsOnly(x, y)
  <1>1. x \in KType /\ P \subseteq Fds \X Socks /\ Phases(x, R, M) /\ Counted(x) /\ RefsOk(x, P, h, NoSock)
    BY DEF KInv
  <1> DEFINE g == [h EXCEPT ![t] = s]
             n == x.refs[s] + 1
             y == SetRefs(x, [x.refs EXCEPT ![s] = n])
  <1>2. CASE ~Shared
    <2>1. fget_light(x, s) = x
      BY <1>2 DEF fget_light
    <2>2. KInv(x, R, M, P, g, NoSock)
      BY <1>1, <1>2, NoHolders DEF KInv, RefsOk, RefAt
    <2> QED BY <2>1, <2>2 DEF RefsOnly
  <1>3. CASE Shared
    <2>1. fget_light(x, s) = y
      BY <1>3 DEF fget_light, SetRefs
    <2>2. x.refs[s] > 0 /\ Filed(x.sock[s])
      BY Referred
    <2>3. n \in Int /\ n > 0 /\ n = x.refs[s] + 1
      BY SMT, <1>1, <2>2 DEF KType
    <2> HIDE DEF n
    <2>4. /\ y \in KType /\ y.fd = x.fd /\ y.reserved = x.reserved /\ y.sock = x.sock
          /\ y.refs[s] = n /\ \A u \in Socks \ {s} : y.refs[u] = x.refs[u]
          /\ LiveIn(y) = LiveIn(x) /\ \A u : FdsTo(y, u) = FdsTo(x, u)
          /\ Counted(y) /\ Phases(y, R, M)
      <3>1. RefsTo(x, y, s, n)
        BY <1>1, <2>3, RefsMoved
      <3> HIDE DEF y
      <3> QED BY <1>1, <2>2, <2>3, <3>1 DEF RefsTo
    <2> HIDE DEF y
    <2>5. /\ Cardinality(HoldersOf(g, s)) = Cardinality(HoldersOf(h, s)) + 1
          /\ \A u \in Socks \ {s} : HoldersOf(g, u) = HoldersOf(h, u)
      BY <1>3, HolderMore DEF HoldsAt
    <2> HIDE DEF g
    <2>6. RefAt(y, P, g, NoSock, s)
      <3> DEFINE a == Cardinality(FdsTo(x, s))
                 b == Cardinality(PendingTo(P, s))
                 c == Cardinality(HoldersOf(h, s))
                 d == IF s = NoSock THEN 1 ELSE 0
      <3>1. a \in Nat /\ b \in Nat /\ c \in Nat /\ d \in Nat
        BY <1>1, Finite
      <3>2. x.refs[s] = a + b + c + d
        BY <1>1 DEF RefsOk, RefAt
      <3> HIDE DEF a, b, c, d
      <3>3. n = a + b + (c + 1) + d
        BY SMT, <2>3, <3>1, <3>2
      <3> QED BY <2>4, <2>5, <3>3 DEF RefAt, a, b, c, d
    <2>7. \A u \in Socks \ {s} : RefAt(y, P, g, NoSock, u)
      BY <1>1, <2>4, <2>5 DEF RefsOk, RefAt
    <2>8. KInv(y, R, M, P, g, NoSock)
      BY <1>1, <2>4, <2>6, <2>7 DEF KInv, RefsOk
    <2> QED BY <2>1, <2>4, <2>8 DEF g, RefsOnly
  <1> QED BY <1>2, <1>3

\* sockfd_lookup_light at the start of a call.
LEMMA CallStartKeeps ==
    ASSUME IInv, NEW t \in Threads, NEW f \in Fds, CallStart(t, f)
    PROVE  IInv'
  <1> DEFINE s == k.fd[f]
             r == [Idle EXCEPT !.pc = "call", !.held = s]
  <1>0. At(t, "idle") /\ s # NoSock /\ k' = fget_light(k, s) /\ Goes(t, r) /\ mod' = mod
    BY DEF CallStart
  <1>1. /\ th[t] = Idle /\ HoldsAt(HeldNow, t, NoSock)
        /\ KInv(k, AllRaw, AllMade, Waiting, HeldNow, NoSock)
        /\ \A g \in k.reserved : k.fd[g] = NoSock
        /\ s \in Socks /\ FdsTo(k, s) # {} /\ mod.live /\ mod.family
    BY <1>0, IdleNow
  <1>2. r \in ThType /\ r.pc = "call" /\ r.held = s
    BY <1>1, IdleHas DEF ThType, Pcs
  <1>3. k.fd[f] = s
    OBVIOUS
  <1> HIDE DEF s, r
  <1>4. /\ KInv(k', AllRaw, AllMade, Waiting, [HeldNow EXCEPT ![t] = s], NoSock)
        /\ k'.fd = k.fd /\ k'.reserved = k.reserved
    <2> DEFINE y == fget_light(k, s)
    <2>1. /\ KInv(y, AllRaw, AllMade, Waiting, [HeldNow EXCEPT ![t] = s], NoSock)
          /\ y.fd = k.fd /\ y.reserved = k.reserved
      <3>1. KInv(y, AllRaw, AllMade, Waiting, [HeldNow EXCEPT ![t] = s], NoSock) /\ RefsOnly(k, y)
        BY <1>1, Hold
      <3> QED BY <3>1 DEF RefsOnly
    <2> QED BY <1>0, <2>1
  <1>5. RawOf(r) = {} /\ MadeOf(r) = {} /\ PendingOf(r) = {} /\ FdsOf(r) = {}
    BY <1>2, Has
  <1>6. Shape(r)
    BY <1>1, <1>2 DEF Shape
  <1>7. /\ (AllRaw \ RawOf(th[t])) \cup RawOf(r) = AllRaw
        /\ (AllMade \ MadeOf(th[t])) \cup MadeOf(r) = AllMade
        /\ (Waiting \ PendingOf(th[t])) \cup PendingOf(r) = Waiting
        /\ (k.reserved \ FdsOf(th[t])) \cup FdsOf(r) = k.reserved
    BY <1>1, <1>5, IdleHas
  <1>8. KInv(k', (AllRaw \ RawOf(th[t])) \cup RawOf(r), (AllMade \ MadeOf(th[t])) \cup MadeOf(r),
             (Waiting \ PendingOf(th[t])) \cup PendingOf(r), [HeldNow EXCEPT ![t] = r.held], NoSock)
    BY <1>2, <1>4, <1>7
  <1>9. StepOk(t, r)
    BY <1>0, <1>1, <1>2, <1>3, <1>4, <1>5, <1>6, <1>7, <1>8 DEF StepOk, Goes
  <1> QED BY <1>9, StepKeeps

-----------------------------------------------------------------------------
(* One field of a socket, and its file. *)

\* As many sockets as before: the counters stay.
LEMMA CountSame ==
    ASSUME NEW x \in KType, NEW y, NEW s \in Socks, Step(x, y, s, 0, 0), Counted(x),
           x.sock[s].live <=> y.sock[s].live
    PROVE  Counted(y) /\ LiveIn(y) = LiveIn(x)
  <1>1. LiveIn(y) = LiveIn(x)
    <2>1. \A u : u \in LiveIn(y) <=> u \in LiveIn(x)
      BY DEF LiveIn, Step
    <2> QED BY <2>1 DEF LiveIn
  <1>2. x.in_use + 0 = x.in_use /\ x.users + 0 = x.users
    BY SMT DEF KType
  <1> QED BY <1>1, <1>2 DEF Counted, Step

\* References do not depend on the records of the sockets.
LEMMA StepRefs ==
    ASSUME NEW x, NEW y, NEW s, NEW m, NEW n, Step(x, y, s, m, n), NEW P, NEW h, NEW e,
           RefsOk(x, P, h, e)
    PROVE  RefsOk(y, P, h, e)
  <1>1. \A u : FdsTo(y, u) = FdsTo(x, u)
    BY DEF Step, FdsTo
  <1> QED BY <1>1 DEF RefsOk, RefAt, Step

\* Setting the record of a socket changes nothing else.
LEMMA SockSet ==
    ASSUME NEW x \in KType, NEW s \in Socks, NEW v \in SockType
    PROVE  Step(x, SetSock(x, s, v), s, 0, 0) /\ SetSock(x, s, v).sock[s] = v
  <1> DEFINE y == SetSock(x, s, v)
  <1>2. y = [x EXCEPT !.sock = [x.sock EXCEPT ![s] = v]]
    BY DEF SetSock
  <1> HIDE DEF y
  <1>3. /\ y.sock = [x.sock EXCEPT ![s] = v] /\ y.in_use = x.in_use
        /\ y.refs = x.refs /\ y.fd = x.fd /\ y.reserved = x.reserved /\ y.users = x.users
    BY <1>2 DEF KType
  <1>4. y \in KType
    <2>2. [x.sock EXCEPT ![s] = v] \in [Socks -> SockType]
      BY DEF KType
    <2> QED BY <1>2, <2>2 DEF KType
  <1>5. y.sock[s] = v /\ \A u \in Socks \ {s} : y.sock[u] = x.sock[u]
    BY <1>3 DEF KType
  <1>6. x.in_use = x.in_use + 0 /\ x.users = x.users + 0
    BY SMT DEF KType
  <1> QED BY <1>3, <1>4, <1>5, <1>6 DEF Step, y

\* Setting sock->file.
LEMMA FileSet ==
    ASSUME NEW x \in KType, NEW s \in Socks, NEW b \in BOOLEAN
    PROVE  LET y == SetFile(x, s, b)
           IN  /\ Step(x, y, s, 0, 0) /\ y.sock[s].file = b
               /\ y.sock[s].live = x.sock[s].live /\ y.sock[s].ops = x.sock[s].ops
               /\ y.sock[s].inode = x.sock[s].inode
  <1> DEFINE y == SetFile(x, s, b)
             r == x.sock[s]
             q == [r EXCEPT !.file = b]
  <1>1. r \in SockType /\ y = SetSock(x, s, q)
    BY SockRecord DEF SetSock, SetFile
  <1> HIDE DEF r, y
  <1>2. q \in SockType /\ q.file = b /\ q.live = r.live /\ q.ops = r.ops /\ q.inode = r.inode
    BY <1>1 DEF SockType
  <1> HIDE DEF q
  <1>3. Step(x, y, s, 0, 0) /\ y.sock[s] = q
    <2>1. q \in SockType
      BY <1>2
    <2>2. Step(x, SetSock(x, s, q), s, 0, 0) /\ SetSock(x, s, q).sock[s] = q
      BY <2>1, SockSet
    <2>3. y = SetSock(x, s, q)
      BY <1>1
    <2> QED BY <2>2, <2>3
  <1>4. /\ Step(x, y, s, 0, 0) /\ y.sock[s].file = b
        /\ y.sock[s].live = x.sock[s].live /\ y.sock[s].ops = x.sock[s].ops
        /\ y.sock[s].inode = x.sock[s].inode
    BY <1>2, <1>3 DEF r
  <1> QED BY <1>4 DEF y

\* sock_alloc_file gives a made socket its file: its one reference is the call's.
LEMMA AllocFile ==
    ASSUME NEW x, NEW R, NEW M, NEW P, NEW h, NEW e, KInv(x, R, M, P, h, e), NEW s \in M, NEW f \in Fds
    PROVE  LET y == sock_alloc_file(x, s, f)
           IN  KInv(y, R, M \ {s}, P \cup {<<f, s>>}, h, e) /\ FdsMore(x, y, f)
  <1>1. x \in KType /\ P \subseteq Fds \X Socks /\ Phases(x, R, M) /\ Counted(x) /\ RefsOk(x, P, h, e)
    BY DEF KInv
  <1>2. s \in Socks /\ s \notin R /\ Made(x.sock[s]) /\ x.refs[s] = 0
    BY <1>1 DEF Phases
  <1>3. FdsTo(x, s) = {} /\ PendingTo(P, s) = {} /\ HoldersOf(h, s) = {} /\ s # e
    BY <1>2, Referred
  <1> DEFINE z == SetFile(x, s, TRUE)
             w == SetRefs(z, [z.refs EXCEPT ![s] = 1])
             g == x.reserved \cup {f}
             y == SetReserved(w, g)
             Q == P \cup {<<f, s>>}
  <1>4. /\ Step(x, z, s, 0, 0) /\ z.sock[s].file = TRUE /\ z.sock[s].live = x.sock[s].live
        /\ z.sock[s].ops = x.sock[s].ops /\ z.sock[s].inode = x.sock[s].inode
    BY <1>1, <1>2, FileSet
  <1> HIDE DEF z
  <1>5. z \in KType /\ Filed(z.sock[s]) /\ z.reserved = x.reserved /\ z.refs = x.refs
    BY <1>2, <1>4 DEF Made, Filed, Step
  <1>6. Counted(z) /\ LiveIn(z) = LiveIn(x)
    BY <1>1, <1>2, <1>4, CountSame
  <1>7. \A u : FdsTo(z, u) = FdsTo(x, u)
    BY <1>4 DEF Step, FdsTo
  <1>8. 1 \in Int /\ 1 > 0 /\ 1 = 0 + 1 + 0 + 0
    BY SMT
  <1>9. /\ w \in KType /\ w.sock = z.sock /\ w.fd = z.fd /\ w.reserved = z.reserved
        /\ w.in_use = z.in_use /\ w.users = z.users
        /\ w.refs[s] = 1 /\ \A u \in Socks \ {s} : w.refs[u] = z.refs[u]
        /\ LiveIn(w) = LiveIn(z) /\ \A u : FdsTo(w, u) = FdsTo(z, u)
        /\ Counted(w)
    <2>1. z \in KType /\ s \in Socks /\ 1 \in Int /\ Counted(z)
      BY <1>2, <1>5, <1>6, <1>8
    <2>2. RefsTo(z, w, s, 1)
      BY <2>1, RefsMoved
    <2> HIDE DEF w
    <2> QED BY <2>1, <2>2 DEF RefsTo
  <1>10. sock_alloc_file(x, s, f) = y
    BY <1>5, <1>9 DEF sock_alloc_file, SetReserved, SetRefs, SetFile, z
  <1> HIDE DEF w
  <1>11. Phases(w, R, M \ {s})
    <2>1. \A u \in Socks \ {s} : w.sock[u] = x.sock[u] /\ w.refs[u] = x.refs[u]
      BY <1>4, <1>5, <1>9 DEF Step
    <2>2. Filed(w.sock[s]) /\ w.refs[s] > 0
      BY <1>5, <1>8, <1>9
    <2> QED BY <1>1, <1>2, <2>1, <2>2 DEF Phases
  <1>12. Q \subseteq Fds \X Socks
    BY SMT, <1>1, <1>2
  <1>13. PendingTo(Q, s) = {<<f, s>>}
    <2>1. \A p : p \in PendingTo(Q, s) <=> p \in PendingTo(P, s) \cup {<<f, s>>}
      BY SMT DEF PendingTo
    <2> QED BY <1>3, <2>1
  <1>14. \A u \in Socks \ {s} : PendingTo(Q, u) = PendingTo(P, u)
    <2>1. \A u \in Socks \ {s} : \A p : p \in PendingTo(Q, u) <=> p \in PendingTo(P, u)
      BY SMT DEF PendingTo
    <2> QED BY <2>1
  <1> HIDE DEF Q
  <1>15. RefAt(w, Q, h, e, s)
    <2>1. Cardinality({<<f, s>>}) = 1 /\ Cardinality({}) = 0
      BY FS_Singleton, FS_EmptySet
    <2>2. FdsTo(w, s) = {}
      BY <1>3, <1>7, <1>9
    <2>3. w.refs[s] = 0 + 1 + 0 + 0
      BY <1>8, <1>9
    <2> QED BY <1>3, <1>13, <2>1, <2>2, <2>3 DEF RefAt
  <1>16. \A u \in Socks \ {s} : RefAt(w, Q, h, e, u)
    BY <1>1, <1>5, <1>7, <1>9, <1>14 DEF RefsOk, RefAt
  <1>17. KInv(w, R, M \ {s}, Q, h, e)
    BY <1>9, <1>11, <1>12, <1>15, <1>16 DEF KInv, RefsOk
  <1>18. g \in SUBSET Fds
    BY <1>1 DEF KType
  <1> HIDE DEF g
  <1>19. KInv(y, R, M \ {s}, Q, h, e) /\ y.fd = w.fd /\ y.reserved = g /\ LiveIn(y) = LiveIn(w)
    <2>1. KInv(y, R, M \ {s}, Q, h, e) /\ ReservedTo(w, y, g)
      BY <1>17, <1>18, Unreserve
    <2> QED BY <2>1 DEF ReservedTo
  <1> HIDE DEF y
  <1>20. FdsMore(x, y, f)
    BY <1>4, <1>9, <1>19 DEF Step, FdsMore, g
  <1> QED BY <1>10, <1>19, <1>20 DEF Q

\* Setting sock->sk, which no phase depends on.
LEMMA SkSet ==
    ASSUME NEW x \in KType, NEW s \in Socks, NEW b \in BOOLEAN
    PROVE  LET y == SetSk(x, s, b)
           IN  /\ Step(x, y, s, 0, 0)
               /\ y.sock[s].live = x.sock[s].live /\ y.sock[s].ops = x.sock[s].ops
               /\ y.sock[s].file = x.sock[s].file /\ y.sock[s].inode = x.sock[s].inode
  <1> DEFINE y == SetSk(x, s, b)
             r == x.sock[s]
             q == [r EXCEPT !.sk = b]
  <1>1. r \in SockType /\ y = SetSock(x, s, q)
    BY SockRecord DEF SetSock, SetSk
  <1> HIDE DEF r, y
  <1>2. q \in SockType /\ q.live = r.live /\ q.ops = r.ops /\ q.file = r.file /\ q.inode = r.inode
    BY <1>1 DEF SockType
  <1> HIDE DEF q
  <1>3. Step(x, y, s, 0, 0) /\ y.sock[s] = q
    <2>1. q \in SockType
      BY <1>2
    <2>2. Step(x, SetSock(x, s, q), s, 0, 0) /\ SetSock(x, s, q).sock[s] = q
      BY <2>1, SockSet
    <2>3. y = SetSock(x, s, q)
      BY <1>1
    <2> QED BY <2>2, <2>3
  <1>4. /\ Step(x, y, s, 0, 0)
        /\ y.sock[s].live = x.sock[s].live /\ y.sock[s].ops = x.sock[s].ops
        /\ y.sock[s].file = x.sock[s].file /\ y.sock[s].inode = x.sock[s].inode
    BY <1>2, <1>3 DEF r
  <1> QED BY <1>4 DEF y

\* The record of a filed socket changes within its phase.
LEMMA SameFiled ==
    ASSUME NEW x, NEW R, NEW M, NEW P, NEW h, NEW e, KInv(x, R, M, P, h, e),
           NEW s \in Socks, NEW y, Step(x, y, s, 0, 0), Filed(x.sock[s]), Filed(y.sock[s])
    PROVE  KInv(y, R, M, P, h, e) /\ LiveIn(y) = LiveIn(x)
  <1>1. x \in KType /\ P \subseteq Fds \X Socks /\ Phases(x, R, M) /\ Counted(x) /\ RefsOk(x, P, h, e)
    BY DEF KInv
  <1>2. y \in KType /\ RefsOk(y, P, h, e)
    BY <1>1, StepRefs DEF Step
  <1>3. s \notin R /\ s \notin M /\ x.refs[s] > 0
    BY <1>1 DEF Phases, Raw, Made, Filed, Absent
  <1>4. Counted(y) /\ LiveIn(y) = LiveIn(x)
    BY <1>1, <1>3, CountSame DEF Filed
  <1>5. Phases(y, R, M)
    BY <1>1, <1>3 DEF Phases, Step
  <1> QED BY <1>1, <1>2, <1>4, <1>5 DEF KInv

\* Setting sock->ops.
LEMMA OpsSet ==
    ASSUME NEW x \in KType, NEW s \in Socks, NEW b \in BOOLEAN
    PROVE  LET y == SetOps(x, s, b)
           IN  /\ Step(x, y, s, 0, 0) /\ y.sock[s].ops = b
               /\ y.sock[s].live = x.sock[s].live /\ y.sock[s].file = x.sock[s].file
               /\ y.sock[s].inode = x.sock[s].inode
  <1> DEFINE y == SetOps(x, s, b)
             r == x.sock[s]
             q == [r EXCEPT !.ops = b]
  <1>1. r \in SockType /\ y = SetSock(x, s, q)
    BY SockRecord DEF SetSock, SetOps
  <1> HIDE DEF r, y
  <1>2. q \in SockType /\ q.ops = b /\ q.live = r.live /\ q.file = r.file /\ q.inode = r.inode
    BY <1>1 DEF SockType
  <1> HIDE DEF q
  <1>3. Step(x, y, s, 0, 0) /\ y.sock[s] = q
    <2>1. q \in SockType
      BY <1>2
    <2>2. Step(x, SetSock(x, s, q), s, 0, 0) /\ SetSock(x, s, q).sock[s] = q
      BY <2>1, SockSet
    <2>3. y = SetSock(x, s, q)
      BY <1>1
    <2> QED BY <2>2, <2>3
  <1>4. /\ Step(x, y, s, 0, 0) /\ y.sock[s].ops = b
        /\ y.sock[s].live = x.sock[s].live /\ y.sock[s].file = x.sock[s].file
        /\ y.sock[s].inode = x.sock[s].inode
    BY <1>2, <1>3 DEF r
  <1> QED BY <1>4 DEF y

-----------------------------------------------------------------------------
(* The last reference goes: fput, sock_close, the inode and the module. *)

\* Two changes of one socket.
LEMMA StepTwice ==
    ASSUME NEW x \in KType, NEW y, NEW z, NEW s \in Socks, NEW a \in Int, NEW b \in Int,
           NEW c \in Int, NEW d \in Int, Step(x, y, s, a, b), Step(y, z, s, c, d)
    PROVE  Step(x, z, s, a + c, b + d)
  <1>1. x.in_use + a + c = x.in_use + (a + c) /\ x.users + b + d = x.users + (b + d)
    BY SMT DEF KType
  <1> QED BY <1>1 DEF Step

\* Setting sockets_in_use changes nothing else.
LEMMA InUseSet ==
    ASSUME NEW x \in KType, NEW n \in Int
    PROVE  LET y == SetInUse(x, n)
           IN  /\ y \in KType /\ y.in_use = n
               /\ y.sock = x.sock /\ y.refs = x.refs /\ y.fd = x.fd
               /\ y.reserved = x.reserved /\ y.users = x.users
  <1> DEFINE y == SetInUse(x, n)
  <1>1. y = [x EXCEPT !.in_use = n]
    BY DEF SetInUse
  <1> HIDE DEF y
  <1>2. y \in KType
    BY <1>1 DEF KType
  <1>3. /\ y \in KType /\ y.in_use = n
        /\ y.sock = x.sock /\ y.refs = x.refs /\ y.fd = x.fd
        /\ y.reserved = x.reserved /\ y.users = x.users
    BY <1>1, <1>2 DEF KType
  <1> QED BY <1>3 DEF y

\* sockets_in_use goes up and down.
LEMMA InUseMoves ==
    ASSUME NEW x \in KType, NEW s \in Socks, NEW n \in Int
    PROVE  LET y == SetInUse(x, x.in_use + n) IN Step(x, y, s, n, 0) /\ y.sock = x.sock
  <1> DEFINE a == x.in_use + n
             y == SetInUse(x, a)
  <1>1. a \in Int /\ x.users = x.users + 0
    BY SMT DEF KType
  <1> HIDE DEF a
  <1>2. /\ y \in KType /\ y.in_use = a /\ y.sock = x.sock /\ y.refs = x.refs /\ y.fd = x.fd
        /\ y.reserved = x.reserved /\ y.users = x.users
    BY <1>1, InUseSet
  <1> HIDE DEF y
  <1>3. Step(x, y, s, n, 0) /\ y.sock = x.sock
    BY <1>1, <1>2 DEF Step, a
  <1> QED BY <1>3 DEF y, a

\* Setting the module's count changes nothing else.
LEMMA UsersSet ==
    ASSUME NEW x \in KType, NEW n \in Int
    PROVE  LET y == SetUsers(x, n)
           IN  /\ y \in KType /\ y.users = n
               /\ y.sock = x.sock /\ y.refs = x.refs /\ y.fd = x.fd
               /\ y.reserved = x.reserved /\ y.in_use = x.in_use
  <1> DEFINE y == SetUsers(x, n)
  <1>1. y = [x EXCEPT !.users = n]
    BY DEF SetUsers
  <1> HIDE DEF y
  <1>2. y \in KType
    BY <1>1 DEF KType
  <1>3. /\ y \in KType /\ y.users = n
        /\ y.sock = x.sock /\ y.refs = x.refs /\ y.fd = x.fd
        /\ y.reserved = x.reserved /\ y.in_use = x.in_use
    BY <1>1, <1>2 DEF KType
  <1> QED BY <1>3 DEF y

\* The count of the module goes up and down.
LEMMA UsersMove ==
    ASSUME NEW x \in KType, NEW s \in Socks, NEW n \in Int
    PROVE  LET y == SetUsers(x, x.users + n) IN Step(x, y, s, 0, n) /\ y.sock = x.sock
  <1> DEFINE a == x.users + n
             y == SetUsers(x, a)
  <1>1. a \in Int /\ x.in_use = x.in_use + 0
    BY SMT DEF KType
  <1> HIDE DEF a
  <1>2. /\ y \in KType /\ y.users = a /\ y.sock = x.sock /\ y.refs = x.refs /\ y.fd = x.fd
        /\ y.reserved = x.reserved /\ y.in_use = x.in_use
    BY <1>1, UsersSet
  <1> HIDE DEF y
  <1>3. Step(x, y, s, 0, n) /\ y.sock = x.sock
    BY <1>1, <1>2 DEF Step, a
  <1> QED BY <1>3 DEF y, a

\* module_put gives a reference on the protocol module back.
LEMMA ModulePut ==
    ASSUME NEW x \in KType, NEW s \in Socks
    PROVE  Step(x, module_put(x), s, 0, -1) /\ module_put(x).sock = x.sock
  <1>1. module_put(x) = SetUsers(x, x.users + -1)
    <2>1. x.users - 1 = x.users + -1
      BY DEF KType
    <2> QED BY <2>1 DEF module_put, SetUsers
  <1>2. -1 \in Int
    BY SMT
  <1> QED BY <1>1, <1>2, UsersMove

\* ops->release and module_put, for a socket with operations.
LEMMA ProtocolReleasedDoes ==
    ASSUME NEW x \in KType, NEW s \in Socks, x.sock[s].ops
    PROVE  LET y == ProtocolReleased(x, s)
           IN  /\ Step(x, y, s, 0, -1) /\ y.sock[s].ops = FALSE
               /\ y.sock[s].live = x.sock[s].live /\ y.sock[s].file = x.sock[s].file
               /\ y.sock[s].inode = x.sock[s].inode
  <1> DEFINE z == SetSk(x, s, FALSE)
             w == SetOps(z, s, FALSE)
             y == module_put(w)
  <1>1. ProtocolReleased(x, s) = y
    BY DEF ProtocolReleased, SetOps, SetSk
  <1>2. /\ Step(x, z, s, 0, 0)
        /\ z.sock[s].live = x.sock[s].live /\ z.sock[s].file = x.sock[s].file
        /\ z.sock[s].inode = x.sock[s].inode
    BY SkSet
  <1> HIDE DEF z
  <1>3. z \in KType
    BY <1>2 DEF Step
  <1>4. /\ Step(z, w, s, 0, 0) /\ w.sock[s].ops = FALSE
        /\ w.sock[s].live = z.sock[s].live /\ w.sock[s].file = z.sock[s].file
        /\ w.sock[s].inode = z.sock[s].inode
    BY <1>3, OpsSet
  <1> HIDE DEF w
  <1>5. w \in KType
    BY <1>4 DEF Step
  <1>6. Step(w, y, s, 0, -1) /\ y.sock = w.sock
    BY <1>5, ModulePut
  <1> HIDE DEF y
  <1>7. Step(x, w, s, 0 + 0, 0 + 0)
    BY SMT, <1>2, <1>4, StepTwice
  <1>8. Step(x, w, s, 0, 0)
    BY SMT, <1>7
  <1>9. Step(x, y, s, 0 + 0, 0 + -1)
    BY SMT, <1>6, <1>8, StepTwice
  <1>10. Step(x, y, s, 0, -1)
    BY SMT, <1>9
  <1> QED BY <1>1, <1>2, <1>4, <1>6, <1>10

\* iput, on the last reference.
LEMMA IputDoes ==
    ASSUME NEW x \in KType, NEW s \in Socks, x.sock[s].inode = 1
    PROVE  LET y == iput(x, s)
           IN  /\ Step(x, y, s, 0, 0) /\ y.sock[s].live = FALSE /\ y.sock[s].inode = 0
               /\ y.sock[s].ops = x.sock[s].ops /\ y.sock[s].file = x.sock[s].file
  <1> DEFINE y == iput(x, s)
             r == x.sock[s]
             i == r.inode - 1
             q == [r EXCEPT !.inode = i]
             w == [q EXCEPT !.live = (i # 0)]
  <1>1. r \in SockType /\ y = SetSock(x, s, w)
    BY SockRecord DEF iput, SetSock
  <1>0. i = 0
    BY SMT
  <1> HIDE DEF r, i, y
  <1>2. q \in SockType /\ q.inode = 0 /\ q.ops = r.ops /\ q.file = r.file
    BY SMT, <1>0, <1>1 DEF SockType
  <1> HIDE DEF q
  <1>3. w \in SockType /\ w.inode = 0 /\ w.ops = r.ops /\ w.file = r.file /\ w.live = FALSE
    BY <1>0, <1>2 DEF SockType
  <1> HIDE DEF w
  <1>4. Step(x, y, s, 0, 0) /\ y.sock[s] = w
    <2>1. w \in SockType
      BY <1>3
    <2>2. Step(x, SetSock(x, s, w), s, 0, 0) /\ SetSock(x, s, w).sock[s] = w
      BY <2>1, SockSet
    <2>3. y = SetSock(x, s, w)
      BY <1>1
    <2> QED BY <2>2, <2>3
  <1>5. /\ Step(x, y, s, 0, 0) /\ y.sock[s].live = FALSE /\ y.sock[s].inode = 0
        /\ y.sock[s].ops = r.ops /\ y.sock[s].file = r.file
    BY <1>3, <1>4
  <1> QED BY <1>5 DEF y, r

\* sock_release of a socket with a file leaves the inode to the file.
LEMMA ReleaseFiled ==
    ASSUME NEW x \in KType, NEW s \in Socks, Filed(x.sock[s])
    PROVE  LET z == sock_release(x, s) IN Step(x, z, s, -1, -1) /\ Raw(z.sock[s])
  <1> DEFINE p == ProtocolReleased(x, s)
             y == SetInUse(p, p.in_use + -1)
             z == SetFile(y, s, FALSE)
  <1>0. /\ Step(x, p, s, 0, -1) /\ p.sock[s].ops = FALSE /\ p.sock[s].live = TRUE
        /\ p.sock[s].file = TRUE /\ p.sock[s].inode = 1
    <2>1. x.sock[s] \in SockType
      BY SockRecord
    <2>2. x.sock[s].ops /\ x.sock[s].live = TRUE /\ x.sock[s].file = TRUE /\ x.sock[s].inode = 1
      BY <2>1 DEF Filed, SockType
    <2> QED BY <2>2, ProtocolReleasedDoes
  <1> HIDE DEF p
  <1>1. p \in KType /\ -1 \in Int /\ p.in_use - 1 = p.in_use + -1
    BY SMT, <1>0 DEF Step, KType
  <1>2. Step(p, y, s, -1, 0) /\ y.sock = p.sock
    BY <1>1, InUseMoves
  <1>3. sock_release(x, s) = z
    BY <1>0, <1>1, <1>2 DEF sock_release, SetInUse, SetFile, p
  <1> HIDE DEF y
  <1>4. y \in KType /\ y.sock[s].inode = 1 /\ y.sock[s].live = TRUE /\ y.sock[s].ops = FALSE
    BY <1>0, <1>2 DEF Step
  <1>5. /\ Step(y, z, s, 0, 0) /\ z.sock[s].live = TRUE /\ z.sock[s].inode = 1
        /\ z.sock[s].ops = FALSE /\ z.sock[s].file = FALSE
    BY <1>4, FileSet
  <1> HIDE DEF z
  <1>6. Step(x, y, s, 0 + -1, -1 + 0)
    BY SMT, <1>0, <1>1, <1>2, StepTwice
  <1>7. Step(x, y, s, -1, -1)
    BY SMT, <1>6
  <1>8. Step(x, z, s, -1 + 0, -1 + 0)
    BY SMT, <1>1, <1>5, <1>7, StepTwice
  <1>9. Step(x, z, s, -1, -1)
    BY SMT, <1>8
  <1> QED BY <1>3, <1>5, <1>9 DEF Raw

\* The last fput: sock_close, then the inode.
LEMMA LastPut ==
    ASSUME NEW x \in KType, NEW s \in Socks, Filed(x.sock[s])
    PROVE  LET y == iput(sock_release(x, s), s) IN Step(x, y, s, -1, -1) /\ Absent(y.sock[s])
  <1> DEFINE z == sock_release(x, s)
             y == iput(z, s)
  <1>1. Step(x, z, s, -1, -1) /\ Raw(z.sock[s])
    BY ReleaseFiled
  <1> HIDE DEF z
  <1>2. z \in KType /\ z.sock[s].inode = 1 /\ ~z.sock[s].ops /\ ~z.sock[s].file
    BY <1>1 DEF Step, Raw
  <1>3. /\ Step(z, y, s, 0, 0) /\ y.sock[s].live = FALSE /\ y.sock[s].inode = 0
        /\ y.sock[s].ops = z.sock[s].ops /\ y.sock[s].file = z.sock[s].file
    BY <1>2, IputDoes
  <1> HIDE DEF y
  <1>4. Step(x, y, s, -1 + 0, -1 + 0)
    BY SMT, <1>1, <1>3, StepTwice
  <1>5. Step(x, y, s, -1, -1)
    BY SMT, <1>4
  <1>6. Absent(y.sock[s])
    BY <1>2, <1>3 DEF Absent
  <1> QED BY <1>5, <1>6 DEF y, z

\* A socket goes: the counters go down with the sockets.
LEMMA CountDown ==
    ASSUME NEW x \in KType, NEW y, NEW s \in Socks, Step(x, y, s, -1, -1), Counted(x),
           x.sock[s].live, ~y.sock[s].live
    PROVE  Counted(y)
  <1>1. LiveIn(y) = LiveIn(x) \ {s} /\ s \in LiveIn(x)
    <2>1. \A u : u \in LiveIn(y) <=> u \in LiveIn(x) \ {s}
      BY DEF LiveIn, Step
    <2> QED BY <2>1 DEF LiveIn
  <1>2. IsFiniteSet(LiveIn(x)) /\ Cardinality(LiveIn(x)) \in Nat
    BY Finite
  <1>3. Cardinality(LiveIn(y)) = Cardinality(LiveIn(x)) - 1
    BY <1>1, <1>2, FS_RemoveElement
  <1>4. Cardinality(LiveIn(x)) - 1 = Cardinality(LiveIn(x)) + -1
    BY <1>2
  <1> QED BY <1>3, <1>4 DEF Counted, Step

\* fput by somebody who has the reference in hand.
LEMMA Put ==
    ASSUME NEW x, NEW R, NEW M, NEW P, NEW h, NEW s \in Socks, KInv(x, R, M, P, h, s)
    PROVE  LET y == fput(x, s)
           IN  /\ KInv(y, R, M, P, h, NoSock)
               /\ y.fd = x.fd /\ y.reserved = x.reserved /\ LiveIn(y) \subseteq LiveIn(x)
  <1>1. x \in KType /\ P \subseteq Fds \X Socks /\ Phases(x, R, M) /\ Counted(x) /\ RefsOk(x, P, h, s)
    BY DEF KInv
  <1>2. x.refs[s] > 0 /\ Filed(x.sock[s]) /\ s \notin R /\ s \notin M
    BY Referred
  <1> DEFINE y == fput(x, s)
             a == Cardinality(FdsTo(x, s))
             b == Cardinality(PendingTo(P, s))
             c == Cardinality(HoldersOf(h, s))
  <1>3. a \in Nat /\ b \in Nat /\ c \in Nat
    BY <1>1, Finite
  <1>4. x.refs[s] = a + b + c + 1
    BY <1>1 DEF RefsOk, RefAt
  <1> HIDE DEF a, b, c, y
  <1>5. s # NoSock /\ \A u \in Socks \ {s} : u # s /\ u # NoSock
    BY SocketConstants
  <1>6. ASSUME x.refs[s] > 1
        PROVE  /\ KInv(y, R, M, P, h, NoSock)
               /\ y.fd = x.fd /\ y.reserved = x.reserved /\ LiveIn(y) \subseteq LiveIn(x)
    <2> DEFINE n == x.refs[s] - 1
    <2>1. n \in Int /\ n > 0 /\ n = a + b + c + 0
      BY SMT, <1>3, <1>4, <1>6
    <2>2. y = SetRefs(x, [x.refs EXCEPT ![s] = n])
      BY <1>6 DEF fput, SetRefs, y
    <2> HIDE DEF n
    <2>3. /\ y \in KType /\ y.fd = x.fd /\ y.reserved = x.reserved
          /\ y.refs[s] = n /\ \A u \in Socks \ {s} : y.refs[u] = x.refs[u]
          /\ LiveIn(y) = LiveIn(x) /\ \A u : FdsTo(y, u) = FdsTo(x, u)
          /\ Counted(y) /\ Phases(y, R, M)
      <3> DEFINE z == SetRefs(x, [x.refs EXCEPT ![s] = n])
      <3>1. /\ z \in KType /\ z.fd = x.fd /\ z.reserved = x.reserved
            /\ z.refs[s] = n /\ \A u \in Socks \ {s} : z.refs[u] = x.refs[u]
            /\ LiveIn(z) = LiveIn(x) /\ \A u : FdsTo(z, u) = FdsTo(x, u)
            /\ Counted(z) /\ Phases(z, R, M)
        <4>1. RefsTo(x, z, s, n)
          BY <1>1, <2>1, RefsMoved
        <4> HIDE DEF z
        <4> QED BY <1>1, <1>2, <2>1, <4>1 DEF RefsTo
      <3> HIDE DEF z
      <3>2. y = z
        BY <2>2 DEF z
      <3> QED BY <3>1, <3>2
    <2>4. y.refs[s] = Cardinality(FdsTo(y, s)) + Cardinality(PendingTo(P, s))
                      + Cardinality(HoldersOf(h, s)) + (IF s = NoSock THEN 1 ELSE 0)
      BY <1>5, <2>1, <2>3 DEF a, b, c
    <2>5. RefsOk(y, P, h, NoSock)
      <3>1. RefAt(y, P, h, NoSock, s)
        BY <2>4 DEF RefAt
      <3>2. \A u \in Socks \ {s} : RefAt(y, P, h, NoSock, u)
        BY <1>1, <1>5, <2>3 DEF RefsOk, RefAt
      <3> QED BY <3>1, <3>2 DEF RefsOk
    <2> QED BY <1>1, <2>3, <2>5 DEF KInv
  <1>7. ASSUME ~(x.refs[s] > 1)
        PROVE  /\ KInv(y, R, M, P, h, NoSock)
               /\ y.fd = x.fd /\ y.reserved = x.reserved /\ LiveIn(y) \subseteq LiveIn(x)
    <2>1. x.refs[s] = 1 /\ 0 = a + b + c + 0 /\ 0 \in Int
      BY SMT, <1>3, <1>4, <1>7
    <2> DEFINE z == SetRefs(x, [x.refs EXCEPT ![s] = 0])
    <2>2. y = iput(sock_release(z, s), s)
      BY <1>7 DEF fput, SetRefs, y
    <2>3. /\ z \in KType /\ z.fd = x.fd /\ z.reserved = x.reserved /\ z.sock = x.sock
          /\ z.refs[s] = 0 /\ \A u \in Socks \ {s} : z.refs[u] = x.refs[u]
          /\ LiveIn(z) = LiveIn(x) /\ \A u : FdsTo(z, u) = FdsTo(x, u)
          /\ Counted(z)
      <3>1. RefsTo(x, z, s, 0)
        BY <1>1, <2>1, RefsMoved
      <3> HIDE DEF z
      <3> QED BY <1>1, <3>1 DEF RefsTo
    <2> HIDE DEF z
    <2>4. Step(z, y, s, -1, -1) /\ Absent(y.sock[s])
      BY <1>2, <2>2, <2>3, LastPut
    <2>5. z.refs[s] = Cardinality(FdsTo(z, s)) + Cardinality(PendingTo(P, s))
                      + Cardinality(HoldersOf(h, s)) + (IF s = NoSock THEN 1 ELSE 0)
      BY <1>5, <2>1, <2>3 DEF a, b, c
    <2>6. RefsOk(z, P, h, NoSock)
      <3>1. RefAt(z, P, h, NoSock, s)
        BY <2>5 DEF RefAt
      <3>2. \A u \in Socks \ {s} : RefAt(z, P, h, NoSock, u)
        BY <1>1, <1>5, <2>3 DEF RefsOk, RefAt
      <3> QED BY <3>1, <3>2 DEF RefsOk
    <2>7. RefsOk(y, P, h, NoSock)
      BY <2>4, <2>6, StepRefs
    <2>8. Counted(y)
      BY <1>2, <2>3, <2>4, CountDown DEF Filed, Absent
    <2>9. Phases(y, R, M)
      <3>1. \A u \in Socks \ {s} : y.sock[u] = x.sock[u] /\ y.refs[u] = x.refs[u]
        BY <2>3, <2>4 DEF Step
      <3>2. Absent(y.sock[s]) /\ y.refs[s] = 0
        BY <2>3, <2>4 DEF Step
      <3> QED BY <1>1, <1>2, <3>1, <3>2 DEF Phases
    <2>10. y.fd = x.fd /\ y.reserved = x.reserved /\ y \in KType /\ LiveIn(y) \subseteq LiveIn(x)
      BY <1>2, <2>3, <2>4 DEF Step, LiveIn, Filed
    <2> QED BY <1>1, <2>7, <2>8, <2>9, <2>10 DEF KInv
  <1>8. /\ KInv(y, R, M, P, h, NoSock)
        /\ y.fd = x.fd /\ y.reserved = x.reserved /\ LiveIn(y) \subseteq LiveIn(x)
    BY <1>6, <1>7
  <1> QED BY <1>8 DEF y

\* fput_light: it is done with it.
LEMMA Unhold ==
    ASSUME NEW x, NEW R, NEW M, NEW P, NEW h, KInv(x, R, M, P, h, NoSock),
           NEW t \in Threads, NEW s \in Socks, HoldsAt(h, t, s)
    PROVE  LET y == fput_light(x, s)
           IN  KInv(y, R, M, P, [h EXCEPT ![t] = NoSock], NoSock) /\ Kept(x, y)
  <1>1. x \in KType /\ P \subseteq Fds \X Socks /\ Phases(x, R, M) /\ Counted(x) /\ RefsOk(x, P, h, NoSock)
    BY DEF KInv
  <1> DEFINE g == [h EXCEPT ![t] = NoSock]
  <1>2. CASE ~Shared
    <2>1. fput_light(x, s) = x
      BY <1>2 DEF fput_light
    <2>2. KInv(x, R, M, P, g, NoSock)
      BY <1>1, <1>2, NoHolders DEF KInv, RefsOk, RefAt
    <2> QED BY <2>1, <2>2 DEF Kept
  <1>3. CASE Shared
    <2>1. fput_light(x, s) = fput(x, s)
      BY <1>3 DEF fput_light
    <2>5. /\ Cardinality(HoldersOf(g, s)) = Cardinality(HoldersOf(h, s)) - 1
          /\ \A u \in Socks \ {s} : HoldersOf(g, u) = HoldersOf(h, u)
      BY <1>3, HolderLess DEF HoldsAt
    <2> HIDE DEF g
    <2>4. s # NoSock /\ \A u \in Socks \ {s} : u # s /\ u # NoSock
      BY SocketConstants
    <2>6. RefAt(x, P, g, s, s)
      <3> DEFINE a == Cardinality(FdsTo(x, s))
                 b == Cardinality(PendingTo(P, s))
                 c == Cardinality(HoldersOf(h, s))
      <3>1. a \in Nat /\ b \in Nat /\ c \in Nat
        BY <1>1, Finite
      <3>2. x.refs[s] = a + b + c + 0
        BY <1>1, <2>4 DEF RefsOk, RefAt
      <3> HIDE DEF a, b, c
      <3>3. x.refs[s] = a + b + (c - 1) + 1
        BY SMT, <3>1, <3>2
      <3> QED BY <2>5, <3>3 DEF RefAt, a, b, c
    <2>7. \A u \in Socks \ {s} : RefAt(x, P, g, s, u)
      BY <1>1, <2>4, <2>5 DEF RefsOk, RefAt
    <2>8. KInv(x, R, M, P, g, s)
      BY <1>1, <2>6, <2>7 DEF KInv, RefsOk
    <2>9. /\ KInv(fput(x, s), R, M, P, g, NoSock) /\ fput(x, s).fd = x.fd
          /\ fput(x, s).reserved = x.reserved /\ LiveIn(fput(x, s)) \subseteq LiveIn(x)
      BY <2>8, Put
    <2> QED BY <2>1, <2>9 DEF g, Kept
  <1> QED BY <1>2, <1>3

\* fd_install at the end of socket() and accept4(), and fput_light of the listener.
LEMMA InstallKeeps ==
    ASSUME IInv, NEW t \in Threads, Install(t)
    PROVE  IInv'
  <1> DEFINE s == th[t].new
             f == th[t].newfd
             l == th[t].held
             x == fd_install(k, s, f)
  <1>1. th[t].pc = "install" /\ mod' = mod /\ th[t] \in ThType /\ Shape(th[t]) /\ Goes(t, Idle)
    BY Now DEF Install, At
  <1>2. s \in Socks /\ f \in Fds /\ l \in Socks \cup {NoSock}
    BY <1>1 DEF Shape, ThType
  <1>3. RawOf(th[t]) = {} /\ MadeOf(th[t]) = {} /\ PendingOf(th[t]) = {<<f, s>>} /\ FdsOf(th[t]) = {f}
    BY <1>1, Has
  <1>4. k' = IF l = NoSock THEN x ELSE fput_light(x, l)
    BY DEF Install
  <1>5. /\ KInv(k, AllRaw, AllMade, Waiting, HeldNow, NoSock) /\ k \in KType
        /\ HeldNow \in [Threads -> Socks \cup {NoSock}] /\ HeldNow[t] = l
        /\ \A g \in k.reserved : k.fd[g] = NoSock
        /\ <<f, s>> \in Waiting /\ k.fd[f] = NoSock
    BY <1>3, Now
  <1>6. mod.live /\ mod.family
    <2>1. PendingTo(Waiting, s) # {}
      BY SMT, <1>5 DEF PendingTo
    <2> QED BY <1>2, <2>1, ModuleThere
  <1> HIDE DEF s, f, l
  <1>7. /\ KInv(x, AllRaw, AllMade, Waiting \ {<<f, s>>}, HeldNow, NoSock)
        /\ \A g \in Fds \ {f} : x.fd[g] = k.fd[g]
        /\ x.reserved = k.reserved \ {f}
    <2>1. /\ KInv(k, AllRaw, AllMade, Waiting, HeldNow, NoSock)
          /\ f \in Fds /\ s \in Socks /\ <<f, s>> \in Waiting /\ k.fd[f] = NoSock
      BY <1>2, <1>5
    <2> QED BY SMT, <2>1, InstallFd
  <1> HIDE DEF x
  <1>8. /\ KInv(k', AllRaw, AllMade, Waiting \ {<<f, s>>}, [HeldNow EXCEPT ![t] = NoSock], NoSock)
        /\ k'.fd = x.fd /\ k'.reserved = x.reserved
    <2>1. CASE l = NoSock
      <3>1. [HeldNow EXCEPT ![t] = NoSock] = HeldNow
        BY <1>5, <2>1
      <3> QED BY <1>4, <1>7, <2>1, <3>1
    <2>2. CASE l # NoSock
      <3>1. l \in Socks /\ k' = fput_light(x, l)
        BY <1>2, <1>4, <2>2
      <3> DEFINE Q == Waiting \ {<<f, s>>}
                 y == fput_light(x, l)
      <3>2. /\ KInv(x, AllRaw, AllMade, Q, HeldNow, NoSock) /\ l \in Socks
            /\ HoldsAt(HeldNow, t, l)
        BY <1>5, <1>7, <3>1 DEF HoldsAt
      <3> HIDE DEF Q
      <3>3. /\ KInv(y, AllRaw, AllMade, Q, [HeldNow EXCEPT ![t] = NoSock], NoSock)
            /\ y.fd = x.fd /\ y.reserved = x.reserved
        <4>1. KInv(y, AllRaw, AllMade, Q, [HeldNow EXCEPT ![t] = NoSock], NoSock) /\ Kept(x, y)
          BY <3>2, Unhold
        <4> QED BY <4>1 DEF Kept
      <3> QED BY <3>1, <3>3 DEF Q
    <2> QED BY <2>1, <2>2
  <1>9. /\ AllRaw \ RawOf(th[t]) = AllRaw /\ AllMade \ MadeOf(th[t]) = AllMade
        /\ Waiting \ PendingOf(th[t]) = Waiting \ {<<f, s>>} /\ k.reserved \ FdsOf(th[t]) = k.reserved \ {f}
    BY <1>3
  <1>10. KInv(k', AllRaw \ RawOf(th[t]), AllMade \ MadeOf(th[t]), Waiting \ PendingOf(th[t]),
              [HeldNow EXCEPT ![t] = NoSock], NoSock)
    BY <1>8, <1>9
  <1>11. k'.reserved = k.reserved \ FdsOf(th[t]) /\ \A g \in k'.reserved : k'.fd[g] = NoSock
    <2>1. k.reserved \subseteq Fds
      BY Now
    <2> QED BY <1>5, <1>7, <1>8, <1>9, <2>1
  <1> QED BY <1>1, <1>6, <1>10, <1>11, EndKeeps

\* fput_light at its end.
LEMMA CallDoneKeeps ==
    ASSUME IInv, NEW t \in Threads, CallDone(t)
    PROVE  IInv'
  <1> DEFINE s == th[t].held
  <1>0. th[t].pc = "call" /\ k' = fput_light(k, s) /\ Goes(t, Idle) /\ mod' = mod
    BY DEF CallDone, At
  <1>1. s \in Socks
    BY <1>0, Now DEF Shape
  <1>2. RawOf(th[t]) = {} /\ MadeOf(th[t]) = {} /\ PendingOf(th[t]) = {} /\ FdsOf(th[t]) = {}
    BY <1>0, Has
  <1>3. /\ KInv(k, AllRaw, AllMade, Waiting, HeldNow, NoSock) /\ HoldsAt(HeldNow, t, s)
        /\ \A g \in k.reserved : k.fd[g] = NoSock
    BY Now DEF HoldsAt
  <1> HIDE DEF s
  <1>4. /\ KInv(k', AllRaw, AllMade, Waiting, [HeldNow EXCEPT ![t] = NoSock], NoSock)
        /\ k'.fd = k.fd /\ k'.reserved = k.reserved /\ LiveIn(k') \subseteq LiveIn(k)
    <2> DEFINE y == fput_light(k, s)
    <2>1. /\ KInv(y, AllRaw, AllMade, Waiting, [HeldNow EXCEPT ![t] = NoSock], NoSock)
          /\ y.fd = k.fd /\ y.reserved = k.reserved /\ LiveIn(y) \subseteq LiveIn(k)
      <3>1. KInv(y, AllRaw, AllMade, Waiting, [HeldNow EXCEPT ![t] = NoSock], NoSock) /\ Kept(k, y)
        BY <1>1, <1>3, Unhold
      <3> QED BY <3>1 DEF Kept
    <2> QED BY <1>0, <2>1
  <1>5. /\ AllRaw \ RawOf(th[t]) = AllRaw /\ AllMade \ MadeOf(th[t]) = AllMade
        /\ Waiting \ PendingOf(th[t]) = Waiting /\ k.reserved \ FdsOf(th[t]) = k.reserved
    BY <1>2
  <1>6. LiveIn(k') # {} => mod.live /\ mod.family
    BY <1>4 DEF IInv
  <1>7. KInv(k', AllRaw \ RawOf(th[t]), AllMade \ MadeOf(th[t]), Waiting \ PendingOf(th[t]),
             [HeldNow EXCEPT ![t] = NoSock], NoSock)
    BY <1>4, <1>5
  <1> QED BY <1>0, <1>3, <1>4, <1>5, <1>6, <1>7, EndKeeps

\* sys_close takes the descriptor away: its reference is in hand.
LEMMA CloseFd ==
    ASSUME NEW x, NEW R, NEW M, NEW P, NEW h, KInv(x, R, M, P, h, NoSock),
           NEW f \in Fds, NEW s \in Socks, x.fd[f] = s
    PROVE  LET y == SetFd(x, [x.fd EXCEPT ![f] = NoSock])
           IN  /\ KInv(y, R, M, P, h, s)
               /\ y.fd[f] = NoSock /\ \A g \in Fds \ {f} : y.fd[g] = x.fd[g]
               /\ y.reserved = x.reserved /\ LiveIn(y) = LiveIn(x)
  <1>1. x \in KType /\ P \subseteq Fds \X Socks /\ Phases(x, R, M) /\ Counted(x) /\ RefsOk(x, P, h, NoSock)
    BY DEF KInv
  <1> DEFINE y == SetFd(x, [x.fd EXCEPT ![f] = NoSock])
  <1>2. /\ y \in KType /\ y.sock = x.sock /\ y.refs = x.refs /\ y.reserved = x.reserved
        /\ y.in_use = x.in_use /\ y.users = x.users
        /\ y.fd[f] = NoSock /\ \A u \in Fds \ {f} : y.fd[u] = x.fd[u]
    <2>1. x \in KType /\ NoSock \in Socks \cup {NoSock}
      BY <1>1
    <2> QED BY <2>1, FdMoved
  <1> HIDE DEF y
  <1>3. LiveIn(y) = LiveIn(x) /\ Counted(y) /\ Phases(y, R, M)
    BY <1>1, <1>2, SameSockets
  <1>4. /\ Cardinality(FdsTo(y, s)) = Cardinality(FdsTo(x, s)) - 1
        /\ \A u \in Socks \ {s} : FdsTo(y, u) = FdsTo(x, u)
    <2>1. FdDiff(x, y, f, s, NoSock)
      BY <1>2 DEF FdDiff
    <2> QED BY SMT, <2>1, FdLess
  <1>5. s # NoSock /\ \A u \in Socks \ {s} : u # s /\ u # NoSock
    BY SocketConstants
  <1>6. RefAt(y, P, h, s, s)
    <2> DEFINE a == Cardinality(FdsTo(x, s))
               b == Cardinality(PendingTo(P, s))
               c == Cardinality(HoldersOf(h, s))
    <2>1. a \in Nat /\ b \in Nat /\ c \in Nat
      BY <1>1, Finite
    <2>2. x.refs[s] = a + b + c + 0
      BY <1>1, <1>5 DEF RefsOk, RefAt
    <2> HIDE DEF a, b, c
    <2>3. x.refs[s] = (a - 1) + b + c + 1
      BY SMT, <2>1, <2>2
    <2> QED BY <1>2, <1>4, <2>3 DEF RefAt, a, b, c
  <1>7. \A u \in Socks \ {s} : RefAt(y, P, h, s, u)
    BY <1>1, <1>2, <1>4, <1>5 DEF RefsOk, RefAt
  <1>8. KInv(y, R, M, P, h, s)
    BY <1>1, <1>2, <1>3, <1>6, <1>7 DEF KInv, RefsOk
  <1> QED BY <1>2, <1>3, <1>8 DEF y

\* sys_close of a number, whatever it stands for.
LEMMA SysClose ==
    ASSUME NEW x, NEW R, NEW M, NEW P, NEW h, KInv(x, R, M, P, h, NoSock), NEW f \in Fds
    PROVE  LET y == sys_close(x, f)
           IN  /\ KInv(y, R, M, P, h, NoSock) /\ y.reserved = x.reserved
               /\ LiveIn(y) \subseteq LiveIn(x)
               /\ \A g \in Fds : x.fd[g] = NoSock => y.fd[g] = NoSock
  <1>1. x.fd[f] \in Socks \cup {NoSock}
    BY DEF KInv, KType
  <1>2. CASE x.fd[f] = NoSock
    <2>1. sys_close(x, f) = x
      BY <1>2 DEF sys_close
    <2> QED BY <2>1
  <1>3. CASE x.fd[f] # NoSock
    <2> DEFINE s == x.fd[f]
               z == SetFd(x, [x.fd EXCEPT ![f] = NoSock])
               y == fput(z, s)
    <2>1. sys_close(x, f) = y
      BY <1>3 DEF sys_close, SetFd
    <2>2. s \in Socks /\ x.fd[f] = s
      BY <1>1, <1>3
    <2> HIDE DEF s
    <2>3. /\ KInv(z, R, M, P, h, s)
          /\ z.fd[f] = NoSock /\ \A g \in Fds \ {f} : z.fd[g] = x.fd[g]
          /\ z.reserved = x.reserved /\ LiveIn(z) = LiveIn(x)
      BY <2>2, CloseFd
    <2> HIDE DEF z
    <2>4. KInv(z, R, M, P, h, s) /\ s \in Socks
      BY <2>2, <2>3
    <2>5. /\ KInv(y, R, M, P, h, NoSock)
          /\ y.fd = z.fd /\ y.reserved = z.reserved /\ LiveIn(y) \subseteq LiveIn(z)
      BY <2>4, Put
    <2> HIDE DEF y
    <2>6. \A g \in Fds : x.fd[g] = NoSock => y.fd[g] = NoSock
      BY <2>3, <2>5
    <2> QED BY <2>1, <2>3, <2>5, <2>6
  <1> QED BY <1>2, <1>3

\* close().
LEMMA CloseKeeps ==
    ASSUME IInv, NEW t \in Threads, NEW f \in Fds, Close(t, f)
    PROVE  IInv'
  <1>0. At(t, "idle") /\ k' = sys_close(k, f) /\ th' = th /\ mod' = mod
    BY DEF Close
  <1>1. /\ [HeldNow EXCEPT ![t] = NoSock] = HeldNow
        /\ AllRaw \ RawOf(th[t]) = AllRaw /\ AllMade \ MadeOf(th[t]) = AllMade
        /\ Waiting \ PendingOf(th[t]) = Waiting /\ k.reserved \ FdsOf(th[t]) = k.reserved
        /\ th = [th EXCEPT ![t] = Idle] /\ k.reserved \subseteq Fds
        /\ KInv(k, AllRaw, AllMade, Waiting, HeldNow, NoSock)
        /\ \A g \in k.reserved : k.fd[g] = NoSock
    BY <1>0, IdleNow
  <1>2. /\ KInv(k', AllRaw, AllMade, Waiting, HeldNow, NoSock) /\ k'.reserved = k.reserved
        /\ LiveIn(k') \subseteq LiveIn(k)
        /\ \A g \in Fds : k.fd[g] = NoSock => k'.fd[g] = NoSock
    <2> DEFINE y == sys_close(k, f)
    <2>1. /\ KInv(y, AllRaw, AllMade, Waiting, HeldNow, NoSock) /\ y.reserved = k.reserved
          /\ LiveIn(y) \subseteq LiveIn(k)
          /\ \A g \in Fds : k.fd[g] = NoSock => y.fd[g] = NoSock
      BY <1>1, SysClose
    <2> QED BY <1>0, <2>1
  <1>3. LiveIn(k') # {} => mod.live /\ mod.family
    BY <1>2 DEF IInv
  <1>4. KInv(k', AllRaw \ RawOf(th[t]), AllMade \ MadeOf(th[t]), Waiting \ PendingOf(th[t]),
             [HeldNow EXCEPT ![t] = NoSock], NoSock)
    BY <1>1, <1>2
  <1>5. k'.reserved = k.reserved \ FdsOf(th[t]) /\ \A g \in k'.reserved : k'.fd[g] = NoSock
    BY <1>1, <1>2
  <1>6. Goes(t, Idle)
    BY <1>0, <1>1 DEF Goes
  <1> QED BY <1>0, <1>3, <1>4, <1>5, <1>6, EndKeeps

\* The end of socketpair(): the numbers are told, or both descriptors closed.
LEMMA PairCopyOutKeeps ==
    ASSUME IInv, NEW t \in Threads, NEW ok \in BOOLEAN, PairCopyOut(t, ok)
    PROVE  IInv'
  <1> DEFINE f == th[t].newfd
             g == th[t].newfd2
             w == sys_close(k, g)
             y == sys_close(w, f)
  <1>1. th[t].pc = "copyout" /\ mod' = mod /\ Goes(t, Idle) /\ Shape(th[t])
    BY Now DEF PairCopyOut, At
  <1>2. f \in Fds /\ g \in Fds /\ th[t].held = NoSock
    BY <1>1 DEF Shape
  <1>3. k' = k \/ k' = y
    BY DEF PairCopyOut
  <1>4. RawOf(th[t]) = {} /\ MadeOf(th[t]) = {} /\ PendingOf(th[t]) = {} /\ FdsOf(th[t]) = {}
    BY <1>1, Has
  <1>5. /\ AllRaw \ RawOf(th[t]) = AllRaw /\ AllMade \ MadeOf(th[t]) = AllMade
        /\ Waiting \ PendingOf(th[t]) = Waiting /\ k.reserved \ FdsOf(th[t]) = k.reserved
    BY <1>4
  <1>6. [HeldNow EXCEPT ![t] = NoSock] = HeldNow
    BY <1>2, HeldBack
  <1>7. /\ KInv(k, AllRaw, AllMade, Waiting, HeldNow, NoSock)
        /\ k.reserved \subseteq Fds /\ \A u \in k.reserved : k.fd[u] = NoSock
    BY Now
  <1> HIDE DEF f, g
  <1>8. /\ KInv(w, AllRaw, AllMade, Waiting, HeldNow, NoSock) /\ w.reserved = k.reserved
        /\ LiveIn(w) \subseteq LiveIn(k)
        /\ \A u \in Fds : k.fd[u] = NoSock => w.fd[u] = NoSock
    BY <1>2, <1>7, SysClose
  <1> HIDE DEF w
  <1>9. /\ KInv(y, AllRaw, AllMade, Waiting, HeldNow, NoSock) /\ y.reserved = w.reserved
        /\ LiveIn(y) \subseteq LiveIn(w)
        /\ \A u \in Fds : w.fd[u] = NoSock => y.fd[u] = NoSock
    BY <1>2, <1>8, SysClose
  <1> HIDE DEF y
  <1>10. /\ KInv(k', AllRaw, AllMade, Waiting, HeldNow, NoSock) /\ k'.reserved = k.reserved
         /\ LiveIn(k') \subseteq LiveIn(k) /\ \A u \in k.reserved : k'.fd[u] = NoSock
    <2>1. CASE k' = k
      BY <1>7, <2>1
    <2>2. CASE k' = y
      BY <1>7, <1>8, <1>9, <2>2
    <2> QED BY <1>3, <2>1, <2>2
  <1>11. KInv(k', AllRaw \ RawOf(th[t]), AllMade \ MadeOf(th[t]), Waiting \ PendingOf(th[t]),
              [HeldNow EXCEPT ![t] = NoSock], NoSock)
    BY <1>5, <1>6, <1>10
  <1>12. k'.reserved = k.reserved \ FdsOf(th[t]) /\ \A u \in k'.reserved : k'.fd[u] = NoSock
    BY <1>5, <1>10
  <1>13. LiveIn(k') # {} => mod.live /\ mod.family
    BY <1>10 DEF IInv
  <1> QED BY <1>1, <1>11, <1>12, <1>13, EndKeeps

\* A call gives up what it has not installed.
LEMMA DropPending ==
    ASSUME NEW x, NEW R, NEW M, NEW P, NEW h, KInv(x, R, M, P, h, NoSock),
           NEW f \in Fds, NEW s \in Socks, <<f, s>> \in P
    PROVE  KInv(x, R, M, P \ {<<f, s>>}, h, s)
  <1>1. x \in KType /\ P \subseteq Fds \X Socks /\ Phases(x, R, M) /\ Counted(x) /\ RefsOk(x, P, h, NoSock)
    BY DEF KInv
  <1> DEFINE Q == P \ {<<f, s>>}
  <1>2. /\ Q \subseteq Fds \X Socks
        /\ Cardinality(PendingTo(Q, s)) = Cardinality(PendingTo(P, s)) - 1
        /\ \A u \in Socks \ {s} : PendingTo(Q, u) = PendingTo(P, u)
    <2>1. P \subseteq Fds \X Socks
      BY <1>1
    <2> QED BY SMT, <2>1, PendingCount
  <1> HIDE DEF Q
  <1>5. s # NoSock /\ \A u \in Socks \ {s} : u # s /\ u # NoSock
    BY SocketConstants
  <1>6. RefAt(x, Q, h, s, s)
    <2> DEFINE a == Cardinality(FdsTo(x, s))
               b == Cardinality(PendingTo(P, s))
               c == Cardinality(HoldersOf(h, s))
    <2>1. a \in Nat /\ b \in Nat /\ c \in Nat
      BY <1>1, Finite
    <2>2. x.refs[s] = a + b + c + 0
      BY <1>1, <1>5 DEF RefsOk, RefAt
    <2> HIDE DEF a, b, c
    <2>3. x.refs[s] = a + (b - 1) + c + 1
      BY SMT, <2>1, <2>2
    <2> QED BY <1>2, <2>3 DEF RefAt, a, b, c
  <1>7. \A u \in Socks \ {s} : RefAt(x, Q, h, s, u)
    BY <1>1, <1>2, <1>5 DEF RefsOk, RefAt
  <1>8. KInv(x, R, M, Q, h, s)
    BY <1>1, <1>2, <1>6, <1>7 DEF KInv, RefsOk
  <1> QED BY <1>8 DEF Q

\* A file that no descriptor stands for yet is put and its number given back.
LEMMA DropFile ==
    ASSUME NEW x, NEW R, NEW M, NEW P, NEW h, KInv(x, R, M, P, h, NoSock),
           NEW f \in Fds, NEW s \in Socks, <<f, s>> \in P
    PROVE  LET y == put_unused_fd(fput(x, s), f)
           IN  KInv(y, R, M, P \ {<<f, s>>}, h, NoSock) /\ FdsSame(x, y, {f})
  <1> DEFINE Q == P \ {<<f, s>>}
             w == fput(x, s)
             g == w.reserved \ {f}
             y == SetReserved(w, g)
  <1>1. KInv(x, R, M, Q, h, s)
    BY DropPending
  <1> HIDE DEF Q
  <1>2. KInv(w, R, M, Q, h, NoSock) /\ w.fd = x.fd /\ w.reserved = x.reserved
    BY <1>1, Put
  <1>3. put_unused_fd(fput(x, s), f) = y
    BY DEF put_unused_fd, SetReserved
  <1> HIDE DEF w
  <1>4. g \in SUBSET Fds
    BY <1>2 DEF KInv, KType
  <1> HIDE DEF g
  <1>5. KInv(y, R, M, Q, h, NoSock) /\ y.fd = w.fd /\ y.reserved = g
    <2>1. KInv(y, R, M, Q, h, NoSock) /\ ReservedTo(w, y, g)
      BY <1>2, <1>4, Unreserve
    <2> QED BY <2>1 DEF ReservedTo
  <1> HIDE DEF y
  <1>6. FdsSame(x, y, {f})
    BY <1>2, <1>5 DEF FdsSame, g
  <1> QED BY <1>3, <1>5, <1>6 DEF Q

\* out_fd and out_put of accept4().
LEMMA AcceptFails ==
    ASSUME NEW x, NEW R, NEW M, NEW P, NEW h, KInv(x, R, M, P, h, NoSock),
           NEW f \in Fds, NEW s \in Socks, <<f, s>> \in P,
           NEW t \in Threads, NEW l \in Socks, HoldsAt(h, t, l)
    PROVE  LET y == AcceptFailed(x, s, f, l)
           IN  KInv(y, R, M, P \ {<<f, s>>}, [h EXCEPT ![t] = NoSock], NoSock) /\ FdsSame(x, y, {f})
  <1> DEFINE Q == P \ {<<f, s>>}
             w == put_unused_fd(fput(x, s), f)
             y == fput_light(w, l)
  <1>1. KInv(w, R, M, Q, h, NoSock) /\ FdsSame(x, w, {f})
    BY DropFile
  <1> HIDE DEF w, Q
  <1>2. KInv(y, R, M, Q, [h EXCEPT ![t] = NoSock], NoSock) /\ Kept(w, y)
    BY <1>1, Unhold
  <1> HIDE DEF y
  <1>3. FdsSame(x, y, {f})
    BY <1>1, <1>2 DEF FdsSame, Kept
  <1> QED BY <1>2, <1>3 DEF AcceptFailed, y, w, Q

\* The protocol's accept returns.
LEMMA AcceptDoneKeeps ==
    ASSUME IInv, NEW t \in Threads, NEW ok \in BOOLEAN, AcceptDone(t, ok)
    PROVE  IInv'
  <1> DEFINE s == th[t].new
             f == th[t].newfd
             l == th[t].held
             r == [th[t] EXCEPT !.pc = "install"]
  <1>1. th[t].pc = "accept" /\ mod' = mod /\ th[t] \in ThType /\ Shape(th[t])
    BY Now DEF AcceptDone, At
  <1>2. s \in Socks /\ f \in Fds /\ l \in Socks
    BY <1>1 DEF Shape
  <1>3. /\ RawOf(th[t]) = {} /\ MadeOf(th[t]) = {}
        /\ PendingOf(th[t]) = {<<f, s>>} /\ FdsOf(th[t]) = {f}
    BY <1>1, Has
  <1>4. /\ KInv(k, AllRaw, AllMade, Waiting, HeldNow, NoSock) /\ k \in KType
        /\ \A g \in k.reserved : k.fd[g] = NoSock
        /\ <<f, s>> \in Waiting /\ HoldsAt(HeldNow, t, l) /\ f \in k.reserved
    BY <1>3, Now DEF HoldsAt
  <1>5. PendingTo(Waiting, s) # {}
    BY SMT, <1>4 DEF PendingTo
  <1>6. mod.live /\ mod.family
    BY <1>2, <1>5, ModuleThere
  <1>7. \/ k' = SetSk(k, s, TRUE) /\ Goes(t, r)
        \/ k' = AcceptFailed(k, s, f, l) /\ Goes(t, Idle)
    BY DEF AcceptDone, SetSk
  <1>8. r \in ThType /\ r.pc = "install" /\ r.new = s /\ r.newfd = f /\ r.held = l
    BY <1>1 DEF ThType, Pcs
  <1>80. [HeldNow EXCEPT ![t] = l] = HeldNow
    BY HeldBack
  <1>81. ~Shared => \E g \in Fds : k.fd[g] = l
    BY <1>2, SocketConstants DEF IInv
  <1> HIDE DEF s, f, l, r
  <1>9. CASE k' = SetSk(k, s, TRUE) /\ Goes(t, r)
    <2>0. KInv(k, AllRaw, AllMade, Waiting, HeldNow, NoSock)
      BY <1>4
    <2>1. Filed(k.sock[s])
      <3> DEFINE P == Waiting
                 h == HeldNow
      <3>1. PendingTo(P, s) # {} /\ KInv(k, AllRaw, AllMade, P, h, NoSock)
        BY <1>5, <2>0
      <3> HIDE DEF P, h
      <3> QED BY <1>2, <3>1, Referred
    <2>2. /\ Step(k, k', s, 0, 0)
          /\ k'.sock[s].live = k.sock[s].live /\ k'.sock[s].ops = k.sock[s].ops
          /\ k'.sock[s].file = k.sock[s].file /\ k'.sock[s].inode = k.sock[s].inode
      <3> DEFINE y == SetSk(k, s, TRUE)
      <3>1. /\ Step(k, y, s, 0, 0)
            /\ y.sock[s].live = k.sock[s].live /\ y.sock[s].ops = k.sock[s].ops
            /\ y.sock[s].file = k.sock[s].file /\ y.sock[s].inode = k.sock[s].inode
        BY <1>2, <1>4, SkSet
      <3> QED BY <1>9, <3>1
    <2>3. Filed(k'.sock[s])
      BY <2>1, <2>2 DEF Filed
    <2>4. KInv(k', AllRaw, AllMade, Waiting, HeldNow, NoSock)
      BY <1>2, <1>4, <2>1, <2>2, <2>3, SameFiled
    <2>5. k'.fd = k.fd /\ k'.reserved = k.reserved
      BY <2>2 DEF Step
    <2>6. RawOf(r) = {} /\ MadeOf(r) = {} /\ PendingOf(r) = {<<f, s>>} /\ FdsOf(r) = {f}
      BY <1>8, Has
    <2>7. Shape(r)
      BY <1>2, <1>8 DEF Shape
    <2>8. /\ (AllRaw \ RawOf(th[t])) \cup RawOf(r) = AllRaw
          /\ (AllMade \ MadeOf(th[t])) \cup MadeOf(r) = AllMade
          /\ (Waiting \ PendingOf(th[t])) \cup PendingOf(r) = Waiting
          /\ (k.reserved \ FdsOf(th[t])) \cup FdsOf(r) = k.reserved
      BY <1>3, <1>4, <2>6
    <2>9. KInv(k', (AllRaw \ RawOf(th[t])) \cup RawOf(r), (AllMade \ MadeOf(th[t])) \cup MadeOf(r),
               (Waiting \ PendingOf(th[t])) \cup PendingOf(r), [HeldNow EXCEPT ![t] = r.held], NoSock)
      BY <1>8, <1>80, <2>4, <2>8
    <2>10. /\ k'.reserved = (k.reserved \ FdsOf(th[t])) \cup FdsOf(r)
           /\ \A g \in k'.reserved : k'.fd[g] = NoSock
           /\ \A g \in FdsOf(r) : g \in FdsOf(th[t])
      BY <1>3, <1>4, <2>5, <2>6, <2>8
    <2>11. ~Shared => \E g \in Fds : k'.fd[g] = r.held
      BY <1>8, <1>81, <2>5
    <2>12. StepOk(t, r)
      BY <1>1, <1>6, <1>8, <1>9, <2>6, <2>7, <2>9, <2>10, <2>11 DEF StepOk, Goes
    <2> QED BY <2>12, StepKeeps
  <1>10. CASE k' = AcceptFailed(k, s, f, l) /\ Goes(t, Idle)
    <2>1. /\ KInv(k', AllRaw, AllMade, Waiting \ {<<f, s>>}, [HeldNow EXCEPT ![t] = NoSock], NoSock)
          /\ FdsSame(k, k', {f})
      <3> DEFINE y == AcceptFailed(k, s, f, l)
      <3>1. /\ KInv(y, AllRaw, AllMade, Waiting \ {<<f, s>>}, [HeldNow EXCEPT ![t] = NoSock], NoSock)
            /\ FdsSame(k, y, {f})
        BY <1>2, <1>4, AcceptFails
      <3> QED BY <1>10, <3>1
    <2>2. /\ AllRaw \ RawOf(th[t]) = AllRaw /\ AllMade \ MadeOf(th[t]) = AllMade
          /\ Waiting \ PendingOf(th[t]) = Waiting \ {<<f, s>>}
      BY <1>3
    <2>3. KInv(k', AllRaw \ RawOf(th[t]), AllMade \ MadeOf(th[t]), Waiting \ PendingOf(th[t]),
               [HeldNow EXCEPT ![t] = NoSock], NoSock)
      BY <2>1, <2>2
    <2>4. k'.reserved = k.reserved \ FdsOf(th[t]) /\ \A g \in k'.reserved : k'.fd[g] = NoSock
      BY <1>3, <1>4, <2>1 DEF FdsSame
    <2> QED BY <1>1, <1>6, <1>10, <2>3, <2>4, EndKeeps
  <1> QED BY <1>7, <1>9, <1>10

-----------------------------------------------------------------------------
(* Sockets without a file are released. *)

\* sock_release of a socket without a file puts the inode.
LEMMA ReleaseUnfiled ==
    ASSUME NEW x \in KType, NEW s \in Socks, NEW n \in Int, NEW p,
           p = ProtocolReleased(x, s), Step(x, p, s, 0, n), p.sock[s].ops = FALSE,
           p.sock[s].file = FALSE, p.sock[s].inode = 1
    PROVE  LET z == sock_release(x, s) IN Step(x, z, s, -1, n) /\ Absent(z.sock[s])
  <1> DEFINE y == SetInUse(p, p.in_use + -1)
             z == iput(y, s)
  <1>1. p \in KType /\ -1 \in Int /\ p.in_use - 1 = p.in_use + -1
    BY SMT DEF Step, KType
  <1>2. Step(p, y, s, -1, 0) /\ y.sock = p.sock
    BY <1>1, InUseMoves
  <1>3. sock_release(x, s) = z
    BY <1>1, <1>2 DEF sock_release, SetInUse
  <1> HIDE DEF y
  <1>4. y \in KType /\ y.sock[s].inode = 1 /\ y.sock[s].file = FALSE /\ y.sock[s].ops = FALSE
    BY <1>2 DEF Step
  <1>5. /\ Step(y, z, s, 0, 0) /\ z.sock[s].live = FALSE /\ z.sock[s].inode = 0
        /\ z.sock[s].ops = FALSE /\ z.sock[s].file = FALSE
    BY <1>4, IputDoes
  <1> HIDE DEF z
  <1>6. Step(x, y, s, 0 + -1, n + 0)
    BY SMT, <1>1, <1>2, StepTwice
  <1>7. Step(x, y, s, -1, n)
    BY SMT, <1>6
  <1>8. Step(x, z, s, -1 + 0, n + 0)
    BY SMT, <1>1, <1>5, <1>7, StepTwice
  <1>9. Step(x, z, s, -1, n)
    BY SMT, <1>8
  <1> QED BY <1>3, <1>5, <1>9 DEF Absent

\* sock_release of a socket whose operations are set: the module is put too.
LEMMA ReleaseMade ==
    ASSUME NEW x \in KType, NEW s \in Socks, Made(x.sock[s])
    PROVE  LET z == sock_release(x, s) IN Step(x, z, s, -1, -1) /\ Absent(z.sock[s])
  <1> DEFINE p == ProtocolReleased(x, s)
  <1>1. x.sock[s] \in SockType
    BY SockRecord
  <1>2. x.sock[s].ops /\ x.sock[s].file = FALSE /\ x.sock[s].inode = 1
    BY <1>1 DEF Made, SockType
  <1>3. /\ Step(x, p, s, 0, -1) /\ p.sock[s].ops = FALSE
        /\ p.sock[s].file = FALSE /\ p.sock[s].inode = 1
    BY <1>2, ProtocolReleasedDoes
  <1>4. -1 \in Int
    BY SMT
  <1> QED BY <1>3, <1>4, ReleaseUnfiled

\* A socket without a file goes.
LEMMA Fall ==
    ASSUME NEW x, NEW R, NEW M, NEW P, NEW h, NEW e, KInv(x, R, M, P, h, e),
           NEW s \in R \cup M, NEW y, Step(x, y, s, -1, -1), Absent(y.sock[s])
    PROVE  KInv(y, R \ {s}, M \ {s}, P, h, e)
  <1>1. x \in KType /\ P \subseteq Fds \X Socks /\ Phases(x, R, M) /\ Counted(x) /\ RefsOk(x, P, h, e)
    BY DEF KInv
  <1>2. s \in Socks /\ x.sock[s].live /\ ~y.sock[s].live /\ x.refs[s] = 0
    BY <1>1 DEF Phases, Raw, Made, Absent
  <1>3. y \in KType /\ RefsOk(y, P, h, e)
    BY <1>1, StepRefs DEF Step
  <1>4. Counted(y)
    BY <1>1, <1>2, CountDown
  <1>5. Phases(y, R \ {s}, M \ {s})
    BY <1>1, <1>2 DEF Phases, Step
  <1> QED BY <1>1, <1>3, <1>4, <1>5 DEF KInv

\* sock_map_fd, and the release of the socket when it fails.
LEMMA MapFdKeeps ==
    ASSUME IInv, NEW t \in Threads, MapFd(t)
    PROVE  IInv'
  <1> DEFINE s == th[t].new
  <1>1. th[t].pc = "map" /\ mod' = mod /\ th[t] \in ThType /\ Shape(th[t])
    BY Now DEF MapFd, At
  <1>2. s \in Socks /\ th[t].held = NoSock
    BY <1>1 DEF Shape
  <1>3. RawOf(th[t]) = {} /\ MadeOf(th[t]) = {s} /\ PendingOf(th[t]) = {} /\ FdsOf(th[t]) = {}
    BY <1>1, Has
  <1>4. /\ KInv(k, AllRaw, AllMade, Waiting, HeldNow, NoSock) /\ k \in KType
        /\ \A f \in k.reserved : k.fd[f] = NoSock
        /\ s \in AllMade /\ s \notin AllRaw
    BY <1>3, Now
  <1>5. Made(k.sock[s])
    BY <1>4 DEF KInv, Phases
  <1>6. [HeldNow EXCEPT ![t] = NoSock] = HeldNow
    BY <1>2, HeldBack
  <1>7. mod.live /\ mod.family
    BY <1>2, <1>4, ModuleThere
  <1>8. CASE k' = sock_release(k, s) /\ Goes(t, Idle)
    <2>1. Step(k, k', s, -1, -1) /\ Absent(k'.sock[s])
      BY <1>2, <1>4, <1>5, <1>8, ReleaseMade
    <2>2. KInv(k', AllRaw \ {s}, AllMade \ {s}, Waiting, HeldNow, NoSock)
      BY <1>4, <2>1, Fall
    <2>3. k'.reserved = k.reserved /\ k'.fd = k.fd
      BY <2>1 DEF Step
    <2>4. /\ Waiting \ PendingOf(th[t]) = Waiting /\ k.reserved \ FdsOf(th[t]) = k.reserved
          /\ AllRaw \ {s} = AllRaw \ RawOf(th[t]) /\ AllMade \ {s} = AllMade \ MadeOf(th[t])
      BY <1>3, <1>4
    <2>5. KInv(k', AllRaw \ RawOf(th[t]), AllMade \ MadeOf(th[t]), Waiting \ PendingOf(th[t]),
               [HeldNow EXCEPT ![t] = NoSock], NoSock)
      BY <1>6, <2>2, <2>4
    <2> QED BY <1>1, <1>4, <1>7, <1>8, <2>3, <2>4, <2>5, EndKeeps
  <1>9. CASE \E f \in FreeFds(k) : /\ k' = sock_alloc_file(k, s, f)
                                   /\ Goes(t, [th[t] EXCEPT !.pc = "install", !.newfd = f])
    <2>1. PICK f \in Fds : /\ k.fd[f] = NoSock /\ f \notin k.reserved /\ k' = sock_alloc_file(k, s, f)
                           /\ Goes(t, [th[t] EXCEPT !.pc = "install", !.newfd = f])
      BY <1>9 DEF FreeFds
    <2> DEFINE r == [th[t] EXCEPT !.pc = "install", !.newfd = f]
    <2>2. r \in ThType /\ r.pc = "install" /\ r.new = s /\ r.held = NoSock /\ r.newfd = f
      BY <1>1, <1>2 DEF ThType, Pcs
    <2>3. Goes(t, r)
      BY <2>1
    <2> HIDE DEF r, s
    <2>4. /\ KInv(k', AllRaw, AllMade \ {s}, Waiting \cup {<<f, s>>}, HeldNow, NoSock)
          /\ k'.fd = k.fd /\ k'.reserved = k.reserved \cup {f}
      <3> DEFINE y == sock_alloc_file(k, s, f)
      <3>1. KInv(k, AllRaw, AllMade, Waiting, HeldNow, NoSock) /\ s \in AllMade
        BY <1>4
      <3>2. /\ KInv(y, AllRaw, AllMade \ {s}, Waiting \cup {<<f, s>>}, HeldNow, NoSock)
            /\ FdsMore(k, y, f)
        BY <3>1, AllocFile
      <3> QED BY <2>1, <3>2 DEF FdsMore
    <2>5. RawOf(r) = {} /\ MadeOf(r) = {} /\ PendingOf(r) = {<<f, s>>} /\ FdsOf(r) = {f}
      BY <2>2, Has
    <2>6. Shape(r)
      BY <1>2, <2>2 DEF Shape
    <2>7. /\ (AllRaw \ RawOf(th[t])) \cup RawOf(r) = AllRaw
          /\ (AllMade \ MadeOf(th[t])) \cup MadeOf(r) = AllMade \ {s}
          /\ (Waiting \ PendingOf(th[t])) \cup PendingOf(r) = Waiting \cup {<<f, s>>}
          /\ (k.reserved \ FdsOf(th[t])) \cup FdsOf(r) = k.reserved \cup {f}
      BY <1>3, <2>5
    <2>8. KInv(k', (AllRaw \ RawOf(th[t])) \cup RawOf(r), (AllMade \ MadeOf(th[t])) \cup MadeOf(r),
               (Waiting \ PendingOf(th[t])) \cup PendingOf(r), [HeldNow EXCEPT ![t] = r.held], NoSock)
      BY <1>6, <2>2, <2>4, <2>7
    <2>9. /\ k'.reserved = (k.reserved \ FdsOf(th[t])) \cup FdsOf(r)
          /\ \A g \in k'.reserved : k'.fd[g] = NoSock
          /\ \A g \in FdsOf(r) : g \in FdsOf(th[t]) \/ g \notin k.reserved
      BY <1>4, <2>1, <2>4, <2>5, <2>7
    <2>10. StepOk(t, r)
      BY <1>1, <1>7, <2>2, <2>3, <2>5, <2>6, <2>8, <2>9 DEF StepOk, Goes
    <2> QED BY <2>10, StepKeeps
  <1> QED BY <1>8, <1>9 DEF MapFd

\* sock_release of a socket that waits for its file.
LEMMA DropMade ==
    ASSUME NEW x, NEW R, NEW M, NEW P, NEW h, NEW e, KInv(x, R, M, P, h, e), NEW s \in M
    PROVE  LET y == sock_release(x, s) IN KInv(y, R, M \ {s}, P, h, e) /\ FdsSame(x, y, {})
  <1> DEFINE y == sock_release(x, s)
  <1>1. x \in KType /\ s \in Socks /\ Made(x.sock[s]) /\ s \notin R
    BY DEF KInv, Phases
  <1>2. Step(x, y, s, -1, -1) /\ Absent(y.sock[s])
    BY <1>1, ReleaseMade
  <1> HIDE DEF y
  <1>3. KInv(y, R \ {s}, M \ {s}, P, h, e)
    BY <1>2, Fall
  <1>4. R \ {s} = R
    BY <1>1
  <1>5. FdsSame(x, y, {})
    BY <1>2 DEF FdsSame, Step
  <1> QED BY <1>3, <1>4, <1>5 DEF y

\* The first socket of a pair goes through its file, the second as it is.
LEMMA PairUndoes ==
    ASSUME NEW x, NEW R, NEW M, NEW P, NEW h, KInv(x, R, M, P, h, NoSock),
           NEW f \in Fds, NEW s \in Socks, <<f, s>> \in P, NEW v \in M
    PROVE  LET y == PairUndone(x, s, f, v)
           IN  KInv(y, R, M \ {v}, P \ {<<f, s>>}, h, NoSock) /\ FdsSame(x, y, {f})
  <1> DEFINE Q == P \ {<<f, s>>}
             w == put_unused_fd(fput(x, s), f)
             y == sock_release(w, v)
  <1>1. KInv(w, R, M, Q, h, NoSock) /\ FdsSame(x, w, {f})
    BY DropFile
  <1> HIDE DEF w, Q
  <1>2. KInv(y, R, M \ {v}, Q, h, NoSock) /\ FdsSame(w, y, {})
    BY <1>1, DropMade
  <1> HIDE DEF y
  <1>3. FdsSame(x, y, {f})
    BY <1>1, <1>2 DEF FdsSame
  <1> QED BY <1>2, <1>3 DEF PairUndone, y, w, Q

\* The files of a pair, and what is undone when one of them fails.
LEMMA PairFilesKeeps ==
    ASSUME IInv, NEW t \in Threads, PairFiles(t)
    PROVE  IInv'
  <1> DEFINE s == th[t].new
             v == th[t].new2
  <1>1. th[t].pc = "pair" /\ mod' = mod /\ th[t] \in ThType /\ Shape(th[t])
    BY Now DEF PairFiles, At
  <1>2. s \in Socks /\ v \in Socks /\ s # v /\ th[t].held = NoSock
    BY <1>1 DEF Shape
  <1>3. RawOf(th[t]) = {} /\ MadeOf(th[t]) = {s, v} /\ PendingOf(th[t]) = {} /\ FdsOf(th[t]) = {}
    BY <1>1, Has
  <1>4. /\ KInv(k, AllRaw, AllMade, Waiting, HeldNow, NoSock)
        /\ \A f \in k.reserved : k.fd[f] = NoSock
        /\ s \in AllMade /\ v \in AllMade
    BY <1>3, Now
  <1>5. [HeldNow EXCEPT ![t] = NoSock] = HeldNow
    BY <1>2, HeldBack
  <1>6. mod.live /\ mod.family
    BY <1>2, <1>4, ModuleThere
  <1>7. /\ AllRaw \ RawOf(th[t]) = AllRaw /\ AllMade \ MadeOf(th[t]) = (AllMade \ {v}) \ {s}
        /\ AllMade \ MadeOf(th[t]) = (AllMade \ {s}) \ {v}
        /\ Waiting \ PendingOf(th[t]) = Waiting /\ k.reserved \ FdsOf(th[t]) = k.reserved
    BY <1>3
  <1>8. /\ s \in AllMade \ {v} /\ v \in AllMade \ {s}
    BY <1>2, <1>4
  <1>9. \/ k' = sock_release(sock_release(k, v), s) /\ Goes(t, Idle)
        \/ \E f \in FreeFds(k) : k' = PairUndone(sock_alloc_file(k, s, f), s, f, v) /\ Goes(t, Idle)
        \/ \E f \in FreeFds(k) : \E g \in FreeFds(sock_alloc_file(k, s, f)) :
             /\ k' = sock_alloc_file(sock_alloc_file(k, s, f), v, g)
             /\ Goes(t, [th[t] EXCEPT !.pc = "install1", !.newfd = f, !.newfd2 = g])
    BY DEF PairFiles
  <1>10. ASSUME NEW f \in Fds
         PROVE  LET x == sock_alloc_file(k, s, f)
                IN  /\ KInv(x, AllRaw, AllMade \ {s}, Waiting \cup {<<f, s>>}, HeldNow, NoSock)
                    /\ x.fd = k.fd /\ x.reserved = k.reserved \cup {f}
    <2>1. KInv(k, AllRaw, AllMade, Waiting, HeldNow, NoSock) /\ s \in AllMade
      BY <1>4
    <2> DEFINE x == sock_alloc_file(k, s, f)
    <2> HIDE DEF s, v
    <2>2. KInv(x, AllRaw, AllMade \ {s}, Waiting \cup {<<f, s>>}, HeldNow, NoSock) /\ FdsMore(k, x, f)
      BY <2>1, AllocFile
    <2> QED BY <2>2 DEF FdsMore
  <1>11. CASE k' = sock_release(sock_release(k, v), s) /\ Goes(t, Idle)
    <2> DEFINE w == sock_release(k, v)
               y == sock_release(w, s)
    <2> HIDE DEF s, v
    <2>1. KInv(w, AllRaw, AllMade \ {v}, Waiting, HeldNow, NoSock) /\ FdsSame(k, w, {})
      BY <1>4, DropMade
    <2>2. k' = y
      BY <1>11
    <2> HIDE DEF w
    <2>3. KInv(y, AllRaw, (AllMade \ {v}) \ {s}, Waiting, HeldNow, NoSock) /\ FdsSame(w, y, {})
      BY <1>8, <2>1, DropMade
    <2> HIDE DEF y
    <2>4. KInv(k', AllRaw \ RawOf(th[t]), AllMade \ MadeOf(th[t]), Waiting \ PendingOf(th[t]),
               [HeldNow EXCEPT ![t] = NoSock], NoSock)
      BY <1>5, <1>7, <2>2, <2>3
    <2>5. k'.reserved = k.reserved \ FdsOf(th[t]) /\ \A f \in k'.reserved : k'.fd[f] = NoSock
      BY <1>4, <1>7, <2>1, <2>2, <2>3 DEF FdsSame
    <2> QED BY <1>1, <1>6, <1>11, <2>4, <2>5, EndKeeps
  <1>12. CASE \E f \in FreeFds(k) : k' = PairUndone(sock_alloc_file(k, s, f), s, f, v) /\ Goes(t, Idle)
    <2>1. PICK f \in Fds : /\ k.fd[f] = NoSock /\ f \notin k.reserved
                           /\ k' = PairUndone(sock_alloc_file(k, s, f), s, f, v) /\ Goes(t, Idle)
      BY <1>12 DEF FreeFds
    <2> DEFINE x == sock_alloc_file(k, s, f)
               Q == Waiting \cup {<<f, s>>}
               y == PairUndone(x, s, f, v)
    <2>2. /\ KInv(x, AllRaw, AllMade \ {s}, Q, HeldNow, NoSock)
          /\ x.fd = k.fd /\ x.reserved = k.reserved \cup {f}
      BY <1>10
    <2>3. k' = y
      BY <2>1
    <2>4. <<f, s>> \in Q /\ Q \ {<<f, s>>} = Waiting
      BY <2>1, NotWaiting
    <2> HIDE DEF s, v, x, Q
    <2>5. /\ KInv(y, AllRaw, (AllMade \ {s}) \ {v}, Q \ {<<f, s>>}, HeldNow, NoSock)
          /\ FdsSame(x, y, {f})
      BY <1>2, <1>8, <2>2, <2>4, PairUndoes
    <2> HIDE DEF y
    <2>6. KInv(k', AllRaw \ RawOf(th[t]), AllMade \ MadeOf(th[t]), Waiting \ PendingOf(th[t]),
               [HeldNow EXCEPT ![t] = NoSock], NoSock)
      BY <1>5, <1>7, <2>3, <2>4, <2>5
    <2>7. k'.reserved = k.reserved \ FdsOf(th[t]) /\ \A g \in k'.reserved : k'.fd[g] = NoSock
      BY <1>4, <1>7, <2>1, <2>2, <2>3, <2>5 DEF FdsSame
    <2> QED BY <1>1, <1>6, <2>1, <2>6, <2>7, EndKeeps
  <1>13. CASE \E f \in FreeFds(k) : \E g \in FreeFds(sock_alloc_file(k, s, f)) :
                /\ k' = sock_alloc_file(sock_alloc_file(k, s, f), v, g)
                /\ Goes(t, [th[t] EXCEPT !.pc = "install1", !.newfd = f, !.newfd2 = g])
    <2>1. PICK f \in Fds : /\ k.fd[f] = NoSock /\ f \notin k.reserved
                           /\ \E g \in FreeFds(sock_alloc_file(k, s, f)) :
                                /\ k' = sock_alloc_file(sock_alloc_file(k, s, f), v, g)
                                /\ Goes(t, [th[t] EXCEPT !.pc = "install1", !.newfd = f, !.newfd2 = g])
      BY <1>13 DEF FreeFds
    <2> DEFINE x == sock_alloc_file(k, s, f)
               Q == Waiting \cup {<<f, s>>}
    <2>2. PICK g \in Fds : /\ x.fd[g] = NoSock /\ g \notin x.reserved
                           /\ k' = sock_alloc_file(x, v, g)
                           /\ Goes(t, [th[t] EXCEPT !.pc = "install1", !.newfd = f, !.newfd2 = g])
      BY <2>1 DEF FreeFds
    <2> DEFINE r == [th[t] EXCEPT !.pc = "install1", !.newfd = f, !.newfd2 = g]
    <2>3. /\ KInv(x, AllRaw, AllMade \ {s}, Q, HeldNow, NoSock)
          /\ x.fd = k.fd /\ x.reserved = k.reserved \cup {f}
      BY <1>10
    <2>4. /\ r \in ThType /\ r.pc = "install1" /\ r.new = s /\ r.new2 = v /\ r.held = NoSock
          /\ r.newfd = f /\ r.newfd2 = g
      BY <1>1, <1>2 DEF ThType, Pcs
    <2>5. Goes(t, r)
      BY <2>2
    <2>6. f # g /\ g \notin k.reserved /\ k.fd[g] = NoSock
      BY <2>2, <2>3
    <2> HIDE DEF s, v, x, r, Q
    <2>7. /\ KInv(k', AllRaw, (AllMade \ {s}) \ {v}, Q \cup {<<g, v>>}, HeldNow, NoSock)
          /\ k'.fd = x.fd /\ k'.reserved = x.reserved \cup {g}
      <3> DEFINE y == sock_alloc_file(x, v, g)
                 N == AllMade \ {s}
      <3>1. KInv(x, AllRaw, N, Q, HeldNow, NoSock) /\ v \in N
        BY <1>8, <2>3
      <3> HIDE DEF N
      <3>2. KInv(y, AllRaw, N \ {v}, Q \cup {<<g, v>>}, HeldNow, NoSock) /\ FdsMore(x, y, g)
        BY <3>1, AllocFile
      <3> QED BY <2>2, <3>2 DEF N, FdsMore
    <2>8. /\ RawOf(r) = {} /\ MadeOf(r) = {} /\ PendingOf(r) = {<<f, s>>, <<g, v>>}
          /\ FdsOf(r) = {f, g}
      BY <2>4, Has
    <2>9. Shape(r)
      BY <1>2, <2>4, <2>6 DEF Shape
    <2>10. /\ (AllRaw \ RawOf(th[t])) \cup RawOf(r) = AllRaw
           /\ (AllMade \ MadeOf(th[t])) \cup MadeOf(r) = (AllMade \ {s}) \ {v}
           /\ (Waiting \ PendingOf(th[t])) \cup PendingOf(r) = Q \cup {<<g, v>>}
           /\ (k.reserved \ FdsOf(th[t])) \cup FdsOf(r) = (k.reserved \cup {f}) \cup {g}
      BY <1>3, <1>7, <2>8 DEF Q
    <2>11. KInv(k', (AllRaw \ RawOf(th[t])) \cup RawOf(r), (AllMade \ MadeOf(th[t])) \cup MadeOf(r),
                (Waiting \ PendingOf(th[t])) \cup PendingOf(r), [HeldNow EXCEPT ![t] = r.held], NoSock)
      BY <1>5, <2>4, <2>7, <2>10
    <2>12. /\ k'.reserved = (k.reserved \ FdsOf(th[t])) \cup FdsOf(r)
           /\ \A u \in FdsOf(r) : u \in FdsOf(th[t]) \/ u \notin k.reserved
      BY <2>1, <2>3, <2>6, <2>7, <2>8, <2>10
    <2>13. \A u \in k'.reserved : k'.fd[u] = NoSock
      BY <1>4, <2>1, <2>3, <2>6, <2>7
    <2>14. StepOk(t, r)
      BY <1>1, <1>6, <2>4, <2>5, <2>8, <2>9, <2>11, <2>12, <2>13 DEF StepOk, Goes
    <2> QED BY <2>14, StepKeeps
  <1> QED BY <1>9, <1>11, <1>12, <1>13

-----------------------------------------------------------------------------
(* Sockets are made. *)

\* sock_alloc.
LEMMA SockAlloc ==
    ASSUME NEW x \in KType, NEW s \in Socks
    PROVE  Step(x, sock_alloc(x, s), s, 1, 0) /\ Raw(sock_alloc(x, s).sock[s])
  <1> DEFINE v == [Free EXCEPT !.live = TRUE, !.inode = 1]
             y == SetSock(x, s, v)
             z == SetInUse(y, y.in_use + 1)
  <1>1. v \in SockType /\ Raw(v)
    <2>1. Free \in SockType /\ Free.ops = FALSE /\ Free.file = FALSE /\ 1 \in Int
      BY SMT DEF Free, SockType
    <2>2. v \in SockType
      BY <2>1 DEF SockType
    <2>3. v.live = TRUE /\ v.inode = 1 /\ v.ops = FALSE /\ v.file = FALSE
      BY <2>1 DEF SockType
    <2> QED BY <2>2, <2>3 DEF Raw
  <1>2. sock_alloc(x, s) = z
    BY DEF sock_alloc, SetSock, SetInUse
  <1> HIDE DEF v
  <1>3. Step(x, y, s, 0, 0) /\ y.sock[s] = v
    BY <1>1, SockSet
  <1> HIDE DEF y
  <1>4. y \in KType /\ 1 \in Int
    BY SMT, <1>3 DEF Step
  <1>5. Step(y, z, s, 1, 0) /\ z.sock = y.sock
    BY <1>4, InUseMoves
  <1> HIDE DEF z
  <1>6. Step(x, z, s, 0 + 1, 0 + 0)
    BY SMT, <1>3, <1>5, StepTwice
  <1>7. Step(x, z, s, 1, 0)
    BY SMT, <1>6
  <1> QED BY <1>1, <1>2, <1>3, <1>5, <1>7

\* A socket is made: the counters go up with the sockets.
LEMMA CountUp ==
    ASSUME NEW x \in KType, NEW y, NEW s \in Socks, Step(x, y, s, 1, 1), Counted(x),
           ~x.sock[s].live, y.sock[s].live
    PROVE  Counted(y)
  <1>1. LiveIn(y) = LiveIn(x) \cup {s} /\ s \notin LiveIn(x)
    <2>1. \A u : u \in LiveIn(y) <=> u \in LiveIn(x) \cup {s}
      BY DEF LiveIn, Step
    <2> QED BY <2>1 DEF LiveIn
  <1>2. IsFiniteSet(LiveIn(x))
    BY Finite
  <1>3. Cardinality(LiveIn(y)) = Cardinality(LiveIn(x)) + 1
    BY <1>1, <1>2, FS_AddElement
  <1> QED BY <1>3 DEF Counted, Step

\* A socket is made where there was none: it joins the raw ones, or the made ones.
LEMMA Raise ==
    ASSUME NEW x, NEW R, NEW M, NEW P, NEW h, NEW e, KInv(x, R, M, P, h, e),
           NEW s \in Socks, ~x.sock[s].live, NEW y, Step(x, y, s, 1, 1)
    PROVE  /\ Raw(y.sock[s]) => KInv(y, R \cup {s}, M, P, h, e)
           /\ Made(y.sock[s]) => KInv(y, R, M \cup {s}, P, h, e)
  <1>1. x \in KType /\ P \subseteq Fds \X Socks /\ Phases(x, R, M) /\ Counted(x) /\ RefsOk(x, P, h, e)
    BY DEF KInv
  <1>2. s \notin R /\ s \notin M /\ x.refs[s] = 0
    BY <1>1, NotLive
  <1>3. y \in KType /\ RefsOk(y, P, h, e)
    BY <1>1, StepRefs DEF Step
  <1>4. CASE Raw(y.sock[s])
    <2>1. Counted(y)
      BY <1>1, <1>4, CountUp DEF Raw
    <2>2. Phases(y, R \cup {s}, M)
      BY <1>1, <1>2, <1>4 DEF Phases, Step
    <2>3. ~Made(y.sock[s])
      BY <1>4 DEF Raw, Made
    <2> QED BY <1>1, <1>3, <2>1, <2>2, <2>3 DEF KInv
  <1>5. CASE Made(y.sock[s])
    <2>1. Counted(y)
      BY <1>1, <1>5, CountUp DEF Made
    <2>2. Phases(y, R, M \cup {s})
      BY <1>1, <1>2, <1>5 DEF Phases, Step
    <2>3. ~Raw(y.sock[s])
      BY <1>5 DEF Raw, Made
    <2> QED BY <1>1, <1>3, <2>1, <2>2, <2>3 DEF KInv
  <1> QED BY <1>4, <1>5

\* module_get takes a reference on the protocol module.
LEMMA ModuleGet ==
    ASSUME NEW x \in KType, NEW s \in Socks
    PROVE  Step(x, module_get(x), s, 0, 1) /\ module_get(x).sock = x.sock
  <1>1. module_get(x) = SetUsers(x, x.users + 1)
    BY DEF module_get, SetUsers
  <1>2. 1 \in Int
    BY SMT
  <1> QED BY <1>1, <1>2, UsersMove

\* accept4 gives its new socket the listener's operations.
LEMMA AcceptAllocates ==
    ASSUME NEW x \in KType, NEW s \in Socks
    PROVE  LET y == module_get([sock_alloc(x, s) EXCEPT !.sock[s].ops = TRUE])
           IN  Step(x, y, s, 1, 1) /\ Made(y.sock[s])
  <1> DEFINE z == sock_alloc(x, s)
             o == SetOps(z, s, TRUE)
             y == module_get(o)
  <1>0. module_get([sock_alloc(x, s) EXCEPT !.sock[s].ops = TRUE]) = y
    BY DEF SetOps
  <1>1. Step(x, z, s, 1, 0) /\ Raw(z.sock[s])
    BY SockAlloc
  <1> HIDE DEF z
  <1>2. z \in KType
    BY <1>1 DEF Step
  <1>3. /\ Step(z, o, s, 0, 0) /\ o.sock[s].ops = TRUE
        /\ o.sock[s].live = z.sock[s].live /\ o.sock[s].file = z.sock[s].file
        /\ o.sock[s].inode = z.sock[s].inode
    BY <1>2, OpsSet
  <1> HIDE DEF o
  <1>4. o \in KType /\ Made(o.sock[s])
    BY <1>1, <1>3 DEF Step, Raw, Made
  <1>5. Step(o, y, s, 0, 1) /\ y.sock = o.sock
    BY <1>4, ModuleGet
  <1> HIDE DEF y
  <1>6. Step(x, o, s, 1 + 0, 0 + 0)
    BY SMT, <1>1, <1>3, StepTwice
  <1>7. Step(x, o, s, 1, 0)
    BY SMT, <1>6
  <1>8. Step(x, y, s, 1 + 0, 0 + 1)
    BY SMT, <1>5, <1>7, StepTwice
  <1>9. Step(x, y, s, 1, 1)
    BY SMT, <1>8
  <1> QED BY <1>0, <1>4, <1>5, <1>9

\* accept4() makes its socket with the listener's operations.
LEMMA AcceptMakes ==
    ASSUME NEW x, NEW R, NEW M, NEW P, NEW h, NEW e, KInv(x, R, M, P, h, e),
           NEW s \in Socks, ~x.sock[s].live
    PROVE  LET y == module_get([sock_alloc(x, s) EXCEPT !.sock[s].ops = TRUE])
           IN  KInv(y, R, M \cup {s}, P, h, e) /\ FdsSame(x, y, {})
  <1> DEFINE y == module_get([sock_alloc(x, s) EXCEPT !.sock[s].ops = TRUE])
  <1>1. x \in KType
    BY DEF KInv
  <1>2. Step(x, y, s, 1, 1) /\ Made(y.sock[s])
    BY <1>1, AcceptAllocates
  <1> HIDE DEF y
  <1>3. KInv(y, R, M \cup {s}, P, h, e)
    BY <1>2, Raise
  <1>4. FdsSame(x, y, {})
    BY <1>2 DEF FdsSame, Step
  <1> QED BY <1>3, <1>4 DEF y

\* accept4() up to the protocol's accept.
LEMMA AcceptStartKeeps ==
    ASSUME IInv, NEW t \in Threads, NEW f \in Fds, AcceptStart(t, f)
    PROVE  IInv'
  <1> DEFINE l == k.fd[f]
             x == fget_light(k, l)
             h == [HeldNow EXCEPT ![t] = l]
  <1>1. At(t, "idle") /\ l # NoSock /\ mod' = mod
    BY DEF AcceptStart
  <1>2. /\ th[t] = Idle /\ [HeldNow EXCEPT ![t] = NoSock] = HeldNow /\ HoldsAt(HeldNow, t, NoSock)
        /\ AllRaw \ RawOf(th[t]) = AllRaw /\ AllMade \ MadeOf(th[t]) = AllMade
        /\ Waiting \ PendingOf(th[t]) = Waiting /\ k.reserved \ FdsOf(th[t]) = k.reserved
        /\ KInv(k, AllRaw, AllMade, Waiting, HeldNow, NoSock)
        /\ \A g \in k.reserved : k.fd[g] = NoSock
        /\ l \in Socks /\ FdsTo(k, l) # {} /\ mod.live /\ mod.family
    BY <1>1, IdleNow
  <1>3. \/ k' = fput_light(x, l) /\ Goes(t, Idle)
        \/ \E s \in FreeSocks(x) :
             LET y == module_get([sock_alloc(x, s) EXCEPT !.sock[s].ops = TRUE])
             IN  \/ k' = fput_light(sock_release(y, s), l) /\ Goes(t, Idle)
                 \/ \E g \in FreeFds(y) :
                      /\ k' = sock_alloc_file(y, s, g)
                      /\ Goes(t, [Idle EXCEPT !.pc = "accept", !.held = l, !.new = s, !.newfd = g])
    BY DEF AcceptStart
  <1>4. k.fd[f] = l
    OBVIOUS
  <1> HIDE DEF l
  <1>5. KInv(x, AllRaw, AllMade, Waiting, h, NoSock) /\ x.fd = k.fd /\ x.reserved = k.reserved /\ x.sock = k.sock
    <2>1. KInv(x, AllRaw, AllMade, Waiting, h, NoSock) /\ RefsOnly(k, x)
      BY <1>2, Hold
    <2> QED BY <2>1 DEF RefsOnly
  <1>6. HoldsAt(h, t, l) /\ [h EXCEPT ![t] = NoSock] = HeldNow
    <2>1. HeldNow \in [Threads -> Socks \cup {NoSock}] /\ HeldNow[t] = NoSock
      BY <1>2, Now, IdleHas
    <2>2. HoldsAt(h, t, l)
      BY <1>2, <2>1 DEF HoldsAt
    <2>3. [h EXCEPT ![t] = NoSock] = HeldNow
      BY <2>1
    <2> QED BY <2>2, <2>3
  <1> HIDE DEF x, h
  <1>7. ASSUME NEW z, KInv(z, AllRaw, AllMade, Waiting, h, NoSock), z.fd = k.fd, z.reserved = k.reserved,
               k' = fput_light(z, l), Goes(t, Idle)
        PROVE  IInv'
    <2> DEFINE y == fput_light(z, l)
    <2>1. KInv(y, AllRaw, AllMade, Waiting, [h EXCEPT ![t] = NoSock], NoSock) /\ Kept(z, y)
      BY <1>2, <1>6, <1>7, Unhold
    <2>2. k' = y
      BY <1>7
    <2> HIDE DEF y
    <2>3. KInv(k', AllRaw \ RawOf(th[t]), AllMade \ MadeOf(th[t]), Waiting \ PendingOf(th[t]),
               [HeldNow EXCEPT ![t] = NoSock], NoSock)
      BY <1>2, <1>6, <2>1, <2>2
    <2>4. k'.reserved = k.reserved \ FdsOf(th[t]) /\ \A g \in k'.reserved : k'.fd[g] = NoSock
      BY <1>2, <1>7, <2>1, <2>2 DEF Kept
    <2> QED BY <1>1, <1>2, <1>7, <2>3, <2>4, EndKeeps
  <1>8. CASE k' = fput_light(x, l) /\ Goes(t, Idle)
    BY <1>5, <1>7, <1>8
  <1>9. ASSUME NEW s \in FreeSocks(x), NEW y, y = module_get([sock_alloc(x, s) EXCEPT !.sock[s].ops = TRUE]),
               \/ k' = fput_light(sock_release(y, s), l) /\ Goes(t, Idle)
               \/ \E g \in FreeFds(y) :
                    /\ k' = sock_alloc_file(y, s, g)
                    /\ Goes(t, [Idle EXCEPT !.pc = "accept", !.held = l, !.new = s, !.newfd = g])
        PROVE  IInv'
    <2> DEFINE N == AllMade \cup {s}
    <2>1. s \in Socks /\ ~x.sock[s].live /\ ~k.sock[s].live
      BY <1>5 DEF FreeSocks
    <2>2. KInv(y, AllRaw, N, Waiting, h, NoSock) /\ FdsSame(x, y, {})
      <3> DEFINE w == module_get([sock_alloc(x, s) EXCEPT !.sock[s].ops = TRUE])
      <3>1. KInv(w, AllRaw, N, Waiting, h, NoSock) /\ FdsSame(x, w, {})
        BY <1>5, <2>1, AcceptMakes
      <3> QED BY <1>9, <3>1
    <2>3. s \notin AllMade /\ s \in N /\ N \ {s} = AllMade
      <3>1. s \notin AllMade
        BY <1>5, <2>1, NotLive DEF KInv
      <3> QED BY <3>1
    <2>4. y.fd = k.fd /\ y.reserved = k.reserved
      BY <1>5, <2>2 DEF FdsSame
    <2> HIDE DEF N
    <2>5. CASE k' = fput_light(sock_release(y, s), l) /\ Goes(t, Idle)
      <3> DEFINE z == sock_release(y, s)
      <3>1. KInv(z, AllRaw, N \ {s}, Waiting, h, NoSock) /\ FdsSame(y, z, {})
        BY <2>2, <2>3, DropMade
      <3>2. k' = fput_light(z, l)
        BY <2>5
      <3> HIDE DEF z
      <3>3. KInv(z, AllRaw, AllMade, Waiting, h, NoSock) /\ z.fd = k.fd /\ z.reserved = k.reserved
        BY <2>3, <2>4, <3>1 DEF FdsSame
      <3> QED BY <1>7, <2>5, <3>2, <3>3
    <2>6. CASE \E g \in FreeFds(y) :
                 /\ k' = sock_alloc_file(y, s, g)
                 /\ Goes(t, [Idle EXCEPT !.pc = "accept", !.held = l, !.new = s, !.newfd = g])
      <3>1. PICK g \in Fds :
                /\ k.fd[g] = NoSock /\ g \notin k.reserved /\ k' = sock_alloc_file(y, s, g)
                /\ Goes(t, [Idle EXCEPT !.pc = "accept", !.held = l, !.new = s, !.newfd = g])
        BY <2>4, <2>6 DEF FreeFds
      <3> DEFINE r == [Idle EXCEPT !.pc = "accept", !.held = l, !.new = s, !.newfd = g]
      <3>2. r \in ThType /\ r.pc = "accept" /\ r.new = s /\ r.newfd = g /\ r.held = l
        BY <1>2, <2>1, IdleHas DEF ThType, Pcs
      <3>3. Goes(t, r)
        BY <3>1
      <3> HIDE DEF r
      <3>4. /\ KInv(k', AllRaw, AllMade, Waiting \cup {<<g, s>>}, h, NoSock)
            /\ k'.fd = k.fd /\ k'.reserved = k.reserved \cup {g}
        <4> DEFINE z == sock_alloc_file(y, s, g)
        <4>1. KInv(y, AllRaw, N, Waiting, h, NoSock) /\ s \in N
          BY <2>2, <2>3
        <4>2. KInv(z, AllRaw, N \ {s}, Waiting \cup {<<g, s>>}, h, NoSock) /\ FdsMore(y, z, g)
          BY <4>1, AllocFile
        <4> QED BY <2>3, <2>4, <3>1, <4>2 DEF FdsMore
      <3>5. RawOf(r) = {} /\ MadeOf(r) = {} /\ PendingOf(r) = {<<g, s>>} /\ FdsOf(r) = {g}
        BY <3>2, Has
      <3>6. Shape(r)
        BY <1>2, <2>1, <3>2 DEF Shape
      <3>7. /\ (AllRaw \ RawOf(th[t])) \cup RawOf(r) = AllRaw
            /\ (AllMade \ MadeOf(th[t])) \cup MadeOf(r) = AllMade
            /\ (Waiting \ PendingOf(th[t])) \cup PendingOf(r) = Waiting \cup {<<g, s>>}
            /\ (k.reserved \ FdsOf(th[t])) \cup FdsOf(r) = k.reserved \cup {g}
        BY <1>2, <3>5
      <3>8. KInv(k', (AllRaw \ RawOf(th[t])) \cup RawOf(r), (AllMade \ MadeOf(th[t])) \cup MadeOf(r),
                 (Waiting \ PendingOf(th[t])) \cup PendingOf(r), [HeldNow EXCEPT ![t] = r.held], NoSock)
        BY <3>2, <3>4, <3>7 DEF h
      <3>9. /\ k'.reserved = (k.reserved \ FdsOf(th[t])) \cup FdsOf(r)
            /\ \A u \in k'.reserved : k'.fd[u] = NoSock
            /\ \A u \in FdsOf(r) : u \in FdsOf(th[t]) \/ u \notin k.reserved
        BY <1>2, <3>1, <3>4, <3>5, <3>7
      <3>10. \E u \in Fds : k'.fd[u] = r.held
        BY <1>4, <3>2, <3>4
      <3>11. StepOk(t, r)
        BY <1>1, <1>2, <3>2, <3>3, <3>5, <3>6, <3>8, <3>9, <3>10 DEF StepOk, Goes
      <3> QED BY <3>11, StepKeeps
    <2> QED BY <1>9, <2>5, <2>6
  <1> QED BY <1>3, <1>8, <1>9

\* pf->create sets the operations, and sk or not.
LEMMA CreatedDoes ==
    ASSUME NEW x \in KType, NEW s \in Socks, NEW b \in BOOLEAN
    PROVE  LET y == Created(x, s, b)
           IN  /\ Step(x, y, s, 0, 0) /\ y.sock[s].ops = TRUE
               /\ y.sock[s].live = x.sock[s].live /\ y.sock[s].file = x.sock[s].file
               /\ y.sock[s].inode = x.sock[s].inode
  <1> DEFINE z == SetOps(x, s, TRUE)
             y == SetSk(z, s, b)
  <1>1. Created(x, s, b) = y
    BY DEF Created, SetOps, SetSk
  <1>2. /\ Step(x, z, s, 0, 0) /\ z.sock[s].ops = TRUE
        /\ z.sock[s].live = x.sock[s].live /\ z.sock[s].file = x.sock[s].file
        /\ z.sock[s].inode = x.sock[s].inode
    BY OpsSet
  <1> HIDE DEF z
  <1>3. z \in KType
    BY <1>2 DEF Step
  <1>4. /\ Step(z, y, s, 0, 0) /\ y.sock[s].ops = z.sock[s].ops
        /\ y.sock[s].live = z.sock[s].live /\ y.sock[s].file = z.sock[s].file
        /\ y.sock[s].inode = z.sock[s].inode
    BY <1>3, SkSet
  <1> HIDE DEF y
  <1>5. Step(x, y, s, 0 + 0, 0 + 0)
    BY SMT, <1>2, <1>4, StepTwice
  <1>6. Step(x, y, s, 0, 0)
    BY SMT, <1>5
  <1> QED BY <1>1, <1>2, <1>4, <1>6

\* pf->create worked: the reference on the module becomes the socket's.
LEMMA CreateWorks ==
    ASSUME NEW x \in KType, NEW s \in Socks, Raw(x.sock[s])
    PROVE  LET y == CreateWorked(x, s) IN Step(x, y, s, 0, 0) /\ Made(y.sock[s])
  <1> DEFINE c == Created(x, s, TRUE)
             g == module_get(c)
             y == module_put(g)
  <1>1. /\ Step(x, c, s, 0, 0) /\ c.sock[s].ops = TRUE
        /\ c.sock[s].live = x.sock[s].live /\ c.sock[s].file = x.sock[s].file
        /\ c.sock[s].inode = x.sock[s].inode
    BY CreatedDoes
  <1> HIDE DEF c
  <1>2. c \in KType /\ Made(c.sock[s])
    BY <1>1 DEF Step, Raw, Made
  <1>3. Step(c, g, s, 0, 1) /\ g.sock = c.sock
    BY <1>2, ModuleGet
  <1> HIDE DEF g
  <1>4. g \in KType
    BY <1>3 DEF Step
  <1>5. Step(g, y, s, 0, -1) /\ y.sock = g.sock
    BY <1>4, ModulePut
  <1> HIDE DEF y
  <1>6. Step(c, y, s, 0 + 0, 1 + -1)
    BY SMT, <1>2, <1>3, <1>5, StepTwice
  <1>7. Step(c, y, s, 0, 0)
    BY SMT, <1>6
  <1>8. Step(x, y, s, 0 + 0, 0 + 0)
    BY SMT, <1>1, <1>7, StepTwice
  <1>9. Step(x, y, s, 0, 0)
    BY SMT, <1>8
  <1>10. Made(y.sock[s])
    BY <1>2, <1>3, <1>5
  <1> QED BY <1>9, <1>10 DEF CreateWorked, y, g, c

\* A raw socket becomes a made one.
LEMMA SameMade ==
    ASSUME NEW x, NEW R, NEW M, NEW P, NEW h, NEW e, KInv(x, R, M, P, h, e),
           NEW s \in Socks, NEW y, Step(x, y, s, 0, 0), s \in R, Made(y.sock[s])
    PROVE  KInv(y, R \ {s}, M \cup {s}, P, h, e) /\ LiveIn(y) = LiveIn(x)
  <1>1. x \in KType /\ P \subseteq Fds \X Socks /\ Phases(x, R, M) /\ Counted(x) /\ RefsOk(x, P, h, e)
    BY DEF KInv
  <1>2. y \in KType /\ RefsOk(y, P, h, e)
    BY <1>1, StepRefs DEF Step
  <1>3. s \notin M /\ x.refs[s] = 0 /\ x.sock[s].live
    BY <1>1 DEF Phases, Raw
  <1>4. Counted(y) /\ LiveIn(y) = LiveIn(x)
    BY <1>1, <1>3, CountSame DEF Made
  <1>5. Phases(y, R \ {s}, M \cup {s})
    BY <1>1, <1>3 DEF Phases, Step
  <1> QED BY <1>1, <1>2, <1>4, <1>5 DEF KInv

\* __sock_create, up to pf->create: the socket and the module are held.
LEMMA CreateStarts ==
    ASSUME NEW x \in KType, NEW s \in Socks
    PROVE  LET y == module_get(sock_alloc(x, s)) IN Step(x, y, s, 1, 1) /\ Raw(y.sock[s])
  <1> DEFINE z == sock_alloc(x, s)
             y == module_get(z)
  <1>1. Step(x, z, s, 1, 0) /\ Raw(z.sock[s])
    BY SockAlloc
  <1> HIDE DEF z
  <1>2. z \in KType
    BY <1>1 DEF Step
  <1>3. Step(z, y, s, 0, 1) /\ y.sock = z.sock
    BY <1>2, ModuleGet
  <1> HIDE DEF y
  <1>4. Step(x, y, s, 1 + 0, 0 + 1)
    BY SMT, <1>1, <1>3, StepTwice
  <1>5. Step(x, y, s, 1, 1) /\ Raw(y.sock[s])
    <2>1. Step(x, y, s, 1, 1)
      BY SMT, <1>4
    <2> QED BY <1>1, <1>3, <2>1
  <1> QED BY <1>5 DEF y, z

\* __sock_create in one step, as socketpair() calls it for its second socket.
LEMMA MakeWhole ==
    ASSUME NEW x, NEW R, NEW M, NEW P, NEW h, NEW e, KInv(x, R, M, P, h, e),
           NEW s \in Socks, ~x.sock[s].live
    PROVE  LET y == CreateWorked(module_get(sock_alloc(x, s)), s)
           IN  KInv(y, R, M \cup {s}, P, h, e) /\ FdsSame(x, y, {})
  <1> DEFINE w == module_get(sock_alloc(x, s))
             y == CreateWorked(w, s)
  <1>1. x \in KType /\ s \notin R /\ s \notin M
    BY NotLive DEF KInv
  <1>2. Step(x, w, s, 1, 1) /\ Raw(w.sock[s])
    BY <1>1, CreateStarts
  <1> HIDE DEF w
  <1>3. KInv(w, R \cup {s}, M, P, h, e)
    BY <1>2, Raise
  <1>4. w \in KType
    BY <1>3 DEF KInv
  <1>5. Step(w, y, s, 0, 0) /\ Made(y.sock[s])
    BY <1>2, <1>4, CreateWorks
  <1> HIDE DEF y
  <1>6. s \in R \cup {s}
    OBVIOUS
  <1>7. KInv(y, (R \cup {s}) \ {s}, M \cup {s}, P, h, e)
    BY <1>3, <1>5, <1>6, SameMade
  <1>8. (R \cup {s}) \ {s} = R
    BY <1>1
  <1>9. FdsSame(x, y, {})
    BY <1>2, <1>5 DEF FdsSame, Step
  <1> QED BY <1>7, <1>8, <1>9 DEF w, y

\* The second socket of a pair.
LEMMA PairCreateKeeps ==
    ASSUME IInv, NEW t \in Threads, PairCreate(t)
    PROVE  IInv'
  <1> DEFINE v == th[t].new
  <1>1. th[t].pc = "second" /\ mod' = mod /\ th[t] \in ThType /\ Shape(th[t])
    BY Now DEF PairCreate, At
  <1>2. v \in Socks /\ th[t].held = NoSock
    BY <1>1 DEF Shape
  <1>3. RawOf(th[t]) = {} /\ MadeOf(th[t]) = {v} /\ PendingOf(th[t]) = {} /\ FdsOf(th[t]) = {}
    BY <1>1, Has
  <1>4. /\ KInv(k, AllRaw, AllMade, Waiting, HeldNow, NoSock)
        /\ \A f \in k.reserved : k.fd[f] = NoSock
        /\ v \in AllMade
    BY <1>3, Now
  <1>5. Made(k.sock[v])
    BY <1>4 DEF KInv, Phases
  <1>6. [HeldNow EXCEPT ![t] = NoSock] = HeldNow
    BY <1>2, HeldBack
  <1>7. mod.live /\ mod.family
    BY <1>2, <1>4, ModuleThere
  <1>8. CASE k' = sock_release(k, v) /\ Goes(t, Idle)
    <2>1. KInv(k', AllRaw, AllMade \ {v}, Waiting, HeldNow, NoSock) /\ FdsSame(k, k', {})
      <3> DEFINE y == sock_release(k, v)
      <3> HIDE DEF v
      <3>1. KInv(y, AllRaw, AllMade \ {v}, Waiting, HeldNow, NoSock) /\ FdsSame(k, y, {})
        BY <1>4, DropMade
      <3> QED BY <1>8, <3>1
    <2> HIDE DEF v
    <2>2. /\ Waiting \ PendingOf(th[t]) = Waiting /\ k.reserved \ FdsOf(th[t]) = k.reserved
          /\ AllRaw \ RawOf(th[t]) = AllRaw /\ AllMade \ MadeOf(th[t]) = AllMade \ {v}
      BY <1>3
    <2>3. KInv(k', AllRaw \ RawOf(th[t]), AllMade \ MadeOf(th[t]), Waiting \ PendingOf(th[t]),
               [HeldNow EXCEPT ![t] = NoSock], NoSock)
      BY <1>6, <2>1, <2>2
    <2>4. k'.reserved = k.reserved \ FdsOf(th[t]) /\ \A f \in k'.reserved : k'.fd[f] = NoSock
      BY <1>4, <2>1, <2>2 DEF FdsSame
    <2> QED BY <1>1, <1>7, <1>8, <2>3, <2>4, EndKeeps
  <1>9. CASE \E s \in FreeSocks(k) : /\ k' = CreateWorked(module_get(sock_alloc(k, s)), s)
                                     /\ Goes(t, [th[t] EXCEPT !.pc = "pair", !.new2 = s])
    <2>1. PICK s \in Socks : /\ ~k.sock[s].live
                             /\ k' = CreateWorked(module_get(sock_alloc(k, s)), s)
                             /\ Goes(t, [th[t] EXCEPT !.pc = "pair", !.new2 = s])
      BY <1>9 DEF FreeSocks
    <2> DEFINE r == [th[t] EXCEPT !.pc = "pair", !.new2 = s]
    <2>2. r \in ThType /\ r.pc = "pair" /\ r.new = v /\ r.new2 = s /\ r.held = NoSock
      BY <1>1, <1>2 DEF ThType, Pcs
    <2>3. Goes(t, r)
      BY <2>1
    <2>4. s # v
      BY <1>5, <2>1 DEF Made
    <2> HIDE DEF r, v
    <2>5. KInv(k', AllRaw, AllMade \cup {s}, Waiting, HeldNow, NoSock) /\ FdsSame(k, k', {})
      <3> DEFINE y == CreateWorked(module_get(sock_alloc(k, s)), s)
      <3>1. KInv(y, AllRaw, AllMade \cup {s}, Waiting, HeldNow, NoSock) /\ FdsSame(k, y, {})
        BY <1>4, <2>1, MakeWhole
      <3> QED BY <2>1, <3>1
    <2>6. RawOf(r) = {} /\ MadeOf(r) = {v, s} /\ PendingOf(r) = {} /\ FdsOf(r) = {}
      BY <2>2, Has
    <2>7. Shape(r)
      BY <1>2, <2>2, <2>4 DEF Shape
    <2>8. /\ (AllRaw \ RawOf(th[t])) \cup RawOf(r) = AllRaw
          /\ (AllMade \ MadeOf(th[t])) \cup MadeOf(r) = AllMade \cup {s}
          /\ (Waiting \ PendingOf(th[t])) \cup PendingOf(r) = Waiting
          /\ (k.reserved \ FdsOf(th[t])) \cup FdsOf(r) = k.reserved
      BY <1>3, <1>4, <2>6
    <2>9. KInv(k', (AllRaw \ RawOf(th[t])) \cup RawOf(r), (AllMade \ MadeOf(th[t])) \cup MadeOf(r),
               (Waiting \ PendingOf(th[t])) \cup PendingOf(r), [HeldNow EXCEPT ![t] = r.held], NoSock)
      BY <1>6, <2>2, <2>5, <2>8
    <2>10. \A u \in RawOf(r) \cup MadeOf(r) :
               u \in RawOf(th[t]) \cup MadeOf(th[t]) \/ (u \in Socks /\ ~k.sock[u].live)
      BY <1>3, <2>1, <2>6
    <2>11. /\ k'.reserved = (k.reserved \ FdsOf(th[t])) \cup FdsOf(r)
           /\ \A g \in k'.reserved : k'.fd[g] = NoSock
      BY <1>4, <2>5, <2>8 DEF FdsSame
    <2>12. StepOk(t, r)
      BY <1>1, <1>7, <2>2, <2>3, <2>6, <2>7, <2>9, <2>10, <2>11 DEF StepOk, Goes
    <2> QED BY <2>12, StepKeeps
  <1> QED BY <1>8, <1>9 DEF PairCreate

\* sock_release of a socket whose operations are not set.
LEMMA ReleaseRaw ==
    ASSUME NEW x \in KType, NEW s \in Socks, Raw(x.sock[s])
    PROVE  LET z == sock_release(x, s) IN Step(x, z, s, -1, 0) /\ Absent(z.sock[s])
  <1>1. x.sock[s] \in SockType
    BY SockRecord
  <1>2. ~x.sock[s].ops /\ x.sock[s].ops = FALSE /\ x.sock[s].file = FALSE /\ x.sock[s].inode = 1
    BY <1>1 DEF Raw, SockType
  <1>3. ProtocolReleased(x, s) = x
    BY <1>2 DEF ProtocolReleased
  <1>4. x.in_use + 0 = x.in_use /\ x.users + 0 = x.users /\ 0 \in Int
    BY SMT DEF KType
  <1>5. Step(x, x, s, 0, 0)
    BY <1>4 DEF Step
  <1> QED BY <1>2, <1>3, <1>4, <1>5, ReleaseUnfiled

\* pf->create failed: the reference on the module and the socket both go.
LEMMA CreateFails ==
    ASSUME NEW x \in KType, NEW s \in Socks, Raw(x.sock[s])
    PROVE  LET y == CreateFailed(x, s) IN Step(x, y, s, -1, -1) /\ Absent(y.sock[s])
  <1> DEFINE c == Created(x, s, FALSE)
             o == SetOps(c, s, FALSE)
             g == module_put(o)
             y == sock_release(g, s)
  <1>0. CreateFailed(x, s) = y
    BY DEF CreateFailed, SetOps
  <1>1. /\ Step(x, c, s, 0, 0)
        /\ c.sock[s].live = x.sock[s].live /\ c.sock[s].file = x.sock[s].file
        /\ c.sock[s].inode = x.sock[s].inode
    BY CreatedDoes
  <1> HIDE DEF c
  <1>2. c \in KType
    BY <1>1 DEF Step
  <1>3. /\ Step(c, o, s, 0, 0) /\ o.sock[s].ops = FALSE
        /\ o.sock[s].live = c.sock[s].live /\ o.sock[s].file = c.sock[s].file
        /\ o.sock[s].inode = c.sock[s].inode
    BY <1>2, OpsSet
  <1> HIDE DEF o
  <1>4. o \in KType /\ Raw(o.sock[s])
    BY <1>1, <1>3 DEF Step, Raw
  <1>5. Step(o, g, s, 0, -1) /\ g.sock = o.sock
    BY <1>4, ModulePut
  <1> HIDE DEF g
  <1>6. g \in KType /\ Raw(g.sock[s])
    BY <1>4, <1>5 DEF Step
  <1>7. Step(g, y, s, -1, 0) /\ Absent(y.sock[s])
    BY <1>6, ReleaseRaw
  <1> HIDE DEF y
  <1>8. Step(x, o, s, 0 + 0, 0 + 0)
    BY SMT, <1>1, <1>3, StepTwice
  <1>9. Step(x, o, s, 0, 0)
    BY SMT, <1>8
  <1>10. Step(o, y, s, 0 + -1, -1 + 0)
    BY SMT, <1>4, <1>5, <1>7, StepTwice
  <1>11. Step(o, y, s, -1, -1)
    BY SMT, <1>10
  <1>12. Step(x, y, s, 0 + -1, 0 + -1)
    BY SMT, <1>9, <1>11, StepTwice
  <1>13. Step(x, y, s, -1, -1)
    BY SMT, <1>12
  <1> QED BY <1>0, <1>7, <1>13

\* pf->create returns.
LEMMA CreateDoneKeeps ==
    ASSUME IInv, NEW t \in Threads, NEW ok, NEW post, CreateDone(t, ok, post)
    PROVE  IInv'
  <1> DEFINE s == th[t].new
  <1>1. th[t].pc = "create" /\ mod' = mod /\ th[t] \in ThType /\ Shape(th[t])
    BY Now DEF CreateDone, At
  <1>2. s \in Socks /\ th[t].held = NoSock
    BY <1>1 DEF Shape
  <1>3. RawOf(th[t]) = {s} /\ MadeOf(th[t]) = {} /\ PendingOf(th[t]) = {} /\ FdsOf(th[t]) = {}
    BY <1>1, Has
  <1>4. /\ KInv(k, AllRaw, AllMade, Waiting, HeldNow, NoSock) /\ k \in KType
        /\ \A f \in k.reserved : k.fd[f] = NoSock
        /\ s \in AllRaw /\ s \notin AllMade
    BY <1>3, Now
  <1>5. Raw(k.sock[s])
    BY <1>4 DEF KInv, Phases
  <1>6. [HeldNow EXCEPT ![t] = NoSock] = HeldNow
    BY <1>2, HeldBack
  <1>7. mod.live /\ mod.family
    BY <1>2, <1>4, ModuleThere
  <1>8. /\ k' = IF ~ok THEN CreateFailed(k, s)
                ELSE IF ~post THEN sock_release(CreateWorked(k, s), s) ELSE CreateWorked(k, s)
        /\ ~ok \/ ~post => Goes(t, Idle)
        /\ ok /\ post => Goes(t, [th[t] EXCEPT !.pc = IF th[t].pair THEN "second" ELSE "map"])
    BY DEF CreateDone
  <1> DEFINE y == CreateWorked(k, s)
             r == [th[t] EXCEPT !.pc = IF th[t].pair THEN "second" ELSE "map"]
  <1>9. r \in ThType /\ r.pc \in {"map", "second"} /\ r.new = s /\ r.held = NoSock
    BY <1>1, <1>2 DEF ThType, Pcs
  <1> HIDE DEF s, r
  <1>10. Step(k, y, s, 0, 0) /\ Made(y.sock[s])
    BY <1>2, <1>4, <1>5, CreateWorks
  <1> HIDE DEF y
  <1>11. KInv(y, AllRaw \ {s}, AllMade \cup {s}, Waiting, HeldNow, NoSock)
    BY <1>2, <1>4, <1>10, SameMade
  <1>12. y \in KType /\ y.reserved = k.reserved /\ y.fd = k.fd
    BY <1>10 DEF Step
  <1>13. /\ Waiting \ PendingOf(th[t]) = Waiting /\ k.reserved \ FdsOf(th[t]) = k.reserved
         /\ AllRaw \ {s} = AllRaw \ RawOf(th[t]) /\ AllMade \ {s} = AllMade \ MadeOf(th[t])
         /\ (AllRaw \ {s}) \ {s} = AllRaw \ RawOf(th[t])
         /\ (AllMade \cup {s}) \ {s} = AllMade \ MadeOf(th[t])
    BY <1>3, <1>4
  <1>14. CASE ~ok
    <2>1. Step(k, k', s, -1, -1) /\ Absent(k'.sock[s])
      BY <1>2, <1>4, <1>5, <1>8, <1>14, CreateFails
    <2>2. KInv(k', AllRaw \ {s}, AllMade \ {s}, Waiting, HeldNow, NoSock)
      BY <1>4, <2>1, Fall
    <2>3. k'.reserved = k.reserved /\ k'.fd = k.fd
      BY <2>1 DEF Step
    <2>4. KInv(k', AllRaw \ RawOf(th[t]), AllMade \ MadeOf(th[t]), Waiting \ PendingOf(th[t]),
               [HeldNow EXCEPT ![t] = NoSock], NoSock)
      BY <1>6, <1>13, <2>2
    <2> QED BY <1>1, <1>4, <1>7, <1>8, <1>13, <1>14, <2>3, <2>4, EndKeeps
  <1>15. CASE ok /\ ~post
    <2>0. k' = sock_release(y, s)
      BY <1>8, <1>15 DEF y
    <2>1. Step(y, k', s, -1, -1) /\ Absent(k'.sock[s])
      BY <1>2, <1>10, <1>12, <2>0, ReleaseMade
    <2>2. KInv(k', (AllRaw \ {s}) \ {s}, (AllMade \cup {s}) \ {s}, Waiting, HeldNow, NoSock)
      BY <1>11, <2>1, Fall
    <2>3. k'.reserved = k.reserved /\ k'.fd = k.fd
      BY <1>12, <2>1 DEF Step
    <2>4. KInv(k', AllRaw \ RawOf(th[t]), AllMade \ MadeOf(th[t]), Waiting \ PendingOf(th[t]),
               [HeldNow EXCEPT ![t] = NoSock], NoSock)
      BY <1>6, <1>13, <2>2
    <2> QED BY <1>1, <1>4, <1>7, <1>8, <1>13, <1>15, <2>3, <2>4, EndKeeps
  <1>16. CASE ok /\ post
    <2>1. k' = y /\ Goes(t, r)
      BY <1>8, <1>16 DEF y, r
    <2>2. RawOf(r) = {} /\ MadeOf(r) = {s} /\ PendingOf(r) = {} /\ FdsOf(r) = {}
      BY <1>9, Has
    <2>3. Shape(r)
      BY <1>2, <1>9 DEF Shape
    <2>4. /\ (AllRaw \ RawOf(th[t])) \cup RawOf(r) = AllRaw \ {s}
          /\ (AllMade \ MadeOf(th[t])) \cup MadeOf(r) = AllMade \cup {s}
          /\ (Waiting \ PendingOf(th[t])) \cup PendingOf(r) = Waiting
          /\ (k.reserved \ FdsOf(th[t])) \cup FdsOf(r) = k.reserved
      BY <1>3, <2>2
    <2>5. KInv(k', (AllRaw \ RawOf(th[t])) \cup RawOf(r), (AllMade \ MadeOf(th[t])) \cup MadeOf(r),
               (Waiting \ PendingOf(th[t])) \cup PendingOf(r), [HeldNow EXCEPT ![t] = r.held], NoSock)
      BY <1>6, <1>9, <1>11, <2>1, <2>4
    <2>6. \A u \in RawOf(r) \cup MadeOf(r) : u \in RawOf(th[t]) \cup MadeOf(th[t])
      BY <1>3, <2>2
    <2>7. StepOk(t, r)
      BY <1>1, <1>4, <1>7, <1>9, <1>12, <2>1, <2>2, <2>3, <2>4, <2>5, <2>6 DEF StepOk, Goes
    <2> QED BY <2>7, StepKeeps
  <1> QED BY <1>14, <1>15, <1>16

\* __sock_create without a module: nothing is left.
LEMMA CreateRefused ==
    ASSUME NEW x \in KType, NEW s \in Socks
    PROVE  LET y == sock_release(sock_alloc(x, s), s) IN Step(x, y, s, 0, 0) /\ Absent(y.sock[s])
  <1> DEFINE z == sock_alloc(x, s)
             y == sock_release(z, s)
  <1>1. Step(x, z, s, 1, 0) /\ Raw(z.sock[s])
    BY SockAlloc
  <1> HIDE DEF z
  <1>2. z \in KType
    BY <1>1 DEF Step
  <1>3. Step(z, y, s, -1, 0) /\ Absent(y.sock[s])
    BY <1>2, <1>1, ReleaseRaw
  <1> HIDE DEF y
  <1>4. Step(x, y, s, 1 + -1, 0 + 0)
    BY SMT, <1>1, <1>3, StepTwice
  <1>5. Step(x, y, s, 0, 0)
    BY SMT, <1>4
  <1> QED BY <1>3, <1>5 DEF y, z

\* A socket is not made after all.
LEMMA SameAbsent ==
    ASSUME NEW x, NEW R, NEW M, NEW P, NEW h, NEW e, KInv(x, R, M, P, h, e),
           NEW s \in Socks, NEW y, Step(x, y, s, 0, 0), ~x.sock[s].live, Absent(y.sock[s])
    PROVE  KInv(y, R, M, P, h, e) /\ LiveIn(y) = LiveIn(x)
  <1>1. x \in KType /\ P \subseteq Fds \X Socks /\ Phases(x, R, M) /\ Counted(x) /\ RefsOk(x, P, h, e)
    BY DEF KInv
  <1>2. y \in KType /\ RefsOk(y, P, h, e)
    BY <1>1, StepRefs DEF Step
  <1>3. s \notin R /\ s \notin M /\ x.refs[s] = 0
    BY <1>1, NotLive
  <1>4. Counted(y) /\ LiveIn(y) = LiveIn(x)
    BY <1>1, <1>3, CountSame DEF Absent
  <1>5. Phases(y, R, M)
    BY <1>1, <1>3 DEF Phases, Step
  <1> QED BY <1>1, <1>2, <1>4, <1>5 DEF KInv

\* socket() and socketpair() start.
LEMMA SysSocketKeeps ==
    ASSUME IInv, NEW t \in Threads, sys_socket(t)
    PROVE  IInv'
  <1>1. th[t] = Idle /\ mod' = mod
    BY Now DEF sys_socket, At, Shape
  <1>2. /\ KInv(k, AllRaw, AllMade, Waiting, HeldNow, NoSock) /\ k \in KType
        /\ \A f \in k.reserved : k.fd[f] = NoSock
    BY Now
  <1>3. [HeldNow EXCEPT ![t] = NoSock] = HeldNow
    BY <1>1, IdleHas, HeldBack
  <1>4. PICK s \in Socks, pair \in BOOLEAN :
            ~k.sock[s].live /\ SockCreate(t, s, [Idle EXCEPT !.pc = "create", !.new = s, !.pair = pair])
    BY DEF sys_socket, FreeSocks
  <1> DEFINE r == [Idle EXCEPT !.pc = "create", !.new = s, !.pair = pair]
  <1>5. CASE mod.family /\ mod.live
    <2>1. k' = module_get(sock_alloc(k, s)) /\ Goes(t, r)
      BY <1>4, <1>5 DEF SockCreate
    <2>2. Step(k, k', s, 1, 1) /\ Raw(k'.sock[s])
      BY <1>2, <2>1, CreateStarts
    <2>3. KInv(k', AllRaw \cup {s}, AllMade, Waiting, HeldNow, NoSock)
      BY <1>2, <1>4, <2>2, Raise
    <2>4. r \in ThType /\ r.pc = "create" /\ r.new = s /\ r.held = NoSock
      BY IdleHas DEF ThType, Pcs
    <2> HIDE DEF r
    <2>5. RawOf(r) = {s} /\ MadeOf(r) = {} /\ PendingOf(r) = {} /\ FdsOf(r) = {}
      BY <2>4, Has
    <2>6. Shape(r)
      BY <2>4 DEF Shape
    <2>7. StepOk(t, r)
      <3>1. /\ (AllRaw \ RawOf(th[t])) \cup RawOf(r) = AllRaw \cup {s}
            /\ (AllMade \ MadeOf(th[t])) \cup MadeOf(r) = AllMade
            /\ (Waiting \ PendingOf(th[t])) \cup PendingOf(r) = Waiting
            /\ (k.reserved \ FdsOf(th[t])) \cup FdsOf(r) = k.reserved
        BY <1>1, <2>5, IdleHas
      <3>2. k'.reserved = k.reserved /\ k'.fd = k.fd
        BY <2>2 DEF Step
      <3>3. KInv(k', (AllRaw \ RawOf(th[t])) \cup RawOf(r), (AllMade \ MadeOf(th[t])) \cup MadeOf(r),
               (Waiting \ PendingOf(th[t])) \cup PendingOf(r), [HeldNow EXCEPT ![t] = r.held], NoSock)
        BY <1>3, <2>3, <2>4, <3>1
      <3>4. \A u \in RawOf(r) \cup MadeOf(r) : u \in Socks /\ ~k.sock[u].live
        BY <1>4, <2>5
      <3> QED BY <1>1, <1>2, <1>5, <2>1, <2>4, <2>5, <2>6, <3>1, <3>2, <3>3, <3>4 DEF StepOk, Goes
    <2> QED BY <2>7, StepKeeps
  <1>6. CASE ~(mod.family /\ mod.live)
    <2>1. k' = sock_release(sock_alloc(k, s), s) /\ Goes(t, Idle)
      BY <1>4, <1>6 DEF SockCreate
    <2>2. Step(k, k', s, 0, 0) /\ Absent(k'.sock[s])
      BY <1>2, <2>1, CreateRefused
    <2>3. KInv(k', AllRaw, AllMade, Waiting, HeldNow, NoSock) /\ LiveIn(k') = LiveIn(k)
      BY <1>2, <1>4, <2>2, SameAbsent
    <2>4. k'.reserved = k.reserved /\ k'.fd = k.fd
      BY <2>2 DEF Step
    <2>5. /\ AllRaw \ RawOf(th[t]) = AllRaw /\ AllMade \ MadeOf(th[t]) = AllMade
          /\ Waiting \ PendingOf(th[t]) = Waiting /\ k.reserved \ FdsOf(th[t]) = k.reserved
      BY <1>1, IdleHas
    <2>6. LiveIn(k') # {} => mod.live /\ mod.family
      BY <2>3 DEF IInv
    <2> QED BY <1>1, <1>2, <1>3, <2>1, <2>3, <2>4, <2>5, <2>6, EndKeeps
  <1> QED BY <1>5, <1>6

-----------------------------------------------------------------------------
(* Every step, and the theorems. *)

\* Every step of every call keeps the accounts.
LEMMA NextKeeps == IInv /\ [Next]_vars => IInv'
  <1> SUFFICES ASSUME IInv, [Next]_vars
               PROVE  IInv'
    OBVIOUS
  <1>1. ASSUME NEW t \in Threads,
               \/ sys_socket(t) \/ MapFd(t) \/ Install(t) \/ PairCreate(t) \/ PairFiles(t)
               \/ PairInstall1(t) \/ PairInstall2(t) \/ CallDone(t)
        PROVE  IInv'
    BY <1>1, SysSocketKeeps, MapFdKeeps, InstallKeeps, PairCreateKeeps, PairFilesKeeps,
       PairInstall1Keeps, PairInstall2Keeps, CallDoneKeeps
  <1>2. ASSUME NEW t \in Threads, NEW ok \in BOOLEAN,
               PairCopyOut(t, ok) \/ AcceptDone(t, ok) \/ \E post \in BOOLEAN : CreateDone(t, ok, post)
        PROVE  IInv'
    BY <1>2, PairCopyOutKeeps, AcceptDoneKeeps, CreateDoneKeeps
  <1>3. ASSUME NEW t \in Threads, NEW f \in Fds,
               AcceptStart(t, f) \/ CallStart(t, f) \/ Close(t, f) \/ \E g \in Fds : Dup(t, f, g)
        PROVE  IInv'
    BY <1>3, AcceptStartKeeps, CallStartKeeps, CloseKeeps, DupKeeps
  <1>4. CASE ModuleGoing \/ sock_unregister \/ sock_register
    BY <1>4, ModuleKeeps
  <1>5. CASE UNCHANGED vars
    <2>1. k' = k /\ th' = th /\ mod' = mod
      BY <1>5 DEF vars
    <2> QED BY <2>1, ModChanges DEF IInv
  <1> QED BY <1>1, <1>2, <1>3, <1>4, <1>5 DEF Next

\* socket.c: in every state each socket is in the phase that the calls and the
\* references to its file say, and every counter is the number of what it counts.
THEOREM SocketInvariant == Spec => []IInv
  <1> QED BY InitHolds, NextKeeps, PTL DEF Spec

\* socket.c: sockets_in_use is the number of sockets; f_count is the descriptors, the
\* lookups and the pending installs; no socket and no descriptor is lost, whichever
\* step of socket(), socketpair(), accept4() or close() fails.
THEOREM AlwaysAccounted == Spec => []AllAccounted
  BY Accounts, SocketInvariant, PTL

\* sockfd_lookup_light: what a call looked up, or a descriptor stands for, has its
\* operations and its file until the call or the descriptor lets it go.
THEOREM HeldAlwaysAlive == Spec => []HeldIsAlive
  BY HeldHasFile, SocketInvariant, PTL

\* __sock_create, sock_release: the module behind a create or a socket's operations
\* is live and registered, and its count is those users and no other.
THEOREM ModuleAlwaysStays == Spec => []ModuleStays
  BY ModuleCounted, SocketInvariant, PTL

\* The counts stay in their ranges: an inode is put once, no counter goes below zero.
THEOREM SocketTypes == Spec => []TypeOK
  BY Ranges, SocketInvariant, PTL
=============================================================================
