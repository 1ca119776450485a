---------------------------- MODULE SocketFiles ----------------------------
(***************************************************************************)
(* The life of a struct socket between system calls of several threads that *)
(* share their descriptors (socket.c): allocation, the file and descriptor  *)
(* in front of it, the protocol module behind it, and its release when the  *)
(* last reference to the file goes.                                         *)
(*                                                                         *)
(* k holds the kernel's tables.  A socket and its file have the same name;  *)
(* file says that sock->file is set, refs is f_count.  A call runs in steps *)
(* (th[t].pc) where the code may sleep or another thread may see what it    *)
(* has done; any allocation may fail.  One address family, one module.      *)
(***************************************************************************)
EXTENDS Integers, FiniteSets

CONSTANTS
    Threads,      \* the threads of one process
    Socks,        \* sockets that can be allocated
    Fds,          \* descriptors
    NoSock, NoFd

ASSUME SocketConstants ==
    /\ IsFiniteSet(Threads) /\ IsFiniteSet(Socks) /\ IsFiniteSet(Fds)
    /\ NoSock \notin Socks /\ NoFd \notin Fds

VARIABLES
    k,            \* sockets, files, descriptors, counters
    th,           \* the system call each thread is in
    mod           \* the protocol module: is it live, is its family registered?

vars == <<k, th, mod>>

Free == [live |-> FALSE, ops |-> FALSE, sk |-> FALSE, file |-> FALSE, inode |-> 0]

Idle == [pc |-> "idle", held |-> NoSock, new |-> NoSock, new2 |-> NoSock,
         newfd |-> NoFd, newfd2 |-> NoFd, pair |-> FALSE]

Init ==
    /\ k = [sock |-> [s \in Socks |-> Free], refs |-> [s \in Socks |-> 0],
            fd |-> [f \in Fds |-> NoSock], reserved |-> {}, in_use |-> 0, users |-> 0]
    /\ th = [t \in Threads |-> Idle]
    /\ mod = [live |-> TRUE, family |-> TRUE]

-----------------------------------------------------------------------------
(* What the calls are made of, as operators from k to k. *)

\* sock_alloc: the inode with the socket in it.
sock_alloc(x, s) ==
    [x EXCEPT !.sock[s] = [Free EXCEPT !.live = TRUE, !.inode = 1], !.in_use = @ + 1]

module_get(x) == [x EXCEPT !.users = @ + 1]

module_put(x) == [x EXCEPT !.users = @ - 1]

\* pf->create: it sets the operations first and may still fail after that.
Created(x, s, ok) == [x EXCEPT !.sock[s].ops = TRUE, !.sock[s].sk = ok]

iput(x, s) ==
    LET i == x.sock[s].inode - 1
    IN  [x EXCEPT !.sock[s].inode = i, !.sock[s].live = i # 0]

\* ops->release and module_put.
ProtocolReleased(x, s) ==
    IF x.sock[s].ops THEN module_put([x EXCEPT !.sock[s].sk = FALSE, !.sock[s].ops = FALSE]) ELSE x

\* With a file, the inode goes with the file's dentry, not here.
sock_release(x, s) ==
    LET y == [ProtocolReleased(x, s) EXCEPT !.in_use = @ - 1]
    IN  IF y.sock[s].file THEN [y EXCEPT !.sock[s].file = FALSE] ELSE iput(y, s)

\* sock_alloc_file: a descriptor is reserved, the file has one reference.  When it
\* fails (no descriptor, dentry or file) it leaves nothing behind: the inode the
\* dentry had taken is held once more before the dentry goes.
sock_alloc_file(x, s, f) ==
    [x EXCEPT !.sock[s].file = TRUE, !.refs[s] = 1, !.reserved = @ \cup {f}]

fd_install(x, s, f) == [x EXCEPT !.fd[f] = s, !.reserved = @ \ {f}]

put_unused_fd(x, f) == [x EXCEPT !.reserved = @ \ {f}]

\* The last reference: sock_close, then the dentry and its inode.
fput(x, s) ==
    IF x.refs[s] > 1 THEN [x EXCEPT !.refs[s] = @ - 1]
    ELSE iput(sock_release([x EXCEPT !.refs[s] = 0], s), s)

\* fget_light takes a reference only if the table of descriptors is shared.
Shared == Cardinality(Threads) > 1

\* MUTANT: a lone user of the table is assumed.
FgetAlone(x, s) == x

fget_light(x, s) == IF Shared THEN [x EXCEPT !.refs[s] = @ + 1] ELSE x

fput_light(x, s) == IF Shared THEN fput(x, s) ELSE x

FreeSocks(x) == {s \in Socks : ~x.sock[s].live}

FreeFds(x) == {f \in Fds : x.fd[f] = NoSock /\ f \notin x.reserved}

\* sys_close: the descriptor first, then the reference it had.
sys_close(x, f) == IF x.fd[f] = NoSock THEN x ELSE fput([x EXCEPT !.fd[f] = NoSock], x.fd[f])

-----------------------------------------------------------------------------
(* socket() and socketpair(). *)

At(t, pc) == th[t].pc = pc

Goes(t, r) == th' = [th EXCEPT ![t] = r]

\* MUTANT: the family's module is taken for granted.
SockCreateUnheld(t, s, r) ==
    IF mod.family
    THEN k' = module_get(sock_alloc(k, s)) /\ Goes(t, r)
    ELSE k' = sock_release(sock_alloc(k, s), s) /\ Goes(t, Idle)

\* __sock_create up to pf->create: the family is found under RCU and its module
\* is held (try_module_get refuses one that is going).
SockCreate(t, s, r) ==
    IF mod.family /\ mod.live
    THEN k' = module_get(sock_alloc(k, s)) /\ Goes(t, r)
    ELSE k' = sock_release(sock_alloc(k, s), s) /\ Goes(t, Idle)

sys_socket(t) ==
    /\ At(t, "idle")
    /\ \E s \in FreeSocks(k), pair \in BOOLEAN :
        SockCreate(t, s, [Idle EXCEPT !.pc = "create", !.new = s, !.pair = pair])
    /\ UNCHANGED mod

\* out_module_put.
CreateFailed(x, s) ==
    sock_release(module_put([Created(x, s, FALSE) EXCEPT !.sock[s].ops = FALSE]), s)

\* try_module_get(sock->ops->owner), module_put(pf->owner).  The owner is the
\* module that is held already, so it is there.
CreateWorked(x, s) == module_put(module_get(Created(x, s, TRUE)))

\* The rest of __sock_create, the word of the security module included.
CreateDone(t, ok, post) ==
    /\ At(t, "create")
    /\ LET s == th[t].new
       IN  IF ~ok THEN k' = CreateFailed(k, s) /\ Goes(t, Idle)
           ELSE IF ~post THEN k' = sock_release(CreateWorked(k, s), s) /\ Goes(t, Idle)
           ELSE /\ k' = CreateWorked(k, s)
                /\ Goes(t, [th[t] EXCEPT !.pc = IF th[t].pair THEN "second" ELSE "map"])
    /\ UNCHANGED mod

\* sock_map_fd up to fd_install.
MapFd(t) ==
    /\ At(t, "map")
    /\ \/ k' = sock_release(k, th[t].new) /\ Goes(t, Idle)
       \/ \E f \in FreeFds(k) :
            /\ k' = sock_alloc_file(k, th[t].new, f)
            /\ Goes(t, [th[t] EXCEPT !.pc = "install", !.newfd = f])
    /\ UNCHANGED mod

\* fd_install ends socket() and accept4(), which then drops the listener.
Install(t) ==
    /\ At(t, "install")
    /\ LET x == fd_install(k, th[t].new, th[t].newfd)
       IN  k' = IF th[t].held = NoSock THEN x ELSE fput_light(x, th[t].held)
    /\ Goes(t, Idle) /\ UNCHANGED mod

\* The second socket of a pair, in one step.
PairCreate(t) ==
    /\ At(t, "second")
    /\ \/ k' = sock_release(k, th[t].new) /\ Goes(t, Idle)
       \/ \E s \in FreeSocks(k) :
            /\ mod.family /\ mod.live
            /\ k' = CreateWorked(module_get(sock_alloc(k, s)), s)
            /\ Goes(t, [th[t] EXCEPT !.pc = "pair", !.new2 = s])
    /\ UNCHANGED mod

\* MUTANT: the first file is put, its descriptor is not.
PairUndoneFd(x, s1, f1, s2) == sock_release(fput(x, s1), s2)

\* There is no file for the second: the first goes through its file.
PairUndone(x, s1, f1, s2) == sock_release(put_unused_fd(fput(x, s1), f1), s2)

\* ops->socketpair, then a file for each.
PairFiles(t) ==
    /\ At(t, "pair")
    /\ \/ k' = sock_release(sock_release(k, th[t].new2), th[t].new) /\ Goes(t, Idle)
       \/ \E f \in FreeFds(k) :
            LET x == sock_alloc_file(k, th[t].new, f)
            IN  \/ k' = PairUndone(x, th[t].new, f, th[t].new2) /\ Goes(t, Idle)
                \/ \E f2 \in FreeFds(x) :
                    /\ k' = sock_alloc_file(x, th[t].new2, f2)
                    /\ Goes(t, [th[t] EXCEPT !.pc = "install1", !.newfd = f, !.newfd2 = f2])
    /\ UNCHANGED mod

PairInstall1(t) ==
    /\ At(t, "install1")
    /\ k' = fd_install(k, th[t].new, th[t].newfd)
    /\ Goes(t, [th[t] EXCEPT !.pc = "install2", !.new = NoSock])
    /\ UNCHANGED mod

PairInstall2(t) ==
    /\ At(t, "install2")
    /\ k' = fd_install(k, th[t].new2, th[t].newfd2)
    /\ Goes(t, [th[t] EXCEPT !.pc = "copyout", !.new2 = NoSock])
    /\ UNCHANGED mod

\* put_user fails: both numbers are closed, whatever they stand for by now.
PairCopyOut(t, ok) ==
    /\ At(t, "copyout")
    /\ k' = IF ok THEN k ELSE sys_close(sys_close(k, th[t].newfd2), th[t].newfd)
    /\ Goes(t, Idle) /\ UNCHANGED mod
-----------------------------------------------------------------------------
(* accept4() and the calls that look a socket up by its descriptor. *)

\* sockfd_lookup_light, sock_alloc, the listener's operations, sock_alloc_file.
AcceptStart(t, f) ==
    /\ At(t, "idle") /\ k.fd[f] # NoSock
    /\ LET l == k.fd[f]
           x == fget_light(k, l)
       IN  \/ k' = fput_light(x, l) /\ Goes(t, Idle)
          \/ \E s \in FreeSocks(x) :
               LET y == module_get([sock_alloc(x, s) EXCEPT !.sock[s].ops = TRUE])
               IN  \/ k' = fput_light(sock_release(y, s), l) /\ Goes(t, Idle)
                   \/ \E g \in FreeFds(y) :
                        /\ k' = sock_alloc_file(y, s, g)
                        /\ Goes(t, [Idle EXCEPT !.pc = "accept", !.held = l,
                                              !.new = s, !.newfd = g])
    /\ UNCHANGED mod

\* out_fd, out_put.
AcceptFailed(x, s, f, l) == fput_light(put_unused_fd(fput(x, s), f), l)

\* sock->ops->accept may sleep; it, the security module, getname and the copy of
\* the address to the caller may fail.
AcceptDone(t, ok) ==
    /\ At(t, "accept")
    /\ IF ok THEN /\ k' = [k EXCEPT !.sock[th[t].new].sk = TRUE]
                  /\ Goes(t, [th[t] EXCEPT !.pc = "install"])
       ELSE /\ k' = AcceptFailed(k, th[t].new, th[t].newfd, th[t].held)
            /\ Goes(t, Idle)
    /\ UNCHANGED mod

\* bind, listen, connect, getsockname, send, receive, the options, shutdown.
CallStart(t, f) ==
    /\ At(t, "idle") /\ k.fd[f] # NoSock
    /\ k' = fget_light(k, k.fd[f])
    /\ Goes(t, [Idle EXCEPT !.pc = "call", !.held = k.fd[f]])
    /\ UNCHANGED mod

CallDone(t) ==
    /\ At(t, "call")
    /\ k' = fput_light(k, th[t].held)
    /\ Goes(t, Idle) /\ UNCHANGED mod

Close(t, f) ==
    /\ At(t, "idle") /\ k.fd[f] # NoSock
    /\ k' = sys_close(k, f)
    /\ UNCHANGED <<th, mod>>

Dup(t, f, g) ==
    /\ At(t, "idle") /\ k.fd[f] # NoSock /\ g \in FreeFds(k)
    /\ k' = [k EXCEPT !.fd[g] = k.fd[f], !.refs[k.fd[f]] = @ + 1]
    /\ UNCHANGED <<th, mod>>

-----------------------------------------------------------------------------
(* The module goes when it has no users; sock_unregister is its exit. *)

ModuleGoing ==
    /\ mod.live /\ k.users = 0
    /\ mod' = [mod EXCEPT !.live = FALSE]
    /\ UNCHANGED <<k, th>>

sock_unregister ==
    /\ ~mod.live /\ mod.family
    /\ mod' = [mod EXCEPT !.family = FALSE]
    /\ UNCHANGED <<k, th>>

sock_register ==
    /\ ~mod.live /\ ~mod.family
    /\ mod' = [live |-> TRUE, family |-> TRUE]
    /\ UNCHANGED <<k, th>>

Next ==
    \/ \E t \in Threads :
        \/ sys_socket(t) \/ MapFd(t) \/ Install(t)
        \/ PairCreate(t) \/ PairFiles(t) \/ PairInstall1(t) \/ PairInstall2(t)
        \/ CallDone(t)
        \/ \E ok \in BOOLEAN :
            PairCopyOut(t, ok) \/ AcceptDone(t, ok) \/ \E post \in BOOLEAN : CreateDone(t, ok, post)
        \/ \E f \in Fds :
            AcceptStart(t, f) \/ CallStart(t, f) \/ Close(t, f) \/ \E g \in Fds : Dup(t, f, g)
    \/ ModuleGoing \/ sock_unregister \/ sock_register

Spec == Init /\ [][Next]_vars
-----------------------------------------------------------------------------
(* Properties *)

Pcs == {"idle", "create", "map", "install", "second", "pair", "install1", "install2",
        "copyout", "accept", "call"}

\* Types.  An inode is put once: its count never leaves 0..1, and the module's
\* count never falls below zero (iput and module_put in sock_release).
TypeOK ==
    /\ k \in [sock : [Socks -> [live : BOOLEAN, ops : BOOLEAN, sk : BOOLEAN,
                                file : BOOLEAN, inode : 0..1]],
              refs : [Socks -> Nat], fd : [Fds -> Socks \cup {NoSock}],
              reserved : SUBSET Fds, in_use : Nat, users : Nat]
    /\ th \in [Threads -> [pc : Pcs, held : Socks \cup {NoSock}, new : Socks \cup {NoSock},
                           new2 : Socks \cup {NoSock}, newfd : Fds \cup {NoFd},
                           newfd2 : Fds \cup {NoFd}, pair : BOOLEAN]]
    /\ mod \in [live : BOOLEAN, family : BOOLEAN]

Live == {s \in Socks : k.sock[s].live}

\* Descriptors a call has reserved and not installed, and the files behind them.
Pending(t) ==
    CASE th[t].pc \in {"install", "accept"} -> {<<th[t].newfd, th[t].new>>}
      [] th[t].pc = "install1" -> {<<th[t].newfd, th[t].new>>, <<th[t].newfd2, th[t].new2>>}
      [] th[t].pc = "install2" -> {<<th[t].newfd2, th[t].new2>>}
      [] OTHER -> {}

AllPending == UNION {Pending(t) : t \in Threads}

\* Sockets of a call that have no file yet.
Unmapped ==
    {th[t].new : t \in {u \in Threads : th[u].pc \in {"create", "map", "second", "pair"}}}
    \cup {th[t].new2 : t \in {u \in Threads : th[u].pc = "pair"}}

\* sockets_in_use is the number of sockets there are, whichever way each one was
\* released: by its file, by a call that failed, before or after its file came.
InUseExact == k.in_use = Cardinality(Live)

\* f_count is the descriptors that stand for the file, the calls that looked it up
\* and the call that has yet to install it: no path of socket(), socketpair(),
\* accept4() or close() puts a file twice or forgets to.
ReferencesExact ==
    \A s \in Socks :
        k.refs[s] = Cardinality({f \in Fds : k.fd[f] = s})
                    + Cardinality({p \in AllPending : p[2] = s})
                    + (IF Shared THEN Cardinality({t \in Threads : th[t].held = s}) ELSE 0)

\* Nothing is lost when a step of a call fails: every socket has a file with a
\* reference or belongs to a call, and every reserved descriptor belongs to a call.
NothingLost ==
    /\ \A s \in Live : k.refs[s] > 0 \/ s \in Unmapped
    /\ k.reserved = {p[1] : p \in AllPending}

\* Sockets, files and descriptors are all accounted for, on every path of every call.
AllAccounted == InUseExact /\ ReferencesExact /\ NothingLost

\* A call that found its socket by descriptor can use sock->ops, and sock->file at
\* its end, although other threads close the descriptor meanwhile.
HeldIsAlive ==
    \A s \in {th[t].held : t \in Threads} \cup {k.fd[f] : f \in Fds} :
        s # NoSock => k.sock[s].live /\ k.sock[s].ops /\ k.sock[s].file

\* The module whose code a create runs, or a socket's operations point to, stays;
\* its count is those users and no other, so it can go when they have.
ModuleStays ==
    LET Creating == {t \in Threads : th[t].pc = "create"}
        Using == {s \in Socks : k.sock[s].ops}
    IN  /\ Creating # {} \/ Using # {} => mod.live /\ mod.family
        /\ k.users = Cardinality(Creating) + Cardinality(Using)
=============================================================================
