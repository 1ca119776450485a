------------------------------ MODULE Messages ------------------------------
(***************************************************************************)
(* sendmmsg() and recvmmsg() on one datagram socket (socket.c), by several  *)
(* threads at once: how many datagrams a call says it moved, when the       *)
(* security module is asked, the option memory a message borrows, and what  *)
(* becomes of an error that comes after some datagrams.                     *)
(*                                                                         *)
(* A message takes two steps: what is copied and allocated before the       *)
(* protocol is called, and the rest; the protocol may sleep in between.     *)
(* Lengths and contents are left out.  Every call asks for Vlen messages.   *)
(***************************************************************************)
EXTENDS Integers, FiniteSets

CONSTANTS
    Threads,
    Ops,          \* the calls the threads make: "send", "recv"
    Addrs,        \* destination addresses
    NoAddr,       \* no address: msg_name is NULL
    Vlen,         \* messages a call asks for
    MaxQueue,     \* datagrams that wait to be received
    OptmemMax,    \* sysctl_optmem_max, in buffers
    MaxOwed       \* errors that may be due at once, beyond which none comes by itself

ASSUME MessageConstants ==
    /\ NoAddr \notin Addrs /\ Ops \subseteq {"send", "recv"}
    /\ Vlen \in Nat \ {0} /\ MaxQueue \in Nat /\ OptmemMax \in Nat /\ MaxOwed \in Nat

VARIABLES
    sock,         \* queue: datagrams waiting; err: sk_err is set; omem: sk_omem_alloc
    call,         \* the call each thread is in, or its last one
    owed          \* errors that came and that no call has told or given up (0, 1, more)

vars == <<sock, call, owed>>

\* n is datagrams; moved, dest and asked record what was done: messages that went
\* through, where to, and whom the security module was asked about.
NoCall == [op |-> "none", pc |-> "done", n |-> 0, moved |-> 0, used |-> NoAddr, to |-> NoAddr,
           dest |-> {}, asked |-> {}, bufs |-> 0, dontwait |-> FALSE, waitone |-> FALSE,
           timeout |-> FALSE, fault |-> FALSE, ret |-> "count"]

Init ==
    /\ sock = [queue |-> 0, err |-> FALSE, omem |-> 0]
    /\ call = [t \in Threads |-> NoCall]
    /\ owed = 0

Becomes(t, c) == call' = [call EXCEPT ![t] = c]

More(n) == IF n = 2 THEN 2 ELSE n + 1

sock_kmalloc(x, n) == [x EXCEPT !.omem = @ + n]

sock_kfree_s(x, n) == [x EXCEPT !.omem = @ - n]

\* out_freectl, out_freeiov.
Freed(x, c) == sock_kfree_s(x, c.bufs)

-----------------------------------------------------------------------------
(* sendmmsg *)

\* The call returns the datagrams it counted, or the error if there are none.
SendReturns(c, failed) ==
    [c EXCEPT !.pc = "done", !.bufs = 0, !.to = NoAddr,
              !.ret = IF c.n # 0 \/ ~failed THEN "count" ELSE "error"]

SendStart(t) ==
    /\ "send" \in Ops /\ call[t].pc = "done"
    /\ Becomes(t, [NoCall EXCEPT !.op = "send", !.pc = "begin"])
    /\ UNCHANGED <<sock, owed>>

\* __sys_sendmsg before the protocol: the header is copied, a long iovec and a
\* long control message are allocated and copied.  It fails for want of memory or
\* by a fault, having freed what it had.
SendBegin(t, to, bufs) ==
    /\ call[t].op = "send" /\ call[t].pc = "begin"
    /\ \/ /\ sock.omem + bufs <= OptmemMax
          /\ sock' = sock_kmalloc(sock, bufs)
          /\ Becomes(t, [call[t] EXCEPT !.pc = "protocol", !.to = to, !.bufs = bufs])
       \/ /\ Becomes(t, SendReturns(call[t], TRUE))
          /\ UNCHANGED sock
    /\ UNCHANGED owed

\* MUTANT: the length alone is compared, and all lengths are the same.
SameLength(c) == c.to # NoAddr /\ c.used # NoAddr

\* The address is that of the last message sent with the security module's leave.
\* One without an address sets the length to 0, which nothing matches.
SameAddress(c) == c.to # NoAddr /\ c.used = c.to

\* The message went out; the security module was asked unless the address is the
\* last one.
Sent(c) ==
    IF SameAddress(c) THEN [c EXCEPT !.moved = @ + 1, !.dest = @ \cup {c.to}]
    ELSE [c EXCEPT !.moved = @ + 1, !.dest = @ \cup {c.to}, !.used = c.to,
                   !.asked = @ \cup {c.to}]

\* put_user of the length, and the loop of __sys_sendmmsg.
SendCounted(c, put) ==
    IF ~put THEN SendReturns([c EXCEPT !.fault = TRUE], TRUE)
    ELSE IF c.n + 1 < Vlen THEN [c EXCEPT !.pc = "begin", !.n = @ + 1]
    ELSE SendReturns([c EXCEPT !.n = @ + 1], FALSE)

\* The protocol sends the message, unless it or the security module refuses; an
\* error that is due is taken off the socket and is the result: told if no datagram
\* went out, given up if one did, since sendmmsg keeps nothing for the next call.
SendEnd(t, ok, put) ==
    /\ call[t].op = "send" /\ call[t].pc = "protocol"
    /\ ok => ~sock.err
    /\ sock' = [Freed(sock, call[t]) EXCEPT !.err = FALSE]
    /\ Becomes(t, IF ok THEN SendCounted(Sent([call[t] EXCEPT !.bufs = 0]), put)
                  ELSE SendReturns(call[t], TRUE))
    /\ owed' = IF sock.err THEN owed - 1 ELSE owed

-----------------------------------------------------------------------------
(* recvmmsg *)

\* sock_error first: an error that is due ends the call.
RecvStart(t, waitone, nonblock, timeout) ==
    /\ "recv" \in Ops /\ call[t].pc = "done"
    /\ IF sock.err
       THEN /\ Becomes(t, [NoCall EXCEPT !.op = "recv", !.ret = "error"])
            /\ owed' = owed - 1
       ELSE /\ Becomes(t, [NoCall EXCEPT !.op = "recv", !.pc = "begin", !.waitone = waitone,
                                        !.dontwait = nonblock, !.timeout = timeout])
            /\ UNCHANGED owed
    /\ sock' = [sock EXCEPT !.err = FALSE]

\* sys_recvmmsg copies the rest of the timeout out if there are datagrams.
RecvReturns(c, ret) ==
    [c EXCEPT !.pc = IF c.timeout /\ c.n > 0 THEN "copyout" ELSE "done", !.bufs = 0,
              !.ret = IF c.n = 0 THEN ret ELSE "count"]

\* MUTANT: only EAGAIN would be kept.
RecvFailedDropped(t, c, x, own) ==
    /\ Becomes(t, RecvReturns(c, "error"))
    /\ sock' = x
    /\ owed' = (IF own THEN More(owed) ELSE owed) - (IF c.n = 0 THEN 1 ELSE 0)

\* An error ends the loop: it is returned if there is no datagram, and else kept
\* in sk_err for the next call.  x is the socket then; own tells an error of this
\* call from one that it took from sk_err.
RecvFailed(t, c, x, own) ==
    /\ Becomes(t, RecvReturns(c, "error"))
    /\ sock' = [x EXCEPT !.err = c.n # 0 \/ x.err]
    /\ owed' = (IF own THEN More(owed) ELSE owed) - (IF c.n = 0 THEN 1 ELSE 0)

\* __sys_recvmsg before the protocol.
RecvBegin(t, bufs) ==
    /\ call[t].op = "recv" /\ call[t].pc = "begin"
    /\ \/ /\ sock.omem + bufs <= OptmemMax
          /\ sock' = sock_kmalloc(sock, bufs)
          /\ Becomes(t, [call[t] EXCEPT !.pc = "protocol", !.bufs = bufs])
          /\ UNCHANGED owed
       \/ /\ sock.omem + bufs > OptmemMax \/ owed < MaxOwed
          /\ RecvFailed(t, call[t], sock, TRUE)

InProtocol(t) == call[t].op = "recv" /\ call[t].pc = "protocol"

\* The protocol returns an error that is due.
RecvError(t) ==
    /\ InProtocol(t) /\ sock.err
    /\ RecvFailed(t, call[t], [Freed(sock, call[t]) EXCEPT !.err = FALSE], FALSE)

\* A signal, while it sleeps.
RecvInterrupted(t) ==
    /\ InProtocol(t) /\ ~sock.err /\ sock.queue = 0 /\ ~call[t].dontwait
    /\ owed < MaxOwed
    /\ RecvFailed(t, call[t], Freed(sock, call[t]), TRUE)

\* EAGAIN is not kept.
RecvAgain(t) ==
    /\ InProtocol(t) /\ ~sock.err /\ sock.queue = 0 /\ call[t].dontwait
    /\ Becomes(t, RecvReturns(call[t], "again"))
    /\ sock' = Freed(sock, call[t])
    /\ UNCHANGED owed

\* A datagram leaves the queue; only for the first the security module is asked.
Taken(c) ==
    [c EXCEPT !.moved = @ + 1, !.dest = {NoAddr}, !.asked = IF c.n = 0 THEN {NoAddr} ELSE @]

\* It is counted.  The loop of __sys_recvmmsg goes on unless it has them all, the
\* timeout is over or the data is urgent.
RecvCounted(c, stop) ==
    IF stop \/ c.n + 1 = Vlen THEN RecvReturns([c EXCEPT !.n = @ + 1], "count")
    ELSE [c EXCEPT !.pc = "begin", !.n = @ + 1, !.bufs = 0, !.dontwait = @ \/ c.waitone]

RecvDatagram(t, stop) ==
    /\ InProtocol(t) /\ ~sock.err /\ sock.queue > 0
    /\ Becomes(t, RecvCounted(Taken(call[t]), stop))
    /\ sock' = [Freed(sock, call[t]) EXCEPT !.queue = @ - 1]
    /\ UNCHANGED owed

\* The same, and the copy of its address, flags or length to the caller faults.
RecvFault(t) ==
    /\ InProtocol(t) /\ ~sock.err /\ sock.queue > 0 /\ owed < MaxOwed
    /\ RecvFailed(t, [Taken(call[t]) EXCEPT !.fault = TRUE],
                  [Freed(sock, call[t]) EXCEPT !.queue = @ - 1], TRUE)

CopyTimeout(t, ok) ==
    /\ call[t].pc = "copyout"
    /\ Becomes(t, [call[t] EXCEPT !.pc = "done", !.fault = @ \/ ~ok,
                                 !.ret = IF ok THEN "count" ELSE "error"])
    /\ UNCHANGED <<sock, owed>>

-----------------------------------------------------------------------------
(* The network. *)

Arrive ==
    /\ sock.queue < MaxQueue
    /\ sock' = [sock EXCEPT !.queue = @ + 1]
    /\ UNCHANGED <<call, owed>>

IcmpError ==
    /\ owed < MaxOwed
    /\ sock' = [sock EXCEPT !.err = TRUE]
    /\ owed' = More(owed)
    /\ UNCHANGED call

Next ==
    \/ \E t \in Threads :
        \/ SendStart(t) \/ RecvError(t) \/ RecvInterrupted(t) \/ RecvAgain(t) \/ RecvFault(t)
        \/ \E b \in 0..2, to \in Addrs \cup {NoAddr} : SendBegin(t, to, b)
        \/ \E b \in 0..1 : RecvBegin(t, b)
        \/ \E ok, put \in BOOLEAN : SendEnd(t, ok, put)
        \/ \E w, d, o \in BOOLEAN : RecvStart(t, w, d, o)
        \/ \E b \in BOOLEAN : RecvDatagram(t, b) \/ CopyTimeout(t, b)
    \/ Arrive \/ IcmpError

Spec == Init /\ [][Next]_vars

-----------------------------------------------------------------------------
(* Properties. *)

\* Types; sk_omem_alloc never falls below zero.
TypeOK ==
    /\ sock \in [queue : 0..MaxQueue, err : BOOLEAN, omem : 0..OptmemMax]
    /\ call \in [Threads ->
                    [op : {"none", "send", "recv"}, pc : {"done", "begin", "protocol", "copyout"},
                     n : 0..Vlen, moved : 0..Vlen, used : Addrs \cup {NoAddr},
                     to : Addrs \cup {NoAddr}, dest : SUBSET (Addrs \cup {NoAddr}),
                     asked : SUBSET (Addrs \cup {NoAddr}), bufs : 0..2, dontwait : BOOLEAN,
                     waitone : BOOLEAN, timeout : BOOLEAN, fault : BOOLEAN,
                     ret : {"count", "error", "again"}]]
    /\ owed \in 0..2

Done(t) == call[t].pc = "done"

\* The count a call returns is the messages that went through; one more may have,
\* and only if its length or address could not be copied to the caller.
CountsAreTrue ==
    \A t \in Threads :
        Done(t) => call[t].moved - call[t].n \in (IF call[t].fault THEN {0, 1} ELSE {0})

\* No message goes to an address that the security module has not allowed in the
\* same call: __sys_sendmsg leaves the question out for the last address only, and
\* __sys_recvmsg for all datagrams but the first.
SecurityAsked == \A t \in Threads : call[t].dest \subseteq call[t].asked

Holding(n) == Cardinality({t \in Threads : call[t].bufs >= n})

\* The option memory charged to the socket is what the messages in progress hold,
\* whichever way each of the others ended.
OptmemExact == sock.omem = Holding(1) + Holding(2)

\* An error is told to one caller, once: until a call returns it, or a sendmmsg that
\* had sent something gives it up, it is in sk_err, also when a recvmmsg that met it
\* had datagrams to return (checked with errors that come one at a time: sk_err has
\* room for one).
ErrorToldOnce == owed = IF sock.err THEN 1 ELSE 0

\* Messages, errors and option memory are all accounted for when sendmmsg() and
\* recvmmsg() fail in the middle, alone or together.
CallsAccounted == CountsAreTrue /\ ErrorToldOnce /\ OptmemExact
=============================================================================
