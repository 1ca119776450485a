----------------------------- MODULE AcceptWait -----------------------------
(***************************************************************************)
(* Tasks that block in accept() on one listening socket: inet_csk_accept   *)
(* and inet_csk_wait_for_connect, with the socket lock they drop and take  *)
(* again, the backlog release_sock empties, the exclusive wake-up that     *)
(* tcp_child_process gives for a child, and the calls that start and stop  *)
(* listening.  Nothing here tells one child from another, so the accept    *)
(* queue is its length.                                                    *)
(***************************************************************************)
EXTENDS Integers, FiniteSets

CONSTANTS
    Tasks,      \* tasks that call accept()
    User,       \* the task that calls listen() and shutdown()
    NoTask,     \* the owner of an unlocked socket
    MaxQueue,   \* bound on the accept queue
    RcvBuf      \* sk_rcvbuf, in segments

ASSUME WaitConstants ==
    /\ IsFiniteSet(Tasks) /\ User \notin Tasks /\ NoTask \notin Tasks \cup {User}
    /\ MaxQueue \in Nat /\ RcvBuf \in Nat

VARIABLES
    sk_state,    \* "CLOSE" or "LISTEN"
    queued,      \* length of icsk_accept_queue
    owner,       \* the task sk_lock.owned stands for
    backlog,     \* segments in sk_backlog, each the last of a handshake
    backlog_len, \* sk_backlog.len: segments added since the lock was taken
    pc,          \* where each task is in accept()
    state,       \* each task's scheduling state
    timeo,       \* whether the task has time left to wait
    signal,      \* signal_pending
    wait_queue,  \* the tasks with an entry in sk_sleep(sk)
    ahead        \* for each of those, the entries in front of its own

sock == <<sk_state, queued, owner, backlog, backlog_len>>
queue == <<wait_queue, ahead>>
vars == <<sock, pc, state, timeo, signal, queue>>

Init ==
    /\ sk_state = "CLOSE" /\ queued = 0
    /\ owner = NoTask /\ backlog = 0 /\ backlog_len = 0
    /\ pc = [t \in Tasks |-> "out"] /\ state = [t \in Tasks |-> "RUNNING"]
    /\ timeo = [t \in Tasks |-> FALSE] /\ signal = [t \in Tasks |-> FALSE]
    /\ wait_queue = {} /\ ahead = [t \in Tasks |-> {}]

-----------------------------------------------------------------------------
\* Wait queues.

\* The entries a wake-up finds asleep: it passes over a task in another state.
Sleepers == {t \in wait_queue : state[t] = "INTERRUPTIBLE"}

\* autoremove_wake_function: the tasks run and their entries go.
Wake(S) ==
    /\ state' = [t \in Tasks |-> IF t \in S THEN "RUNNING" ELSE state[t]]
    /\ wait_queue' = wait_queue \ S
    /\ ahead' = [t \in Tasks |-> IF t \in S THEN {} ELSE ahead[t] \ S]

\* sk_data_ready: every entry is exclusive, so only the first sleeper is woken.
sk_data_ready ==
    \/ Sleepers = {} /\ UNCHANGED <<state, queue>>
    \/ \E t \in Sleepers : ahead[t] \cap Sleepers = {} /\ Wake({t})

\* sk_state_change wakes them all.
sk_state_change == Wake(Sleepers)

\* An entry that is still queued keeps its place; a new one goes to the tail.
prepare_to_wait_exclusive(t) ==
    /\ state' = [state EXCEPT ![t] = "INTERRUPTIBLE"]
    /\ wait_queue' = wait_queue \cup {t}
    /\ ahead' = IF t \in wait_queue THEN ahead ELSE [ahead EXCEPT ![t] = wait_queue]

finish_wait(t) == Wake({t})

-----------------------------------------------------------------------------
\* The network.

\* Mutant: only the child that ends an empty queue wakes somebody.
HandshakeWakesOnFirst ==
    /\ sk_state = "LISTEN" /\ queued < MaxQueue
    /\ queued' = queued + 1
    /\ IF queued = 0 THEN sk_data_ready ELSE UNCHANGED <<state, queue>>

\* The last segment of a handshake meets an unlocked socket.  The child is queued and
\* the parent woken under the socket's spinlock.
Handshake ==
    /\ sk_state = "LISTEN" /\ queued < MaxQueue
    /\ queued' = queued + 1
    /\ sk_data_ready

tcp_v4_rcv ==
    /\ owner = NoTask
    /\ Handshake
    /\ UNCHANGED <<sk_state, owner, backlog, backlog_len, pc, timeo, signal>>

\* The socket is owned: the segment goes to the backlog, unless sk_rcvqueues_full.
sk_add_backlog ==
    /\ owner # NoTask /\ backlog_len <= RcvBuf
    /\ backlog' = backlog + 1 /\ backlog_len' = backlog_len + 1
    /\ UNCHANGED <<sk_state, queued, owner, pc, state, timeo, signal, queue>>

-----------------------------------------------------------------------------
\* The socket lock.

Releasing == owner = User \/ (owner \in Tasks /\ pc[owner] \in {"release", "leave"})

\* Mutant: every segment processed makes room for another.
BacklogRcvUncounts ==
    /\ Releasing /\ backlog > 0
    /\ backlog' = backlog - 1 /\ backlog_len' = backlog_len - 1
    /\ \/ Handshake
       \/ /\ sk_state # "LISTEN" \/ queued >= MaxQueue
          /\ UNCHANGED <<queued, state, queue>>
    /\ UNCHANGED <<sk_state, owner, pc, timeo, signal>>

\* release_sock processes the segments the backlog holds; one that arrives meanwhile
\* joins them.  A socket that does not listen, or has no room, drops the segment.
sk_backlog_rcv ==
    /\ Releasing /\ backlog > 0
    /\ backlog' = backlog - 1
    /\ \/ Handshake
       \/ /\ sk_state # "LISTEN" \/ queued >= MaxQueue
          /\ UNCHANGED <<queued, state, queue>>
    /\ UNCHANGED <<sk_state, owner, backlog_len, pc, timeo, signal>>

\* With the backlog empty the lock is free and sk_backlog.len counts from zero.
Unlock ==
    /\ Releasing /\ backlog = 0
    /\ owner' = NoTask /\ backlog_len' = 0

\* A task that finds the socket owned sleeps for the lock, in another state.
lock_sock_wait(t) ==
    /\ pc[t] \in {"lock", "relock"} /\ owner # NoTask /\ state[t] # "UNINTERRUPTIBLE"
    /\ state' = [state EXCEPT ![t] = "UNINTERRUPTIBLE"]
    /\ UNCHANGED <<sock, pc, timeo, signal, queue>>

\* A task that had to wait is running when it has the lock; one that had not keeps the
\* state prepare_to_wait_exclusive gave it.
lock_sock(t) ==
    /\ pc[t] \in {"lock", "relock"} /\ owner = NoTask
    /\ owner' = t
    /\ pc' = [pc EXCEPT ![t] = IF @ = "lock" THEN "accept" ELSE "recheck"]
    /\ state' = [state EXCEPT ![t] = IF @ = "UNINTERRUPTIBLE" THEN "RUNNING" ELSE @]
    /\ UNCHANGED <<sk_state, queued, backlog, backlog_len, timeo, signal, queue>>

-----------------------------------------------------------------------------
\* accept().

Goto(t, l) == pc' = [pc EXCEPT ![t] = l]

\* A call, with or without O_NONBLOCK.
Call(t) ==
    /\ pc[t] = "out" /\ Goto(t, "lock")
    /\ \E blocking \in BOOLEAN : timeo' = [timeo EXCEPT ![t] = blocking]
    /\ UNCHANGED <<sock, state, signal, queue>>

\* reqsk_queue_get_child, of a queue found not empty.
TakeChild(t) == queued > 0 /\ queued' = queued - 1 /\ Goto(t, "leave")

inet_csk_accept(t) ==
    /\ pc[t] = "accept"
    /\ \/ /\ sk_state # "LISTEN" \/ (queued = 0 /\ ~timeo[t])
          /\ Goto(t, "leave") /\ UNCHANGED <<queued, state, queue>>
       \/ /\ sk_state = "LISTEN"
          /\ TakeChild(t) /\ UNCHANGED <<state, queue>>
       \/ /\ sk_state = "LISTEN" /\ queued = 0 /\ timeo[t]
          /\ prepare_to_wait_exclusive(t) /\ Goto(t, "release") /\ UNCHANGED queued
    /\ UNCHANGED <<sk_state, owner, backlog, backlog_len, timeo, signal>>

\* The task gives the lock up: in the loop, or on its way out, where its signals are
\* then delivered.
release_sock(t) ==
    /\ owner = t /\ Unlock
    /\ Goto(t, IF pc[t] = "release" THEN "look" ELSE "out")
    /\ signal' = [signal EXCEPT ![t] = @ /\ pc[t] = "release"]
    /\ UNCHANGED <<sk_state, queued, backlog, state, timeo, queue>>

\* The queue is read without the lock before the task sleeps.
Look(t) ==
    /\ pc[t] = "look" /\ Goto(t, IF queued = 0 THEN "sleep" ELSE "relock")
    /\ UNCHANGED <<sock, state, timeo, signal, queue>>

\* schedule_timeout returns to a task that was woken, or that has a signal pending.
schedule_timeout(t) ==
    /\ pc[t] = "sleep" /\ (state[t] = "RUNNING" \/ signal[t])
    /\ state' = [state EXCEPT ![t] = "RUNNING"]
    /\ Goto(t, "relock")
    /\ UNCHANGED <<sock, timeo, signal, queue>>

\* The time runs out, perhaps of a task that was just woken.  Its entry stays queued.
Timeout(t) ==
    /\ pc[t] = "sleep" /\ timeo[t]
    /\ timeo' = [timeo EXCEPT ![t] = FALSE]
    /\ state' = [state EXCEPT ![t] = "RUNNING"]
    /\ UNCHANGED <<sock, pc, signal, queue>>

\* A signal wakes an interruptible task, and leaves its entry too.
Signal(t) ==
    /\ pc[t] # "out" /\ ~signal[t]
    /\ signal' = [signal EXCEPT ![t] = TRUE]
    /\ state' = [state EXCEPT ![t] = IF @ = "INTERRUPTIBLE" THEN "RUNNING" ELSE @]
    /\ UNCHANGED <<sock, pc, timeo, queue>>

\* Mutant: a signal is looked at before the queue.
SignalFirst(t) ==
    /\ pc[t] = "recheck"
    /\ LET Fails == sk_state # "LISTEN" \/ signal[t] \/ ~timeo[t] IN
       \/ ~signal[t] /\ TakeChild(t) /\ finish_wait(t)
       \/ /\ signal[t] \/ (queued = 0 /\ Fails)
          /\ Goto(t, "leave") /\ finish_wait(t) /\ UNCHANGED queued
       \/ /\ queued = 0 /\ ~Fails
          /\ prepare_to_wait_exclusive(t) /\ Goto(t, "release") /\ UNCHANGED queued
    /\ UNCHANGED <<sk_state, owner, backlog, backlog_len, timeo, signal>>

\* The tests at the end of the loop: a queued child comes before every reason to fail.
inet_csk_wait_for_connect(t) ==
    /\ pc[t] = "recheck"
    /\ LET Fails == sk_state # "LISTEN" \/ signal[t] \/ ~timeo[t] IN
       \/ TakeChild(t) /\ finish_wait(t)
       \/ queued = 0 /\ Fails /\ Goto(t, "leave") /\ finish_wait(t) /\ UNCHANGED queued
       \/ /\ queued = 0 /\ ~Fails
          /\ prepare_to_wait_exclusive(t) /\ Goto(t, "release") /\ UNCHANGED queued
    /\ UNCHANGED <<sk_state, owner, backlog, backlog_len, timeo, signal>>

-----------------------------------------------------------------------------
\* listen() and shutdown(), up to their release_sock.

\* It may fail, and may be called again.
inet_listen ==
    /\ owner = NoTask /\ owner' = User
    /\ sk_state' \in {sk_state, "LISTEN"}
    /\ UNCHANGED <<queued, backlog, backlog_len, pc, state, timeo, signal, queue>>

\* Of a listener, for reading: disconnect stops it and closes the queued children.
inet_shutdown ==
    /\ owner = NoTask /\ sk_state = "LISTEN"
    /\ owner' = User /\ sk_state' = "CLOSE" /\ queued' = 0
    /\ sk_state_change
    /\ UNCHANGED <<backlog, backlog_len, pc, timeo, signal>>

\* Of any other socket, or for writing only: nothing changes, and everybody is woken.
inet_shutdown_wake ==
    /\ owner = NoTask /\ owner' = User
    /\ sk_state_change
    /\ UNCHANGED <<sk_state, queued, backlog, backlog_len, pc, timeo, signal>>

UserRelease ==
    /\ owner = User /\ Unlock
    /\ UNCHANGED <<sk_state, queued, backlog, pc, state, timeo, signal, queue>>

-----------------------------------------------------------------------------
\* What a task inside accept() does by itself.
Step(t) ==
    \/ lock_sock_wait(t) \/ lock_sock(t) \/ inet_csk_accept(t) \/ release_sock(t)
    \/ Look(t) \/ schedule_timeout(t) \/ inet_csk_wait_for_connect(t)

Next ==
    \/ tcp_v4_rcv \/ sk_add_backlog \/ sk_backlog_rcv
    \/ inet_listen \/ inet_shutdown \/ inet_shutdown_wake \/ UserRelease
    \/ \E t \in Tasks : Call(t) \/ Step(t) \/ Timeout(t) \/ Signal(t)

\* Code that can run does run.  Calls, segments, signals and expiring timers need not
\* come; and listen() and shutdown() calls, which take the lock and leave the queue as
\* it is, come only so many times.
Fairness ==
    /\ \A t \in Tasks : WF_vars(Step(t))
    /\ WF_vars(sk_backlog_rcv) /\ WF_vars(UserRelease)
    /\ <>[][~(inet_listen \/ inet_shutdown_wake)]_vars

Spec == Init /\ [][Next]_vars
FairSpec == Spec /\ Fairness

-----------------------------------------------------------------------------
TypeOK ==
    /\ sk_state \in {"CLOSE", "LISTEN"} /\ queued \in 0..MaxQueue
    /\ owner \in Tasks \cup {User, NoTask}
    /\ backlog \in Nat /\ backlog_len \in 0..RcvBuf + 1
    /\ pc \in [Tasks -> {"out", "lock", "accept", "release", "look", "sleep", "relock",
                         "recheck", "leave"}]
    /\ state \in [Tasks -> {"RUNNING", "INTERRUPTIBLE", "UNINTERRUPTIBLE"}]
    /\ timeo \in [Tasks -> BOOLEAN] /\ signal \in [Tasks -> BOOLEAN]
    /\ wait_queue \subseteq Tasks /\ ahead \in [Tasks -> SUBSET Tasks]

\* Between prepare_to_wait_exclusive and finish_wait.
InLoop(t) == pc[t] \in {"release", "look", "sleep", "relock", "recheck"}

Awake == {t \in Tasks : InLoop(t) /\ state[t] # "INTERRUPTIBLE"}

Asleep(t) == pc[t] = "sleep" /\ state[t] = "INTERRUPTIBLE" /\ ~signal[t]

\* No wake-up is lost: while somebody could still be woken, every child in the accept
\* queue has a task of the loop that is awake and will look at the queue again, although
\* only one task is woken for a child and that task may have a signal, have run out of
\* time or find its child taken by another (inet_csk_wait_for_connect).
WakeupNotLost == Sleepers # {} => queued <= Cardinality(Awake)

\* The wait entry is a variable of inet_csk_wait_for_connect: it is in the wait queue
\* only while the function runs, and a task that may sleep has it there.
EntryLifetime ==
    \A t \in Tasks : /\ t \in wait_queue => InLoop(t)
                     /\ state[t] = "INTERRUPTIBLE" => t \in wait_queue

\* Nobody is left sleeping, or about to sleep, on a socket that stopped listening
\* (inet_shutdown).
NobodyWaitsOnClosed ==
    sk_state # "LISTEN" => \A t \in Tasks : state[t] # "INTERRUPTIBLE"

\* A segment never stays in the backlog of a socket nobody owns, where nobody would
\* process it (sk_add_backlog against release_sock).
BacklogDrained == owner = NoTask => backlog = 0

\* Neither a child, nor shutdown(), nor a segment is missed: each one that comes has a
\* task that is, or will be, awake to see it.
NothingMissed == WakeupNotLost /\ NobodyWaitsOnClosed /\ BacklogDrained

\* A task that sleeps in accept() while children are queued is woken, or the queue is
\* emptied by others.
ChildReachesSleeper ==
    \A t \in Tasks : Asleep(t) /\ queued > 0 ~> ~Asleep(t) \/ queued = 0

\* The lock is always given up again, however fast segments arrive: sk_backlog.len
\* bounds what release_sock has to process.
LockReleased == owner # NoTask ~> owner = NoTask

=============================================================================
