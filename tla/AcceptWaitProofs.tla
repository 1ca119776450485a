-------------------------- MODULE AcceptWaitProofs --------------------------
(***************************************************************************)
(* What AcceptWait guarantees for any number of tasks, any bound on the    *)
(* accept queue and any receive buffer.                                    *)
(***************************************************************************)
EXTENDS AcceptWait, FiniteSetTheorems, TLAPS

IInv == TypeOK /\ WakeupNotLost /\ EntryLifetime /\ NobodyWaitsOnClosed /\ BacklogDrained

-----------------------------------------------------------------------------
\* Counting the tasks that are awake.

\* Their number is a natural number.
LEMMA AwakeFinite == IsFiniteSet(Awake) /\ Cardinality(Awake) \in Nat
  <1>1. Awake \subseteq Tasks
    BY DEF Awake
  <1> QED BY <1>1, WaitConstants, FS_Subset, FS_CardinalityType

\* The same of the next state.
LEMMA AwakeFiniteNext == IsFiniteSet(Awake') /\ Cardinality(Awake') \in Nat
  <1>1. Awake' \subseteq Tasks
    BY DEF Awake
  <1> QED BY <1>1, WaitConstants, FS_Subset, FS_CardinalityType

\* An empty queue needs nobody.
LEMMA EmptyQueueServed ==
    ASSUME queued' = 0
    PROVE  WakeupNotLost'
  BY AwakeFiniteNext DEF WakeupNotLost

\* No child is added and nobody who was awake leaves or sleeps.
LEMMA NobodyLost ==
    ASSUME IInv, Sleepers' # {} => Sleepers # {}, queued' = queued, Awake \subseteq Awake'
    PROVE  WakeupNotLost'
  <1>1. Cardinality(Awake) <= Cardinality(Awake')
    BY AwakeFiniteNext, FS_Subset
  <1>2. queued \in Nat
    BY DEF IInv, TypeOK
  <1> QED BY <1>1, <1>2, AwakeFinite, AwakeFiniteNext DEF IInv, WakeupNotLost

\* A child goes with a task.
LEMMA ChildTaken ==
    ASSUME IInv, NEW t, Sleepers' # {} => Sleepers # {}, queued' = queued - 1,
           Awake \ {t} \subseteq Awake'
    PROVE  WakeupNotLost'
  <1>1. Cardinality(Awake \ {t}) <= Cardinality(Awake')
    BY AwakeFiniteNext, FS_Subset
  <1>2. Cardinality(Awake \ {t}) >= Cardinality(Awake) - 1 /\ Cardinality(Awake \ {t}) \in Int
    <2>1. CASE t \in Awake
      <3>1. Cardinality(Awake \ {t}) = Cardinality(Awake) - 1
        BY <2>1, AwakeFinite, FS_RemoveElement
      <3> QED BY <3>1, AwakeFinite
    <2>2. CASE t \notin Awake
      <3>1. Awake \ {t} = Awake
        BY <2>2
      <3> QED BY <3>1, AwakeFinite
    <2> QED BY <2>1, <2>2
  <1>3. queued \in Nat
    BY DEF IInv, TypeOK
  <1> QED BY <1>1, <1>2, <1>3, AwakeFinite, AwakeFiniteNext DEF IInv, WakeupNotLost

\* A child comes and a sleeper wakes up for it.
LEMMA ChildAnnounced ==
    ASSUME IInv, NEW t \in Tasks, Sleepers # {}, queued' = queued + 1,
           t \notin Awake, Awake' = Awake \cup {t}
    PROVE  WakeupNotLost'
  <1>1. Cardinality(Awake') = Cardinality(Awake) + 1
    BY ZenonT(40), AwakeFinite, FS_AddElement
  <1>2. queued \in Nat
    BY DEF IInv, TypeOK
  <1> QED BY <1>1, <1>2, AwakeFinite DEF IInv, WakeupNotLost

-----------------------------------------------------------------------------
\* Waking.

\* The woken tasks run and are off the queue; nothing else changes.
LEMMA WakeEffect ==
    ASSUME TypeOK, NEW S \in SUBSET Tasks, Wake(S)
    PROVE  /\ state' \in [Tasks -> {"RUNNING", "INTERRUPTIBLE", "UNINTERRUPTIBLE"}]
           /\ wait_queue' \subseteq Tasks /\ ahead' \in [Tasks -> SUBSET Tasks]
           /\ \A t \in S : state'[t] = "RUNNING"
           /\ \A t \in Tasks \ S : state'[t] = state[t]
           /\ wait_queue' = wait_queue \ S
           /\ Sleepers' \subseteq Sleepers
  <1>1. /\ \A t \in S : state'[t] = "RUNNING"
        /\ \A t \in Tasks \ S : state'[t] = state[t]
        /\ wait_queue' = wait_queue \ S
    BY DEF Wake
  <1>2. /\ state' \in [Tasks -> {"RUNNING", "INTERRUPTIBLE", "UNINTERRUPTIBLE"}]
        /\ wait_queue' \subseteq Tasks
    BY DEF Wake, TypeOK
  <1>3. ahead' \in [Tasks -> SUBSET Tasks]
    BY DEF Wake, TypeOK
  <1>4. Sleepers' \subseteq Sleepers
    BY <1>1 DEF Sleepers, TypeOK
  <1> QED BY <1>1, <1>2, <1>3, <1>4

\* The last segment of a handshake keeps the invariant, whoever processes it.
LEMMA HandshakeKeeps ==
    ASSUME IInv, Handshake, pc' = pc, sk_state' = sk_state
    PROVE  /\ WakeupNotLost' /\ EntryLifetime' /\ NobodyWaitsOnClosed'
           /\ queued' \in 0..MaxQueue
           /\ state' \in [Tasks -> {"RUNNING", "INTERRUPTIBLE", "UNINTERRUPTIBLE"}]
           /\ wait_queue' \subseteq Tasks /\ ahead' \in [Tasks -> SUBSET Tasks]
  <1>1. queued' = queued + 1 /\ queued' \in 0..MaxQueue /\ sk_state = "LISTEN"
    BY WaitConstants DEF Handshake, IInv, TypeOK
  <1>2. NobodyWaitsOnClosed'
    BY <1>1 DEF NobodyWaitsOnClosed
  <1>3. CASE Sleepers = {} /\ UNCHANGED <<state, queue>>
    <2>1. state' = state /\ wait_queue' = wait_queue /\ ahead' = ahead
      BY <1>3 DEF queue
    <2>2. Sleepers' = {}
      BY <1>3, <2>1 DEF Sleepers
    <2>3. WakeupNotLost' /\ EntryLifetime'
      BY <2>1, <2>2 DEF WakeupNotLost, IInv, EntryLifetime, InLoop
    <2> QED BY <1>1, <1>2, <2>1, <2>3 DEF IInv, TypeOK
  <1>4. CASE \E t \in Sleepers : ahead[t] \cap Sleepers = {} /\ Wake({t})
    <2>1. PICK t \in Sleepers : Wake({t})
      BY SMTT(40), <1>4
    <2>2. t \in Tasks /\ t \in wait_queue /\ state[t] = "INTERRUPTIBLE" /\ {t} \in SUBSET Tasks
      BY <2>1 DEF Sleepers, IInv, TypeOK
    <2>3. /\ state' \in [Tasks -> {"RUNNING", "INTERRUPTIBLE", "UNINTERRUPTIBLE"}]
          /\ wait_queue' \subseteq Tasks /\ ahead' \in [Tasks -> SUBSET Tasks]
          /\ state'[t] = "RUNNING"
          /\ \A u \in Tasks \ {t} : state'[u] = state[u]
          /\ wait_queue' = wait_queue \ {t}
      BY <2>1, <2>2, WakeEffect DEF IInv
    <2>4. InLoop(t) /\ \A u \in Tasks : InLoop(u)' <=> InLoop(u)
      BY <2>2 DEF IInv, EntryLifetime, InLoop
    <2>5. t \notin Awake /\ Awake' = Awake \cup {t}
      BY <2>2, <2>3, <2>4 DEF Awake
    <2>6. WakeupNotLost'
      BY <1>1, <2>1, <2>2, <2>5, ChildAnnounced
    <2>7. EntryLifetime'
      BY <2>2, <2>3, <2>4 DEF IInv, EntryLifetime
    <2> QED BY <1>1, <1>2, <2>3, <2>6, <2>7
  <1> QED BY ZenonT(40), <1>3, <1>4 DEF Handshake, sk_data_ready

-----------------------------------------------------------------------------
\* The steps.

\* A child for a socket nobody owns.
LEMMA RcvKeeps ==
    ASSUME IInv, tcp_v4_rcv
    PROVE  IInv'
  <1>1. /\ Handshake /\ pc' = pc /\ sk_state' = sk_state /\ owner' = owner
        /\ backlog' = backlog /\ backlog_len' = backlog_len
        /\ timeo' = timeo /\ signal' = signal
    BY DEF tcp_v4_rcv
  <1>2. TypeOK'
    BY <1>1, HandshakeKeeps DEF IInv, TypeOK
  <1>3. BacklogDrained'
    BY <1>1 DEF IInv, BacklogDrained
  <1> QED BY <1>1, <1>2, <1>3, HandshakeKeeps DEF IInv

\* A segment from the backlog: the socket stays owned.
LEMMA BacklogRcvKeeps ==
    ASSUME IInv, sk_backlog_rcv
    PROVE  IInv'
  <1>1. /\ Releasing /\ backlog > 0 /\ backlog' = backlog - 1
        /\ pc' = pc /\ sk_state' = sk_state /\ owner' = owner
        /\ backlog_len' = backlog_len /\ timeo' = timeo /\ signal' = signal
    BY DEF sk_backlog_rcv
  <1>2. owner # NoTask
    BY <1>1, WaitConstants DEF Releasing
  <1>3. BacklogDrained' /\ backlog' \in Nat
    BY <1>1, <1>2 DEF BacklogDrained, IInv, TypeOK
  <1>4. CASE Handshake
    <2>1. TypeOK'
      BY <1>1, <1>3, <1>4, HandshakeKeeps DEF IInv, TypeOK
    <2> QED BY <1>1, <1>3, <1>4, <2>1, HandshakeKeeps DEF IInv
  <1>5. CASE UNCHANGED <<queued, state, queue>>
    <2>1. queued' = queued /\ state' = state /\ wait_queue' = wait_queue /\ ahead' = ahead
      BY <1>5 DEF queue
    <2>2. TypeOK'
      BY <1>1, <1>3, <2>1 DEF IInv, TypeOK
    <2>3. WakeupNotLost' /\ EntryLifetime' /\ NobodyWaitsOnClosed'
      BY <1>1, <2>1 DEF IInv, WakeupNotLost, EntryLifetime, NobodyWaitsOnClosed, Sleepers,
                        Awake, InLoop
    <2> QED BY <1>3, <2>2, <2>3 DEF IInv
  <1> QED BY <1>4, <1>5 DEF sk_backlog_rcv

\* Steps that touch neither the tasks nor the accept queue.
LEMMA SocketKeeps ==
    ASSUME IInv, sk_add_backlog \/ inet_listen \/ UserRelease
    PROVE  IInv'
  <1>1. /\ queued' = queued /\ pc' = pc /\ state' = state /\ timeo' = timeo
        /\ signal' = signal /\ wait_queue' = wait_queue /\ ahead' = ahead
    BY DEF sk_add_backlog, inet_listen, UserRelease, queue
  <1>2. sk_state' \in {sk_state, "LISTEN"}
    BY DEF sk_add_backlog, inet_listen, UserRelease
  <1>3. /\ owner' \in Tasks \cup {User, NoTask}
        /\ backlog' \in Nat /\ backlog_len' \in 0..RcvBuf + 1
        /\ BacklogDrained'
    BY WaitConstants DEF sk_add_backlog, inet_listen, UserRelease, Unlock, IInv, TypeOK,
                         BacklogDrained
  <1>4. TypeOK'
    BY <1>1, <1>2, <1>3 DEF IInv, TypeOK
  <1>5. WakeupNotLost' /\ EntryLifetime' /\ NobodyWaitsOnClosed'
    BY <1>1, <1>2 DEF IInv, WakeupNotLost, EntryLifetime, NobodyWaitsOnClosed, Sleepers,
                      Awake, InLoop
  <1> QED BY <1>3, <1>4, <1>5 DEF IInv

\* shutdown(): every sleeper runs; the queue is emptied or left alone.
LEMMA ShutdownKeeps ==
    ASSUME IInv, inet_shutdown \/ inet_shutdown_wake
    PROVE  IInv'
  <1>1. /\ owner = NoTask /\ owner' = User /\ Wake(Sleepers)
        /\ pc' = pc /\ timeo' = timeo /\ signal' = signal
        /\ backlog' = backlog /\ backlog_len' = backlog_len
        /\ sk_state' \in {sk_state, "CLOSE"} /\ queued' \in {0, queued}
    BY DEF inet_shutdown, inet_shutdown_wake, sk_state_change
  <1>2. Sleepers \in SUBSET Tasks
    BY DEF Sleepers, IInv, TypeOK
  <1>3. /\ state' \in [Tasks -> {"RUNNING", "INTERRUPTIBLE", "UNINTERRUPTIBLE"}]
        /\ wait_queue' \subseteq Tasks /\ ahead' \in [Tasks -> SUBSET Tasks]
        /\ \A t \in Sleepers : state'[t] = "RUNNING"
        /\ \A t \in Tasks \ Sleepers : state'[t] = state[t]
        /\ wait_queue' = wait_queue \ Sleepers
        /\ Sleepers' \subseteq Sleepers
    BY <1>1, <1>2, WakeEffect DEF IInv
  <1>4. \A t \in Tasks : state'[t] # "INTERRUPTIBLE"
    BY <1>3 DEF Sleepers, IInv, EntryLifetime
  <1>5. TypeOK'
    BY <1>1, <1>3, WaitConstants DEF IInv, TypeOK
  <1>6. Sleepers' = {}
    BY <1>3, <1>4 DEF Sleepers
  <1>7. WakeupNotLost' /\ NobodyWaitsOnClosed'
    BY <1>4, <1>6 DEF WakeupNotLost, NobodyWaitsOnClosed
  <1>8. EntryLifetime'
    BY <1>1, <1>3, <1>4 DEF IInv, EntryLifetime, InLoop
  <1>9. BacklogDrained'
    BY <1>1, WaitConstants DEF BacklogDrained
  <1> QED BY <1>5, <1>7, <1>8, <1>9 DEF IInv

\* A step of one task that leaves both queues alone and puts nobody to sleep.
Quiet ==
    /\ sk_state' = sk_state /\ queued' = queued
    /\ wait_queue' = wait_queue /\ ahead' = ahead
    /\ \A u \in Tasks : InLoop(u)' <=> InLoop(u)
    /\ \A u \in Tasks : state'[u] = "INTERRUPTIBLE" => state[u] = "INTERRUPTIBLE"

\* Such a step can only add to the tasks that are awake.
LEMMA QuietKeeps ==
    ASSUME IInv, Quiet
    PROVE  WakeupNotLost' /\ EntryLifetime' /\ NobodyWaitsOnClosed'
  <1>1. /\ sk_state' = sk_state /\ queued' = queued /\ wait_queue' = wait_queue
        /\ \A u \in Tasks : InLoop(u)' <=> InLoop(u)
        /\ \A u \in Tasks : state'[u] = "INTERRUPTIBLE" => state[u] = "INTERRUPTIBLE"
        /\ wait_queue \subseteq Tasks
    BY DEF Quiet, IInv, TypeOK
  <1>2. Awake \subseteq Awake'
    BY <1>1 DEF Awake
  <1>3. Sleepers' # {} => Sleepers # {}
    BY <1>1 DEF Sleepers
  <1>4. WakeupNotLost'
    BY <1>1, <1>2, <1>3, NobodyLost
  <1>5. EntryLifetime'
    BY <1>1 DEF IInv, EntryLifetime
  <1>6. NobodyWaitsOnClosed'
    BY <1>1 DEF IInv, NobodyWaitsOnClosed
  <1> QED BY <1>4, <1>5, <1>6

\* Entering accept(), taking and giving up the lock, reading the queue, returning from
\* schedule_timeout, running out of time and getting a signal are such steps.
LEMMA QuietSteps ==
    ASSUME IInv, NEW t \in Tasks,
           \/ Call(t) \/ lock_sock_wait(t) \/ lock_sock(t) \/ release_sock(t)
           \/ Look(t) \/ schedule_timeout(t) \/ Timeout(t) \/ Signal(t)
    PROVE  IInv'
  <1>0. TypeOK /\ BacklogDrained /\ owner \in Tasks \cup {User, NoTask}
    BY DEF IInv, TypeOK
  <1>1. CASE Call(t)
    <2>1. Quiet BY <1>0, <1>1 DEF Call, Goto, Quiet, InLoop, TypeOK, sock, queue
    <2>2. TypeOK' BY <1>0, <1>1 DEF Call, Goto, TypeOK, sock, queue
    <2>3. BacklogDrained' BY <1>0, <1>1 DEF Call, BacklogDrained, sock
    <2> QED BY <2>1, <2>2, <2>3, QuietKeeps DEF IInv
  <1>2. CASE lock_sock_wait(t)
    <2>1. Quiet BY <1>0, <1>2 DEF lock_sock_wait, Quiet, InLoop, TypeOK, sock, queue
    <2>2. TypeOK' BY <1>0, <1>2 DEF lock_sock_wait, TypeOK, sock, queue
    <2>3. BacklogDrained' BY <1>0, <1>2 DEF lock_sock_wait, BacklogDrained, sock
    <2> QED BY <2>1, <2>2, <2>3, QuietKeeps DEF IInv
  <1>3. CASE lock_sock(t)
    <2>1. Quiet BY <1>0, <1>3 DEF lock_sock, Quiet, InLoop, TypeOK, queue
    <2>2. TypeOK' BY <1>0, <1>3 DEF lock_sock, TypeOK, queue
    <2>3. BacklogDrained' BY <1>0, <1>3, WaitConstants DEF lock_sock, BacklogDrained
    <2> QED BY <2>1, <2>2, <2>3, QuietKeeps DEF IInv
  <1>4. CASE release_sock(t)
    <2>0. pc[t] \in {"release", "leave"}
      BY <1>4, WaitConstants DEF release_sock, Unlock, Releasing
    <2>1. Quiet BY <1>0, <1>4, <2>0 DEF release_sock, Goto, Quiet, InLoop, TypeOK, queue
    <2>2. TypeOK' BY <1>0, <1>4, WaitConstants DEF release_sock, Unlock, Goto, TypeOK, queue
    <2>3. BacklogDrained' BY <1>0, <1>4 DEF release_sock, Unlock, BacklogDrained
    <2> QED BY <2>1, <2>2, <2>3, QuietKeeps DEF IInv
  <1>5. CASE Look(t)
    <2>1. Quiet BY <1>0, <1>5 DEF Look, Goto, Quiet, InLoop, TypeOK, sock, queue
    <2>2. TypeOK' BY <1>0, <1>5 DEF Look, Goto, TypeOK, sock, queue
    <2>3. BacklogDrained' BY <1>0, <1>5 DEF Look, BacklogDrained, sock
    <2> QED BY <2>1, <2>2, <2>3, QuietKeeps DEF IInv
  <1>6. CASE schedule_timeout(t)
    <2>1. Quiet BY <1>0, <1>6 DEF schedule_timeout, Goto, Quiet, InLoop, TypeOK, sock, queue
    <2>2. TypeOK' BY <1>0, <1>6 DEF schedule_timeout, Goto, TypeOK, sock, queue
    <2>3. BacklogDrained' BY <1>0, <1>6 DEF schedule_timeout, BacklogDrained, sock
    <2> QED BY <2>1, <2>2, <2>3, QuietKeeps DEF IInv
  <1>7. CASE Timeout(t)
    <2>1. Quiet BY <1>0, <1>7 DEF Timeout, Quiet, InLoop, TypeOK, sock, queue
    <2>2. TypeOK' BY <1>0, <1>7 DEF Timeout, TypeOK, sock, queue
    <2>3. BacklogDrained' BY <1>0, <1>7 DEF Timeout, BacklogDrained, sock
    <2> QED BY <2>1, <2>2, <2>3, QuietKeeps DEF IInv
  <1>8. CASE Signal(t)
    <2>1. Quiet BY <1>0, <1>8 DEF Signal, Quiet, InLoop, TypeOK, sock, queue
    <2>2. TypeOK' BY <1>0, <1>8 DEF Signal, TypeOK, sock, queue
    <2>3. BacklogDrained' BY <1>0, <1>8 DEF Signal, BacklogDrained, sock
    <2> QED BY <2>1, <2>2, <2>3, QuietKeeps DEF IInv
  <1> QED BY <1>1, <1>2, <1>3, <1>4, <1>5, <1>6, <1>7, <1>8

\* Going to wait: only with an empty queue, on a listening socket.
LEMMA PrepareKeeps ==
    ASSUME IInv, NEW t \in Tasks, sk_state = "LISTEN", sk_state' = sk_state,
           queued = 0, queued' = queued, prepare_to_wait_exclusive(t), Goto(t, "release")
    PROVE  /\ WakeupNotLost' /\ EntryLifetime' /\ NobodyWaitsOnClosed'
           /\ state' \in [Tasks -> {"RUNNING", "INTERRUPTIBLE", "UNINTERRUPTIBLE"}]
           /\ wait_queue' \subseteq Tasks /\ ahead' \in [Tasks -> SUBSET Tasks]
  <1>1. /\ state' \in [Tasks -> {"RUNNING", "INTERRUPTIBLE", "UNINTERRUPTIBLE"}]
        /\ wait_queue' = wait_queue \cup {t} /\ wait_queue' \subseteq Tasks
        /\ \A u \in Tasks \ {t} : state'[u] = state[u] /\ pc'[u] = pc[u]
        /\ pc'[t] = "release"
    BY DEF prepare_to_wait_exclusive, Goto, IInv, TypeOK
  <1>2. ahead' \in [Tasks -> SUBSET Tasks]
    BY DEF prepare_to_wait_exclusive, IInv, TypeOK
  <1>3. EntryLifetime'
    BY <1>1 DEF IInv, EntryLifetime, InLoop
  <1>4. NobodyWaitsOnClosed'
    BY DEF NobodyWaitsOnClosed
  <1> QED BY <1>1, <1>2, <1>3, <1>4, EmptyQueueServed

\* The first pass through inet_csk_accept.
LEMMA AcceptKeeps ==
    ASSUME IInv, NEW t \in Tasks, inet_csk_accept(t)
    PROVE  IInv'
  <1>1. /\ pc[t] = "accept" /\ sk_state' = sk_state /\ owner' = owner
        /\ backlog' = backlog /\ backlog_len' = backlog_len
        /\ timeo' = timeo /\ signal' = signal
    BY DEF inet_csk_accept
  <1>2. BacklogDrained'
    BY <1>1 DEF IInv, BacklogDrained
  <1>3. ASSUME Goto(t, "leave"), UNCHANGED <<state, queue>>, queued' \in 0..MaxQueue,
               queued' = queued \/ queued' = queued - 1
        PROVE  IInv'
    <2>1. /\ state' = state /\ wait_queue' = wait_queue /\ ahead' = ahead
          /\ pc' = [pc EXCEPT ![t] = "leave"]
      BY <1>3 DEF queue, Goto
    <2>2. TypeOK'
      BY <1>1, <1>3, <2>1 DEF IInv, TypeOK
    <2>3. \A u \in Tasks : InLoop(u)' <=> InLoop(u)
      BY <1>1, <2>1 DEF InLoop, IInv, TypeOK
    <2>4. Sleepers' = Sleepers /\ Awake' = Awake
      BY <2>1, <2>3 DEF Sleepers, Awake
    <2>5. WakeupNotLost'
      BY <1>3, <2>4, NobodyLost, ChildTaken
    <2>6. EntryLifetime' /\ NobodyWaitsOnClosed'
      BY <1>1, <2>1, <2>3 DEF IInv, EntryLifetime, NobodyWaitsOnClosed
    <2> QED BY <1>2, <2>2, <2>5, <2>6 DEF IInv
  <1>4. CASE Goto(t, "leave") /\ UNCHANGED <<queued, state, queue>>
    BY <1>3, <1>4 DEF IInv, TypeOK
  <1>5. CASE TakeChild(t) /\ UNCHANGED <<state, queue>>
    <2>1. queued' = queued - 1 /\ queued' \in 0..MaxQueue /\ Goto(t, "leave")
      BY <1>5, WaitConstants DEF TakeChild, IInv, TypeOK
    <2> QED BY <1>3, <1>5, <2>1
  <1>6. CASE /\ sk_state = "LISTEN" /\ queued = 0 /\ queued' = queued
             /\ prepare_to_wait_exclusive(t) /\ Goto(t, "release")
    <2>1. TypeOK'
      BY ZenonT(40), <1>1, <1>6, PrepareKeeps DEF IInv, TypeOK, Goto
    <2> QED BY <1>1, <1>2, <1>6, <2>1, PrepareKeeps DEF IInv
  <1> QED BY <1>4, <1>5, <1>6 DEF inet_csk_accept

\* Leaving the loop, with a child or without one when there is none.
LEMMA FinishKeeps ==
    ASSUME IInv, NEW t \in Tasks, sk_state' = sk_state, finish_wait(t), Goto(t, "leave"),
           queued' = queued - 1 \/ queued' = 0
    PROVE  /\ WakeupNotLost' /\ EntryLifetime' /\ NobodyWaitsOnClosed'
           /\ state' \in [Tasks -> {"RUNNING", "INTERRUPTIBLE", "UNINTERRUPTIBLE"}]
           /\ wait_queue' \subseteq Tasks /\ ahead' \in [Tasks -> SUBSET Tasks]
  <1>1. {t} \in SUBSET Tasks /\ Wake({t})
    BY DEF finish_wait
  <1>2. /\ state' \in [Tasks -> {"RUNNING", "INTERRUPTIBLE", "UNINTERRUPTIBLE"}]
        /\ wait_queue' \subseteq Tasks /\ ahead' \in [Tasks -> SUBSET Tasks]
        /\ state'[t] = "RUNNING"
        /\ \A u \in Tasks \ {t} : state'[u] = state[u]
        /\ wait_queue' = wait_queue \ {t}
        /\ Sleepers' \subseteq Sleepers
    BY <1>1, WakeEffect DEF IInv
  <1>3. \A u \in Tasks \ {t} : InLoop(u)' <=> InLoop(u)
    BY DEF Goto, InLoop, IInv, TypeOK
  <1>4. Awake \ {t} \subseteq Awake'
    BY <1>2, <1>3 DEF Awake
  <1>5. WakeupNotLost'
    BY <1>2, <1>4, ChildTaken, EmptyQueueServed
  <1>6. EntryLifetime'
    BY <1>2, <1>3 DEF IInv, EntryLifetime
  <1>7. NobodyWaitsOnClosed'
    BY <1>2 DEF IInv, NobodyWaitsOnClosed
  <1> QED BY <1>2, <1>5, <1>6, <1>7

\* The end of the loop of inet_csk_wait_for_connect.
LEMMA WaitKeeps ==
    ASSUME IInv, NEW t \in Tasks, inet_csk_wait_for_connect(t)
    PROVE  IInv'
  <1>1. /\ sk_state' = sk_state /\ owner' = owner
        /\ backlog' = backlog /\ backlog_len' = backlog_len
        /\ timeo' = timeo /\ signal' = signal
    BY DEF inet_csk_wait_for_connect
  <1>2. BacklogDrained'
    BY <1>1 DEF IInv, BacklogDrained
  <1>3. CASE /\ finish_wait(t) /\ Goto(t, "leave") /\ queued' \in 0..MaxQueue
             /\ queued' = queued - 1 \/ queued' = 0
    <2>1. TypeOK'
      BY ZenonT(40), <1>1, <1>3, FinishKeeps DEF IInv, TypeOK, Goto
    <2> QED BY <1>1, <1>2, <1>3, <2>1, FinishKeeps DEF IInv
  <1>4. CASE TakeChild(t) /\ finish_wait(t)
    BY <1>3, <1>4, WaitConstants DEF TakeChild, IInv, TypeOK
  <1>5. CASE queued = 0 /\ Goto(t, "leave") /\ finish_wait(t) /\ queued' = queued
    BY <1>3, <1>5, WaitConstants DEF IInv, TypeOK
  <1>6. CASE /\ sk_state = "LISTEN" /\ queued = 0 /\ queued' = queued
             /\ prepare_to_wait_exclusive(t) /\ Goto(t, "release")
    <2>1. TypeOK'
      BY ZenonT(40), <1>1, <1>6, PrepareKeeps DEF IInv, TypeOK, Goto
    <2> QED BY <1>1, <1>2, <1>6, <2>1, PrepareKeeps DEF IInv
  <1> QED BY <1>4, <1>5, <1>6 DEF inet_csk_wait_for_connect

-----------------------------------------------------------------------------
\* The invariant is inductive: one case per action.
LEMMA StepKeeps ==
    ASSUME IInv, [Next]_vars
    PROVE  IInv'
  <1>1. CASE tcp_v4_rcv
    BY <1>1, RcvKeeps
  <1>2. CASE sk_backlog_rcv
    BY <1>2, BacklogRcvKeeps
  <1>3. CASE sk_add_backlog \/ inet_listen \/ UserRelease
    BY <1>3, SocketKeeps
  <1>4. CASE inet_shutdown \/ inet_shutdown_wake
    BY <1>4, ShutdownKeeps
  <1>5. CASE \E t \in Tasks : Call(t) \/ Step(t) \/ Timeout(t) \/ Signal(t)
    <2>1. PICK t \in Tasks : Call(t) \/ Step(t) \/ Timeout(t) \/ Signal(t)
      BY <1>5
    <2>2. CASE inet_csk_accept(t)
      BY <2>2, AcceptKeeps
    <2>3. CASE inet_csk_wait_for_connect(t)
      BY <2>3, WaitKeeps
    <2> QED BY <2>1, <2>2, <2>3, QuietSteps DEF Step
  <1>6. CASE UNCHANGED vars
    <2>1. /\ sk_state' = sk_state /\ queued' = queued /\ owner' = owner
          /\ backlog' = backlog /\ backlog_len' = backlog_len /\ pc' = pc
          /\ state' = state /\ timeo' = timeo /\ signal' = signal
          /\ wait_queue' = wait_queue /\ ahead' = ahead
      BY <1>6 DEF vars, sock, queue
    <2>2. TypeOK' /\ BacklogDrained'
      BY <2>1 DEF IInv, TypeOK, BacklogDrained
    <2>3. WakeupNotLost' /\ EntryLifetime' /\ NobodyWaitsOnClosed'
      BY <2>1 DEF IInv, WakeupNotLost, EntryLifetime, NobodyWaitsOnClosed, Sleepers, Awake,
                  InLoop
    <2> QED BY <2>2, <2>3 DEF IInv
  <1> QED BY <1>1, <1>2, <1>3, <1>4, <1>5, <1>6 DEF Next

\* It holds at first, when nobody is in accept().
LEMMA InitHolds == Init => IInv
  <1> SUFFICES ASSUME Init PROVE IInv
    OBVIOUS
  <1>1. TypeOK /\ BacklogDrained
    BY WaitConstants DEF Init, TypeOK, BacklogDrained
  <1>2. Sleepers = {} /\ EntryLifetime /\ NobodyWaitsOnClosed
    BY DEF Init, Sleepers, EntryLifetime, NobodyWaitsOnClosed
  <1> QED BY <1>1, <1>2 DEF IInv, WakeupNotLost

\* The inductive invariant holds in every reachable state.
THEOREM Inductive == Spec => []IInv
  BY InitHolds, StepKeeps, PTL DEF Spec

\* For any number of tasks in accept(), no wake-up is lost (inet_csk_wait_for_connect).
THEOREM NoWakeupLost == Spec => []WakeupNotLost
  <1>1. IInv => WakeupNotLost
    BY DEF IInv
  <1> QED BY <1>1, Inductive, PTL

\* Wait entries live no longer than the function they belong to, and cover every sleep.
THEOREM EntriesScoped == Spec => []EntryLifetime
  <1>1. IInv => EntryLifetime
    BY DEF IInv
  <1> QED BY <1>1, Inductive, PTL

\* shutdown() leaves nobody asleep in accept().
THEOREM ShutdownReleases == Spec => []NobodyWaitsOnClosed
  <1>1. IInv => NobodyWaitsOnClosed
    BY DEF IInv
  <1> QED BY <1>1, Inductive, PTL

\* An unowned socket has an empty backlog.
THEOREM NothingStranded == Spec => []BacklogDrained
  <1>1. IInv => BacklogDrained
    BY DEF IInv
  <1> QED BY <1>1, Inductive, PTL

\* However many tasks accept, softirqs deliver and calls shut down: no established child
\* and no shutdown is missed by a sleeper of inet_csk_wait_for_connect, and release_sock
\* leaves no segment in the backlog.
THEOREM NothingEverMissed == Spec => []NothingMissed
  <1>1. IInv => NothingMissed
    BY DEF IInv, NothingMissed
  <1> QED BY <1>1, Inductive, PTL
=============================================================================
