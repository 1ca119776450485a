--------------------------- MODULE ListenerProofs ---------------------------
(***************************************************************************)
(* Proofs about Listener, for every set of peers, backlog, table size,     *)
(* retry limit and sysctl setting the assumptions of Listener allow.       *)
(***************************************************************************)
EXTENDS Listener, FiniteSetTheorems, SequenceTheorems, TLAPS

\* The inductive invariant.  The counters need the types, the timer needs the
\* counters (it is armed on a test of qlen), and the connections of a peer need
\* the accept queue to name live sockets only.
IInv ==
    /\ TypeOK
    /\ QueueCounts
    /\ OneConnectionPerPeer
    /\ QueueHoldsChilds
    /\ TimerArmed
    /\ TableUsable

-----------------------------------------------------------------------------
\* Counting.

\* The members of a finite set that pass a test, after removing some of them.
LEMMA CardRemove ==
    ASSUME NEW S, IsFiniteSet(S), NEW T, T \subseteq S
    PROVE  /\ IsFiniteSet(S \ T) /\ IsFiniteSet(T)
           /\ Cardinality(S \ T) = Cardinality(S) - Cardinality(T)
  <1>1. S \cap T = T
    OBVIOUS
  <1> QED BY ZenonT(40), <1>1, FS_Difference, FS_Subset

\* qlen and qlen_young, given that the counters are right, are naturals, and
\* qlen is 0 exactly when the table is empty.
LEMMA CountsType ==
    ASSUME TypeOK, QueueCounts
    PROVE  /\ IsFiniteSet(syn_table)
           /\ IsFiniteSet({p \in syn_table : retrans[p] = 0})
           /\ qlen \in Nat /\ qlen_young \in Nat
           /\ qlen = 0 <=> syn_table = {}
  <1>1. IsFiniteSet(syn_table)
    BY FS_Subset, ConstantsAssumption DEF TypeOK
  <1>2. IsFiniteSet({p \in syn_table : retrans[p] = 0})
    BY <1>1, FS_Subset
  <1> QED BY <1>1, <1>2, FS_CardinalityType, FS_EmptySet DEF QueueCounts

\* inet_csk_reqsk_queue_drop keeps the counters and the types, and leaves
\* the timer alone while requests remain.
LEMMA DropCounts ==
    ASSUME TypeOK, QueueCounts, NEW p \in syn_table,
           Unlink({p}), inet_csk_reqsk_queue_removed(p)
    PROVE  /\ syn_table' \subseteq Peers
           /\ retrans' \in [Peers -> 0..MaxRetrans]
           /\ acked' \in [Peers -> BOOLEAN]
           /\ expires' \in [Peers -> Nat]
           /\ qlen' \in Int /\ qlen_young' \in Int
           /\ keepalive' \in Nat \cup {Off}
           /\ QueueCounts'
           /\ syn_table' # {} => keepalive' = keepalive
  <1> DEFINE Y == {q \in syn_table : retrans[q] = 0}
  <1>1. /\ IsFiniteSet(syn_table) /\ IsFiniteSet(Y)
        /\ qlen = Cardinality(syn_table) /\ qlen_young = Cardinality(Y)
        /\ qlen \in Nat /\ qlen_young \in Nat
    BY CountsType DEF QueueCounts
  <1>2. /\ syn_table' = syn_table \ {p}
        /\ syn_table' \subseteq Peers
        /\ retrans' \in [Peers -> 0..MaxRetrans]
        /\ acked' \in [Peers -> BOOLEAN]
        /\ expires' \in [Peers -> Nat]
    BY ConstantsAssumption DEF TypeOK, Unlink
  <1>3. Cardinality(syn_table \ {p}) = qlen - 1 /\ IsFiniteSet(syn_table \ {p})
    BY <1>1, FS_RemoveElement
  <1>4. {q \in syn_table' : retrans'[q] = 0} = Y \ {p}
    BY DEF Unlink, TypeOK
  <1>5. Cardinality(Y \ {p}) = IF p \in Y THEN Cardinality(Y) - 1 ELSE Cardinality(Y)
    BY ZenonT(40), <1>1, FS_RemoveElement
  <1>6. p \in Y <=> retrans[p] = 0
    OBVIOUS
  <1>7. qlen' = Cardinality(syn_table') /\ qlen_young' = Cardinality(Y \ {p})
    BY <1>1, <1>2, <1>3, <1>5, <1>6 DEF inet_csk_reqsk_queue_removed
  <1>8. QueueCounts'
    BY <1>4, <1>7 DEF QueueCounts
  <1>9. syn_table' # {} => qlen - 1 # 0
    BY <1>2, <1>3, FS_EmptySet
  <1>10. qlen' \in Int /\ qlen_young' \in Int
    BY <1>1 DEF inet_csk_reqsk_queue_removed
  <1>11. keepalive' \in Nat \cup {Off} /\ (syn_table' # {} => keepalive' = keepalive)
    BY <1>9 DEF inet_csk_reqsk_queue_removed, TypeOK
  <1> QED BY <1>2, <1>8, <1>10, <1>11

\* inet_csk_reqsk_queue_hash_add of a peer without a request does so too, and
\* the timer is armed afterwards if it was armed whenever requests were pending.
LEMMA AddCounts ==
    ASSUME TypeOK, QueueCounts, NEW p \in Peers \ syn_table,
           inet_csk_reqsk_queue_hash_add(p)
    PROVE  /\ syn_table' \subseteq Peers
           /\ retrans' \in [Peers -> 0..MaxRetrans]
           /\ acked' \in [Peers -> BOOLEAN]
           /\ expires' \in [Peers -> Nat]
           /\ qlen' \in Int /\ qlen_young' \in Int
           /\ keepalive' \in Nat \cup {Off}
           /\ QueueCounts'
           /\ syn_table = {} => keepalive' # Off
           /\ syn_table # {} => keepalive' = keepalive
  <1> DEFINE Y == {q \in syn_table : retrans[q] = 0}
  <1>1. /\ IsFiniteSet(syn_table) /\ IsFiniteSet(Y)
        /\ qlen = Cardinality(syn_table) /\ qlen_young = Cardinality(Y)
        /\ qlen \in Nat /\ qlen_young \in Nat
        /\ qlen = 0 <=> syn_table = {}
    BY CountsType DEF QueueCounts
  <1>2. /\ syn_table' = syn_table \cup {p}
        /\ syn_table' \subseteq Peers
        /\ retrans' \in [Peers -> 0..MaxRetrans]
        /\ acked' \in [Peers -> BOOLEAN]
        /\ expires' \in [Peers -> Nat]
    BY ConstantsAssumption DEF TypeOK, inet_csk_reqsk_queue_hash_add
  <1>3. {q \in syn_table' : retrans'[q] = 0} = Y \cup {p}
    BY DEF inet_csk_reqsk_queue_hash_add, TypeOK
  <1>4. /\ Cardinality(syn_table \cup {p}) = qlen + 1
        /\ Cardinality(Y \cup {p}) = qlen_young + 1
    BY ZenonT(40), <1>1, FS_AddElement
  <1>5. QueueCounts'
    BY <1>2, <1>3, <1>4 DEF QueueCounts, inet_csk_reqsk_queue_hash_add
  <1>6. qlen' \in Int /\ qlen_young' \in Int /\ keepalive' \in Nat \cup {Off}
    BY SMTT(40), <1>1, ConstantsAssumption DEF inet_csk_reqsk_queue_hash_add, TypeOK
  <1>7. syn_table = {} => keepalive' # Off
    BY <1>1, ConstantsAssumption DEF inet_csk_reqsk_queue_hash_add, Off
  <1>8. syn_table # {} => keepalive' = keepalive
    BY <1>1 DEF inet_csk_reqsk_queue_hash_add
  <1> QED BY <1>2, <1>5, <1>6, <1>7, <1>8

-----------------------------------------------------------------------------
\* The SYN-ACK timer.

\* Prune only ever lowers the retry threshold.
LEMMA ThreshBound ==
    ASSUME TypeOK
    PROVE  Thresh \in Int /\ Thresh <= SynackRetries
  <1> DEFINE L == {n \in 1..SynackRetries - 2 : qlen >= qlen_young * 2^n}
  <1>1. SynackRetries \in Nat /\ 1 \in Int /\ SynackRetries - 2 \in Int
    BY ConstantsAssumption
  <1>2. IsFiniteSet(1..SynackRetries - 2)
    BY <1>1, FS_Interval
  <1>3. IsFiniteSet(L)
    BY ZenonT(40), <1>2, FS_Subset
  <1>4. Cardinality(L) \in Nat
    BY <1>3, FS_CardinalityType
  <1> QED BY <1>1, <1>4 DEF Thresh

\* A request prune keeps has not used up its retries, so the u8 does not wrap.
LEMMA KeptRetrans ==
    ASSUME TypeOK, NEW failed, NEW p \in Kept(failed)
    PROVE  p \in syn_table /\ retrans[p] + 1 \in 0..MaxRetrans /\ retrans[p] \in Nat
  <1>1. p \in syn_table /\ p \in Peers /\ ~Expire(p) /\ retrans[p] \in 0..MaxRetrans
    BY DEF Kept, Due, TypeOK
  <1>2. Thresh \in Int /\ Thresh <= SynackRetries /\ SynackRetries \in 0..MaxRetrans
    BY ThreshBound, ConstantsAssumption
  <1>3. rskq_defer_accept \in 0..MaxRetrans
    BY ConstantsAssumption DEF TypeOK
  <1>4. retrans[p] < Thresh \/ retrans[p] < MaxRetries
    BY <1>1, <1>2, <1>3 DEF Expire, MaxRetries
  <1>5. MaxRetries \in 0..MaxRetrans
    BY <1>2, <1>3 DEF MaxRetries
  <1> QED BY <1>1, <1>2, <1>4, <1>5, ConstantsAssumption

\* The backoff of the timer is a time.
LEMMA BackoffType ==
    ASSUME NEW n \in 0..MaxRetrans
    PROVE  Backoff(n) \in Nat
  <1>1. 2^n \in Nat
    BY ShiftAssumption
  <1>2. Timeout \in Nat /\ MaxRto \in Nat
    BY ConstantsAssumption
  <1>3. Timeout * 2^n \in Nat
    BY <1>1, <1>2
  <1> QED BY <1>2, <1>3 DEF Backoff

\* The number of buckets a run of the timer visits is a number.
LEMMA BudgetType ==
    ASSUME TypeOK
    PROVE  Budget \in Nat
  <1>1. Timeout \in Nat /\ Interval \in Nat \ {0} /\ Timeout >= Interval
    BY ConstantsAssumption
  <1>2. Timeout \div Interval \in Nat \ {0}
    BY <1>1
  <1>3. nr_table_entries \in Nat
    BY DEF TypeOK
  <1>4. nr_table_entries \div (Timeout \div Interval) \in Nat
    BY <1>2, <1>3
  <1> QED BY <1>4 DEF Budget

\* A run of prune keeps the types and the counters, and re-arms the timer
\* whenever a request is left.
LEMMA PruneCounts ==
    ASSUME TypeOK, QueueCounts, NEW failed, inet_csk_reqsk_queue_prune(failed)
    PROVE  /\ syn_table' \subseteq syn_table
           /\ retrans' \in [Peers -> 0..MaxRetrans]
           /\ acked' \in [Peers -> BOOLEAN]
           /\ expires' \in [Peers -> Nat]
           /\ clock_hand' \in 0..nr_table_entries - 1
           /\ qlen' \in Int /\ qlen_young' \in Int
           /\ keepalive' \in Nat \cup {Off}
           /\ QueueCounts'
           /\ syn_table' # {} => keepalive' # Off
  <1> DEFINE kept == Kept(failed)
             dropped == Due \ kept
             Y == {q \in syn_table : retrans[q] = 0}
             D == {q \in Due : retrans[q] = 0}
  <1>1. /\ IsFiniteSet(syn_table) /\ IsFiniteSet(Y)
        /\ qlen = Cardinality(syn_table) /\ qlen_young = Cardinality(Y)
    BY CountsType DEF QueueCounts
  <1>2. Due \subseteq syn_table /\ kept \subseteq Due /\ dropped \subseteq syn_table /\ D \subseteq Y
    BY DEF Due, Kept
  <1>3. /\ syn_table' = syn_table \ dropped
        /\ retrans' = [p \in Peers |-> IF p \in kept THEN retrans[p] + 1
                                       ELSE IF p \in dropped THEN 0 ELSE retrans[p]]
        /\ qlen_young' = qlen_young - Cardinality(D)
        /\ qlen' = qlen - Cardinality(dropped)
        /\ keepalive' = IF qlen' # 0 THEN Interval ELSE keepalive
    BY DEF inet_csk_reqsk_queue_prune
  <1>4. \A p \in kept : retrans[p] + 1 \in 0..MaxRetrans /\ retrans[p] + 1 # 0
    BY KeptRetrans
  <1>5. retrans' \in [Peers -> 0..MaxRetrans]
    BY ZenonT(40), <1>3, <1>4, ConstantsAssumption DEF TypeOK
  <1>6. expires' \in [Peers -> Nat]
    <2>1. \A p \in kept : Backoff(retrans[p] + 1) \in Nat
      BY ZenonT(40), <1>4, BackoffType
    <2> QED BY <2>1 DEF inet_csk_reqsk_queue_prune, TypeOK
  <1>7. acked' \in [Peers -> BOOLEAN]
    BY DEF inet_csk_reqsk_queue_prune
  <1>8. clock_hand' \in 0..nr_table_entries - 1
    <2>1. clock_hand + Budget \in Int /\ nr_table_entries \in Nat \ {0}
      BY BudgetType DEF TypeOK
    <2> HIDE DEF Budget
    <2> QED BY <2>1 DEF inet_csk_reqsk_queue_prune
  <1>9. {q \in syn_table' : retrans'[q] = 0} = Y \ D
    <2>1. ASSUME NEW q \in syn_table PROVE q \in Peers
      BY DEF TypeOK
    <2> HIDE DEF kept, dropped
    <2>2. ASSUME NEW q \in syn_table \ dropped
          PROVE  retrans'[q] = 0 <=> q \in Y \ D
      <3>1. CASE q \in kept
        BY ZenonT(40), <3>1, <2>1, <2>2, <1>2, <1>3, <1>4
      <3>2. CASE q \notin kept
        <4>1. q \notin Due
          BY <3>2, <2>2 DEF dropped
        <4> QED BY <4>1, <3>2, <2>1, <2>2, <1>3
      <3> QED BY <3>1, <3>2
    <2>3. \A q \in dropped : retrans[q] = 0 => q \in D
      BY DEF dropped
    <2> QED BY <2>2, <2>3, <1>3, <1>2
  <1>10. qlen' = Cardinality(syn_table') /\ qlen_young' = Cardinality(Y \ D)
    <2>1. Cardinality(syn_table \ dropped) = Cardinality(syn_table) - Cardinality(dropped)
      BY <1>1, <1>2, CardRemove
    <2>2. Cardinality(Y \ D) = Cardinality(Y) - Cardinality(D)
      BY <1>1, <1>2, CardRemove
    <2> QED BY ZenonT(40), <2>1, <2>2, <1>1, <1>3
  <1>11. QueueCounts'
    BY <1>9, <1>10 DEF QueueCounts
  <1>12. IsFiniteSet(syn_table') /\ IsFiniteSet(Y \ D)
    BY <1>1, <1>2, <1>3, CardRemove
  <1>13. qlen' \in Int /\ qlen_young' \in Int /\ (qlen' = 0 <=> syn_table' = {})
    BY SMTT(40), <1>10, <1>12, FS_CardinalityType, FS_EmptySet
  <1>14. keepalive' \in Nat \cup {Off} /\ (syn_table' # {} => keepalive' # Off)
    BY <1>3, <1>13, ConstantsAssumption DEF TypeOK, Off
  <1> QED BY ZenonT(40), <1>2, <1>3, <1>5, <1>6, <1>7, <1>8, <1>11, <1>13, <1>14

-----------------------------------------------------------------------------
\* One lemma per kind of step: each keeps the inductive invariant.

\* listen(), the first time or again, keeps the invariant.
LEMMA ListenKeeps ==
    ASSUME IInv, NEW b \in Backlogs, NEW port_ok \in BOOLEAN, inet_listen(b, port_ok)
    PROVE  IInv'
  <1> DEFINE nr == ListenBacklog(b)
  <1>1. nr \in Nat /\ (nr % U16) \in 0..U16 - 1 /\ 0 \in 0..U16 - 1
    BY ConstantsAssumption DEF ListenBacklog
  <1>2. TableEntries(nr) \in Nat \ {0} /\ QlenLog(nr) \in Nat \ {0}
    BY TableAssumption
  <1> HIDE DEF nr
  <1>3. CASE inet_csk_listen_start(nr, port_ok)
    <2>1. syn_table = {} /\ syn_table' = {} /\ rskq_accept' = <<>> /\ UNCHANGED <<reqs, childs>>
      BY <1>3 DEF inet_csk_listen_start, IInv, TableUsable, reqs, childs
    <2>2. TypeOK'
      BY <1>1, <1>2, <1>3 DEF inet_csk_listen_start, IInv, TypeOK, reqs, childs, timer
    <2>3. QueueCounts'
      <3>1. {p \in syn_table' : retrans'[p] = 0} = {}
        BY <2>1
      <3> QED BY <3>1, <2>1, <1>3, FS_EmptySet DEF inet_csk_listen_start, QueueCounts
    <2>4. OneConnectionPerPeer'
      BY <2>1 DEF IInv, OneConnectionPerPeer, Hashed, childs
    <2>5. QueueHoldsChilds'
      BY <2>1 DEF QueueHoldsChilds, Queued
    <2>6. TimerArmed' /\ TableUsable'
      BY ZenonT(40), <2>1, <1>3 DEF TimerArmed, TableUsable, inet_csk_listen_start
    <2> QED BY <2>2, <2>3, <2>4, <2>5, <2>6 DEF IInv
  <1>4. CASE /\ sk_state = "LISTEN"
             /\ sk_max_ack_backlog' = nr % U16
             /\ UNCHANGED <<sk_state, listen_opt, lopt, reqs, counts, rskq_defer_accept,
                            accq, childs, timer>>
    BY SMTT(40), <1>1, <1>4 DEF IInv, TypeOK, QueueCounts, OneConnectionPerPeer, QueueHoldsChilds,
       TimerArmed, TableUsable, Hashed, Queued, lopt, reqs, counts, accq, childs, timer
  <1> QED BY <1>3, <1>4 DEF inet_listen, nr

\* accept() takes the head of the queue and disturbs nothing else.
LEMMA AcceptKeeps ==
    ASSUME IInv, inet_csk_accept
    PROVE  IInv'
  <1>1. /\ rskq_accept \in Seq(Childs) /\ rskq_accept # <<>> /\ sk_state = "LISTEN"
        /\ rskq_accept' = Tail(rskq_accept)
        /\ UNCHANGED <<sk_state, listen_opt, lopt, reqs, counts, rskq_defer_accept,
                       sk_max_ack_backlog, childs, timer>>
    BY DEF IInv, TypeOK, inet_csk_accept
  <1>2. /\ Len(rskq_accept) \in Nat
        /\ rskq_accept' \in Seq(Childs) /\ Len(rskq_accept') = Len(rskq_accept) - 1
        /\ \A i \in 1..Len(rskq_accept') : rskq_accept'[i] = rskq_accept[i + 1]
    BY ZenonT(40), <1>1, HeadTailProperties, LenProperties
  <1>3. sk_ack_backlog' \in 0..U16 - 1
    BY SMTT(40), ConstantsAssumption DEF IInv, TypeOK, inet_csk_accept
  <1>4. TypeOK'
    BY <1>1, <1>2, <1>3 DEF IInv, TypeOK, lopt, reqs, counts, childs, timer
  <1>5. QueueHoldsChilds'
    <2>1. \A i \in 1..Len(rskq_accept') : i + 1 \in 1..Len(rskq_accept)
      BY <1>2
    <2>2. ASSUME NEW i \in 1..Len(rskq_accept'), NEW j \in 1..Len(rskq_accept'),
                 rskq_accept'[i] = rskq_accept'[j]
          PROVE  i = j
      BY SMTT(40), <1>2, <2>1, <2>2 DEF IInv, QueueHoldsChilds
    <2>3. ASSUME NEW c \in Queued'
          PROVE  child_state'[c] # "FREE"
      BY SMTT(40), <1>1, <1>2, <2>1 DEF IInv, QueueHoldsChilds, Queued, childs
    <2> QED BY <2>2, <2>3 DEF QueueHoldsChilds
  <1>6. QueueCounts' /\ OneConnectionPerPeer' /\ TimerArmed' /\ TableUsable'
    BY <1>1 DEF IInv, QueueCounts, OneConnectionPerPeer, TimerArmed, TableUsable, Hashed,
       reqs, counts, childs, timer
  <1> QED BY <1>4, <1>5, <1>6 DEF IInv

\* The end of the listener empties the table and the queue together.
LEMMA StopKeeps ==
    ASSUME IInv, inet_csk_listen_stop
    PROVE  IInv'
  <1>1. /\ syn_table' = {} /\ rskq_accept' = <<>>
        /\ sk_state' = "CLOSE" /\ listen_opt' = "null"
        /\ child_state' = [c \in Childs |-> IF c \in Queued THEN "FREE" ELSE child_state[c]]
        /\ child_peer' = [c \in Childs |-> IF c \in Queued THEN NoPeer ELSE child_peer[c]]
        /\ qlen' = (IF qlen # 0 THEN qlen - Cardinality(syn_table) ELSE qlen)
        /\ qlen_young' = 0 /\ keepalive' = Off
    BY DEF inet_csk_listen_stop, reqsk_queue_yank_acceptq, Unlink, Queued
  <1>2. qlen = Cardinality(syn_table) /\ qlen \in Nat
    BY ZenonT(40), CountsType DEF IInv, QueueCounts
  <1>3. QueueCounts' /\ qlen' = 0
    <2>1. {p \in syn_table' : retrans'[p] = 0} = {}
      BY <1>1
    <2>2. qlen' = 0
      BY <1>1, <1>2
    <2> QED BY ZenonT(40), <2>1, <2>2, <1>1, FS_EmptySet DEF QueueCounts
  <1>4. TypeOK'
    <2>1. sk_ack_backlog' \in 0..U16 - 1
      <3>1. Len(rskq_accept) \in Nat
        BY ZenonT(40), LenProperties DEF IInv, TypeOK
      <3> QED BY SMTT(40), <3>1, ConstantsAssumption DEF IInv, TypeOK, inet_csk_listen_stop, reqsk_queue_yank_acceptq
    <2>2. /\ retrans' \in [Peers -> 0..MaxRetrans] /\ acked' \in [Peers -> BOOLEAN]
          /\ expires' \in [Peers -> Nat]
      BY ZenonT(40), ConstantsAssumption DEF IInv, TypeOK, inet_csk_listen_stop, reqsk_queue_yank_acceptq, Unlink
    <2>3. /\ child_state' \in [Childs -> {"FREE", "ESTABLISHED", "CLOSE_WAIT", "CLOSE"}]
          /\ child_peer' \in [Childs -> Peers \cup {NoPeer}]
      BY ZenonT(40), <1>1 DEF IInv, TypeOK
    <2>4. /\ nr_table_entries' \in Nat \ {0} /\ max_qlen_log' \in Nat \ {0}
          /\ clock_hand' \in 0..nr_table_entries' - 1
          /\ rskq_defer_accept' \in DeferValues /\ sk_max_ack_backlog' \in 0..U16 - 1
          /\ running' \in BOOLEAN
      BY DEF IInv, TypeOK, inet_csk_listen_stop, reqsk_queue_yank_acceptq, lopt
    <2>5. /\ rskq_accept' \in Seq(Childs) /\ syn_table' \subseteq Peers
          /\ qlen' \in Int /\ qlen_young' \in Int /\ keepalive' \in Nat \cup {Off}
          /\ sk_state' \in {"CLOSE", "LISTEN"} /\ listen_opt' \in {"null", "valid", "freed"}
      BY <1>1, <1>3
    <2> QED BY ZenonT(40), <2>1, <2>2, <2>3, <2>4, <2>5 DEF TypeOK
  <1>5. OneConnectionPerPeer'
    <2>1. Hashed' \subseteq Hashed /\ \A c \in Hashed' : child_peer'[c] = child_peer[c]
      BY <1>1 DEF Hashed
    <2>2. OneConnectionPerPeer /\ syn_table' \subseteq syn_table
      BY <1>1 DEF IInv
    <2> QED BY <2>1, <2>2 DEF OneConnectionPerPeer
  <1>6. QueueHoldsChilds' /\ TimerArmed' /\ TableUsable'
    BY <1>1 DEF QueueHoldsChilds, Queued, TimerArmed, TableUsable
  <1> QED BY ZenonT(40), <1>3, <1>4, <1>5, <1>6 DEF IInv

\* A step that leaves the table, the queue and the children alone has only the types
\* and the timer to look after.
LEMMA QueuesUntouched ==
    ASSUME IInv, TypeOK', TimerArmed',
           sk_state' = sk_state, listen_opt' = listen_opt, syn_table' = syn_table,
           retrans' = retrans, qlen' = qlen, qlen_young' = qlen_young,
           rskq_accept' = rskq_accept, child_state' = child_state, child_peer' = child_peer
    PROVE  IInv'
  <1>1. QueueCounts' /\ TableUsable'
    BY DEF IInv, QueueCounts, TableUsable
  <1>2. Hashed' = Hashed /\ Queued' = Queued
    BY DEF Hashed, Queued
  <1>3. OneConnectionPerPeer'
    BY <1>2 DEF IInv, OneConnectionPerPeer
  <1>4. QueueHoldsChilds'
    BY <1>2 DEF IInv, QueueHoldsChilds
  <1> QED BY <1>1, <1>3, <1>4 DEF IInv

\* A request leaves the table and nothing else changes: a reset in the window,
\* an overflow with tcp_abort_on_overflow, or an ICMP error.
LEMMA DropKeeps ==
    ASSUME IInv, NEW p \in syn_table, inet_csk_reqsk_queue_drop(p), sk_state = "LISTEN",
           UNCHANGED <<sk_state, listen_opt, lopt, rskq_defer_accept, accq,
                       sk_max_ack_backlog, childs, running>>
    PROVE  IInv'
  <1>1. /\ syn_table' \subseteq Peers
        /\ retrans' \in [Peers -> 0..MaxRetrans]
        /\ acked' \in [Peers -> BOOLEAN]
        /\ expires' \in [Peers -> Nat]
        /\ qlen' \in Int /\ qlen_young' \in Int
        /\ keepalive' \in Nat \cup {Off}
        /\ QueueCounts'
        /\ syn_table' # {} => keepalive' = keepalive
    BY ZenonT(40), DropCounts DEF IInv, inet_csk_reqsk_queue_drop
  <1>2. syn_table' \subseteq syn_table
    BY DEF inet_csk_reqsk_queue_drop, Unlink
  <1>3. TypeOK'
    BY ZenonT(40), <1>1 DEF IInv, TypeOK, lopt, accq, childs
  <1>4. OneConnectionPerPeer' /\ QueueHoldsChilds'
    <2>1. /\ rskq_accept' = rskq_accept /\ child_state' = child_state
          /\ child_peer' = child_peer
      BY DEF accq, childs
    <2>2. Hashed' = Hashed /\ Queued' = Queued
      BY <2>1 DEF Hashed, Queued
    <2>3. OneConnectionPerPeer'
      BY <1>2, <2>1, <2>2 DEF IInv, OneConnectionPerPeer
    <2>4. QueueHoldsChilds'
      BY <2>1, <2>2 DEF IInv, QueueHoldsChilds
    <2> QED BY <2>3, <2>4
  <1>5. TimerArmed' /\ TableUsable'
    BY ZenonT(40), <1>1, <1>2 DEF IInv, TimerArmed, TableUsable
  <1> QED BY ZenonT(40), <1>1, <1>3, <1>4, <1>5 DEF IInv

\* An ACK is remembered.
LEMMA RememberKeeps ==
    ASSUME IInv, NEW p \in syn_table, RememberAck(p),
           UNCHANGED <<sk_state, listen_opt, lopt, rskq_defer_accept,
                       sk_max_ack_backlog, running>>
    PROVE  IInv'
  <1>1. acked' \in [Peers -> BOOLEAN]
    BY ZenonT(40) DEF IInv, TypeOK, RememberAck
  <1>2. TypeOK'
    BY ZenonT(40), <1>1 DEF IInv, TypeOK, RememberAck, lopt, counts, accq, childs
  <1>3. /\ sk_state' = sk_state /\ listen_opt' = listen_opt /\ syn_table' = syn_table
        /\ retrans' = retrans /\ qlen' = qlen /\ qlen_young' = qlen_young
        /\ rskq_accept' = rskq_accept /\ child_state' = child_state
        /\ child_peer' = child_peer /\ keepalive' = keepalive /\ running' = running
    BY DEF RememberAck, counts, accq, childs
  <1>4. TimerArmed'
    BY <1>3 DEF IInv, TimerArmed
  <1> QED BY ZenonT(40), <1>2, <1>3, <1>4, QueuesUntouched

\* A child is created and queued while its peer has no other socket: the hashed
\* sockets stay one per peer and the queue gains a socket it did not hold.
LEMMA ChildKeeps ==
    ASSUME IInv, NEW p \in Peers, NEW c \in Childs, NEW th,
           tcp_v4_syn_recv_sock(p, c, th), inet_csk_reqsk_queue_add(c),
           Established(p) = {}, syn_table' \subseteq syn_table \ {p}
    PROVE  /\ OneConnectionPerPeer' /\ QueueHoldsChilds'
           /\ rskq_accept' \in Seq(Childs) /\ sk_ack_backlog' \in 0..U16 - 1
           /\ child_state' \in [Childs -> {"FREE", "ESTABLISHED", "CLOSE_WAIT", "CLOSE"}]
           /\ child_peer' \in [Childs -> Peers \cup {NoPeer}]
  <1>1. /\ child_state[c] = "FREE"
        /\ child_state'[c] \in {"ESTABLISHED", "CLOSE_WAIT"} /\ child_peer'[c] = p
        /\ \A d \in Childs \ {c} : child_state'[d] = child_state[d] /\ child_peer'[d] = child_peer[d]
        /\ child_state' \in [Childs -> {"FREE", "ESTABLISHED", "CLOSE_WAIT", "CLOSE"}]
        /\ child_peer' \in [Childs -> Peers \cup {NoPeer}]
    BY DEF IInv, TypeOK, tcp_v4_syn_recv_sock
  <1>2. OneConnectionPerPeer'
    <2>1. Hashed' = Hashed \cup {c} /\ c \notin Hashed
      BY ZenonT(40), <1>1 DEF Hashed
    <2>2. \A d \in Hashed : child_peer[d] # p /\ child_peer'[d] = child_peer[d]
      BY ZenonT(40), <1>1, <2>1 DEF Established, Hashed
    <2>3. ASSUME NEW d \in Hashed', NEW e \in Hashed', child_peer'[d] = child_peer'[e]
          PROVE  d = e
      BY ZenonT(40), <1>1, <2>1, <2>2, <2>3 DEF IInv, OneConnectionPerPeer
    <2>4. ASSUME NEW d \in Hashed'
          PROVE  child_peer'[d] \notin syn_table'
      BY ZenonT(40), <1>1, <2>1, <2>2 DEF IInv, OneConnectionPerPeer
    <2> QED BY ZenonT(40), <2>3, <2>4 DEF OneConnectionPerPeer
  <1>3. /\ rskq_accept' \in Seq(Childs) /\ Len(rskq_accept') = Len(rskq_accept) + 1
        /\ Len(rskq_accept) \in Nat
        /\ \A i \in 1..Len(rskq_accept) : rskq_accept'[i] = rskq_accept[i]
        /\ rskq_accept'[Len(rskq_accept) + 1] = c
    BY SMTT(40), AppendProperties, LenProperties DEF IInv, TypeOK, inet_csk_reqsk_queue_add
  <1>4. \A i \in 1..Len(rskq_accept) : rskq_accept[i] # c /\ rskq_accept[i] \in Childs
    BY SMTT(40), <1>1, LenProperties DEF IInv, TypeOK, QueueHoldsChilds, Queued
  <1>5. QueueHoldsChilds'
    <2>1. \A i \in 1..Len(rskq_accept') : i \in 1..Len(rskq_accept) \/ i = Len(rskq_accept) + 1
      BY SMTT(40), <1>3
    <2>2. ASSUME NEW i \in 1..Len(rskq_accept'), NEW j \in 1..Len(rskq_accept'),
                 rskq_accept'[i] = rskq_accept'[j]
          PROVE  i = j
      BY ZenonT(40), <1>3, <1>4, <2>1, <2>2 DEF IInv, QueueHoldsChilds
    <2>3. ASSUME NEW i \in 1..Len(rskq_accept')
          PROVE  child_state'[rskq_accept'[i]] # "FREE"
      <3>1. CASE i \in 1..Len(rskq_accept)
        BY SMTT(40), <3>1, <1>1, <1>3, <1>4 DEF IInv, QueueHoldsChilds, Queued
      <3>2. CASE i = Len(rskq_accept) + 1
        BY ZenonT(40), <3>2, <1>1, <1>3
      <3>3. i \in 1..Len(rskq_accept) \/ i = Len(rskq_accept) + 1
        BY ZenonT(40), <1>1, <2>1
      <3> QED BY ZenonT(40), <3>1, <3>2, <3>3
    <2> QED BY ZenonT(40), <2>2, <2>3 DEF QueueHoldsChilds, Queued
  <1>6. sk_ack_backlog' \in 0..U16 - 1
    BY SMTT(40), ConstantsAssumption DEF IInv, TypeOK, inet_csk_reqsk_queue_add
  <1> QED BY ZenonT(40), <1>1, <1>2, <1>3, <1>5, <1>6

\* A segment: a reset, a remembered ACK, a new request or a new child.
LEMMA SegmentKeeps ==
    ASSUME IInv, NEW p \in Peers, NEW th \in Segments, tcp_v4_do_rcv(p, th)
    PROVE  IInv'
  <1>1. /\ sk_state = "LISTEN" /\ tcp_v4_hnd_req(p, th)
        /\ UNCHANGED <<sk_state, listen_opt, lopt, rskq_defer_accept,
                       sk_max_ack_backlog, running>>
    BY DEF tcp_v4_do_rcv
  <1>2. ASSUME p \in syn_table, embryonic_reset(p)
        PROVE  IInv'
    BY ZenonT(40), <1>1, <1>2, DropKeeps DEF embryonic_reset
  <1>3. ASSUME p \in syn_table, RememberAck(p)
        PROVE  IInv'
    BY ZenonT(40), <1>1, <1>3, RememberKeeps
  <1>4. ASSUME p \in syn_table, NEW c \in Childs, tcp_v4_syn_recv_sock(p, c, th),
               Unlink({p}), inet_csk_reqsk_queue_removed(p), inet_csk_reqsk_queue_add(c)
        PROVE  IInv'
    <2>1. Established(p) = {} /\ syn_table' \subseteq syn_table \ {p}
      BY <1>4 DEF Established, Unlink, IInv, OneConnectionPerPeer, Hashed
    <2>2. /\ OneConnectionPerPeer' /\ QueueHoldsChilds'
          /\ rskq_accept' \in Seq(Childs) /\ sk_ack_backlog' \in 0..U16 - 1
          /\ child_state' \in [Childs -> {"FREE", "ESTABLISHED", "CLOSE_WAIT", "CLOSE"}]
          /\ child_peer' \in [Childs -> Peers \cup {NoPeer}]
      BY ZenonT(40), <1>4, <2>1, ChildKeeps
    <2>3. /\ syn_table' \subseteq Peers
          /\ retrans' \in [Peers -> 0..MaxRetrans]
          /\ acked' \in [Peers -> BOOLEAN]
          /\ expires' \in [Peers -> Nat]
          /\ qlen' \in Int /\ qlen_young' \in Int
          /\ keepalive' \in Nat \cup {Off}
          /\ QueueCounts'
          /\ syn_table' # {} => keepalive' = keepalive
      BY ZenonT(40), <1>4, DropCounts DEF IInv
    <2>4. TypeOK'
      BY ZenonT(40), <1>1, <2>2, <2>3 DEF IInv, TypeOK, lopt
    <2>5. TimerArmed' /\ TableUsable'
      BY <1>1, <2>1, <2>3 DEF IInv, TimerArmed, TableUsable
    <2> QED BY ZenonT(40), <2>2, <2>3, <2>4, <2>5 DEF IInv
  <1>5. ASSUME p \notin syn_table, Established(p) = {}, cookie_v4_check(p, th)
        PROVE  IInv'
    <2>1. PICK c \in Childs : tcp_v4_syn_recv_sock(p, c, th) /\ inet_csk_reqsk_queue_add(c)
      BY ZenonT(40), <1>5 DEF cookie_v4_check
    <2>2. UNCHANGED <<reqs, counts, keepalive>> /\ syn_table' \subseteq syn_table \ {p}
      BY <1>5 DEF cookie_v4_check, reqs
    <2>3. /\ OneConnectionPerPeer' /\ QueueHoldsChilds'
          /\ rskq_accept' \in Seq(Childs) /\ sk_ack_backlog' \in 0..U16 - 1
          /\ child_state' \in [Childs -> {"FREE", "ESTABLISHED", "CLOSE_WAIT", "CLOSE"}]
          /\ child_peer' \in [Childs -> Peers \cup {NoPeer}]
      BY ZenonT(40), <1>5, <2>1, <2>2, ChildKeeps
    <2>4. TypeOK'
      BY ZenonT(40), <1>1, <2>2, <2>3 DEF IInv, TypeOK, lopt, reqs, counts
    <2>5. QueueCounts' /\ TimerArmed' /\ TableUsable'
      BY ZenonT(40), <1>1, <2>2 DEF IInv, QueueCounts, TimerArmed, TableUsable, reqs, counts
    <2> QED BY ZenonT(40), <2>3, <2>4, <2>5 DEF IInv
  <1>6. ASSUME p \notin syn_table, Established(p) = {}, inet_csk_reqsk_queue_hash_add(p),
               UNCHANGED <<accq, childs>>
        PROVE  IInv'
    <2>1. /\ syn_table' \subseteq Peers
          /\ retrans' \in [Peers -> 0..MaxRetrans]
          /\ acked' \in [Peers -> BOOLEAN]
          /\ expires' \in [Peers -> Nat]
          /\ qlen' \in Int /\ qlen_young' \in Int
          /\ keepalive' \in Nat \cup {Off}
          /\ QueueCounts'
          /\ syn_table = {} => keepalive' # Off
          /\ syn_table # {} => keepalive' = keepalive
      BY ZenonT(40), <1>6, AddCounts DEF IInv
    <2>2. TypeOK'
      BY ZenonT(40), <1>1, <1>6, <2>1 DEF IInv, TypeOK, lopt, accq, childs
    <2>3. OneConnectionPerPeer'
      <3>1. Hashed' = Hashed /\ child_peer' = child_peer /\ syn_table' = syn_table \cup {p}
        BY ZenonT(40), <1>6 DEF Hashed, childs, inet_csk_reqsk_queue_hash_add
      <3>2. \A c \in Hashed : child_peer[c] # p
        BY ZenonT(40), <1>6 DEF Hashed, Established
      <3> QED BY ZenonT(40), <3>1, <3>2 DEF IInv, OneConnectionPerPeer
    <2>4. QueueHoldsChilds'
      <3>1. rskq_accept' = rskq_accept /\ child_state' = child_state /\ QueueHoldsChilds
        BY <1>6 DEF IInv, accq, childs
      <3> QED BY ONLY <3>1 DEF QueueHoldsChilds, Queued
    <2>5. TimerArmed' /\ TableUsable'
      BY ZenonT(40), <1>1, <2>1 DEF IInv, TimerArmed, TableUsable
    <2> QED BY ZenonT(40), <2>1, <2>2, <2>3, <2>4, <2>5 DEF IInv
  <1>7. CASE p \in syn_table /\ tcp_check_req(p, th)
    BY ZenonT(40), <1>2, <1>3, <1>4, <1>7 DEF tcp_check_req, listen_overflow
  <1>8. CASE p \notin syn_table /\ Established(p) = {} /\ cookie_v4_check(p, th)
    BY ZenonT(40), <1>5, <1>8
  <1>9. CASE p \notin syn_table /\ Established(p) = {} /\ ListenStateProcess(p, th)
    BY <1>6, <1>9 DEF ListenStateProcess, tcp_v4_conn_request
  <1> QED BY ZenonT(40), <1>1, <1>7, <1>8, <1>9 DEF tcp_v4_hnd_req

\* A child only ever leaves the hashed sockets.
LEMMA ChildStepKeeps ==
    ASSUME IInv, NEW c \in Childs, NEW st, ChildStep(c, st)
    PROVE  IInv'
  <1>1. /\ c \in Hashed
        /\ child_state' \in [Childs -> {"FREE", "ESTABLISHED", "CLOSE_WAIT", "CLOSE"}]
        /\ Hashed' \subseteq Hashed
        /\ \A d \in Childs : child_state[d] # "FREE" => child_state'[d] # "FREE"
    BY DEF IInv, TypeOK, ChildStep, Hashed
  <1>2. UNCHANGED <<sk_state, listen_opt, lopt, reqs, counts, rskq_defer_accept, accq,
                    sk_max_ack_backlog, child_peer, timer>>
    BY ZenonT(40) DEF ChildStep
  <1>3. TypeOK'
    BY ZenonT(40), <1>1, <1>2 DEF IInv, TypeOK, lopt, reqs, counts, accq, timer
  <1>4. OneConnectionPerPeer'
    BY <1>1, <1>2 DEF IInv, OneConnectionPerPeer, reqs
  <1>5. QueueHoldsChilds'
    <2>1. Queued' = Queued /\ Queued \subseteq Childs
      BY SMTT(40), <1>2, LenProperties DEF IInv, TypeOK, Queued, accq
    <2> QED BY ZenonT(40), <1>1, <1>2, <2>1 DEF IInv, QueueHoldsChilds, accq
  <1>6. QueueCounts' /\ TimerArmed' /\ TableUsable'
    BY <1>2 DEF IInv, QueueCounts, TimerArmed, TableUsable, reqs, counts, accq, timer
  <1> QED BY ZenonT(40), <1>3, <1>4, <1>5, <1>6 DEF IInv

\* Only an accepted child is released, so the queue keeps its members.
LEMMA ChildReleaseKeeps ==
    ASSUME IInv, NEW c \in Childs, ChildRelease(c)
    PROVE  IInv'
  <1>1. /\ c \notin Queued
        /\ child_state' = [child_state EXCEPT ![c] = "FREE"]
        /\ child_peer' = [child_peer EXCEPT ![c] = NoPeer]
        /\ UNCHANGED <<sk_state, listen_opt, lopt, reqs, counts, rskq_defer_accept, accq,
                       sk_max_ack_backlog, timer>>
    BY ZenonT(40) DEF ChildRelease, Queued
  <1>2. TypeOK'
    BY <1>1 DEF IInv, TypeOK, lopt, reqs, counts, accq, timer
  <1>3. OneConnectionPerPeer'
    <2>1. Hashed' \subseteq Hashed \ {c} /\ \A d \in Hashed' : child_peer'[d] = child_peer[d]
      BY ZenonT(40), <1>1 DEF IInv, TypeOK, Hashed
    <2> QED BY SMTT(40), <1>1, <2>1 DEF IInv, OneConnectionPerPeer, reqs
  <1>4. QueueHoldsChilds'
    <2>1. Queued' = Queued /\ Queued \subseteq Childs
      BY SMTT(40), <1>1, LenProperties DEF IInv, TypeOK, Queued, accq
    <2> QED BY ZenonT(40), <1>1, <2>1 DEF IInv, TypeOK, QueueHoldsChilds, accq
  <1>5. QueueCounts' /\ TimerArmed' /\ TableUsable'
    BY <1>1 DEF IInv, QueueCounts, TimerArmed, TableUsable, reqs, counts, accq, timer
  <1> QED BY ZenonT(40), <1>2, <1>3, <1>4, <1>5 DEF IInv

\* Time passes, or the timer fires: nothing is counted.
LEMMA TimeKeeps ==
    ASSUME IInv, Tick \/ TimerFires
    PROVE  IInv'
  <1>1. /\ sk_state' = sk_state /\ listen_opt' = listen_opt
        /\ nr_table_entries' = nr_table_entries /\ max_qlen_log' = max_qlen_log
        /\ clock_hand' = clock_hand /\ syn_table' = syn_table
        /\ retrans' = retrans /\ acked' = acked /\ qlen' = qlen /\ qlen_young' = qlen_young
        /\ rskq_defer_accept' = rskq_defer_accept /\ rskq_accept' = rskq_accept
        /\ sk_ack_backlog' = sk_ack_backlog /\ sk_max_ack_backlog' = sk_max_ack_backlog
        /\ child_state' = child_state /\ child_peer' = child_peer
    BY ZenonT(40) DEF Tick, TimerFires, lopt, reqs, counts, accq, childs
  <1>2. expires' \in [Peers -> Nat]
    BY SMTT(40) DEF Tick, TimerFires, reqs, IInv, TypeOK
  <1>3. keepalive' \in Nat \cup {Off} /\ running' \in BOOLEAN
    <2>1. keepalive' \in Nat \cup {Off}
      BY DEF Tick, TimerFires, Off, IInv, TypeOK
    <2>2. running' = running \/ running' = TRUE
      BY ZenonT(40) DEF Tick, TimerFires
    <2> QED BY ZenonT(40), <2>1, <2>2 DEF IInv, TypeOK
  <1>4. keepalive # Off \/ running => keepalive' # Off \/ running'
    BY SMTT(40) DEF Tick, TimerFires, Off, IInv, TypeOK
  <1>5. TypeOK'
    BY ZenonT(40), <1>1, <1>2, <1>3 DEF IInv, TypeOK
  <1>6. TimerArmed'
    BY <1>1, <1>4 DEF IInv, TimerArmed
  <1> QED BY ZenonT(40), <1>1, <1>5, <1>6, QueuesUntouched

\* The timer handler prunes the table, or finds the listener gone.
LEMMA SynackTimerKeeps ==
    ASSUME IInv, NEW failed, SynackTimer(failed)
    PROVE  IInv'
  <1>1. running' = FALSE /\ UNCHANGED <<sk_state, listen_opt, rskq_defer_accept, accq,
                                       sk_max_ack_backlog, childs>>
    BY DEF SynackTimer
  <1>2. CASE /\ sk_state = "LISTEN"
             /\ inet_csk_reqsk_queue_prune(failed)
             /\ UNCHANGED <<nr_table_entries, max_qlen_log>>
    <2>1. /\ syn_table' \subseteq syn_table
          /\ retrans' \in [Peers -> 0..MaxRetrans]
          /\ acked' \in [Peers -> BOOLEAN]
          /\ expires' \in [Peers -> Nat]
          /\ clock_hand' \in 0..nr_table_entries - 1
          /\ qlen' \in Int /\ qlen_young' \in Int
          /\ keepalive' \in Nat \cup {Off}
          /\ QueueCounts'
          /\ syn_table' # {} => keepalive' # Off
      BY ZenonT(40), <1>2, PruneCounts DEF IInv
    <2>2. TypeOK'
      BY ZenonT(40), <1>1, <1>2, <2>1 DEF IInv, TypeOK, accq, childs
    <2>3. OneConnectionPerPeer' /\ QueueHoldsChilds'
      <3>1. Hashed' = Hashed /\ child_peer' = child_peer
        BY <1>1 DEF Hashed, childs
      <3>2. OneConnectionPerPeer'
        BY <2>1, <3>1 DEF IInv, OneConnectionPerPeer
      <3>3. QueueHoldsChilds'
        BY <1>1 DEF IInv, QueueHoldsChilds, Queued, accq, childs
      <3> QED BY <3>2, <3>3
    <2>4. TimerArmed' /\ TableUsable'
      BY ZenonT(40), <1>1, <1>2, <2>1 DEF IInv, TimerArmed, TableUsable
    <2> QED BY ZenonT(40), <2>1, <2>2, <2>3, <2>4 DEF IInv
  <1>3. CASE /\ sk_state # "LISTEN" \/ qlen = 0
             /\ UNCHANGED <<lopt, reqs, counts, keepalive>>
    <2>1. sk_state = "LISTEN" => syn_table = {}
      BY ZenonT(40), <1>3, CountsType DEF IInv
    <2>2. TypeOK'
      BY ZenonT(40), <1>1, <1>3 DEF IInv, TypeOK, lopt, reqs, counts, accq, childs
    <2> QED BY SMTT(40), <1>1, <1>3, <2>1, <2>2 DEF IInv, QueueCounts, OneConnectionPerPeer,
               QueueHoldsChilds, TimerArmed, TableUsable, Hashed, Queued, reqs, counts, accq, childs
  <1> QED BY <1>2, <1>3 DEF SynackTimer

-----------------------------------------------------------------------------
\* The listener's tables stay consistent for every configuration: types, counters,
\* one connection per peer, queue contents, timer and table lifetime.
THEOREM ListenerInvariant == Spec => []IInv
  <1>1. Init => IInv
    <2> SUFFICES ASSUME Init PROVE IInv
      OBVIOUS
    <2>1. {p \in syn_table : retrans[p] = 0} = {} /\ syn_table = {}
      BY DEF Init
    <2>2. QueueCounts
      BY ZenonT(40), <2>1, FS_EmptySet DEF Init, QueueCounts
    <2>3. TypeOK
      <3>1. /\ retrans \in [Peers -> 0..MaxRetrans] /\ acked \in [Peers -> BOOLEAN]
            /\ expires \in [Peers -> Nat]
        BY ConstantsAssumption DEF Init
      <3>2. /\ child_state \in [Childs -> {"FREE", "ESTABLISHED", "CLOSE_WAIT", "CLOSE"}]
            /\ child_peer \in [Childs -> Peers \cup {NoPeer}]
        BY DEF Init
      <3>3. /\ rskq_accept \in Seq(Childs) /\ 0 \in 0..U16 - 1 /\ rskq_defer_accept \in DeferValues
        BY ConstantsAssumption DEF Init
      <3>4. /\ nr_table_entries \in Nat \ {0} /\ max_qlen_log \in Nat \ {0}
            /\ clock_hand \in 0..nr_table_entries - 1
            /\ qlen \in Int /\ qlen_young \in Int /\ keepalive \in Nat \cup {Off}
            /\ sk_ack_backlog \in 0..U16 - 1 /\ sk_max_ack_backlog \in 0..U16 - 1
        BY <3>3 DEF Init
      <3>5. /\ sk_state \in {"CLOSE", "LISTEN"} /\ listen_opt \in {"null", "valid", "freed"}
            /\ running \in BOOLEAN /\ syn_table \subseteq Peers
        BY ZenonT(40) DEF Init
      <3> QED BY ZenonT(40), <3>1, <3>2, <3>3, <3>4, <3>5 DEF TypeOK
    <2> QED BY <2>2, <2>3 DEF Init, IInv, OneConnectionPerPeer, QueueHoldsChilds, TimerArmed,
               TableUsable, Hashed, Queued
  <1>2. IInv /\ [Next]_vars => IInv'
    <2> SUFFICES ASSUME IInv, [Next]_vars PROVE IInv'
      OBVIOUS
    <2>1. ASSUME NEW b \in Backlogs, NEW port_ok \in BOOLEAN, inet_listen(b, port_ok) PROVE IInv'
      BY <2>1, ListenKeeps
    <2>2. CASE inet_csk_accept
      BY <2>2, AcceptKeeps
    <2>3. CASE inet_csk_listen_stop
      BY ZenonT(40), <2>3, StopKeeps
    <2>4. ASSUME NEW v \in DeferValues, SetDeferAccept(v) PROVE IInv'
      <3>1. TypeOK'
        BY ZenonT(40), <2>4 DEF SetDeferAccept, IInv, TypeOK, lopt, reqs, counts, accq, childs, timer
      <3>2. /\ sk_state' = sk_state /\ listen_opt' = listen_opt /\ syn_table' = syn_table
            /\ retrans' = retrans /\ qlen' = qlen /\ qlen_young' = qlen_young
            /\ rskq_accept' = rskq_accept /\ child_state' = child_state
            /\ child_peer' = child_peer /\ keepalive' = keepalive /\ running' = running
        BY <2>4 DEF SetDeferAccept, reqs, counts, accq, childs, timer
      <3>3. TimerArmed'
        BY <3>2 DEF IInv, TimerArmed
      <3> QED BY ZenonT(40), <3>1, <3>2, <3>3, QueuesUntouched
    <2>5. ASSUME NEW p \in Peers, NEW th \in Segments, tcp_v4_do_rcv(p, th) PROVE IInv'
      BY ZenonT(40), <2>5, SegmentKeeps
    <2>6. ASSUME NEW p \in Peers, tcp_v4_err(p) PROVE IInv'
      BY <2>6, DropKeeps DEF tcp_v4_err
    <2>7. ASSUME NEW c \in Childs, NEW st \in {"CLOSE_WAIT", "CLOSE"}, ChildStep(c, st) PROVE IInv'
      BY <2>7, ChildStepKeeps
    <2>8. ASSUME NEW c \in Childs, ChildRelease(c) PROVE IInv'
      BY <2>8, ChildReleaseKeeps
    <2>9. CASE Tick \/ TimerFires
      BY <2>9, TimeKeeps
    <2>10. ASSUME NEW failed \in SUBSET syn_table, SynackTimer(failed) PROVE IInv'
      BY <2>10, SynackTimerKeeps
    <2>11. CASE UNCHANGED vars
      <3>1. TypeOK'
        BY ZenonT(40), <2>11 DEF vars, IInv, TypeOK, lopt, reqs, counts, accq, childs, timer
      <3>2. /\ sk_state' = sk_state /\ listen_opt' = listen_opt /\ syn_table' = syn_table
            /\ retrans' = retrans /\ qlen' = qlen /\ qlen_young' = qlen_young
            /\ rskq_accept' = rskq_accept /\ child_state' = child_state
            /\ child_peer' = child_peer /\ keepalive' = keepalive /\ running' = running
        BY <2>11 DEF vars, reqs, counts, accq, childs, timer
      <3>3. TimerArmed'
        BY <3>2 DEF IInv, TimerArmed
      <3> QED BY ZenonT(40), <3>1, <3>2, <3>3, QueuesUntouched
    <2> QED BY ZenonT(40), <2>1, <2>2, <2>3, <2>4, <2>5, <2>6, <2>7, <2>8, <2>9, <2>10, <2>11 DEF Next
  <1> QED BY <1>1, <1>2, PTL DEF Spec

\* Every variable keeps its type; in particular retrans never leaves its 8 bits.
THEOREM TypeCorrect == Spec => []TypeOK
  BY ListenerInvariant, PTL DEF IInv

\* qlen and qlen_young describe the SYN table in every reachable state.
THEOREM CountersCorrect == Spec => []QueueCounts
  BY ListenerInvariant, PTL DEF IInv

\* No peer ever has two hashed sockets, or a socket and a pending request.
THEOREM SingleConnection == Spec => []OneConnectionPerPeer
  BY ListenerInvariant, PTL DEF IInv

\* Pending requests always have a timer that will look at them.
THEOREM TimerCorrect == Spec => []TimerArmed
  BY ListenerInvariant, PTL DEF IInv

-----------------------------------------------------------------------------
\* The accept queue and its 16-bit counter.

\* Counting modulo m: adding one, removing one, and removing all.
LEMMA ModStep ==
    ASSUME NEW n \in Nat, NEW m \in Nat \ {0}
    PROVE  /\ ((n % m) + 1) % m = (n + 1) % m
           /\ n > 0 => ((n % m) - 1) % m = (n - 1) % m
           /\ ((n % m) - n) % m = 0
  <1> DEFINE q == n \div m
             r == n % m
  <1>1. q \in Nat /\ r \in 0..m-1 /\ n = (m * q) + r
    BY SMT
  <1> HIDE DEF q, r
  <1>2. \A k \in Int, d \in 0..m-1 : ((m * k) + d) % m = d
    BY SMT
  <1>3. (r + 1) % m = (n + 1) % m
    <2>1. CASE r + 1 < m
      <3>1. n + 1 = (m * q) + (r + 1) /\ r + 1 = (m * 0) + (r + 1)
        BY <1>1, <2>1
      <3> QED BY <1>1, <1>2, <2>1, <3>1
    <2>2. CASE r + 1 = m
      <3>1. n + 1 = (m * (q + 1)) + 0 /\ r + 1 = (m * 1) + 0
        BY <1>1, <2>2
      <3> QED BY SMTT(40), <1>1, <1>2, <2>2, <3>1
    <2> QED BY <1>1, <2>1, <2>2
  <1>4. ASSUME n > 0 PROVE (r - 1) % m = (n - 1) % m
    <2>1. CASE r > 0
      <3>1. n - 1 = (m * q) + (r - 1) /\ r - 1 = (m * 0) + (r - 1)
        BY <1>1, <2>1
      <3> QED BY <1>1, <1>2, <2>1, <3>1
    <2>2. CASE r = 0
      <3>1. n - 1 = (m * (q - 1)) + (m - 1) /\ r - 1 = (m * (-1)) + (m - 1)
        BY <1>1, <2>2
      <3> QED BY SMTT(40), <1>1, <1>2, <2>2, <3>1
    <2> QED BY SMTT(40), <1>1, <2>1, <2>2
  <1>5. (r - n) % m = 0
    <2>1. r - n = (m * (-q)) + 0
      BY <1>1
    <2> QED BY <1>1, <1>2, <2>1
  <1> QED BY <1>3, <1>4, <1>5 DEF r

\* What a step can do to the accept queue and to sk_ack_backlog, together.
QueueStep ==
    \/ rskq_accept' = rskq_accept /\ sk_ack_backlog' = sk_ack_backlog
    \/ /\ ~sk_acceptq_is_full
       /\ \E c \in Childs : inet_csk_reqsk_queue_add(c)
    \/ /\ rskq_accept # <<>> /\ rskq_accept' = Tail(rskq_accept)
       /\ sk_ack_backlog' = (sk_ack_backlog - 1) % U16
    \/ /\ rskq_accept' = <<>>
       /\ sk_ack_backlog' \in {0, (sk_ack_backlog - Len(rskq_accept)) % U16}

\* Every step of the listener is one of these.
LEMMA StepsOfTheQueue == [Next]_vars => QueueStep
  <1> SUFFICES ASSUME [Next]_vars PROVE QueueStep
    OBVIOUS
  <1> USE DEF accq
  <1>1. ASSUME NEW b \in Backlogs, NEW ok \in BOOLEAN, inet_listen(b, ok) PROVE QueueStep
    BY <1>1 DEF inet_listen, inet_csk_listen_start, QueueStep
  <1>2. CASE inet_csk_accept
    BY ZenonT(40), <1>2 DEF inet_csk_accept, QueueStep
  <1>3. CASE inet_csk_listen_stop
    BY ZenonT(40), <1>3 DEF inet_csk_listen_stop, reqsk_queue_yank_acceptq, QueueStep
  <1>4. ASSUME NEW p \in Peers, NEW th \in Segments, tcp_v4_do_rcv(p, th) PROVE QueueStep
    <2>1. CASE tcp_check_req(p, th)
      BY ZenonT(40), <2>1 DEF tcp_check_req, embryonic_reset, RememberAck, listen_overflow,
                  tcp_v4_syn_recv_sock, QueueStep
    <2>2. CASE cookie_v4_check(p, th)
      BY <2>2 DEF cookie_v4_check, tcp_v4_syn_recv_sock, QueueStep
    <2>3. CASE ListenStateProcess(p, th)
      BY <2>3 DEF ListenStateProcess, tcp_v4_conn_request, QueueStep
    <2> QED BY ZenonT(40), <1>4, <2>1, <2>2, <2>3 DEF tcp_v4_do_rcv, tcp_v4_hnd_req
  <1>5. ASSUME NEW p \in Peers, tcp_v4_err(p) PROVE QueueStep
    BY ZenonT(40), <1>5 DEF tcp_v4_err, QueueStep
  <1>6. ASSUME NEW c \in Childs, NEW st, ChildStep(c, st) \/ ChildRelease(c) PROVE QueueStep
    BY ZenonT(40), <1>6 DEF ChildStep, ChildRelease, QueueStep
  <1>7. CASE Tick \/ TimerFires
    BY <1>7 DEF Tick, TimerFires, QueueStep
  <1>8. ASSUME NEW failed, SynackTimer(failed) PROVE QueueStep
    BY <1>8 DEF SynackTimer, QueueStep
  <1>9. ASSUME NEW v, SetDeferAccept(v) PROVE QueueStep
    BY <1>9 DEF SetDeferAccept, QueueStep
  <1>10. CASE UNCHANGED vars
    BY ZenonT(40), <1>10 DEF vars, QueueStep
  <1> QED BY ZenonT(40), <1>1, <1>2, <1>3, <1>4, <1>5, <1>6, <1>7, <1>8, <1>9, <1>10 DEF Next

\* Each of them keeps the counter equal to the length modulo U16.
LEMMA QueueStepCounts == TypeOK /\ BacklogCount /\ QueueStep => BacklogCount'
  <1> SUFFICES ASSUME TypeOK, BacklogCount, QueueStep PROVE BacklogCount'
    BY ZenonT(40)
  <1> USE ConstantsAssumption DEF BacklogCount
  <1>1. rskq_accept \in Seq(Childs) /\ Len(rskq_accept) \in Nat
    BY SMTT(40) DEF TypeOK
  <1> DEFINE n == Len(rskq_accept)
  <1>2. /\ 0 % U16 = 0
        /\ ((n % U16) + 1) % U16 = (n + 1) % U16
        /\ n > 0 => ((n % U16) - 1) % U16 = (n - 1) % U16
        /\ ((n % U16) - n) % U16 = 0
    <2>1. n \in Nat /\ U16 \in Nat \ {0}
      BY <1>1
    <2> HIDE DEF n
    <2>2. 0 % U16 = 0
      BY <2>1
    <2> QED BY ZenonT(40), <2>1, <2>2, ModStep
  <1>3. ASSUME NEW c \in Childs, inet_csk_reqsk_queue_add(c) PROVE BacklogCount'
    <2>1. Len(rskq_accept') = Len(rskq_accept) + 1
      BY SMTT(40), <1>1, <1>3 DEF inet_csk_reqsk_queue_add
    <2> QED BY ZenonT(40), <1>2, <1>3, <2>1 DEF inet_csk_reqsk_queue_add
  <1>4. CASE /\ rskq_accept # <<>> /\ rskq_accept' = Tail(rskq_accept)
             /\ sk_ack_backlog' = (sk_ack_backlog - 1) % U16
    <2>1. Len(rskq_accept) > 0 /\ Len(rskq_accept') = Len(rskq_accept) - 1
      BY SMTT(40), <1>1, <1>4
    <2> QED BY ZenonT(40), <1>2, <1>4, <2>1
  <1>5. CASE /\ rskq_accept' = <<>>
             /\ sk_ack_backlog' \in {0, (sk_ack_backlog - Len(rskq_accept)) % U16}
    <2>1. Len(rskq_accept') = 0
      BY <1>5
    <2> QED BY ZenonT(40), <1>2, <1>5, <2>1
  <1> QED BY <1>3, <1>4, <1>5 DEF QueueStep

\* sk_ack_backlog is always the length of the accept queue modulo its 16 bits,
\* whatever the order of handshakes, accept(), listen() and shutdown().
THEOREM BacklogCorrect == Spec => []BacklogCount
  <1>1. Init => BacklogCount
    <2>1. 0 % U16 = 0 /\ Len(<<>>) = 0
      BY ConstantsAssumption
    <2> QED BY ZenonT(40), <2>1 DEF Init, BacklogCount
  <1>2. TypeOK /\ BacklogCount /\ [Next]_vars => BacklogCount'
    BY StepsOfTheQueue, QueueStepCounts
  <1> QED BY <1>1, <1>2, TypeCorrect, PTL DEF Spec

\* The accept queue never grows from a length above the backlog in effect, as
\* long as the 16-bit counter has not wrapped: sk_acceptq_is_full is tested
\* in the same critical section that adds the child.
THEOREM GrowthBounded == Spec => AcceptQueueGrowth
  <1> DEFINE Grows == Len(rskq_accept') > Len(rskq_accept) /\ Len(rskq_accept) < U16
                         => Len(rskq_accept) <= sk_max_ack_backlog
  <1>1. TypeOK /\ BacklogCount /\ [Next]_vars => [Grows]_vars
    <2> SUFFICES ASSUME TypeOK, BacklogCount, [Next]_vars,
                        Len(rskq_accept') > Len(rskq_accept), Len(rskq_accept) < U16
                 PROVE  Len(rskq_accept) <= sk_max_ack_backlog
      BY ZenonT(40)
    <2>1. rskq_accept \in Seq(Childs) /\ Len(rskq_accept) \in Nat
      BY DEF TypeOK
    <2>2. ~sk_acceptq_is_full
      <3>1. rskq_accept' # rskq_accept /\ rskq_accept' # <<>>
        BY <2>1
      <3>2. rskq_accept # <<>> => Len(Tail(rskq_accept)) < Len(rskq_accept)
        BY SMTT(40), <2>1
      <3> QED BY SMTT(40), <2>1, <3>1, <3>2, StepsOfTheQueue DEF QueueStep
    <2>3. sk_ack_backlog = Len(rskq_accept)
      BY <2>1, ConstantsAssumption DEF BacklogCount
    <2> QED BY SMTT(40), <2>2, <2>3 DEF sk_acceptq_is_full, TypeOK
  <1> QED BY <1>1, TypeCorrect, BacklogCorrect, PTL DEF Spec, AcceptQueueGrowth


\* The books of both queues balance in every reachable state.
THEOREM QueuesAlwaysExact == Spec => []QueuesExact
  BY ListenerInvariant, BacklogCorrect, PTL DEF IInv, QueuesExact

-----------------------------------------------------------------------------
\* The listener implements PassiveOpen.

\* The connections PassiveOpen sees.
Conn == [c \in Childs |-> IF c \in Hashed THEN child_peer[c] ELSE NoPeer]

\* It does not change with what it does not depend on.
LEMMA SameConn ==
    ASSUME child_state' = child_state, child_peer' = child_peer
    PROVE  Conn' = Conn
  <1>1. Hashed' = Hashed
    BY DEF Hashed
  <1> QED BY <1>1 DEF Conn

\* A SYN that is accepted adds its peer to the table and nothing else that shows.
LEMMA RequestShows ==
    ASSUME NEW p, NEW th, ListenStateProcess(p, th)
    PROVE  /\ syn_table' = syn_table \cup {p} /\ rskq_accept' = rskq_accept
           /\ child_state' = child_state /\ child_peer' = child_peer
  <1>1. \E isn, tcpct, proven \in BOOLEAN, cookies \in SynCookies :
           tcp_v4_conn_request(p, isn, tcpct, proven, cookies)
    BY DEF ListenStateProcess
  <1>2. ASSUME NEW isn, NEW tcpct, NEW proven, NEW cookies,
               tcp_v4_conn_request(p, isn, tcpct, proven, cookies)
        PROVE  inet_csk_reqsk_queue_hash_add(p) /\ UNCHANGED <<accq, childs>>
    BY <1>2 DEF tcp_v4_conn_request
  <1>3. inet_csk_reqsk_queue_hash_add(p) /\ UNCHANGED <<accq, childs>>
    BY <1>1, <1>2
  <1> QED BY <1>3 DEF inet_csk_reqsk_queue_hash_add, accq, childs

\* Steps that leave alone all PassiveOpen sees, and steps that only drop requests.
LEMMA StutterStep ==
    ASSUME sk_state' = sk_state, syn_table' = syn_table, rskq_accept' = rskq_accept,
           child_state' = child_state, child_peer' = child_peer
    PROVE  [Service!Next]_(Service!vars)
  <1>1. Conn' = Conn
    BY SameConn
  <1> QED BY ZenonT(40), <1>1 DEF Service!vars, Conn

LEMMA AbandonStep ==
    ASSUME TypeOK, sk_state' = sk_state, rskq_accept' = rskq_accept,
           child_state' = child_state, child_peer' = child_peer,
           NEW P \in SUBSET Peers, syn_table' = syn_table \ P
    PROVE  [Service!Next]_(Service!vars)
  <1>1. Conn' = Conn
    BY SameConn
  <1>2. Service!Abandon(P)
    BY ZenonT(40), <1>1 DEF Service!Abandon, Conn
  <1> QED BY ZenonT(40), <1>2 DEF Service!Next

\* A child that is free is neither connected nor queued; giving it to a peer that has
\* no connection is what PassiveOpen calls Establish.
LEMMA EstablishStep ==
    ASSUME IInv, sk_state = "LISTEN", sk_state' = sk_state,
           NEW p \in Peers, NEW c \in Childs, NEW th \in Segments,
           Established(p) = {}, syn_table' = syn_table \ {p},
           tcp_v4_syn_recv_sock(p, c, th), inet_csk_reqsk_queue_add(c)
    PROVE  [Service!Next]_(Service!vars)
  <1>1. \A d \in Childs : Conn[d] # p
    BY ZenonT(40), ConstantsAssumption DEF Conn, Hashed, Established
  <1>2. Conn[c] = NoPeer
    BY ZenonT(40) DEF Conn, Hashed, tcp_v4_syn_recv_sock
  <1>3. \A i \in 1..Len(rskq_accept) : rskq_accept[i] # c
    BY ZenonT(40) DEF IInv, QueueHoldsChilds, Queued, tcp_v4_syn_recv_sock
  <1>4. Conn' = [Conn EXCEPT ![c] = p]
    <2>1. Hashed' = Hashed \cup {c}
      BY ZenonT(40) DEF Hashed, tcp_v4_syn_recv_sock, IInv, TypeOK
    <2>2. \A d \in Childs : child_peer'[d] = IF d = c THEN p ELSE child_peer[d]
      BY DEF tcp_v4_syn_recv_sock, IInv, TypeOK
    <2> QED BY ZenonT(40), <2>1, <2>2 DEF Conn
  <1>5. rskq_accept' = Append(rskq_accept, c)
    BY ZenonT(40) DEF inet_csk_reqsk_queue_add
  <1>6. Service!Establish(p, c)
    BY ZenonT(40), <1>1, <1>2, <1>3, <1>4, <1>5
       DEF Service!Establish, Service!Connected, Service!InQueue, Conn
  <1> QED BY ZenonT(40), <1>6 DEF Service!Next

\* A segment abandons a request, opens one, completes a handshake, or changes
\* nothing that shows.
LEMMA SegmentStep ==
    ASSUME IInv, NEW p \in Peers, NEW th \in Segments, tcp_v4_do_rcv(p, th)
    PROVE  [Service!Next]_(Service!vars)
  <1>1. sk_state = "LISTEN" /\ sk_state' = sk_state /\ tcp_v4_hnd_req(p, th)
    BY ZenonT(40) DEF tcp_v4_do_rcv
  <1>2. ASSUME embryonic_reset(p) PROVE [Service!Next]_(Service!vars)
    BY ZenonT(40), <1>1, <1>2, AbandonStep
       DEF embryonic_reset, inet_csk_reqsk_queue_drop, Unlink, accq, childs, IInv
  <1>3. ASSUME RememberAck(p) PROVE [Service!Next]_(Service!vars)
    BY <1>1, <1>3, StutterStep DEF RememberAck, accq, childs
  <1>4. CASE p \in syn_table /\ tcp_check_req(p, th)
    <2>1. CASE embryonic_reset(p) \/ RememberAck(p)
      BY ZenonT(40), <1>2, <1>3, <2>1
    <2>2. ASSUME NEW c \in Childs, tcp_v4_syn_recv_sock(p, c, th), Unlink({p}),
                 inet_csk_reqsk_queue_add(c)
          PROVE  [Service!Next]_(Service!vars)
      <3>1. Established(p) = {}
        BY ZenonT(40), <1>4 DEF IInv, OneConnectionPerPeer, Hashed, Established
      <3>2. syn_table' = syn_table \ {p}
        BY ZenonT(40), <2>2 DEF Unlink
      <3> QED BY ZenonT(40), <1>1, <2>2, <3>1, <3>2, EstablishStep
    <2> QED BY ZenonT(40), <1>4, <2>1, <2>2 DEF tcp_check_req, listen_overflow
  <1>5. CASE p \notin syn_table /\ Established(p) = {} /\ cookie_v4_check(p, th)
    <2>1. PICK c \in Childs : tcp_v4_syn_recv_sock(p, c, th) /\ inet_csk_reqsk_queue_add(c)
      BY ZenonT(40), <1>5 DEF cookie_v4_check
    <2>2. syn_table' = syn_table \ {p}
      BY ZenonT(40), <1>5 DEF cookie_v4_check, reqs
    <2> QED BY ZenonT(40), <1>1, <1>5, <2>1, <2>2, EstablishStep
  <1>6. CASE p \notin syn_table /\ Established(p) = {} /\ ListenStateProcess(p, th)
    <2>1. /\ syn_table' = syn_table \cup {p} /\ rskq_accept' = rskq_accept
          /\ child_state' = child_state /\ child_peer' = child_peer
      BY <1>6, RequestShows
    <2>2. Conn' = Conn
      BY ONLY <2>1, SameConn
    <2>3. \A d \in Childs : Conn[d] # p
      BY ZenonT(40), <1>6, ConstantsAssumption DEF Conn, Hashed, Established
    <2>4. Service!Request(p)
      BY ZenonT(40), <1>1, <1>6, <2>1, <2>2, <2>3 DEF Service!Request, Service!Connected, Conn
    <2> QED BY ZenonT(40), <2>4 DEF Service!Next
  <1> QED BY ZenonT(40), <1>1, <1>4, <1>5, <1>6 DEF tcp_v4_hnd_req

\* listen() opens, shutdown() closes and takes the queue with it, accept() takes the
\* oldest connection.
LEMMA CallStep ==
    ASSUME IInv,
           \/ \E b \in Backlogs, port_ok \in BOOLEAN : inet_listen(b, port_ok)
           \/ inet_csk_accept
           \/ inet_csk_listen_stop
    PROVE  [Service!Next]_(Service!vars)
  <1>1. ASSUME NEW b \in Backlogs, NEW port_ok \in BOOLEAN, inet_listen(b, port_ok)
        PROVE  [Service!Next]_(Service!vars)
    <2>1. CASE inet_csk_listen_start(ListenBacklog(b), port_ok)
      <3>1. /\ sk_state = "CLOSE" /\ sk_state' \in {"CLOSE", "LISTEN"} /\ syn_table' = syn_table
            /\ rskq_accept' = rskq_accept /\ child_state' = child_state
            /\ child_peer' = child_peer
        BY <2>1 DEF inet_csk_listen_start, reqs, childs, IInv, TableUsable
      <3>2. CASE sk_state' = "CLOSE"
        BY ZenonT(40), <3>1, <3>2, StutterStep
      <3>3. CASE sk_state' = "LISTEN"
        <4>1. Conn' = Conn
          BY <3>1, SameConn
        <4>2. Service!Open
          BY ZenonT(40), <3>1, <3>3, <4>1 DEF Service!Open, Conn
        <4> QED BY ZenonT(40), <4>2 DEF Service!Next
      <3> QED BY ZenonT(40), <3>1, <3>2, <3>3
    <2>2. CASE /\ sk_state = "LISTEN"
               /\ UNCHANGED <<sk_state, listen_opt, lopt, reqs, counts, rskq_defer_accept,
                              accq, childs, timer>>
      BY <2>2, StutterStep DEF reqs, accq, childs
    <2> QED BY ZenonT(40), <1>1, <2>1, <2>2 DEF inet_listen
  <1>2. CASE inet_csk_accept
    <2>1. /\ sk_state = "LISTEN" /\ sk_state' = sk_state /\ syn_table' = syn_table
          /\ rskq_accept # <<>> /\ rskq_accept' = Tail(rskq_accept)
          /\ child_state' = child_state /\ child_peer' = child_peer
      BY ZenonT(40), <1>2 DEF inet_csk_accept, reqs, childs
    <2>2. Conn' = Conn
      BY ONLY <2>1, SameConn
    <2>3. Service!Accept
      BY <2>1, <2>2 DEF Service!Accept, Conn
    <2> QED BY ZenonT(40), <2>3 DEF Service!Next
  <1>3. CASE inet_csk_listen_stop
    <2>1. /\ sk_state = "LISTEN" /\ sk_state' = "CLOSE" /\ syn_table' = {}
          /\ rskq_accept' = <<>>
      BY ZenonT(40), <1>3 DEF inet_csk_listen_stop, Unlink, reqsk_queue_yank_acceptq
    <2>2. \A d \in Childs :
             /\ child_state'[d] = IF d \in Queued THEN "FREE" ELSE child_state[d]
             /\ child_peer'[d] = IF d \in Queued THEN NoPeer ELSE child_peer[d]
      BY ZenonT(40), <1>3 DEF inet_csk_listen_stop, Queued
    <2>3. Conn' = [d \in Childs |-> IF d \in Queued THEN NoPeer ELSE Conn[d]]
      BY ZenonT(40), <2>2 DEF Conn, Hashed
    <2>4. \A d \in Childs : d \in Queued <=> Service!InQueue(d)
      BY DEF Queued, Service!InQueue
    <2>5. Conn' = [d \in Childs |-> IF Service!InQueue(d) THEN NoPeer ELSE Conn[d]]
      BY ZenonT(40), <2>3, <2>4
    <2>6. Service!Close
      BY ZenonT(40), <2>1, <2>5 DEF Service!Close, Conn
    <2> QED BY ZenonT(40), <2>6 DEF Service!Next
  <1> QED BY ZenonT(40), <1>1, <1>2, <1>3

\* A child that ends, or is closed by its user, disconnects; one that goes on to
\* CLOSE_WAIT stays.
LEMMA ChildsStep ==
    ASSUME IInv, NEW c \in Childs, NEW st \in {"CLOSE_WAIT", "CLOSE"},
           ChildStep(c, st) \/ ChildRelease(c)
    PROVE  [Service!Next]_(Service!vars)
  <1>1. sk_state' = sk_state /\ syn_table' = syn_table /\ rskq_accept' = rskq_accept
    BY ZenonT(40) DEF ChildStep, ChildRelease, reqs, accq
  <1>2. \A d \in Childs \ {c} : child_state'[d] = child_state[d] /\ child_peer'[d] = child_peer[d]
    BY ZenonT(40) DEF ChildStep, ChildRelease, IInv, TypeOK
  <1>3. \/ c \in Hashed /\ c \in Hashed' /\ child_peer'[c] = child_peer[c]
        \/ c \notin Hashed'
    BY ZenonT(40) DEF ChildStep, ChildRelease, IInv, TypeOK, Hashed
  <1>4. Conn' = Conn \/ Conn' = [Conn EXCEPT ![c] = NoPeer]
    <2>1. ASSUME NEW d \in Childs \ {c} PROVE Conn'[d] = Conn[d]
      <3>1. d \in Hashed' <=> d \in Hashed
        BY ONLY <1>2 DEF Hashed
      <3>2. child_peer'[d] = child_peer[d]
        BY <1>2
      <3> QED BY ONLY <3>1, <3>2 DEF Conn
    <2>2. Conn'[c] = Conn[c] \/ Conn'[c] = NoPeer
      BY ZenonT(40), <1>3 DEF Conn
    <2> QED BY ZenonT(40), <2>1, <2>2 DEF Conn
  <1>5. CASE Conn' = Conn
    BY ZenonT(40), <1>1, <1>5 DEF Service!vars, Conn
  <1>6. CASE Conn' = [Conn EXCEPT ![c] = NoPeer]
    <2>1. Service!Disconnect(c)
      BY <1>1, <1>6 DEF Service!Disconnect, Conn
    <2> QED BY ZenonT(40), <2>1 DEF Service!Next
  <1> QED BY ZenonT(40), <1>4, <1>5, <1>6

\* The listener implements PassiveOpen: whatever the segments, errors, calls and timers
\* do, connections complete once per peer, are accepted in the order of completion,
\* and none leaves the queue but by accept() or with the listener.
THEOREM ListenerImplements == Spec => ImplementsPassiveOpen
  <1>1. Init => Service!Init
    <2> SUFFICES ASSUME Init PROVE Service!Init
      OBVIOUS
    <2>1. Conn = [c \in Childs |-> NoPeer]
      BY ZenonT(40) DEF Init, Conn, Hashed
    <2> QED BY ZenonT(40), <2>1 DEF Init, Service!Init, Conn
  <1>2. IInv /\ [Next]_vars => [Service!Next]_(Service!vars)
    <2> SUFFICES ASSUME IInv, [Next]_vars PROVE [Service!Next]_(Service!vars)
      BY ZenonT(40)
    <2>1. ASSUME NEW v \in DeferValues, SetDeferAccept(v) PROVE [Service!Next]_(Service!vars)
      BY ZenonT(40), <2>1, StutterStep DEF SetDeferAccept, reqs, accq, childs
    <2>2. ASSUME NEW p \in Peers, tcp_v4_err(p) PROVE [Service!Next]_(Service!vars)
      BY ZenonT(40), <2>2, AbandonStep DEF tcp_v4_err, inet_csk_reqsk_queue_drop, Unlink, accq, childs, IInv
    <2>3. CASE Tick \/ TimerFires \/ UNCHANGED vars
      BY <2>3, StutterStep DEF Tick, TimerFires, vars, reqs, accq, childs
    <2>4. ASSUME NEW failed \in SUBSET syn_table, SynackTimer(failed)
          PROVE  [Service!Next]_(Service!vars)
      <3>1. /\ sk_state' = sk_state /\ rskq_accept' = rskq_accept
            /\ child_state' = child_state /\ child_peer' = child_peer
        BY ZenonT(40), <2>4 DEF SynackTimer, accq, childs
      <3>2. \E P \in SUBSET Peers : syn_table' = syn_table \ P
        <4>1. CASE inet_csk_reqsk_queue_prune(failed)
          <5>1. Due \ Kept(failed) \in SUBSET Peers
            BY DEF Due, IInv, TypeOK
          <5> QED BY ZenonT(40), <4>1, <5>1 DEF inet_csk_reqsk_queue_prune
        <4>2. CASE UNCHANGED <<lopt, reqs, counts, keepalive>>
          BY ZenonT(40), <4>2 DEF reqs
        <4> QED BY ZenonT(40), <2>4, <4>1, <4>2 DEF SynackTimer
      <3> QED BY ZenonT(40), <3>1, <3>2, AbandonStep DEF IInv
    <2> QED BY ZenonT(40), <2>1, <2>2, <2>3, <2>4, SegmentStep, CallStep, ChildsStep DEF Next
  <1> QED BY <1>1, <1>2, ListenerInvariant, PTL DEF Spec, ImplementsPassiveOpen, Service!Spec

=============================================================================
