---------------------------- MODULE ReceiveQueue ----------------------------
(***************************************************************************)
(* The receiving half of an established connection: tcp_rcv_established    *)
(* with its fast path, tcp_data_queue and the out-of-order queue, the SACK *)
(* and D-SACK blocks it reports, urgent data, and what happens when the    *)
(* receive buffer is full (tcp_prune_queue, tcp_collapse).                 *)
(*                                                                         *)
(* The peer sends the bytes 1 .. MaxSeq - 1 and a FIN as number MaxSeq, in *)
(* segments that may be lost, repeated, reordered and cut in other ways    *)
(* when they are sent again.  An skb is its range [seq, end), whether it   *)
(* carries the FIN, and whether its buffer is bloated.  The socket is one  *)
(* record, rx, and each procedure an operator from record to record.       *)
(***************************************************************************)
EXTENDS Integers, FiniteSets, Sequences, FiniteSetsExt, SequencesExt

CONSTANTS
    NumSacks,     \* TCP_NUM_SACKS
    Confs         \* the connections and peers to look at: records of Conf

\*   maxseq   the number of the FIN
\*   maxlen   bytes in a segment at most
\*   maxcopy  bytes that fit in one buffer of tcp_collapse
\*   rcvbuf   sk_rcvbuf, in the units of truesize
\*   windows  the windows that may be announced
\*   urgents  the numbers of the urgent bytes
\*   ucopy    bytes that a reader inside recvmsg may still want
\*   allocs   how many allocations of tcp_collapse succeed in one call
\*   fails    memory requests in a row that may be refused
\*   fats     whether buffers may come bloated
\*   sack     SACK was negotiated
ASSUME QueueConstants ==
    /\ NumSacks \in Nat \ {0}
    /\ \A c \in Confs :
        /\ {c.maxseq, c.maxlen, c.maxcopy} \subseteq Nat \ {0} /\ c.rcvbuf \in Nat
        /\ c.windows \subseteq Nat /\ c.urgents \subseteq 1..(c.maxseq - 1)
        /\ c.ucopy \subseteq Nat /\ c.allocs \subseteq Nat /\ c.fails \subseteq 0..3
        /\ c.fats \subseteq BOOLEAN /\ c.sack \in BOOLEAN

VARIABLES
    conf,         \* the connection looked at: chosen first, then fixed
    rx            \* the receiving half of the socket

vars == <<conf, rx>>

MaxSeq == conf.maxseq
RcvBuf == conf.rcvbuf
Windows == conf.windows
Urgents == conf.urgents
Sack == conf.sack

Skb == [seq : 1..MaxSeq, end : 2..(MaxSeq + 1), fin : BOOLEAN, fat : BOOLEAN]

Init ==
    /\ conf \in Confs
    /\ \E w \in Windows :
        rx = [rcv_nxt |-> 1, copied_seq |-> 1, rcv_wup |-> 1, wend |-> 1 + w,
              receive_queue |-> <<>>, ofo |-> <<>>, sacks |-> <<>>, dsack |-> <<>>,
              urg_data |-> "none", urg_seq |-> 0, pred_flags |-> w > 0, ack |-> FALSE,
              done |-> FALSE, warned |-> {}]

Smaller(a, b) == IF a < b THEN a ELSE b
Larger(a, b) == IF a > b THEN a ELSE b

Warn(r, site, cond) == IF cond THEN [r EXCEPT !.warned = @ \cup {site}] ELSE r

-----------------------------------------------------------------------------
\* Memory.  A buffer costs its bytes and an overhead.

SkbLen(s) == s.end - s.seq

Truesize(s) == SkbLen(s) + (IF s.fat THEN 2 ELSE 1)

RmemAlloc(r) ==
    FoldLeft(LAMBDA n, s : n + Truesize(s), 0, r.receive_queue \o r.ofo)

tcp_receive_window(r) == Larger(0, r.wend - r.rcv_nxt)

\* rcv_wnd is counted from the last ACK.
tcp_fast_path_check(r) ==
    IF r.ofo = <<>> /\ r.wend > r.rcv_wup /\ RmemAlloc(r) < RcvBuf /\ r.urg_data = "none"
    THEN [r EXCEPT !.pred_flags = TRUE] ELSE r

-----------------------------------------------------------------------------
\* SACK blocks.

Touches(b, seq, end) == seq <= b.end /\ b.start <= end

tcp_sack_extend(b, seq, end) == [start |-> Smaller(seq, b.start), end |-> Larger(end, b.end)]

tcp_dsack_set(r, seq, end) ==
    IF Sack THEN [r EXCEPT !.dsack = <<[start |-> seq, end |-> end]>>] ELSE r

tcp_dsack_extend(r, seq, end) ==
    IF r.dsack = <<>> THEN tcp_dsack_set(r, seq, end)
    ELSE IF Touches(r.dsack[1], seq, end)
    THEN [r EXCEPT !.dsack[1] = tcp_sack_extend(@, seq, end)] ELSE r

\* The first block grew: it swallows, in turn, those it now reaches.
tcp_sack_maybe_coalesce(sp) ==
    LET Step(w, b) == IF Touches(w[1], b.start, b.end)
                      THEN [w EXCEPT ![1] = tcp_sack_extend(@, b.start, b.end)] ELSE Append(w, b)
    IN  FoldLeft(Step, <<sp[1]>>, Tail(sp))

\* The block that seq..end extends comes first; else a new block does, and the
\* last one is forgotten when there is no room.
tcp_sack_new_ofo_skb(r, seq, end) ==
    LET sp == r.sacks
        hits == {i \in DOMAIN sp : Touches(sp[i], seq, end)}
        i == Min(hits)
    IN  IF ~Sack THEN r ELSE
        [r EXCEPT !.sacks =
            IF hits = {} THEN SubSeq(<<[start |-> seq, end |-> end]>> \o sp, 1, Smaller(Len(sp) + 1, NumSacks))
            ELSE tcp_sack_maybe_coalesce(<<tcp_sack_extend(sp[i], seq, end)>> \o RemoveAt(sp, i))]

tcp_sack_remove(r) ==
    LET eaten(b) == r.rcv_nxt >= b.start
        partly == \E i \in DOMAIN r.sacks : eaten(r.sacks[i]) /\ r.rcv_nxt < r.sacks[i].end
    IN  IF r.ofo = <<>> THEN [r EXCEPT !.sacks = <<>>]
        ELSE [Warn(r, "sack", partly) EXCEPT !.sacks = SelectSeq(@, LAMBDA b : ~eaten(b))]

-----------------------------------------------------------------------------
\* The out-of-order queue.

\* What follows the FIN is dropped.
tcp_fin(r) == [r EXCEPT !.done = TRUE, !.ofo = <<>>, !.sacks = <<>>]

\* MUTANT: an skb that brings nothing new is queued all the same.
OfoStepStale(w, s) ==
    IF w.r.done THEN w
    ELSE IF s.seq > w.r.rcv_nxt THEN [w EXCEPT !.r.ofo = Append(@, s)]
    ELSE [w EXCEPT !.r.receive_queue = Append(@, s), !.r.rcv_nxt = Larger(@, s.end)]

\* One skb of the queue in the order it stands; w.high is dsack_high.
OfoStep(w, s) ==
    LET r == w.r
        dup == IF s.seq < w.high THEN tcp_dsack_extend(r, s.seq, w.high) ELSE r
        taken == [dup EXCEPT !.receive_queue = Append(@, s), !.rcv_nxt = s.end]
    IN  CASE r.done -> w
          [] ~r.done /\ s.seq > r.rcv_nxt -> [w EXCEPT !.r.ofo = Append(@, s)]
          [] ~r.done /\ s.seq <= r.rcv_nxt ->
               [r |-> IF s.end <= r.rcv_nxt THEN dup ELSE IF s.fin THEN tcp_fin(taken) ELSE taken,
                high |-> IF s.seq < w.high /\ s.end < w.high THEN s.end ELSE w.high]

\* Moves what rcv_nxt has reached to the receive queue.
tcp_ofo_queue(r) ==
    FoldLeft(OfoStep, [r |-> [r EXCEPT !.ofo = <<>>], high |-> r.rcv_nxt], r.ofo).r

\* MUTANT: the purge leaves the SACK blocks.
PruneKeepsSacks(r) == [r EXCEPT !.ofo = <<>>]

tcp_prune_ofo_queue(r) ==
    IF r.ofo = <<>> THEN r ELSE [r EXCEPT !.ofo = <<>>, !.sacks = <<>>]

\* skb s goes in after the p-th; those it covers are dropped, and a D-SACK tells
\* the peer.  The first one it does not cover ends the cleaning.
InsertSkb(r, s, p) ==
    LET Step(w, x) ==
            CASE w.stop \/ s.end <= x.seq -> [w EXCEPT !.r.ofo = Append(@, x), !.stop = TRUE]
              [] ~w.stop /\ x.seq < s.end /\ s.end < x.end ->
                   [r |-> tcp_dsack_extend([w.r EXCEPT !.ofo = Append(@, x)], x.seq, s.end), stop |-> TRUE]
              [] OTHER -> [w EXCEPT !.r = tcp_dsack_extend(@, x.seq, x.end)]
        front == SubSeq(r.ofo, 1, p) \o <<s>>
    IN  FoldLeft(Step, [r |-> [r EXCEPT !.ofo = front], stop |-> FALSE],
                 SubSeq(r.ofo, p + 1, Len(r.ofo))).r

\* Among skbs that are there: p is the last that does not start after s.
InsertOfo(r, s) ==
    LET p == Max({0} \cup {i \in DOMAIN r.ofo : r.ofo[i].seq <= s.seq})
        over == p > 0 /\ s.seq < r.ofo[p].end
    IN  CASE over /\ s.end <= r.ofo[p].end -> tcp_dsack_set(r, s.seq, s.end)
          [] over /\ s.end > r.ofo[p].end /\ s.seq > r.ofo[p].seq ->
               InsertSkb(tcp_dsack_set(r, s.seq, r.ofo[p].end), s, p)
          [] over /\ s.end > r.ofo[p].end /\ s.seq = r.ofo[p].seq -> InsertSkb(r, s, p - 1)
          [] OTHER -> InsertSkb(r, s, p)

QueueOfo(r, s) ==
    LET last == r.ofo[Len(r.ofo)]
        appended == [r EXCEPT !.ofo = Append(@, s)]
    IN  CASE r.ofo = <<>> ->
               [appended EXCEPT !.sacks = IF Sack THEN <<[start |-> s.seq, end |-> s.end]>> ELSE @]
          [] r.ofo # <<>> /\ s.seq = last.end ->
               IF r.sacks # <<>> /\ r.sacks[1].end = s.seq
               THEN [appended EXCEPT !.sacks[1].end = s.end]
               ELSE tcp_sack_new_ofo_skb(appended, s.seq, s.end)
          [] OTHER -> tcp_sack_new_ofo_skb(InsertOfo(r, s), s.seq, s.end)

-----------------------------------------------------------------------------
\* Collapsing.  c = [list, k, bug]: the skbs that result, how many allocations
\* still succeed, and whether BUG_ON(offset < 0) was met.

Result(list, k, bug) == [list |-> list, k |-> k, bug |-> bug]

\* Copies [start, end) from the skbs of rest into new ones, which go before rest.
\* n is the new skb being filled, with room for copy bytes more.
RECURSIVE CopyInto(_, _, _, _, _, _)
CopyInto(done, n, copy, rest, end, k) ==
    LET s == Head(rest)
        size == Smaller(copy, s.end - n.end)
        m == IF size > 0 THEN [n EXCEPT !.end = @ + size] ELSE n
        left == IF size > 0 THEN copy - size ELSE copy
        used == m.end >= s.end
        after == IF used THEN Tail(rest) ELSE rest
        room == Smaller(conf.maxcopy, end - m.end)
    IN  CASE n.end < s.seq -> Result(done \o <<n>> \o rest, k, TRUE)
          [] n.end >= s.seq /\ ((used /\ (after = <<>> \/ Head(after).fin))
                               \/ (left = 0 /\ (m.end >= end \/ k = 0))) ->
               Result(done \o <<m>> \o after, k, FALSE)
          [] OTHER ->
               IF left > 0 THEN CopyInto(done, m, left, after, end, k)
               ELSE CopyInto(Append(done, m), [m EXCEPT !.seq = m.end], room, after, end, k - 1)

\* From the i-th skb on: those without new bits go, those with nothing to gain
\* are skipped, and copying starts at the first that is left.
RECURSIVE CollapseFrom(_, _, _, _, _)
CollapseFrom(list, i, start, end, k) ==
    LET s == list[i]
        gain == (~s.fin /\ (s.fat \/ s.seq < start)) \/ (i < Len(list) /\ s.end # list[i + 1].seq)
        fresh == [seq |-> start, end |-> start, fin |-> FALSE, fat |-> FALSE]
    IN  CASE i > Len(list) -> Result(list, k, FALSE)
          [] i <= Len(list) /\ start >= s.end -> CollapseFrom(RemoveAt(list, i), i, start, end, k)
          [] i <= Len(list) /\ start < s.end /\ ~gain -> CollapseFrom(list, i + 1, s.end, end, k)
          [] OTHER -> IF s.fin \/ start >= end \/ k = 0 THEN Result(list, k, FALSE)
                      ELSE CopyInto(SubSeq(list, 1, i - 1), fresh, Smaller(conf.maxcopy, end - start),
                                    SubSeq(list, i, Len(list)), end, k - 1)

\* MUTANT: copying starts a byte late.
CollapseLate(list, start, end, k) == CollapseFrom(list, 1, start + 1, end, k)

tcp_collapse(list, start, end, k) == CollapseFrom(list, 1, start, end, k)

Ends(list) == {list[i].end : i \in DOMAIN list}
Starts(list) == {list[i].seq : i \in DOMAIN list}

\* The runs of skbs without a gap, in the order of the queue.
Runs(list) ==
    LET Step(w, s) ==
            LET g == w[Len(w)]
            IN  IF s.seq > Max(Ends(g)) \/ s.end < Min(Starts(g)) THEN Append(w, <<s>>)
                ELSE [w EXCEPT ![Len(w)] = Append(@, s)]
    IN  FoldLeft(Step, <<<<list[1]>>>>, Tail(list))

CollapseRun(c, g) ==
    LET d == tcp_collapse(g, Min(Starts(g)), Max(Ends(g)), c.k)
    IN  Result(c.list \o d.list, d.k, c.bug \/ d.bug)

tcp_collapse_ofo_queue(list, k) ==
    IF list = <<>> THEN Result(list, k, FALSE)
    ELSE FoldLeft(CollapseRun, Result(<<>>, k, FALSE), Runs(list))

\* Both queues, the out-of-order one first.
CollapseReceive(r, c) ==
    IF r.receive_queue = <<>> THEN Result(<<>>, c.k, c.bug)
    ELSE LET d == tcp_collapse(r.receive_queue, r.copied_seq, r.rcv_nxt, c.k)
         IN  Result(d.list, d.k, c.bug \/ d.bug)

Collapsed(r, c) ==
    LET d == CollapseReceive(r, c)
    IN  Warn([r EXCEPT !.ofo = c.list, !.receive_queue = d.list], "offset", d.bug)

\* MUTANT: the out-of-order queue keeps its memory when collapsing is not enough.
PruneNothing(r) == [ok |-> RmemAlloc(r) <= RcvBuf, r |-> r]

\* TRUE in ok when the caller may go on.
PruneDestructively(r) ==
    LET p == tcp_prune_ofo_queue(r)
    IN  CASE RmemAlloc(r) <= RcvBuf -> [ok |-> TRUE, r |-> r]
          [] RmemAlloc(r) > RcvBuf /\ RmemAlloc(p) <= RcvBuf -> [ok |-> TRUE, r |-> p]
          [] OTHER -> [ok |-> FALSE, r |-> [p EXCEPT !.pred_flags = FALSE]]

tcp_prune_queue(r, k) ==
    PruneDestructively(Collapsed(r, tcp_collapse_ofo_queue(r.ofo, k)))

\* fails: how many of the calls of sk_rmem_schedule refuse, one after the other.
ScheduleAgain(p, fails) ==
    CASE ~p.ok \/ fails < 2 -> p
      [] p.ok /\ fails >= 2 -> [ok |-> fails = 2 /\ p.r.ofo # <<>>, r |-> tcp_prune_ofo_queue(p.r)]

tcp_try_rmem_schedule(r, fails, k) ==
    IF RmemAlloc(r) > RcvBuf \/ fails > 0
    THEN ScheduleAgain(tcp_prune_queue(r, k), IF RmemAlloc(r) > RcvBuf THEN fails + 1 ELSE fails)
    ELSE [ok |-> TRUE, r |-> r]

-----------------------------------------------------------------------------
\* tcp_data_queue.  in says what the rest of the system contributes: how much the
\* reader inside recvmsg takes, refused memory requests, allocations that succeed.

DataLen(s) == SkbLen(s) - (IF s.fin THEN 1 ELSE 0)

Scheduled(r) == [r EXCEPT !.ack = TRUE]

\* After the skb was eaten or queued: rcv_nxt, the FIN, and what it uncovers.
TakeFin(r, s) == IF s.fin THEN tcp_fin(r) ELSE r
TakeOfo(r) == IF r.ofo # <<>> THEN tcp_ofo_queue(r) ELSE r
TakeSacks(r) == IF r.sacks # <<>> THEN tcp_sack_remove(r) ELSE r

Advance(r, s) ==
    tcp_fast_path_check(TakeSacks(TakeOfo(TakeFin(
        Scheduled([r EXCEPT !.rcv_nxt = s.end]), s))))

\* queue_and_out, reached with eaten = -1: there must be memory for the skb.
QueueAndOut(r, s, in) ==
    LET t == tcp_try_rmem_schedule(r, in.fails, in.allocs)
    IN  IF t.ok THEN Advance([t.r EXCEPT !.receive_queue = Append(@, s)], s) ELSE t.r

\* In sequence: a reader that waits at rcv_nxt takes what it can; the skb is
\* queued unless all its bytes were taken.
InSequence(r, s, in) ==
    LET reader == in.ucopy > 0 /\ r.copied_seq = r.rcv_nxt /\ r.urg_data = "none"
        chunk == Smaller(DataLen(s), in.ucopy)
        read == [r EXCEPT !.copied_seq = @ + chunk]
    IN  CASE tcp_receive_window(r) = 0 -> Scheduled(r)
          [] tcp_receive_window(r) > 0 /\ ~reader -> QueueAndOut(r, s, in)
          [] OTHER -> IF chunk = DataLen(s) THEN Advance(read, s)
                      ELSE Advance([read EXCEPT !.receive_queue = Append(@, s)], s)

\* MUTANT: header prediction stays on although there is a hole.
OutOfOrderPredicted(t, s) == IF t.ok THEN QueueOfo(Scheduled(t.r), s) ELSE t.r

OutOfOrder(t, s) ==
    IF t.ok THEN QueueOfo(Scheduled([t.r EXCEPT !.pred_flags = FALSE]), s) ELSE t.r

DataQueue(r, s, in) ==
    LET old == tcp_dsack_set(r, s.seq, r.rcv_nxt)
    IN  CASE s.seq = r.rcv_nxt -> InSequence(r, s, in)
          [] s.seq # r.rcv_nxt /\ s.end <= r.rcv_nxt -> Scheduled(tcp_dsack_set(r, s.seq, s.end))
          [] s.seq # r.rcv_nxt /\ s.end > r.rcv_nxt ->
               CASE s.seq >= r.rcv_nxt + tcp_receive_window(r) -> Scheduled(r)
                 [] s.seq < r.rcv_nxt ->
                      IF tcp_receive_window(r) = 0 THEN Scheduled(old) ELSE QueueAndOut(old, s, in)
                 [] OTHER -> OutOfOrder(tcp_try_rmem_schedule(r, in.fails, in.allocs), s)

tcp_data_queue(r, s, in) == DataQueue([r EXCEPT !.dsack = <<>>], s, in)

-----------------------------------------------------------------------------
\* Urgent data; ptr is the number of the byte the URG pointer names.

\* The byte that was urgent before is taken out of the stream when it is the next
\* to be read.
SkipUrgent(r) ==
    LET h == r.receive_queue[1]
    IN  IF r.urg_seq = r.copied_seq /\ r.urg_data # "none" /\ r.copied_seq # r.rcv_nxt
        THEN [r EXCEPT !.copied_seq = @ + 1,
                       !.receive_queue = IF @ # <<>> /\ r.copied_seq + 1 >= h.end THEN Tail(@) ELSE @]
        ELSE r

tcp_check_urg(r, ptr) ==
    IF r.copied_seq > ptr \/ ptr < r.rcv_nxt \/ (r.urg_data # "none" /\ ptr <= r.urg_seq)
    THEN r
    ELSE [SkipUrgent(r) EXCEPT !.urg_data = "notyet", !.urg_seq = ptr, !.pred_flags = FALSE]

\* Does the urgent byte come with this very segment?
FetchUrgent(r, s) ==
    IF r.urg_data = "notyet" /\ r.urg_seq \in s.seq..(s.seq + DataLen(s) - 1)
    THEN [r EXCEPT !.urg_data = "valid"] ELSE r

tcp_urg(r, s, urg) == FetchUrgent(IF urg = 0 THEN r ELSE tcp_check_urg(r, urg), s)

-----------------------------------------------------------------------------
\* ACKs.  The window never shrinks; announcing none turns header prediction off.

tcp_send_ack(r, w) ==
    LET win == Larger(w, tcp_receive_window(r))
    IN  [r EXCEPT !.rcv_wup = r.rcv_nxt, !.wend = r.rcv_nxt + win, !.ack = FALSE,
                  !.dsack = <<>>, !.pred_flags = @ /\ win > 0]

Acked(r) == {tcp_send_ack(r, w) : w \in Windows}

\* What may be true after the check.  Quick ACK mode and the size of the window
\* decide in ways not modelled; data out of order is acknowledged at once.
AckSndCheck(r, ofo_possible) ==
    IF ofo_possible /\ r.ofo # <<>> THEN Acked(r) ELSE {r} \cup Acked(r)

tcp_ack_snd_check(r) == IF r.ack THEN AckSndCheck(r, TRUE) ELSE {r}

tcp_send_dupack(r, s) ==
    Acked(IF s.seq < r.rcv_nxt THEN tcp_dsack_set(r, s.seq, Smaller(s.end, r.rcv_nxt)) ELSE r)

-----------------------------------------------------------------------------
\* tcp_rcv_established: the records that may result.

tcp_sequence(r, s) == s.end >= r.rcv_wup /\ s.seq <= r.rcv_nxt + tcp_receive_window(r)

Step5(r, s, urg, in) == tcp_ack_snd_check(tcp_data_queue(tcp_urg(r, s, urg), s, in))

tcp_copy_to_iovec(r, s) == [r EXCEPT !.copied_seq = @ + DataLen(s)]

\* Header prediction holds: to the reader, or to the queue if the memory set aside
\* is enough.
FastPath(r, s, in) ==
    LET reader == r.copied_seq = r.rcv_nxt /\ DataLen(s) <= in.ucopy
        next == Scheduled([r EXCEPT !.rcv_nxt = s.end])
    IN  CASE reader -> AckSndCheck(tcp_copy_to_iovec(next, s), FALSE)
          [] ~reader /\ ~in.fwd -> Step5(r, s, 0, in)
          [] ~reader /\ in.fwd ->
               AckSndCheck([next EXCEPT !.receive_queue = Append(@, s)], FALSE)

SlowPath(r, s, urg, in) ==
    IF tcp_sequence(r, s) THEN Step5(r, s, urg, in) ELSE tcp_send_dupack(r, s)

tcp_rcv_established(r, s, urg, in) ==
    IF r.pred_flags /\ ~s.fin /\ urg = 0 /\ s.seq = r.rcv_nxt
    THEN FastPath(r, s, in) ELSE SlowPath(r, s, urg, in)

-----------------------------------------------------------------------------
\* Segments, and the pointer they carry: one that holds an urgent byte says so.

Segments ==
    {s \in Skb : /\ SkbLen(s) \in 1..conf.maxlen
                 /\ s.fin = (s.end = MaxSeq + 1)
                 /\ s.fat \in conf.fats}

UrgPointers(s) ==
    LET inside == Urgents \cap (s.seq..(s.end - 1))
        ahead == {u \in Urgents : u >= s.end}
    IN  IF inside = {} THEN {0} \cup ahead ELSE {Max(inside)} \cup ahead

Inputs == [ucopy : conf.ucopy, fails : conf.fails, allocs : conf.allocs, fwd : BOOLEAN]

Arrive(s, in) ==
    /\ ~rx.done
    /\ \E urg \in UrgPointers(s) : rx' \in tcp_rcv_established(rx, s, urg, in)

RcvSegment == \E s \in Segments, in \in Inputs : Arrive(s, in)

\* The delayed ACK timer, or tcp_cleanup_rbuf after the reader made room.
SendAck ==
    /\ ~rx.done
    /\ rx.ack \/ tcp_receive_window(rx) < Max(Windows)
    /\ rx' \in Acked(rx)

\* tcp_recvmsg takes a byte of the first skb; the FIN goes with the last.
Copied(r) ==
    LET h == r.receive_queue[1]
        last == r.copied_seq + 1 >= h.seq + DataLen(h)
    IN  IF last THEN [r EXCEPT !.copied_seq = h.end, !.receive_queue = Tail(@)]
        ELSE [r EXCEPT !.copied_seq = @ + 1]

PastUrgent(r) ==
    IF r.urg_data # "none" /\ r.copied_seq > r.urg_seq
    THEN tcp_fast_path_check([r EXCEPT !.urg_data = "none"]) ELSE r

Recv ==
    /\ rx.receive_queue # <<>>
    /\ rx' = PastUrgent(Copied(rx))

Next == (RcvSegment \/ SendAck \/ Recv) /\ UNCHANGED conf

Spec == Init /\ [][Next]_vars

-----------------------------------------------------------------------------
\* Properties.

Span(s) == s.seq..(s.end - 1)

OfoBytes(r) == UNION {Span(r.ofo[i]) : i \in DOMAIN r.ofo}

Block == [start : 1..MaxSeq, end : 2..(MaxSeq + 1)]

\* The types of the fields; the SACK array has room for TCP_NUM_SACKS blocks.
TypeOK ==
    /\ rx.rcv_nxt \in 1..(MaxSeq + 1) /\ rx.copied_seq \in 1..rx.rcv_nxt
    /\ rx.rcv_wup \in 1..rx.rcv_nxt /\ rx.wend \in Nat
    /\ Range(rx.receive_queue) \subseteq Skb /\ Range(rx.ofo) \subseteq Skb
    /\ Range(rx.sacks) \subseteq Block /\ Len(rx.sacks) <= NumSacks
    /\ Range(rx.dsack) \subseteq Block /\ Len(rx.dsack) <= 1
    /\ rx.urg_data \in {"none", "notyet", "valid"} /\ rx.urg_seq \in {0} \cup Urgents
    /\ {rx.pred_flags, rx.ack, rx.done} \subseteq BOOLEAN
    /\ rx.warned \subseteq {"sack", "offset"}

\* The receive queue holds every byte from copied_seq up to rcv_nxt, and each skb
\* of it starts no later than the reader will be when the skb comes to the head
\* and still has something for them: tcp_recvmsg never meets a hole ("recvmsg
\* bug") nor a used-up skb ("recvmsg bug 2").
StreamWhole ==
    LET q == rx.receive_queue
        Reader(i) == IF i = 1 THEN rx.copied_seq ELSE q[i - 1].end
    IN  /\ TypeOK
        /\ \A b \in rx.copied_seq..(rx.rcv_nxt - 1) :
               b = MaxSeq \/ \E i \in DOMAIN q : b \in Span(q[i])
        /\ \A i \in DOMAIN q : q[i].seq <= Reader(i) /\ Reader(i) < q[i].end
        /\ q # <<>> => q[Len(q)].end = rx.rcv_nxt

\* WARN_ON of tcp_sack_remove ("RCV.NXT must cover all the block!") and
\* BUG_ON(offset < 0) of tcp_collapse never fire, however segments overlap.
NoWarnings == rx.warned = {}

\* Every byte reported by a SACK block is in the out-of-order queue, no block
\* reaches rcv_nxt, and no two blocks touch: the peer may drop nothing it is told
\* of, unless the queue is purged and the blocks with it.
SackTruthful ==
    /\ \A i \in DOMAIN rx.sacks : LET b == rx.sacks[i] IN
           /\ rx.rcv_nxt < b.start /\ b.start < b.end
           /\ b.start..(b.end - 1) \subseteq OfoBytes(rx)
    /\ \A i, j \in DOMAIN rx.sacks :
           i # j => ~Touches(rx.sacks[i], rx.sacks[j].start, rx.sacks[j].end)

\* A D-SACK names only bytes that are here, below rcv_nxt or out of order.
DsackTruthful ==
    \A i \in DOMAIN rx.dsack :
        rx.dsack[i].start..(rx.dsack[i].end - 1) \subseteq (1..(rx.rcv_nxt - 1)) \cup OfoBytes(rx)

\* What the peer is told is true, by SACK and by D-SACK, and neither WARN_ON of
\* tcp_sack_remove nor BUG_ON of tcp_collapse fires.
ReportsTruthful == SackTruthful /\ DsackTruthful /\ NoWarnings

\* Header prediction is off while there is a hole, an urgent byte is awaited, or no
\* window was announced: the three conditions that tcp_rcv_established leaves to
\* "proper pred_flags setting".
FastPathSafe ==
    rx.pred_flags => rx.ofo = <<>> /\ rx.urg_data = "none" /\ rx.wend > rx.rcv_wup

\* Once the urgent byte is in the stream it has been fetched: TCP_URG_NOTYET is
\* never left behind by a peer that sets URG on what holds the byte.
UrgentSeen == rx.urg_data = "notyet" => rx.rcv_nxt <= rx.urg_seq

\* While there is a hole no ACK is outstanding: each segment that made or kept the
\* hole was acknowledged when it came, which is what fast retransmit counts.
HoleReported == rx.ofo # <<>> => ~rx.ack

\* What tcp_rcv_established takes for granted about the handlers that ran before: the
\* fast path is off when it must be, an urgent byte was not passed over, and a hole
\* has been reported.
FastPathRight == FastPathSafe /\ UrgentSeen /\ HoleReported

Got(r) == (1..(r.rcv_nxt - 1)) \cup OfoBytes(r)

\* A byte that came is forgotten only for want of memory, and then the whole
\* out-of-order queue is: neither inserting, nor collapsing, nor moving skbs over to
\* the receive queue loses one.  (At most the segment at hand is in the queue then.)
NothingLost ==
    [][\/ Got(rx) \subseteq Got(rx')
       \/ (RmemAlloc(rx) > RcvBuf \/ conf.fails # {0}) /\ Len(rx'.ofo) <= 1]_rx

-----------------------------------------------------------------------------
\* The peer sends again what is missing at rcv_nxt until it is acknowledged, memory
\* requests do not fail for ever, the reader reads, and a window is announced when
\* there is none.

Missing(r) == [seq |-> r.rcv_nxt, end |-> r.rcv_nxt + 1, fin |-> r.rcv_nxt = MaxSeq, fat |-> FALSE]

Plain == [ucopy |-> 0, fails |-> 0, allocs |-> 0, fwd |-> FALSE]

ArriveNext == Arrive(Missing(rx), Plain)

OpenWindow ==
    /\ ~rx.done /\ tcp_receive_window(rx) = 0
    /\ \E w \in Windows \ {0} : rx' = tcp_send_ack(rx, w)

\* Weak fairness of ArriveNext, with its enabling condition written out: the segment
\* that is sent again and again changes something unless it is dropped.
NextComes ==
    \/ []<>(rx.done \/ tcp_rcv_established(rx, Missing(rx), 0, Plain) = {rx})
    \/ []<><<ArriveNext>>_rx

FairSpec == Spec /\ NextComes /\ WF_rx(OpenWindow) /\ WF_rx(Recv)

\* Everything the peer sends reaches the reader: a receive buffer filled with data
\* out of order never keeps out the segment that would release it.
Progress == <>(rx.copied_seq >= MaxSeq)
=============================================================================
