---------------------------- MODULE LossRecovery ----------------------------
(***************************************************************************)
(* The sending half of an established connection: the scoreboard that      *)
(* tcp_ack keeps of the retransmission queue.  SACK and D-SACK tagging,    *)
(* the Open / Disorder / CWR / Recovery / Loss machine of                  *)
(* tcp_fastretrans_alert, its undo procedures, Reno's emulation of SACK    *)
(* and F-RTO.  Sequence numbers count segments and every skb is one        *)
(* segment (no GSO); the congestion window decides only how much is sent,  *)
(* so sending and retransmitting take any amount it could allow.           *)
(*                                                                         *)
(* A handler runs to completion under the socket lock, through many        *)
(* procedures that update tcp_sock one after the other.  The socket is     *)
(* one record, tp, and each procedure an operator from record to record.   *)
(***************************************************************************)
EXTENDS Integers, FiniteSets, Sequences, FiniteSetsExt, SequencesExt

CONSTANTS
    SysctlReordering,\* sysctl_tcp_reordering
    MaxReordering,   \* TCP_MAX_REORDERING
    MaxUndo,         \* bound on undo_retrans
    MaxBlocks,       \* SACK blocks in one ACK
    Confs            \* the connections and peers to look at

\*   maxseq    segments 1..maxseq are sent at most
\*   sack_ok   "reno", "sack" or "fack": what the handshake left
\*   frto      sysctl_tcp_frto: 0, 1 or 2
\*   response  sysctl_tcp_frto_response: 0, 1 or 2
\*   dsacks    whether the receiver sends D-SACKs
\*   slow      whether a segment may stay out for longer than an RTO
\*   ece       the values of the ECN echo in an ACK
\*   news      whether an ACK carries data or a new window
ASSUME RecoveryConstants ==
    /\ SysctlReordering \in Nat \ {0} /\ {MaxReordering, MaxUndo, MaxBlocks} \subseteq Nat
    /\ \A c \in Confs :
        /\ c.maxseq \in Nat \ {0} /\ c.sack_ok \in {"reno", "sack", "fack"}
        /\ {c.frto, c.response} \subseteq 0..2 /\ {c.dsacks, c.slow} \subseteq BOOLEAN
        /\ c.ece \subseteq BOOLEAN /\ c.news \subseteq BOOLEAN

VARIABLES
    conf,            \* the connection looked at: chosen first, then fixed
    tp               \* the tcp_sock

vars == <<conf, tp>>

MaxSeq == conf.maxseq
SysctlFrto == conf.frto
FrtoResponse == conf.response

\* icsk_ca_state, in the order the code compares.
Open == 0
Disorder == 1
CWR == 2
Recovery == 3
Loss == 4

\* A pointer to an skb is its sequence number, and 0 when it is NULL.
NULL == 0

Init ==
    /\ conf \in Confs
    /\ tp = [snd_una |-> 1, snd_nxt |-> 1, head |-> 1,
             sacked |-> [q \in 1..MaxSeq |-> {}], ack_seq |-> [q \in 1..MaxSeq |-> 0],
             packets_out |-> 0, sacked_out |-> 0, lost_out |-> 0, retrans_out |-> 0,
             fackets_out |-> 0, ca_state |-> Open, sack_ok |-> conf.sack_ok,
             reordering |-> SysctlReordering, high_seq |-> 1,
             undo_marker |-> 0, undo_retrans |-> 0, retrans_stamp |-> FALSE,
             frto_counter |-> 0, frto_highmark |-> 0, highest_sack |-> 1,
             lost_skb_hint |-> NULL, lost_cnt_hint |-> 0, scoreboard_skb_hint |-> NULL,
             lost_retrans_low |-> 0, recv_sack_cache |-> <<>>, warned |-> {}]

-----------------------------------------------------------------------------
\* Reading the queue.  Tags: "S" SACKED_ACKED, "R" SACKED_RETRANS, "L" LOST,
\* "E" EVER_RETRANS.
AllTags == {"S", "R", "L", "E"}

\* The skbs that have been sent; head is the first one still linked.
Queue(t) == t.head .. t.snd_nxt - 1

Tagged(t, tag) == {q \in Queue(t) : tag \in t.sacked[q]}

Retrans(t, q) == t.sacked[q] \cap {"R", "E"} # {}

IsReno(t) == t.sack_ok = "reno"
IsFack(t) == t.sack_ok = "fack"

Smaller(a, b) == IF a < b THEN a ELSE b

tcp_highest_sack_seq(t) == IF t.sacked_out = 0 THEN t.snd_una ELSE t.highest_sack

tcp_fackets_out(t) == IF IsReno(t) THEN t.sacked_out + 1 ELSE t.fackets_out

tcp_dupack_heuristics(t) == IF IsFack(t) THEN t.fackets_out ELSE t.sacked_out + 1

\* A WARN_ON that fires is remembered.
Warn(t, site, cond) == IF cond THEN [t EXCEPT !.warned = @ \cup {site}] ELSE t

tcp_verify_left_out(t) == Warn(t, "left_out", t.sacked_out + t.lost_out > t.packets_out)

-----------------------------------------------------------------------------
\* Hints, reordering and marking.

tcp_clear_all_retrans_hints(t) ==
    [t EXCEPT !.lost_skb_hint = NULL, !.lost_cnt_hint = 0, !.scoreboard_skb_hint = NULL]

\* tcp_disable_fack with it: the two metrics count differently, so the hint goes.
tcp_update_reordering(t, metric) ==
    IF metric <= t.reordering THEN t
    ELSE [t EXCEPT !.reordering = Smaller(MaxReordering, metric),
                   !.sack_ok = IF IsFack(t) THEN "sack" ELSE @,
                   !.lost_skb_hint = IF IsFack(t) THEN NULL ELSE @]

tcp_skb_mark_lost(t, q) ==
    IF t.sacked[q] \cap {"L", "S"} # {} THEN t
    ELSE [t EXCEPT !.lost_out = @ + 1, !.sacked[q] = @ \cup {"L"}]

\* The skbs in Q lose the tags in off and take those in on.
Retag(t, Q, off, on) ==
    [t EXCEPT !.sacked = [q \in 1..MaxSeq |-> IF q \in Q THEN (@[q] \ off) \cup on ELSE @[q]]]

\* Walks from the hint, or the head, and stops for good once w.go is FALSE.
tcp_mark_head_lost(t, packets, mark_head) ==
    LET from == IF t.lost_skb_hint = NULL THEN t.head ELSE t.lost_skb_hint
        cnt0 == IF t.lost_skb_hint = NULL THEN 0 ELSE t.lost_cnt_hint
        Step(w, q) ==
            LET t1 == [w.t EXCEPT !.lost_skb_hint = q, !.lost_cnt_hint = w.cnt]
                counts == IsFack(t) \/ IsReno(t) \/ "S" \in t.sacked[q]
                cnt == IF counts THEN w.cnt + 1 ELSE w.cnt
            IN  CASE ~w.go -> w
                  [] w.go /\ (q + 1 > t.high_seq \/ cnt > packets) -> [w EXCEPT !.t = t1, !.go = FALSE]
                  [] OTHER -> [t |-> tcp_skb_mark_lost(t1, q), cnt |-> cnt, go |-> ~mark_head]
        walked == FoldLeft(Step, [t |-> t, cnt |-> cnt0, go |-> TRUE],
                           [i \in 1..(t.snd_nxt - from) |-> from + i - 1])
        warned == Warn(t, "packets", packets > t.packets_out)
    IN  IF t.lost_skb_hint # NULL /\ mark_head /\ from # t.head
        THEN warned
        ELSE tcp_verify_left_out([walked.t EXCEPT !.warned = @ \cup warned.warned])

\* What a handler reads besides tcp_sock and the segment: the clock, the
\* timestamp the peer echoed, and the data that is still to be sent.
\*   old      the skbs below it were sent more than an RTO ago
\*   delayed  the echoed timestamp is older than the first retransmission
\*   send     there is unsent data (tcp_send_head) and it may go out

tcp_head_timedout(t, in) == t.packets_out > 0 /\ t.head < in.old

\* A walk off the end of the list leaves the hint on the list head itself.
ListHead == MaxSeq + 1

tcp_timeout_skbs(t, in) ==
    LET from == IF t.scoreboard_skb_hint = NULL THEN t.head ELSE t.scoreboard_skb_hint
        late == {q \in Queue(t) : from <= q /\ q < in.old}
        lost == {q \in late : t.sacked[q] \cap {"L", "S"} = {}}
        stop == Max({from} \cup {q + 1 : q \in late})
    IN  IF ~IsFack(t) \/ ~tcp_head_timedout(t, in) THEN t
        ELSE tcp_verify_left_out(
                [Retag(t, lost, {}, {"L"}) EXCEPT
                    !.lost_out = @ + Cardinality(lost),
                    !.scoreboard_skb_hint =
                        IF stop = t.snd_nxt /\ ~in.send THEN ListHead ELSE stop])

tcp_update_scoreboard(t, fast_rexmit, in) ==
    LET t1 == CASE IsReno(t) -> tcp_mark_head_lost(t, 1, TRUE)
                [] IsFack(t) ->
                     tcp_mark_head_lost(t, Max({1, t.fackets_out - t.reordering}), FALSE)
                [] OTHER ->
                     IF t.sacked_out >= t.reordering
                     THEN tcp_mark_head_lost(t, t.sacked_out - t.reordering, FALSE)
                     ELSE IF fast_rexmit THEN tcp_mark_head_lost(t, 1, TRUE) ELSE t
    IN  tcp_timeout_skbs(t1, in)

-----------------------------------------------------------------------------
\* SACK tagging.  A walk carries s: the socket (t), the skb it is at, the
\* number of segments before that (fack), the lowest reordered one (reord)
\* and the flags it raises.

\* A block is never longer than the largest window, so the last test of the
\* D-SACK branch always succeeds.
tcp_is_sackblock_valid(t, dup, b) ==
    /\ b.end <= t.snd_nxt /\ b.start < b.end
    /\ \/ b.start > t.snd_una
       \/ dup /\ t.undo_marker # 0 /\ b.end <= t.snd_una /\ b.end > t.undo_marker

IsDsack(a) ==
    \/ a.blocks[1].start < a.ack
    \/ /\ Len(a.blocks) > 1
       /\ a.blocks[1].end <= a.blocks[2].end /\ a.blocks[1].start >= a.blocks[2].start

\* A D-SACK for data already forgotten is counted as one retransmission.
tcp_check_dsack(t, a, prior_una) ==
    IF IsDsack(a) /\ t.undo_marker # 0 /\ t.undo_retrans > 0
       /\ a.blocks[1].end <= prior_una /\ a.blocks[1].end > t.undo_marker
    THEN [t EXCEPT !.undo_retrans = @ - 1] ELSE t

\* The SACKED tag arrives: L and L|R become S, R becomes S|R.
NewlySacked(s, q) ==
    LET t == s.t
        tags == t.sacked[q]
        plainR == "R" \in tags /\ "L" \notin tags
        reordered == ~Retrans(t, q) /\ q < tcp_highest_sack_seq(t)
    IN  [s EXCEPT
          !.t = [t EXCEPT
            !.sacked[q] = (IF plainR THEN @ ELSE @ \ {"L", "R"}) \cup {"S"},
            !.ack_seq[q] = IF plainR THEN @ ELSE 0,
            !.lost_out = IF "L" \in tags THEN @ - 1 ELSE @,
            !.retrans_out = IF {"L", "R"} \subseteq tags THEN @ - 1 ELSE @,
            !.sacked_out = @ + 1,
            !.lost_cnt_hint = IF ~IsFack(t) /\ t.lost_skb_hint # NULL /\ q < t.lost_skb_hint
                              THEN @ + 1 ELSE @,
            !.fackets_out = Max({@, s.fack + 1})],
          !.reord = IF reordered THEN Smaller(s.fack, @) ELSE @,
          !.flags = @ \cup {"DATA_SACKED"} \cup
                    (IF ~Retrans(t, q) /\ q + 1 <= t.frto_highmark THEN {"ONLY_ORIG_SACKED"} ELSE {})]

\* MUTANT: the tag goes, the count stays.
ClearRetransTag(t, q) == [t EXCEPT !.sacked[q] = @ \ {"R"}, !.ack_seq[q] = 0]

\* D-SACK: a redundant retransmission has left the network.
ClearRetrans(t, q) ==
    IF "R" \notin t.sacked[q] THEN t
    ELSE [t EXCEPT !.sacked[q] = @ \ {"R"}, !.ack_seq[q] = 0, !.retrans_out = @ - 1]

\* The rest of tcp_sacktag_one, once the D-SACK is accounted for.
SacktagTags(s, q, dup) ==
    IF q + 1 <= s.t.snd_una \/ ("S" \in s.t.sacked[q] /\ ~dup) THEN s
    ELSE LET s1 == IF "S" \in s.t.sacked[q] THEN s ELSE NewlySacked(s, q)
         IN  [s1 EXCEPT !.t = IF dup THEN ClearRetrans(@, q) ELSE @]

tcp_sacktag_one(s, q, dup) ==
    LET t == s.t
        redundant == dup /\ Retrans(t, q)
        counted == redundant /\ t.undo_marker # 0 /\ t.undo_retrans > 0 /\ q + 1 > t.undo_marker
    IN  SacktagTags([s EXCEPT !.t.undo_retrans = IF counted THEN @ - 1 ELSE @,
                              !.reord = IF redundant /\ "S" \in t.sacked[q] THEN Smaller(s.fack, @) ELSE @],
                    q, dup)

InBlock(q, b) == b.start <= q /\ q < b.end

\* tcp_advance_highest_sack, and on to the next skb.
WalkOn(s, q, in_sack) ==
    [s EXCEPT !.t.highest_sack = IF in_sack /\ q >= tcp_highest_sack_seq(s.t) THEN q + 1 ELSE @,
              !.fack = @ + 1]

\* next: the D-SACK block that follows, as a sequence of at most one block.
tcp_sacktag_walk(s, next, b, dup_in) ==
    LET stop == Max({s.at, Smaller(b.end, s.t.snd_nxt)})
        Step(w, q) ==
            LET inNext == next # <<>> /\ InBlock(q, next[1])
                in_sack == inNext \/ InBlock(q, b)
            IN  WalkOn(IF in_sack THEN tcp_sacktag_one(w, q, dup_in \/ inNext) ELSE w, q, in_sack)
    IN  [FoldLeft(Step, s, [i \in 1..(stop - s.at) |-> s.at + i - 1]) EXCEPT !.at = stop]

tcp_sacktag_skip(s, seq) ==
    LET stop == Max({s.at, Smaller(seq, s.t.snd_nxt)})
    IN  [s EXCEPT !.at = stop, !.fack = @ + (stop - s.at)]

tcp_maybe_skipping_dsack(s, next, seq) ==
    IF next = <<>> THEN s
    ELSE IF next[1].start >= seq THEN s
    ELSE tcp_sacktag_walk(tcp_sacktag_skip(s, next[1].start), <<>>, next[1], TRUE)

\* The entry point beyond everything SACKed so far.
FromHighest(s) == [s EXCEPT !.at = s.t.highest_sack, !.fack = s.t.fackets_out]

\* The end of a round: on to the next block, and to cached block c.
AdvanceSp(s, b, i, c) ==
    [s |-> [s EXCEPT !.flags = IF b.end > s.t.frto_highmark THEN @ \ {"ONLY_ORIG_SACKED"} ELSE @],
     i |-> i + 1, c |-> c]

\* The tail of block b lies beyond cached block c, whose end is end.
BeyondCache(s, b, i, c, next, end) ==
    IF tcp_highest_sack_seq(s.t) = end
    THEN AdvanceSp(tcp_sacktag_walk(FromHighest(s), next, b, FALSE), b, i, c + 1)
    ELSE [s |-> tcp_sacktag_skip(s, end), i |-> i, c |-> c + 1]

\* One round of the loop over the sorted blocks; w.c indexes recv_sack_cache.
SackRound(w, sp, cache, dsack) ==
    LET b == sp[w.i]
        dup == w.i = dsack
        next == IF w.i + 1 = dsack THEN <<sp[w.i + 1]>> ELSE <<>>
        s == [w.s EXCEPT !.flags = @ \cup (IF b.end > w.s.t.high_seq THEN {"DATA_LOST"} ELSE {})]
        c == Min({n \in w.c .. Len(cache) + 1 : n > Len(cache) \/ b.start < cache[n].end})
        hit == c <= Len(cache) /\ ~dup /\ b.end > cache[c].start
        todo == IF b.start < cache[c].start
                THEN tcp_sacktag_walk(tcp_sacktag_skip(s, b.start), next,
                                      [start |-> b.start, end |-> cache[c].start], dup)
                ELSE s
        entry == tcp_sacktag_skip(IF b.start >= tcp_highest_sack_seq(s.t) THEN FromHighest(s) ELSE s, b.start)
    IN  CASE ~hit -> AdvanceSp(tcp_sacktag_walk(entry, next, b, dup), b, w.i, c)
          [] hit /\ b.end <= cache[c].end -> AdvanceSp(todo, b, w.i, c)
          [] OTHER -> BeyondCache(tcp_maybe_skipping_dsack(todo, next, cache[c].end),
                                  b, w.i, c, next, cache[c].end)

RECURSIVE SackRounds(_, _, _, _)
SackRounds(w, sp, cache, dsack) ==
    IF w.i > Len(sp) THEN w.s ELSE SackRounds(SackRound(w, sp, cache, dsack), sp, cache, dsack)

\* Event "C": a retransmission sent before what is now known to have arrived.
tcp_mark_lost_retrans(t) ==
    LET upto == tcp_highest_sack_seq(t)
        held == {q \in Tagged(t, "R") : q + 1 > t.snd_una}
        again == {q \in held : upto > t.ack_seq[q]}
        fresh == {q \in again : t.sacked[q] \cap {"L", "S"} = {}}
        t1 == [Retag(Retag(t, again, {"R"}, {}), fresh, {}, {"L"}) EXCEPT
                 !.ack_seq = [q \in 1..MaxSeq |-> IF q \in again THEN 0 ELSE @[q]],
                 !.retrans_out = @ - Cardinality(again), !.lost_out = @ + Cardinality(fresh)]
    IN  IF ~IsFack(t) \/ t.retrans_out = 0 \/ upto <= t.lost_retrans_low \/ t.ca_state # Recovery
        THEN t
        ELSE IF t1.retrans_out = 0 THEN t1
        ELSE [t1 EXCEPT !.lost_retrans_low = Min({t.snd_nxt} \cup {t.ack_seq[q] : q \in held \ again})]

\* The blocks that are used, in wire order.
Used(t, a, prior_una) ==
    SelectSeq([i \in 1..Len(a.blocks) |-> [n |-> i, b |-> a.blocks[i]]],
              LAMBDA e : /\ tcp_is_sackblock_valid(t, e.n = 1 /\ IsDsack(a), e.b)
                         /\ e.b.end > prior_una)

\* first_sack_index: -1 once the first block is found invalid; a first block
\* that is merely old leaves it at 0, which is then another block's place.
FirstIndex(t, a, used) ==
    IF used = <<>> \/ ~IsDsack(a) \/ ~tcp_is_sackblock_valid(t, TRUE, a.blocks[1]) THEN 0
    ELSE 1 + Cardinality({i \in 2..Len(used) : used[i].b.start < used[1].b.start})

\* Nothing SACKed: the highest SACK starts over.
tcp_highest_sack_reset(t) ==
    IF t.sacked_out > 0 THEN t
    ELSE [Warn(t, "fackets", t.fackets_out > 0) EXCEPT !.fackets_out = 0, !.highest_sack = t.head]

SackReordering(t, reord) ==
    IF /\ reord < t.fackets_out
       /\ t.ca_state # Loss \/ t.undo_marker # 0
       /\ t.frto_highmark = 0 \/ t.snd_una > t.frto_highmark
    THEN tcp_update_reordering(t, t.fackets_out - reord) ELSE t

\* After the walk: sp is the next ACK's cache.
SackDone(s, sp) ==
    [t |-> SackReordering(tcp_verify_left_out(tcp_mark_lost_retrans([s.t EXCEPT !.recv_sack_cache = sp])), s.reord),
     flags |-> s.flags]

\* The order in which the queue is walked.
BySeq(used) ==
    SortSeq(used, LAMBDA x, y : x.b.start < y.b.start \/ (x.b.start = y.b.start /\ x.n < y.n))

SackWalk(t, a, used) ==
    LET sp == [i \in 1..Len(used) |-> BySeq(used)[i].b]
        found == IF IsDsack(a) THEN {"DSACKING_ACK"} ELSE {}
        cache == t.recv_sack_cache
        start == [t |-> t, at |-> t.head, fack |-> 0, reord |-> t.packets_out, flags |-> found]
    IN  IF t.packets_out = 0 THEN [t |-> t, flags |-> found]
        ELSE SackDone(SackRounds([s |-> start, i |-> 1, c |-> IF t.sacked_out = 0 THEN Len(cache) + 1 ELSE 1],
                                 sp, cache, FirstIndex(t, a, used)), sp)

\* Returns the socket and the flags.
tcp_sacktag_write_queue(t0, a, prior_una) ==
    LET t == tcp_check_dsack(tcp_highest_sack_reset(t0), a, prior_una)
    IN  SackWalk(t, a, Used(t, a, prior_una))

-----------------------------------------------------------------------------
\* Reno's emulation of SACK: sacked_out counts duplicate ACKs.

\* The socket, and whether sacked_out had to be cut.
tcp_limit_reno_sacked(t) ==
    LET holes == Smaller(Max({t.lost_out, 1}), t.packets_out)
        over == t.sacked_out + holes > t.packets_out
    IN  [t |-> IF over THEN [t EXCEPT !.sacked_out = t.packets_out - holes] ELSE t, cut |-> over]

tcp_check_reno_reordering(t, addend) ==
    LET r == tcp_limit_reno_sacked(t)
    IN  IF r.cut THEN tcp_update_reordering(r.t, r.t.packets_out + addend) ELSE r.t

tcp_add_reno_sack(t) ==
    tcp_verify_left_out(tcp_check_reno_reordering([t EXCEPT !.sacked_out = @ + 1], 0))

tcp_remove_reno_sacks(t, acked) ==
    tcp_verify_left_out(tcp_check_reno_reordering(
        [t EXCEPT !.sacked_out = Max({0, @ - (acked - 1)})], acked))

tcp_reset_reno_sack(t) == [t EXCEPT !.sacked_out = 0]

-----------------------------------------------------------------------------
\* Timeouts.

tcp_is_sackfrto(t) == SysctlFrto = 2 /\ ~IsReno(t)

\* Nothing but the head was ever retransmitted, as far as the first skb after
\* it that is not SACKed.
tcp_use_frto(t) ==
    /\ SysctlFrto # 0
    /\ \/ tcp_is_sackfrto(t)
       \/ /\ t.retrans_out <= 1
          /\ \A q \in Queue(t) \ {t.head} :
                (\A p \in Queue(t) \ {t.head} : p < q => "S" \in t.sacked[p]) => ~Retrans(t, q)

tcp_enter_frto(t) ==
    LET t1 == [t EXCEPT !.undo_marker = IF Retrans(t, t.head) THEN 0 ELSE t.snd_una,
                        !.undo_retrans = 0]
        t2 == tcp_verify_left_out(ClearRetrans(t1, t.head))
        earlier == /\ tcp_is_sackfrto(t)
                   /\ t.frto_counter # 0 \/ t.ca_state \in {Recovery, Loss}
                   /\ t.high_seq > t.snd_una
    IN  [t2 EXCEPT !.frto_highmark = IF earlier THEN t.high_seq ELSE t.snd_nxt,
                   !.ca_state = Disorder, !.high_seq = t.snd_nxt, !.frto_counter = 1]

\* MUTANT: what was SACKed is marked lost as well, in place of the SACK.
FrtoLossForgets(t, flags) ==
    [Retag(t, Queue(t), AllTags, {"L"}) EXCEPT
        !.lost_out = t.packets_out, !.retrans_out = 0, !.frto_counter = 0,
        !.ca_state = Loss, !.high_seq = t.snd_nxt]

\* The retransmission made on the RTO is counted only while its first ACK is
\* awaited; everything that is not SACKed is lost.
tcp_enter_frto_loss(t, flags) ==
    LET kept == IF t.frto_counter = 1 /\ "DATA_ACKED" \notin flags THEN {t.head} \cap Queue(t) ELSE {}
        lost == {q \in Queue(t) : "S" \notin t.sacked[q]}
        t1 == Retag(t, Queue(t), {"L"}, {})
        t2 == Retag(t1, Queue(t) \ kept, {"R"}, {})
        t3 == Retag(t2, lost, {}, {"L"})
        t4 == [t3 EXCEPT
                !.ack_seq = [q \in 1..MaxSeq |-> IF q \in kept THEN @[q] ELSE 0],
                !.undo_marker = IF \E q \in Queue(t) \ kept : Retrans(t, q) THEN 0 ELSE @,
                !.lost_out = Cardinality(lost),
                !.retrans_out = Cardinality({q \in kept : "R" \in t.sacked[q]}),
                !.sacked_out = IF IsReno(t) THEN 0 ELSE @,
                !.frto_counter = 0,
                !.reordering = Smaller(@, SysctlReordering),
                !.ca_state = Loss, !.high_seq = t.snd_nxt]
    IN  tcp_clear_all_retrans_hints(tcp_verify_left_out(t4))

\* MUTANT: the tags are cleared but sacked_out is kept.
LossKeepsSacked(t, how) ==
    LET lost == {q \in Queue(t) : how \/ "S" \notin t.sacked[q]}
    IN  tcp_clear_all_retrans_hints(
            [Retag(t, lost, AllTags, {"L"}) EXCEPT
                !.ack_seq = [q \in 1..MaxSeq |-> 0], !.retrans_out = 0, !.lost_out = Cardinality(lost),
                !.undo_retrans = 0, !.undo_marker = 0, !.ca_state = Loss, !.high_seq = t.snd_nxt,
                !.frto_counter = 0])

\* how: forget the SACKs as well.
tcp_enter_loss(t, how) ==
    LET lost == {q \in Queue(t) : how \/ "S" \notin t.sacked[q]}
        t1 == Retag(t, Queue(t), {"L", "R"}, {})
        t2 == Retag(t1, lost, {"S"}, {"L"})
        t3 == [t2 EXCEPT
                !.ack_seq = [q \in 1..MaxSeq |-> 0],
                !.retrans_out = 0, !.lost_out = Cardinality(lost), !.undo_retrans = 0,
                !.undo_marker = IF how \/ \E q \in Queue(t) : Retrans(t, q) THEN 0 ELSE t.snd_una,
                !.sacked_out = IF how \/ IsReno(t) THEN 0 ELSE @,
                !.fackets_out = IF how THEN 0 ELSE @,
                !.reordering = Smaller(@, SysctlReordering),
                !.ca_state = Loss, !.high_seq = t.snd_nxt, !.frto_counter = 0]
    IN  tcp_clear_all_retrans_hints(tcp_verify_left_out(t3))

-----------------------------------------------------------------------------
\* Undo and state exits.

tcp_may_undo(t, in) ==
    t.undo_marker # 0 /\ (t.undo_retrans = 0 \/ ~t.retrans_stamp \/ in.delayed)

\* done: Reno holds its state until something above high_seq is ACKed.
tcp_try_undo_recovery(t, in) ==
    LET t1 == IF tcp_may_undo(t, in) THEN [t EXCEPT !.undo_marker = 0] ELSE t
    IN  IF t.snd_una = t.high_seq /\ IsReno(t) THEN [t |-> t1, done |-> TRUE]
        ELSE [t |-> [t1 EXCEPT !.ca_state = Open], done |-> FALSE]

tcp_try_undo_dsack(t) ==
    IF t.undo_marker # 0 /\ t.undo_retrans = 0 THEN [t EXCEPT !.undo_marker = 0] ELSE t

tcp_any_retrans_done(t) ==
    t.retrans_out > 0 \/ (Queue(t) # {} /\ "E" \in t.sacked[t.head])

\* failed: Hoe's retransmit is still wanted.
tcp_try_undo_partial(t, acked, in) ==
    IF tcp_may_undo(t, in)
    THEN [t |-> tcp_update_reordering(
                    [t EXCEPT !.retrans_stamp = @ /\ tcp_any_retrans_done(t)],
                    tcp_fackets_out(t) + acked),
          failed |-> FALSE]
    ELSE [t |-> t, failed |-> IsReno(t) \/ tcp_fackets_out(t) > t.reordering]

tcp_try_undo_loss(t, in) ==
    IF ~tcp_may_undo(t, in) THEN [t |-> t, undone |-> FALSE]
    ELSE [t |-> [tcp_clear_all_retrans_hints(Retag(t, Queue(t), {"L"}, {})) EXCEPT
                   !.lost_out = 0, !.undo_marker = 0,
                   !.ca_state = IF IsReno(t) THEN @ ELSE Open],
          undone |-> TRUE]

tcp_try_keep_open(t) ==
    LET state == IF t.sacked_out + t.lost_out > 0 \/ tcp_any_retrans_done(t) \/ t.undo_marker # 0
                 THEN Disorder ELSE Open
    IN  IF t.ca_state = state THEN t ELSE [t EXCEPT !.ca_state = state, !.high_seq = t.snd_nxt]

tcp_enter_cwr(t) ==
    IF t.ca_state >= CWR THEN t
    ELSE [t EXCEPT !.undo_marker = 0, !.high_seq = t.snd_nxt, !.ca_state = CWR]

tcp_try_to_open(t, flags) ==
    LET t1 == [tcp_verify_left_out(t) EXCEPT
                 !.retrans_stamp = @ /\ (t.frto_counter # 0 \/ tcp_any_retrans_done(t))]
        t2 == IF "ECE" \in flags THEN tcp_enter_cwr(t1) ELSE t1
    IN  IF t2.ca_state # CWR THEN tcp_try_keep_open(t2) ELSE t2

-----------------------------------------------------------------------------
\* tcp_fastretrans_alert.  Its result says what is to be retransmitted last:
\* nothing, the head, or what tcp_xmit_retransmit_queue picks.

NotDup == {"DATA", "WIN_UPDATE", "DATA_ACKED"}

\* MUTANT: no exit from Recovery, Loss or CWR.
ExitNever(t, in) == [t |-> t, done |-> FALSE]

\* E. State exit: done when the function returns here.
ExitState(t, in) ==
    LET hold == t.snd_una = t.high_seq
        dsack == tcp_try_undo_dsack(t)
    IN  CASE t.ca_state = Open ->
               [t |-> [Warn(t, "open_retrans", t.retrans_out # 0) EXCEPT !.retrans_stamp = FALSE], done |-> FALSE]
          [] t.ca_state # Open /\ t.snd_una < t.high_seq -> [t |-> t, done |-> FALSE]
          [] t.ca_state = Loss /\ t.snd_una >= t.high_seq -> tcp_try_undo_recovery(t, in)
          [] t.ca_state = CWR /\ t.snd_una >= t.high_seq ->
               [t |-> IF hold THEN t ELSE [t EXCEPT !.ca_state = Open], done |-> FALSE]
          [] t.ca_state = Disorder /\ t.snd_una >= t.high_seq ->
               [t |-> IF dsack.undo_marker = 0 \/ IsReno(t) \/ ~hold
                      THEN [dsack EXCEPT !.undo_marker = 0, !.ca_state = Open] ELSE dsack,
                done |-> FALSE]
          [] t.ca_state = Recovery /\ t.snd_una >= t.high_seq ->
               tcp_try_undo_recovery(IF IsReno(t) THEN tcp_reset_reno_sack(t) ELSE t, in)

tcp_time_to_recover(t, in) ==
    /\ t.frto_counter = 0
    /\ \/ t.lost_out > 0
       \/ tcp_dupack_heuristics(t) > t.reordering
       \/ IsFack(t) /\ tcp_head_timedout(t, in)
       \/ /\ t.packets_out <= t.reordering
          /\ t.sacked_out >= Max({t.packets_out \div 2, SysctlReordering})
          /\ ~in.send

\* The common tail of Recovery.
Recover(t, do_lost, fast_rexmit, in) ==
    [t |-> IF do_lost \/ (IsFack(t) /\ tcp_head_timedout(t, in))
           THEN tcp_update_scoreboard(t, fast_rexmit, in) ELSE t,
     out |-> "queue"]

EnterRecovery(t) ==
    [t EXCEPT !.high_seq = t.snd_nxt, !.undo_marker = t.snd_una,
              !.undo_retrans = t.retrans_out, !.ca_state = Recovery]

OpenOrRecover(t, flags, do_lost, in) ==
    IF tcp_time_to_recover(t, in) THEN Recover(EnterRecovery(t), do_lost, TRUE, in)
    ELSE [t |-> tcp_try_to_open(t, flags), out |-> "none"]

\* What Reno counts outside Recovery and Loss.
RenoCount(t, flags, dupack) ==
    LET t1 == IF "SND_UNA_ADVANCED" \in flags THEN tcp_reset_reno_sack(t) ELSE t
    IN  IF ~IsReno(t) THEN t ELSE IF dupack THEN tcp_add_reno_sack(t1) ELSE t1

\* The default case: Open, Disorder and CWR.
ProcessOpen(t, flags, do_lost, dupack, in) ==
    LET undo(x) == IF x.ca_state = Disorder THEN tcp_try_undo_dsack(x) ELSE x
    IN  OpenOrRecover(undo(RenoCount(t, flags, dupack)), flags, do_lost, in)

LossUndone(u, flags, do_lost, dupack, in) ==
    CASE ~u.undone -> [t |-> u.t, out |-> "queue"]
      [] u.undone /\ u.t.ca_state # Open -> [t |-> u.t, out |-> "none"]
      [] OTHER -> ProcessOpen(u.t, flags, do_lost, dupack, in)

ProcessLoss(t, flags, do_lost, dupack, in) ==
    LossUndone(tcp_try_undo_loss(IF IsReno(t) /\ "SND_UNA_ADVANCED" \in flags
                                 THEN tcp_reset_reno_sack(t) ELSE t, in),
               flags, do_lost, dupack, in)

ProcessRecovery(t, acked, flags, do_lost, dupack, in) ==
    LET p == tcp_try_undo_partial(t, acked, in)
    IN  IF "SND_UNA_ADVANCED" \in flags THEN Recover(p.t, p.failed, FALSE, in)
        ELSE Recover(IF IsReno(t) /\ dupack THEN tcp_add_reno_sack(t) ELSE t, do_lost, FALSE, in)

\* F. Process state, unless the exit ended the function.
ProcessState(e, acked, flags, do_lost, dupack, in) ==
    CASE e.done -> [t |-> e.t, out |-> "none"]
      [] ~e.done /\ e.t.ca_state = Recovery -> ProcessRecovery(e.t, acked, flags, do_lost, dupack, in)
      [] ~e.done /\ e.t.ca_state = Loss -> ProcessLoss(e.t, flags, do_lost, dupack, in)
      [] OTHER -> ProcessOpen(e.t, flags, do_lost, dupack, in)

\* C. A SACK above high_seq proves loss.
DataLost(t, flags) ==
    IF IsFack(t) /\ "DATA_LOST" \in flags /\ t.snd_una < t.high_seq
       /\ t.ca_state # Open /\ t.fackets_out > t.reordering
    THEN tcp_mark_head_lost(t, t.fackets_out - t.reordering, FALSE) ELSE t

\* The two repairs at the top of the function.
NoSacked(t) ==
    LET bad == t.packets_out = 0 /\ t.sacked_out > 0
    IN  [Warn(t, "sacked", bad) EXCEPT !.sacked_out = IF bad THEN 0 ELSE @]

NoFacked(t) ==
    LET bad == t.sacked_out = 0 /\ t.fackets_out > 0
    IN  [Warn(t, "fackets", bad) EXCEPT !.fackets_out = IF bad THEN 0 ELSE @]

tcp_fastretrans_alert(t, acked, flags, in) ==
    LET dupack == flags \cap (NotDup \cup {"SND_UNA_ADVANCED"}) = {}
        do_lost == dupack \/ ("DATA_SACKED" \in flags /\ tcp_fackets_out(t) > t.reordering)
    IN  IF "SACK_RENEGING" \in flags
        THEN [t |-> tcp_enter_loss(NoFacked(NoSacked(t)), TRUE), out |-> "head"]
        ELSE ProcessState(ExitState(tcp_verify_left_out(DataLost(NoFacked(NoSacked(t)), flags)), in),
                          acked, flags, do_lost, dupack, in)

-----------------------------------------------------------------------------
\* tcp_ack.

\* The skbs in gone leave the queue, and the counters and hints with them.
Unlink(t, gone) ==
    LET count(tag) == Cardinality({q \in gone : tag \in t.sacked[q]})
    IN  [Retag(t, gone, AllTags, {}) EXCEPT
            !.head = t.snd_una,
            !.ack_seq = [q \in 1..MaxSeq |-> IF q \in gone THEN 0 ELSE @[q]],
            !.retrans_out = @ - count("R"), !.sacked_out = @ - count("S"),
            !.lost_out = @ - count("L"), !.packets_out = @ - Cardinality(gone),
            !.scoreboard_skb_hint = NULL,
            !.lost_skb_hint = IF @ \in gone THEN NULL ELSE @]

\* MUTANT: lost_cnt_hint is not adjusted.
AckedKeepsCount(t, n, sacked, reord, prior_fackets) ==
    LET t1 == IF reord < prior_fackets THEN tcp_update_reordering(t, t.fackets_out - reord) ELSE t
    IN  [(IF IsReno(t) THEN tcp_remove_reno_sacks(t, n) ELSE t1) EXCEPT !.fackets_out = Max({0, @ - n})]

\* n skbs went, sacked of them SACKed; the lowest original among them was the
\* reord-th of the queue.
AckedAdjust(t, n, sacked, reord, prior_fackets) ==
    LET t1 == IF reord < prior_fackets THEN tcp_update_reordering(t, t.fackets_out - reord) ELSE t
        t2 == IF IsReno(t) THEN tcp_remove_reno_sacks(t, n)
              ELSE [t1 EXCEPT !.lost_cnt_hint = Max({0, @ - (IF IsFack(t1) THEN n ELSE sacked)})]
    IN  [t2 EXCEPT !.fackets_out = Max({0, @ - n})]

\* The flags of the ACK; a SACKed head means that the receiver reneged.
AckedFlags(t, gone, again, head) ==
    [t |-> t,
     flags |-> (IF gone # {} THEN {"DATA_ACKED"} ELSE {})
          \cup (IF again # {} THEN {"RETRANS_DATA_ACKED"} ELSE {})
          \cup (IF again \ {head} # {} THEN {"NONHEAD_RETRANS_ACKED"} ELSE {})
          \cup (IF t.head < t.snd_nxt /\ "S" \in t.sacked[t.head] THEN {"SACK_RENEGING"} ELSE {})]

\* The socket without the acknowledged skbs, and the flags.
tcp_clean_rtx_queue(t, prior_fackets) ==
    LET gone == t.head .. t.snd_una - 1
        orig == {q \in gone : ~Retrans(t, q) /\ "S" \notin t.sacked[q]}
        reord == IF orig = {} THEN t.packets_out ELSE Min(orig) - t.head
    IN  AckedFlags(IF gone = {} THEN t
                   ELSE AckedAdjust(Unlink(t, gone), Cardinality(gone), Cardinality(gone \cap Tagged(t, "S")),
                                    reord, prior_fackets),
                   gone, {q \in gone : Retrans(t, q)}, t.head)

\* Retransmitted data beyond the head was acknowledged: no undo.
FrtoMarker(t, flags) ==
    [tcp_verify_left_out(t) EXCEPT
        !.undo_marker = IF \/ "NONHEAD_RETRANS_ACKED" \in flags
                           \/ t.frto_counter >= 2 /\ "RETRANS_DATA_ACKED" \in flags
                        THEN 0 ELSE @]

FrtoStep(t, flags, in) ==
    LET progress == {"DATA_ACKED", "DATA_SACKED"}
        notdup == flags \cap NotDup # {}
        acked == "DATA_ACKED" \in flags
        doubtful == \/ flags \cap progress = {}
                    \/ "DATA_SACKED" \in flags /\ "ONLY_ORIG_SACKED" \notin flags
        wait == \/ ~tcp_is_sackfrto(t) /\ flags \cap (progress \cup {"SND_UNA_ADVANCED"}) = {} /\ notdup
                \/ tcp_is_sackfrto(t) /\ ~acked /\ t.frto_counter = 1
                \/ tcp_is_sackfrto(t) /\ t.frto_counter >= 2 /\ flags \cap progress = {} /\ notdup
        lost == \/ ~tcp_is_sackfrto(t) /\ ~acked
                \/ tcp_is_sackfrto(t) /\ t.frto_counter >= 2 /\ doubtful
        cwr == FrtoResponse = 0 \/ (FrtoResponse = 2 /\ "ECE" \in flags)
    IN  CASE t.snd_una >= t.frto_highmark -> tcp_enter_frto_loss(t, flags)
          [] t.snd_una < t.frto_highmark /\ wait -> t
          [] t.snd_una < t.frto_highmark /\ ~wait /\ lost -> tcp_enter_frto_loss(t, flags)
          [] t.snd_una < t.frto_highmark /\ ~wait /\ ~lost /\ t.frto_counter = 1 ->
               IF in.send THEN [t EXCEPT !.frto_counter = 2]
               ELSE tcp_enter_frto_loss([t EXCEPT !.frto_counter = 2], flags)
          [] OTHER -> [(IF cwr THEN tcp_enter_cwr(t) ELSE t) EXCEPT !.frto_counter = 0, !.undo_marker = 0]

tcp_process_frto(t, flags, in) == FrtoStep(FrtoMarker(t, flags), flags, in)

tcp_ack_is_dubious(t, flags) ==
    \/ flags \cap NotDup = {}
    \/ flags \cap {"DATA_SACKED", "ECE"} # {}
    \/ t.ca_state # Open

\* The end of tcp_ack.
AckTail(t, prior_packets, flags, in) ==
    IF tcp_ack_is_dubious(t, flags)
    THEN tcp_fastretrans_alert(t, prior_packets - t.packets_out, flags, in)
    ELSE [t |-> t, out |-> "none"]

\* After the retransmission queue has been cleaned.
AckCleaned(c, prior_packets, flags, in) ==
    LET frto(t) == IF t.frto_counter # 0 THEN tcp_process_frto(t, flags \cup c.flags, in) ELSE t
        forget(t) == [t EXCEPT !.frto_highmark = IF @ < t.snd_una THEN 0 ELSE @]
    IN  AckTail(forget(frto(c.t)), prior_packets, flags \cup c.flags, in)

\* After the SACK blocks have been applied.
AckSacked(s, prior_fackets, flags, in) ==
    IF s.t.packets_out = 0 THEN [t |-> s.t, out |-> "none"]
    ELSE AckCleaned(tcp_clean_rtx_queue(s.t, prior_fackets), s.t.packets_out, flags \cup s.flags, in)

Sacktag(t, a, prior_una) ==
    IF a.blocks = <<>> THEN [t |-> t, flags |-> {}] ELSE tcp_sacktag_write_queue(t, a, prior_una)

\* An ACK below snd_una only brings SACKs.
OldAck(t, a) ==
    LET keep(x) == IF x.ca_state = Open THEN tcp_try_keep_open(x) ELSE x
    IN  IF a.blocks = <<>> THEN t ELSE keep(tcp_sacktag_write_queue(t, a, t.snd_una).t)

\* a: the acknowledgement number, the SACK blocks, the ECN echo, and whether
\* the segment carries data or changes the window.
tcp_ack(t, a, in) ==
    LET flags == (IF a.ack > t.snd_una THEN {"SND_UNA_ADVANCED", "WIN_UPDATE"} ELSE {})
            \cup (IF a.news THEN {"DATA"} ELSE {}) \cup (IF a.ece THEN {"ECE"} ELSE {})
    IN  CASE a.ack < t.snd_una -> [t |-> OldAck(t, a), out |-> "none"]
          [] a.ack > t.snd_nxt -> [t |-> t, out |-> "none"]
          [] OTHER -> AckSacked(Sacktag([t EXCEPT !.snd_una = a.ack], a, t.snd_una), t.fackets_out, flags, in)

-----------------------------------------------------------------------------
\* What goes out (tcp_output.c).

tcp_retransmit_skb(t, q) ==
    [t EXCEPT !.lost_retrans_low = IF t.retrans_out = 0 THEN t.snd_nxt ELSE @,
              !.sacked[q] = @ \cup {"R", "E"}, !.retrans_out = @ + 1,
              !.retrans_stamp = TRUE, !.undo_retrans = @ + 1, !.ack_seq[q] = t.snd_nxt]

\* The lost skbs in order, then in Recovery the holes below the highest SACK.
Eligible(t) ==
    LET idle == {q \in Queue(t) : t.sacked[q] \cap {"S", "R"} = {}}
        lost == {q \in idle : "L" \in t.sacked[q]}
        holes == IF t.ca_state = Recovery /\ ~IsReno(t)
                 THEN {q \in idle \ lost : q < tcp_highest_sack_seq(t)} ELSE {}
    IN  SetToSortSeq(lost, <) \o SetToSortSeq(holes, <)

\* It stops when the congestion window is full or a transmission fails.
tcp_xmit_retransmit_queue(t) ==
    LET e == Eligible(t) IN {FoldLeft(tcp_retransmit_skb, t, SubSeq(e, 1, n)) : n \in 0..Len(e)}

\* A field the code cannot read before it is written again is stored as 0.
Settle(t) ==
    [t EXCEPT !.undo_retrans = IF t.undo_marker = 0 THEN 0 ELSE @,
              !.lost_cnt_hint = IF t.lost_skb_hint = NULL THEN 0 ELSE @,
              !.lost_retrans_low = IF t.retrans_out = 0 THEN 0 ELSE @,
              !.recv_sack_cache = IF t.sacked_out = 0 \/ IsReno(t) THEN <<>> ELSE @,
              !.highest_sack = IF t.sacked_out = 0 \/ IsReno(t) THEN 0 ELSE @]

\* What a handler ends with.
Finish(r) ==
    \E t \in (CASE r.out = "none" -> {r.t}
               [] r.out = "head" -> {r.t, tcp_retransmit_skb(r.t, r.t.head)}
               [] r.out = "queue" -> tcp_xmit_retransmit_queue(r.t)) :
        tp' = Settle(t)

-----------------------------------------------------------------------------
\* Events.

\* tcp_event_new_data_sent.
NewDataSent ==
    /\ tp.snd_nxt <= MaxSeq
    /\ tp' = [tp EXCEPT !.snd_nxt = @ + 1, !.packets_out = @ + 1,
                        !.frto_counter = IF @ = 2 THEN 3 ELSE @]

Block == [start : 1..MaxSeq, end : 2..(MaxSeq + 1)]

\* The SACK options a receiver sends with ack: blocks above it, apart from
\* each other, newest first; a D-SACK comes before them and lies below ack or
\* inside the block that follows it, and reports one segment.
SackOptions(ack) ==
    LET above == {b \in Block : ack < b.start /\ b.start < b.end /\ b.end <= tp.snd_nxt}
        apart(x, y) == x.end < y.start \/ y.end < x.start
        plain == {<<>>} \cup {<<b>> : b \in above} \cup
                 (IF MaxBlocks < 2 THEN {} ELSE {<<x, y>> : x \in above, y \in above})
        sacks == {o \in plain : Len(o) = 2 => apart(o[1], o[2])}
        dups == {b \in Block : b.end = b.start + 1 /\ b.end <= tp.snd_nxt}
        with(d, o) == \/ d.end <= ack
                      \/ o # <<>> /\ o[1].start <= d.start /\ d.end <= o[1].end
    IN  IF IsReno(tp) \/ ack > tp.snd_nxt THEN {<<>>}
        ELSE IF ~conf.dsacks THEN sacks
        ELSE sacks \cup {<<d>> \o o : <<d, o>> \in {p \in dups \X sacks : with(p[1], p[2])}}

RcvAck ==
    \E ack \in Max({1, tp.snd_una - 1}) .. tp.snd_nxt + 1, news \in conf.news, ece \in conf.ece :
    \E blocks \in SackOptions(ack), delayed \in IF tp.undo_marker # 0 THEN BOOLEAN ELSE {FALSE} :
    \E old \in IF conf.slow /\ IsFack(tp) THEN {0, tp.snd_nxt} ELSE {0}, send \in BOOLEAN :
        Finish(tcp_ack(tp, [ack |-> ack, news |-> news, ece |-> ece, blocks |-> blocks],
                       [delayed |-> delayed, old |-> old, send |-> send]))

\* tcp_retransmit_timer of tcp_timer.c.
RetransmitTimer ==
    /\ tp.packets_out > 0
    /\ Finish([t |-> IF tcp_use_frto(tp) THEN tcp_enter_frto(tp) ELSE tcp_enter_loss(tp, FALSE),
               out |-> "head"])

\* The path MTU shrank: the skbs up to b no longer fit.
tcp_simple_retransmit ==
    /\ tp.undo_retrans < MaxUndo
    /\ \E b \in Queue(tp) :
        LET big == {q \in Queue(tp) : q <= b /\ "S" \notin tp.sacked[q]}
            back == big \cap Tagged(tp, "R")
            fresh == big \ Tagged(tp, "L")
            t1 == [Retag(Retag(tp, back, {"R"}, {}), fresh, {}, {"L"}) EXCEPT
                    !.ack_seq = [q \in 1..MaxSeq |-> IF q \in back THEN 0 ELSE @[q]],
                    !.retrans_out = @ - Cardinality(back), !.lost_out = @ + Cardinality(fresh),
                    !.lost_skb_hint = NULL, !.scoreboard_skb_hint = NULL]
            t2 == tcp_verify_left_out(IF IsReno(t1) THEN tcp_limit_reno_sacked(t1).t ELSE t1)
            t3 == IF t2.ca_state = Loss THEN t2
                  ELSE [t2 EXCEPT !.high_seq = t2.snd_nxt, !.undo_marker = 0, !.ca_state = Loss]
        IN  Finish(IF fresh = {} THEN [t |-> t1, out |-> "none"] ELSE [t |-> t3, out |-> "queue"])

\* The local device is congested: tcp_transmit_skb calls tcp_enter_cwr.
LocalCongestion == tp' = Settle(tcp_enter_cwr(tp))

Next ==
    /\ NewDataSent \/ RcvAck \/ RetransmitTimer \/ tcp_simple_retransmit \/ LocalCongestion
    /\ UNCHANGED conf

Spec == Init /\ [][Next]_vars

-----------------------------------------------------------------------------
\* Properties.

\* The queue starts at snd_una, and the recovery point, the undo marker and the
\* F-RTO counter stay in their ranges.
TypeOK ==
    /\ tp.snd_una \in 1..(MaxSeq + 1) /\ tp.snd_nxt \in 1..(MaxSeq + 1) /\ tp.head = tp.snd_una
    /\ tp.sacked \in [1..MaxSeq -> SUBSET AllTags]
    /\ tp.ca_state \in Open..Loss /\ tp.frto_counter \in 0..3
    /\ tp.high_seq \in 1..tp.snd_nxt /\ tp.undo_marker \in 0..tp.snd_nxt

\* "Packets in queue with these bits set are counted in variables sacked_out,
\* retrans_out and lost_out, correspondingly" (the comment on
\* tcp_sacktag_write_queue): the counters, which every path adjusts by hand,
\* always equal the number of tagged skbs.
CountersExact ==
    /\ tp.packets_out = tp.snd_nxt - tp.snd_una
    /\ tp.lost_out = Cardinality(Tagged(tp, "L"))
    /\ tp.retrans_out = Cardinality(Tagged(tp, "R"))
    /\ ~IsReno(tp) => tp.sacked_out = Cardinality(Tagged(tp, "S"))

\* No WARN_ON of the file fires: not tcp_verify_left_out, not the check of
\* packets_out in tcp_mark_head_lost, not the repairs of sacked_out and
\* fackets_out, and no retransmission is out when ca_state is Open.
NoWarnings == tp.warned = {}

\* "L|S is logically invalid": no order of SACKs, loss marks, timeouts and
\* undos leaves an skb both lost and SACKed, which would count it as -1 in flight.
TagsValid == Tagged(tp, "L") \cap Tagged(tp, "S") = {}

\* fackets_out is the distance from snd_una to the highest SACKed skb, whichever
\* of the walks, the cumulative ACK or reneging moved either end last.
FackExact ==
    ~IsReno(tp) => tp.fackets_out = Max({0} \cup {q + 1 - tp.snd_una : q \in Tagged(tp, "S")})

\* The hints that later calls start their walks from point at skbs that are
\* still queued: tcp_clean_rtx_queue has freed none of them.
HintsAlive ==
    /\ tp.lost_skb_hint = NULL \/ tp.lost_skb_hint \in Queue(tp)
    /\ tp.scoreboard_skb_hint = NULL \/ tp.scoreboard_skb_hint \in Queue(tp) \cup {tp.snd_nxt, ListHead}

\* highest_sack is the skb after the last SACKed one, so that a walk that starts
\* there misses nothing.
HighestSackTop ==
    (~IsReno(tp) /\ tp.sacked_out > 0) =>
        /\ tp.highest_sack \in tp.head .. tp.snd_nxt
        /\ tp.highest_sack = Max(Tagged(tp, "S")) + 1

\* Whatever recv_sack_cache covers is tagged: skipping the cached part of a
\* block, as tcp_sacktag_write_queue does, loses no SACK.
CacheTruthful ==
    \A i \in DOMAIN tp.recv_sack_cache : \A q \in Queue(tp) :
        InBlock(q, tp.recv_sack_cache[i]) => "S" \in tp.sacked[q]

\* lost_cnt_hint is the number of skbs below lost_skb_hint that
\* tcp_mark_head_lost would have counted had it walked from the head.
HintCount ==
    tp.lost_skb_hint # NULL =>
        tp.lost_cnt_hint = Cardinality({q \in Queue(tp) : q < tp.lost_skb_hint /\
                                  (IsFack(tp) \/ IsReno(tp) \/ "S" \in tp.sacked[q])})

\* The scoreboard of tcp_sacktag_write_queue, tcp_clean_rtx_queue and the loss marks is
\* exact: tags are valid, the four counters count them, and no WARN_ON fires.
ScoreboardExact == TypeOK /\ TagsValid /\ CountersExact /\ FackExact /\ NoWarnings

\* Every pointer a later walk starts from (lost_skb_hint with its count,
\* scoreboard_skb_hint, highest_sack) is where a walk from the head would have put it.
HintsExact == HintsAlive /\ HintCount /\ HighestSackTop

\* A SACK is forgotten only when the receiver reneged, and then all are: loss
\* marks, timeouts, undo and D-SACKs keep the S tag of an skb in the queue.
SackedStays ==
    [][\A q \in Queue(tp) : ("S" \in tp.sacked[q] /\ q >= tp'.snd_una) =>
          \/ "S" \in tp'.sacked[q]
          \/ tp'.ca_state = Loss /\ tp'.sacked_out = 0 /\ "S" \in tp.sacked[tp'.snd_una]]_tp

\* A recovery episode ends with its data: an ACK beyond high_seq leaves
\* Recovery, Loss or CWR, or opens an episode with a new high_seq.
EpisodeEnds ==
    [][(tp.ca_state >= CWR /\ tp'.snd_una > tp.high_seq) =>
          tp'.ca_state <= Disorder \/ tp'.high_seq > tp.high_seq]_tp

\* "Track where the first SACK block goes to": a block is applied as a D-SACK
\* only if it is the first one of the ACK.
FirstBlockTracked ==
    \A ack \in tp.snd_una .. tp.snd_nxt : \A blocks \in SackOptions(ack) \ {<<>>} :
        LET a == [ack |-> ack, blocks |-> blocks]
            t == tcp_check_dsack([tp EXCEPT !.snd_una = ack], a, tp.snd_una)
            used == Used(t, a, tp.snd_una)
            first == FirstIndex(t, a, used)
        IN  first # 0 => BySeq(used)[first].n = 1

=============================================================================
