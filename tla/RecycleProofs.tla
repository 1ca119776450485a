---------------------------- MODULE RecycleProofs ----------------------------
(***************************************************************************)
(* Sequence arithmetic around TIME_WAIT, for every size of the space.       *)
(***************************************************************************)
EXTENDS Recycle, TLAPS

\* u32 arithmetic stays in u32, for steps of at most the whole space.
LEMMA AddType ==
    \A a \in Seq32, n \in 0..SeqMod : Add(a, n) \in Seq32
BY SequenceSpace DEF Add, Seq32

LEMMA MinusType ==
    \A a, b \in Seq32 : Minus(a, b) \in Seq32
BY SequenceSpace DEF Minus, Seq32

\* The number chosen after TIME_WAIT is fresh, whatever the last one was.
LEMMA FreshNumber ==
    \A n \in Seq32, wnd \in 0..(Jump - 2) : FreshFor(n, wnd)
BY SequenceSpace DEF FreshFor, NextIsn, after, before, tcp_in_window, Add, Minus, Seq32

\* tcp_in_window as inequalities between distances from the left edge.
LEMMA InWindowDistance ==
    ASSUME NEW seq \in Seq32, NEW s \in Seq32, NEW len \in Nat, NEW wnd \in Nat,
           4 * len <= SeqMod, 4 * wnd <= SeqMod, 2 * Minus(seq, s) # SeqMod
    PROVE  tcp_in_window(seq, Add(seq, len), s, Add(s, wnd))
             <=> IF len = 0 THEN Minus(seq, s) <= wnd
                 ELSE \/ Minus(seq, s) < wnd
                      \/ Minus(seq, s) + len > SeqMod
                      \/ Minus(seq, s) = 0
BY SequenceSpace DEF tcp_in_window, after, before, Add, Minus, Seq32

\* A number of a range, as a distance from its start.
LEMMA OctetDistance ==
    ASSUME NEW a \in Seq32, NEW x \in Seq32, NEW n \in Nat, n <= SeqMod
    PROVE  x \in Octets(a, n) <=> Minus(x, a) < n
<1>1. ASSUME NEW i \in 0..(n - 1), x = Add(a, i)
      PROVE  Minus(x, a) < n
  BY <1>1, SequenceSpace DEF Add, Minus, Seq32
<1>2. ASSUME Minus(x, a) < n
      PROVE  Minus(x, a) \in 0..(n - 1) /\ x = Add(a, Minus(x, a))
  BY <1>2, SequenceSpace DEF Add, Minus, Seq32
<1>3. QED
  BY <1>1, <1>2 DEF Octets

\* Two ranges meet when one of them holds the start of the other.
LEMMA RangesMeet ==
    ASSUME NEW seq \in Seq32, NEW s \in Seq32, NEW len \in Nat, NEW wnd \in Nat,
           len > 0, wnd > 0, 4 * len <= SeqMod, 4 * wnd <= SeqMod
    PROVE  Octets(seq, len) \cap Octets(s, wnd) # {}
             <=> Minus(seq, s) < wnd \/ Minus(seq, s) + len > SeqMod
<1>0. len <= SeqMod /\ wnd <= SeqMod
  BY SequenceSpace
<1>1. ASSUME Minus(seq, s) < wnd
      PROVE  seq \in Octets(seq, len) /\ seq \in Octets(s, wnd)
  <2>1. Minus(seq, seq) < len
    BY DEF Minus, Seq32
  <2>2. QED
    BY <1>0, <1>1, <2>1, OctetDistance
<1>2. ASSUME Minus(seq, s) + len > SeqMod
      PROVE  s \in Octets(seq, len) /\ s \in Octets(s, wnd)
  <2>1. Minus(s, s) < wnd /\ Minus(s, seq) < len
    BY <1>2, SequenceSpace DEF Minus, Seq32
  <2>2. QED
    BY <1>0, <2>1, OctetDistance
<1>3. ASSUME NEW x \in Octets(seq, len), x \in Octets(s, wnd)
      PROVE  Minus(seq, s) < wnd \/ Minus(seq, s) + len > SeqMod
  <2>1. x \in Seq32
    <3>1. PICK i \in 0..(len - 1) : x = Add(seq, i)
      BY <1>3 DEF Octets
    <3>2. i \in 0..SeqMod
      BY <1>0, SequenceSpace
    <3>3. QED
      BY <3>1, <3>2, AddType
  <2>2. Minus(x, seq) < len /\ Minus(x, s) < wnd
    BY <1>0, <1>3, <2>1, OctetDistance
  <2>3. QED
    BY <2>1, <2>2, SequenceSpace DEF Minus, Seq32
<1>4. QED
  BY <1>1, <1>2, <1>3

\* tcp_in_window is the window test of RFC 793 for every size of the sequence
\* space, for segments and windows of at most a quarter of it (2^30 in 2^32,
\* which is what window scaling allows).
THEOREM WindowTestExact ==
    ASSUME NEW seq \in Seq32, NEW s \in Seq32, NEW len \in Nat, NEW wnd \in Nat,
           4 * len <= SeqMod, 4 * wnd <= SeqMod, SeqMod >= 4
    PROVE  WindowExactFor(seq, len, s, wnd)
<1> SUFFICES ASSUME 2 * Minus(seq, s) # SeqMod
             PROVE  tcp_in_window(seq, Add(seq, len), s, Add(s, wnd)) <=> Acceptable(seq, len, s, wnd)
  BY DEF WindowExactFor
<1> DEFINE d == Minus(seq, s)
           w == IF wnd = 0 THEN 1 ELSE wnd
<1>1. d \in Nat /\ d < SeqMod
  <2>1. d \in Seq32
    BY MinusType
  <2>2. QED
    BY <2>1, SequenceSpace DEF Seq32
<1>2. tcp_in_window(seq, Add(seq, len), s, Add(s, wnd))
        <=> IF len = 0 THEN d <= wnd ELSE d < wnd \/ d + len > SeqMod \/ d = 0
  BY InWindowDistance
<1>3. CASE len = 0
  <2>1. wnd + 1 \in Nat /\ wnd + 1 <= SeqMod
    BY SequenceSpace
  <2>2. seq \in Octets(s, wnd + 1) <=> d < wnd + 1
    BY <2>1, OctetDistance
  <2>3. d <= wnd <=> d < wnd + 1
    BY <1>1
  <2>4. QED
    BY <1>2, <1>3, <2>2, <2>3 DEF Acceptable
<1>4. CASE len # 0
  <2>1. w \in Nat /\ w > 0 /\ 4 * w <= SeqMod /\ len > 0
    BY <1>4
  <2>2. Octets(seq, len) \cap Octets(s, w) # {} <=> d < w \/ d + len > SeqMod
    BY <2>1, RangesMeet
  <2>3. d < w \/ d + len > SeqMod <=> d < wnd \/ d + len > SeqMod \/ d = 0
    <3> HIDE DEF d
    <3> QED
      BY <1>1
  <2>4. QED
    BY <1>2, <1>4, <2>2, <2>3 DEF Acceptable
<1>5. QED
  BY <1>3, <1>4

-----------------------------------------------------------------------------
(* The invariant: types, and segments of at most one number. *)

TwType ==
    [substate : {"open", "FIN_WAIT2", "TIME_WAIT", "dead"}, rcv_nxt : Seq32, snd_nxt : Seq32,
     rcv_wnd : Nat, ts : Nat, at : Nat,
     timer : {"none", "short", "long"}, timeout : {"none", "short", "long"},
     how : {"none", "overflow", "reopened", "killed", "reset", "expired", "fin_timeout", "reused"}]

SegType ==
    {seg \in [seq : Seq32, end : Seq32, ts : Nat, syn : BOOLEAN, fin : BOOLEAN, rst : BOOLEAN,
              ack : BOOLEAN, old : BOOLEAN] : Minus(seg.end, seg.seq) \in {0, 1}}

PeerType ==
    [state : {"CLOSE_WAIT", "LAST_ACK", "CLOSED", "SYN_SENT", "ESTABLISHED"}, isn : Seq32,
     nxt : Seq32, aborted : BOOLEAN, late : BOOLEAN, last : Nat]

IInv ==
    /\ tw \in TwType /\ net \subseteq SegType /\ peer \in PeerType /\ now \in Nat
    /\ \A r \in out : r.ackno \in Seq32
    /\ conf \in Confs

\* The segments that are built have that type.
LEMMA SegmentType ==
    ASSUME NEW seq \in Seq32, NEW len \in {0, 1}, NEW flags, NEW ts \in Nat
    PROVE  Segment(seq, len, flags, ts) \in SegType
<1>1. Add(seq, len) \in Seq32 /\ Minus(Add(seq, len), seq) = len
  BY SequenceSpace, AddType DEF Add, Minus, Seq32
<1>2. QED
  BY <1>1 DEF Segment, SegType

LEMMA TsType == \A t \in Nat : Ts(t) \in Nat
BY DEF Ts

\* What tcp_timewait_state_process leaves is a TIME_WAIT socket again.
LEMMA ProcessType ==
    ASSUME NEW t \in TwType, NEW seg \in SegType, NEW n \in Nat, NEW ok
    PROVE  tcp_timewait_state_process(t, seg, n, ok).tw \in TwType
<1>1. Descheduled(t) \in TwType /\ Rescheduled(t) \in TwType
  BY DEF Descheduled, Rescheduled, TwType
<1>2. ASSUME NEW u \in TwType
      PROVE  Stamped(u, seg, n) \in TwType
  BY ZenonT(40) DEF Stamped, TwType, SegType
<1>3. EnterTrueTimeWait(t, seg, n, ok) \in TwType
  <2> DEFINE u == [t EXCEPT !.substate = "TIME_WAIT", !.rcv_nxt = seg.end,
                            !.timer = IF ok THEN t.timeout ELSE "long"]
  <2>1. u \in TwType
    BY ZenonT(40) DEF TwType, SegType
  <2>2. QED
    BY <1>2, <2>1 DEF EnterTrueTimeWait
<1>4. DeadFinWait2(t, seg, n, ok).tw \in TwType
  BY <1>1, <1>3 DEF DeadFinWait2, Verdict
<1>5. TrueTimeWait(t, seg, n).tw \in TwType
  BY <1>1, <1>2 DEF TrueTimeWait, Verdict
<1>6. QED
  BY <1>4, <1>5 DEF tcp_timewait_state_process

LEMMA InitIInv == Init => IInv
<1> SUFFICES ASSUME Init PROVE IInv
  OBVIOUS
<1>1. PICK p \in PeerIsns, o \in OurIsns, l \in BOOLEAN : InitFor(p, o, l)
  BY DEF Init
<1>2. p \in Seq32 /\ o \in Seq32
  BY RecycleConstants
<1>3. Add(p, 1 + Data) \in Seq32 /\ Add(o, 2 + Data) \in Seq32
  BY <1>2, AddType, RecycleConstants, SequenceSpace
<1>4. tw \in TwType
  BY <1>1, <1>3, TsType, RecycleConstants, SequenceSpace DEF InitFor, TwType
<1>5. peer \in PeerType
  BY <1>1, <1>2, <1>3 DEF InitFor, PeerType
<1>6. ASSUME NEW i \in 1..Data
      PROVE  Segment(Add(p, i), 1, {"ACK"}, Ts(2)) \in SegType
  <2>1. Add(p, i) \in Seq32
    BY <1>2, AddType, RecycleConstants, SequenceSpace
  <2>2. QED
    BY <2>1, SegmentType, TsType
<1>7. Segment(p, 1, {"SYN"}, Ts(1)) \in SegType
  BY <1>2, SegmentType, TsType
<1>8. net \subseteq SegType
  BY <1>1, <1>6, <1>7 DEF InitFor
<1>9. QED
  BY <1>1, <1>4, <1>5, <1>8 DEF IInv, InitFor, Init

LEMMA StepIInv == IInv /\ [Next]_vars => IInv'
<1> SUFFICES ASSUME IInv, [Next]_vars PROVE IInv'
  OBVIOUS
<1>0. tw \in TwType /\ net \subseteq SegType /\ peer \in PeerType /\ now \in Nat
      /\ \A r \in out : r.ackno \in Seq32
  BY DEF IInv
<1>0a. conf \in Confs /\ conf' = conf
  BY DEF IInv, Next, vars
<1>a. peer.nxt \in Seq32 /\ peer.isn \in Seq32 /\ peer.last \in Nat
  BY <1>0 DEF PeerType
<1>b. Ts(now) \in Nat /\ Ts(peer.last) \in Nat
  BY <1>0, <1>a, TsType
<1>c. Add(peer.nxt, 1) \in Seq32 /\ Minus(peer.nxt, 1) \in Seq32
  BY <1>a, SequenceSpace DEF Add, Minus, Seq32
<1>d. ASSUME NEW t \in TwType
      PROVE  /\ [t EXCEPT !.substate = "dead", !.how = "reopened"] \in TwType
             /\ [t EXCEPT !.how = "killed"] \in TwType
             /\ [t EXCEPT !.how = "reset"] \in TwType
  BY ZenonT(40) DEF TwType
<1>e. ASSUME NEW seg \in net, NEW when, tcp_v4_conn_request(seg, when)
      PROVE  \A r \in out' : r.ackno \in Seq32
  <2>1. Add(seg.seq, 1) \in Seq32
    BY <1>0, AddType, SequenceSpace DEF SegType
  <2>2. QED
    BY <1>0, <1>e, <2>1 DEF tcp_v4_conn_request, Reply
<1>1. ASSUME NEW state \in {"FIN_WAIT2", "TIME_WAIT"}, NEW ok \in BOOLEAN, NEW haspeer \in BOOLEAN,
             tcp_time_wait(state, ok, haspeer)
      PROVE  IInv'
  <2>1. tw' \in TwType
    <3> DEFINE got == state = "TIME_WAIT"
               t == [tw EXCEPT !.rcv_nxt = IF got THEN peer.nxt ELSE @,
                               !.ts = IF got THEN Ts(peer.last) ELSE @,
                               !.at = IF got THEN now ELSE @]
    <3>1. t \in TwType
      BY ZenonT(40), <1>0, <1>a, <1>b DEF TwType
    <3> HIDE DEF t
    <3>2. \A tm, to \in {"short", "long"} :
             [t EXCEPT !.substate = state, !.timeout = to, !.timer = tm] \in TwType
      BY ZenonT(40), <3>1 DEF TwType
    <3>3. [t EXCEPT !.substate = "dead", !.how = "overflow"] \in TwType
      BY ZenonT(40), <3>1 DEF TwType
    <3>4. QED
      BY ZenonT(40), <1>1, <3>2, <3>3 DEF tcp_time_wait, t
  <2>2. QED
    BY <1>0, <1>1, <2>1, <1>0a DEF IInv, tcp_time_wait
<1>2. ASSUME NEW seg \in net, NEW haspeer \in BOOLEAN, RcvTimeWait(seg, haspeer)
      PROVE  IInv'
  <2> DEFINE v == tcp_timewait_state_process(tw, seg, now, RecycleOk(tw, haspeer))
  <2>1. v.tw \in TwType
    BY <1>0, ProcessType
  <2>2. do_time_wait(seg, v) /\ UNCHANGED <<peer, net, now>>
    BY <1>2 DEF RcvTimeWait
  <2> HIDE DEF v
  <2>3. v.tw.rcv_nxt \in Seq32
    BY <2>1 DEF TwType
  <2>4. tw' \in TwType /\ \A r \in out' : r.ackno \in Seq32
    <3>1. CASE v.verdict = "SYN" /\ listening
      <4>1. tw' = [v.tw EXCEPT !.substate = "dead", !.how = "reopened"]
            /\ tcp_v4_conn_request(seg, NextIsn(tw.snd_nxt))
        BY <2>2, <3>1 DEF do_time_wait
      <4>2. QED
        BY ZenonT(40), <1>d, <1>e, <2>1, <4>1
    <3>2. CASE v.verdict = "ACK" \/ (v.verdict = "SYN" /\ ~listening)
      <4>1. tw' = v.tw /\ out' = out \cup {Reply("ACK", v.tw.snd_nxt, v.tw.rcv_nxt, v.tw.ts)}
        BY <2>2, <3>2, Zenon DEF do_time_wait
      <4>2. QED
        BY <1>0, <2>1, <2>3, <4>1 DEF Reply
    <3>3. CASE v.verdict = "RST"
      <4>1. tw' = [v.tw EXCEPT !.how = "killed"] /\ out' = out \cup {Reply("RST", 0, 0, 0)}
        BY <2>2, <3>3 DEF do_time_wait
      <4>2. 0 \in Seq32
        BY SequenceSpace DEF Seq32
      <4>3. Reply("RST", 0, 0, 0).ackno \in Seq32
        BY SMTT(40), <4>2 DEF Reply
      <4>4. [v.tw EXCEPT !.how = "killed"] \in TwType
        BY ZenonT(40), <1>d, <2>1
      <4>5. QED
        BY <1>0, <4>1, <4>3, <4>4
    <3>4. CASE v.verdict = "SUCCESS"
      BY ZenonT(40), <1>0, <1>d, <2>1, <2>2, <3>4 DEF do_time_wait
    <3>5. v.verdict \in {"SYN", "ACK", "RST", "SUCCESS"}
      BY DEF v, tcp_timewait_state_process, DeadFinWait2, TrueTimeWait, Verdict
    <3>6. QED
      BY <3>1, <3>2, <3>3, <3>4, <3>5
  <2>5. QED
    BY <1>0, <2>2, <2>4, <1>0a DEF IInv
<1>3. ASSUME NEW seg \in net, RcvClosed(seg)
      PROVE  IInv'
  <2>1. seg.end \in Seq32
    BY <1>0 DEF SegType
  <2>2. \A r \in out' : r.ackno \in Seq32
    BY <1>0, <1>3, <1>e, <2>1 DEF RcvClosed, Reply
  <2>3. QED
    BY <1>0, <1>3, <2>2, <1>0a DEF IInv, RcvClosed
<1>4. CASE TwTimer
  <2>1. tw' \in TwType
    BY ZenonT(40), <1>0, <1>4 DEF TwTimer, TwType
  <2>2. net' \subseteq SegType /\ (\A r \in out' : r.ackno \in Seq32) /\ UNCHANGED <<peer, now>>
    BY <1>0, <1>4 DEF TwTimer
  <2>3. QED
    BY <1>0, <2>1, <2>2, <1>0a DEF IInv
<1>5. CASE RequestTimeout \/ OtherConnection
  BY <1>0, <1>5, <1>0a DEF IInv, RequestTimeout, OtherConnection
<1>6. ASSUME NEW twp \in BOOLEAN, tcp_twsk_unique(twp)
      PROVE  IInv'
  <2>1. tw' \in TwType
    BY ZenonT(40), <1>0, <1>6 DEF tcp_twsk_unique, TwType
  <2>2. QED
    BY <1>0, <1>6, <2>1, <1>0a DEF IInv, tcp_twsk_unique
<1>7. CASE PeerWrites
  <2>1. Segment(peer.nxt, 1, {"ACK"}, Ts(now)) \in SegType
    BY <1>a, <1>b, SegmentType
  <2>2. peer' \in PeerType
    BY ZenonT(40), <1>0, <1>7, <1>c DEF PeerWrites, PeerType
  <2>3. QED
    BY <1>0, <1>7, <2>1, <2>2, <1>0a DEF IInv, PeerWrites
<1>8. CASE PeerCloses
  <2>1. Segment(peer.nxt, 1, {"FIN", "ACK"}, Ts(now)) \in SegType
    BY <1>a, <1>b, SegmentType
  <2>2. peer' \in PeerType
    BY ZenonT(40), <1>0, <1>8, <1>c DEF PeerCloses, PeerType
  <2>3. QED
    BY <1>0, <1>8, <2>1, <2>2, <1>0a DEF IInv, PeerCloses
<1>9. CASE PeerRetransmits
  <2>1. Segment(Minus(peer.nxt, 1), 1, {"FIN", "ACK"}, Ts(now)) \in SegType
    BY <1>b, <1>c, SegmentType
  <2>2. peer' \in PeerType
    BY <1>0, <1>9 DEF PeerRetransmits, PeerType
  <2>3. QED
    BY <1>0, <1>9, <2>1, <2>2, <1>0a DEF IInv, PeerRetransmits
<1>10. ASSUME NEW r \in out, PeerHears(r)
       PROVE  IInv'
  <2>1. Segment(r.ackno, 0, {"RST"}, 0) \in SegType
    BY <1>0, SegmentType
  <2>2. net' \subseteq SegType /\ UNCHANGED <<tw, out, now>>
    BY <1>0, <1>10, <2>1 DEF PeerHears
  <2>3. peer' \in PeerType
    BY ZenonT(40), <1>0, <1>10 DEF PeerHears, PeerType
  <2>4. QED
    BY <1>0, <2>2, <2>3, <1>0a DEF IInv
<1>11. ASSUME NEW isn \in NewIsns, PeerOpens(isn)
       PROVE  IInv'
  <2>1. isn \in Seq32
    BY <1>0a, RecycleConstants DEF NewIsns
  <2>2. Segment(isn, 1, {"SYN", "NEW"}, Ts(now)) \in SegType
    BY <1>b, <2>1, SegmentType
  <2>3. peer' \in PeerType
    BY ZenonT(40), <1>0, <1>11, <2>1 DEF PeerOpens, PeerType
  <2>4. QED
    BY <1>0, <1>11, <2>2, <2>3, <1>0a DEF IInv, PeerOpens
<1>12. CASE Tick
  BY <1>0, <1>12, <1>0a DEF IInv, Tick
<1>13. CASE UNCHANGED vars
  BY <1>0, <1>13, <1>0a DEF IInv, vars
<1>14. QED
  BY <1>1, <1>2, <1>3, <1>4, <1>5, <1>6, <1>7, <1>8, <1>9, <1>10, <1>11, <1>12, <1>13 DEF Next

\* Whatever the lengths and numbers: the initial number that replaces a
\* TIME_WAIT socket is never 0, after everything the old connection used, and
\* outside the window of a peer that has not closed yet.
THEOREM NextIsnAlwaysFresh == Spec => []NextIsnFresh
<1>1. IInv => NextIsnFresh
  <2> SUFFICES ASSUME IInv PROVE NextIsnFresh
    OBVIOUS
  <2>1. tw.snd_nxt \in Seq32
    BY DEF IInv, TwType
  <2>2. QED
    BY <2>1, FreshNumber DEF NextIsnFresh
<1>2. QED
  BY <1>1, InitIInv, StepIInv, PTL DEF Spec

\* In every reachable state tcp_in_window judges every segment under way as
\* RFC 793 asks.
THEOREM WindowAlwaysExact == Spec => []WindowExact
<1>1. IInv => WindowExact
  <2> SUFFICES ASSUME IInv, NEW seg \in net, NEW wnd \in 0..Wnd
               PROVE  WindowExactFor(seg.seq, Minus(seg.end, seg.seq), tw.rcv_nxt, wnd)
    BY DEF WindowExact
  <2>1. tw.rcv_nxt \in Seq32
    BY DEF IInv, TwType
  <2>2. seg.seq \in Seq32 /\ Minus(seg.end, seg.seq) \in {0, 1}
    BY DEF IInv, SegType
  <2>3. wnd \in Nat /\ 4 * wnd <= SeqMod
    BY RecycleConstants, SequenceSpace
  <2>4. SeqMod >= 4
    BY SequenceSpace
  <2>5. 4 * Minus(seg.end, seg.seq) <= SeqMod /\ Minus(seg.end, seg.seq) \in Nat
    <3>1. CASE Minus(seg.end, seg.seq) = 0
      BY <2>4, <3>1, SequenceSpace
    <3>2. CASE Minus(seg.end, seg.seq) = 1
      BY <2>4, <3>2, SequenceSpace
    <3>3. QED
      BY <2>2, <3>1, <3>2
  <2>6. QED
    BY <2>1, <2>2, <2>3, <2>4, <2>5, WindowTestExact
<1>2. QED
  BY <1>1, InitIInv, StepIInv, PTL DEF Spec

\* Both at once: what the TIME_WAIT state computes with sequence numbers is right for every
\* length of the sequence space.
THEOREM SequencesAlwaysRight == Spec => []SequencesRight
<1>1. NextIsnFresh /\ WindowExact => SequencesRight
  BY DEF SequencesRight
<1>2. QED
  BY <1>1, NextIsnAlwaysFresh, WindowAlwaysExact, PTL
=============================================================================
