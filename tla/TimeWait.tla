------------------------------ MODULE TimeWait ------------------------------
(***************************************************************************)
(* What a socket in TIME_WAIT, or in FIN_WAIT2 with nobody left to read,    *)
(* does with a segment: sequence arithmetic modulo SeqMod,                  *)
(* tcp_timewait_state_process, and the initial sequence number of the       *)
(* connection that may take its place.                                      *)
(*                                                                         *)
(* tw is a record: substate, rcv_nxt, snd_nxt, rcv_wnd, ts (tw_ts_recent,   *)
(* 0 without timestamps), at (tw_ts_recent_stamp), timer ("short": some     *)
(* round trips, "long": TCP_TIMEWAIT_LEN), timeout (tw_timeout).  A segment *)
(* has seq, end (end_seq), its flags, and ts (0 without the option).        *)
(***************************************************************************)
EXTENDS Integers

CONSTANTS
    SeqMod,       \* sequence numbers are taken modulo SeqMod (2^32)
    Jump,         \* the distance to the next initial number (65535 + 2)
    Rfc1337       \* sysctl_tcp_rfc1337: ignore resets in TIME_WAIT

ASSUME SequenceSpace ==
    /\ SeqMod \in Nat /\ SeqMod > 0 /\ SeqMod % 2 = 0
    /\ Jump \in Nat /\ Jump > 1 /\ 2 * Jump + 2 < SeqMod
    /\ Rfc1337 \in BOOLEAN

Seq32 == 0..(SeqMod - 1)

\* u32 addition and subtraction.
Add(a, n) == IF a + n < SeqMod THEN a + n ELSE a + n - SeqMod

Minus(a, b) == IF a >= b THEN a - b ELSE a - b + SeqMod

\* (s32)(a - b) < 0
before(a, b) == 2 * Minus(a, b) >= SeqMod

after(a, b) == before(b, a)

tcp_in_window(seq, end_seq, s_win, e_win) ==
    \/ seq = s_win
    \/ after(end_seq, s_win) /\ before(seq, e_win)
    \/ seq = e_win /\ seq = end_seq

\* MUTANT: the number that means "no TIME_WAIT socket" is not avoided.
NextIsnZero(snd_nxt) == Add(snd_nxt, Jump)

\* tcp_timewait_state_process for a SYN, tcp_twsk_unique for a connect().
NextIsn(snd_nxt) == IF Add(snd_nxt, Jump) = 0 THEN 1 ELSE Add(snd_nxt, Jump)

saw_tstamp(tw, seg) == seg.ts # 0 /\ tw.ts # 0

paws_reject(tw, seg) == saw_tstamp(tw, seg) /\ seg.ts < tw.ts

InWindow(tw, seg) ==
    tcp_in_window(seg.seq, seg.end, tw.rcv_nxt, Add(tw.rcv_nxt, tw.rcv_wnd))

Verdict(v, tw) == [verdict |-> v, tw |-> tw]

Descheduled(tw) == [tw EXCEPT !.substate = "dead"]

Rescheduled(tw) == [tw EXCEPT !.timer = "long"]

Stamped(tw, seg, now) ==
    IF saw_tstamp(tw, seg) THEN [tw EXCEPT !.ts = seg.ts, !.at = now] ELSE tw

\* The FIN came: true TIME_WAIT, for tw_timeout when the peer table has taken
\* the timestamp (recycle_ok), else for TCP_TIMEWAIT_LEN.
EnterTrueTimeWait(tw, seg, now, recycle_ok) ==
    Stamped([tw EXCEPT !.substate = "TIME_WAIT", !.rcv_nxt = seg.end,
                       !.timer = IF recycle_ok THEN tw.timeout ELSE "long"], seg, now)

\* MUTANT: the FIN is looked for one number too early.
ClosesEarly(tw, seg) == seg.fin /\ seg.end = tw.rcv_nxt

\* The FIN we wait for, with no data before it.
Closes(tw, seg) == seg.fin /\ seg.end = Add(tw.rcv_nxt, 1)

\* Dead FIN_WAIT2: the checks of tcp_rcv_state_process once more.
DeadFinWait2(tw, seg, now, recycle_ok) ==
    IF paws_reject(tw, seg) \/ ~InWindow(tw, seg) THEN Verdict("ACK", tw)
    ELSE IF seg.rst THEN Verdict("SUCCESS", Descheduled(tw))
    ELSE IF seg.syn /\ ~before(seg.seq, tw.rcv_nxt) THEN Verdict("RST", Descheduled(tw))
    ELSE IF ~seg.ack \/ ~after(seg.end, tw.rcv_nxt) \/ seg.end = seg.seq THEN Verdict("SUCCESS", tw)
    ELSE IF Closes(tw, seg) THEN Verdict("ACK", EnterTrueTimeWait(tw, seg, now, recycle_ok))
    ELSE Verdict("RST", Descheduled(tw))

\* A reset or a bare ACK at rcv_nxt.
InPlace(tw, seg) ==
    ~paws_reject(tw, seg) /\ seg.seq = tw.rcv_nxt /\ (seg.seq = seg.end \/ seg.rst)

\* A SYN that may start the next connection: not an old duplicate.
NewSyn(tw, seg) ==
    /\ seg.syn /\ ~seg.rst /\ ~seg.ack /\ ~paws_reject(tw, seg)
    /\ \/ after(seg.seq, tw.rcv_nxt)
       \/ saw_tstamp(tw, seg) /\ tw.ts < seg.ts

TrueTimeWait(tw, seg, now) ==
    IF InPlace(tw, seg)
    THEN Verdict("SUCCESS", IF seg.rst /\ ~Rfc1337 THEN Descheduled(tw)
                            ELSE Stamped(Rescheduled(tw), seg, now))
    ELSE IF NewSyn(tw, seg) THEN Verdict("SYN", tw)
    ELSE IF seg.rst THEN Verdict("SUCCESS", tw)
    ELSE Verdict("ACK", IF paws_reject(tw, seg) \/ seg.ack THEN Rescheduled(tw) ELSE tw)

tcp_timewait_state_process(tw, seg, now, recycle_ok) ==
    IF tw.substate = "FIN_WAIT2" THEN DeadFinWait2(tw, seg, now, recycle_ok)
    ELSE TrueTimeWait(tw, seg, now)

-----------------------------------------------------------------------------

\* The numbers of a segment, or of a window of n numbers from a.
Octets(a, n) == {Add(a, i) : i \in 0..(n - 1)}

\* The test RFC 793 asks for: a segment with data has an octet in the window,
\* an empty one lies in it or at its right edge; a window of zero still has its
\* left edge, where a probe is heard.
Acceptable(seq, len, s, wnd) ==
    IF len = 0 THEN seq \in Octets(s, wnd + 1)
    ELSE Octets(seq, len) \cap Octets(s, IF wnd = 0 THEN 1 ELSE wnd) # {}

\* tcp_in_window agrees, except half the space away, where a number is both
\* before and after: there an empty segment passes for the edge of a window of
\* zero.
WindowExactFor(seq, len, s, wnd) ==
    2 * Minus(seq, s) # SeqMod
      => (tcp_in_window(seq, Add(seq, len), s, Add(s, wnd)) <=> Acceptable(seq, len, s, wnd))

\* The number chosen is not 0, lies after the last one used, and beyond a window
\* that the old peer could still have open.
FreshFor(snd_nxt, wnd) ==
    /\ NextIsn(snd_nxt) # 0
    /\ after(NextIsn(snd_nxt), snd_nxt)
    /\ ~tcp_in_window(NextIsn(snd_nxt), Add(NextIsn(snd_nxt), 1), snd_nxt, Add(snd_nxt, wnd))
=============================================================================
