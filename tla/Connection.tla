----------------------------- MODULE Connection -----------------------------
(***************************************************************************)
(* The two ends of one connection, each running the receive state machine   *)
(* of tcp_input.c and the socket calls of af_inet.c, over a network that    *)
(* loses, repeats, delays and reorders segments.                            *)
(*                                                                         *)
(* sk[e] is the socket of end e, with the request it may have in LISTEN and *)
(* the TIME_WAIT socket it may leave; every handler is an operator from     *)
(* that record to its next value, and what it sends collects in the field   *)
(* out.  The network is the set of all segments ever sent: one that is never *)
(* delivered is lost, one delivered again repeats or was sent again.        *)
(* Segments after a hole are not queued here (ReceiveQueue does that): they *)
(* stay in the network.  Windows, congestion and timestamps play no role.   *)
(***************************************************************************)
EXTENDS TimeWait, FiniteSets

CONSTANTS
    Iss,          \* initial sequence number of each end
    Wnd,          \* receive window
    Confs         \* the programs at the ends to look at

Ends == {"A", "B"}

Peer(e) == IF e = "A" THEN "B" ELSE "A"

\*   mode       "passive": B listens, "crossed": both ends connect
\*   data       bytes each end may send
\*   requests   requests the listener takes after its first was dropped
\*   abort      may an end close with unread data, give up or hear ICMP?
\*   shutdowns  the values of how for shutdown() at each end: of {"RD", "WR", "RDWR"}
\*   fintimes   tcp_fin_time: "short" (at most TCP_TIMEWAIT_LEN), "long",
\*              "none" (linger2 < 0)
ASSUME ConnectionConstants ==
    /\ Iss \in [Ends -> Nat] /\ Wnd \in Nat
    /\ \A c \in Confs :
        /\ c.mode \in {"passive", "crossed"} /\ c.data \in [Ends -> Nat]
        /\ c.requests \in Nat /\ c.abort \in BOOLEAN
        /\ c.shutdowns \in [Ends -> SUBSET {"RD", "WR", "RDWR"}]
        /\ c.fintimes \subseteq {"short", "long", "none"} /\ c.fintimes # {}

VARIABLES
    conf,         \* the programs looked at: chosen first, then fixed
    sk,           \* the socket of each end
    net           \* every segment sent so far

vars == <<conf, sk, net>>

NoSeq == -1

\* Initial numbers of one listener lie this far apart.
Renewal == 6

\* Flags are a set; end_seq counts data, SYN and FIN.
Seg(to, seq, len, flags, ackno) ==
    [to |-> to, seq |-> seq, len |-> len, ackno |-> ackno,
     end |-> seq + len + (IF "SYN" \in flags THEN 1 ELSE 0) + (IF "FIN" \in flags THEN 1 ELSE 0),
     syn |-> "SYN" \in flags, fin |-> "FIN" \in flags, rst |-> "RST" \in flags,
     ack |-> "ACK" \in flags, ts |-> 0]

\* isn: our initial number.  irs: the request of a listener, or the peer's number.  done: SOCK_DONE.
\* dead: SOCK_DEAD.  copied: copied_seq.  due: an ACK is scheduled.  used: a
\* connection was opened.  waits: a task is inside connect().  gave: why this
\* end has refused or abandoned the connection.
Socket(e, state) ==
    [me |-> e, state |-> state, ss |-> "SS_UNCONNECTED", isn |-> Iss[e], irs |-> NoSeq,
     snd_una |-> Iss[e], snd_nxt |-> Iss[e], sent |-> 0, got |-> 0,
     rcv_nxt |-> NoSeq, rcv_wup |-> NoSeq, copied |-> NoSeq,
     rshut |-> FALSE, sshut |-> FALSE, done |-> FALSE, dead |-> FALSE, due |-> FALSE,
     err |-> "0", used |-> FALSE, waits |-> FALSE, impossible |-> FALSE,
     gave |-> {}, out |-> {}]

Init ==
    /\ conf \in Confs
    /\ sk = [A |-> Socket("A", "CLOSE"),
             B |-> Socket("B", IF conf.mode = "passive" THEN "LISTEN" ELSE "CLOSE")]
    /\ net = {}

-----------------------------------------------------------------------------
(* Sending. *)

Emit(s, seq, len, flags, ackno) ==
    [s EXCEPT !.out = @ \cup {Seg(Peer(s.me), seq, len, flags, ackno)}]

\* What goes out with an ACK tells the peer of the window from rcv_nxt.
Acked(s) == [s EXCEPT !.rcv_wup = s.rcv_nxt, !.due = FALSE]

\* MUTANT: acknowledges one number too many.
SendAckAhead(s) == Acked(Emit(s, s.snd_nxt, 0, {"ACK"}, s.rcv_nxt + 1))

tcp_send_ack(s) == Acked(Emit(s, s.snd_nxt, 0, {"ACK"}, s.rcv_nxt))

tcp_send_fin(s) ==
    [Acked(Emit(s, s.snd_nxt, 0, {"FIN", "ACK"}, s.rcv_nxt)) EXCEPT !.snd_nxt = @ + 1]

tcp_v4_send_reset(s, g) ==
    IF g.rst THEN s
    ELSE IF g.ack THEN Emit(s, g.ackno, 0, {"RST"}, 0)
    ELSE Emit(s, 0, 0, {"RST", "ACK"}, g.end)

Gave(s, why) == [s EXCEPT !.gave = @ \cup {why}]

-----------------------------------------------------------------------------
(* Ending. *)

tcp_done(s) == [s EXCEPT !.state = "CLOSE", !.rshut = TRUE, !.sshut = TRUE, !.due = FALSE]

\* The socket is replaced by a TIME_WAIT one in substate TIME_WAIT or FIN_WAIT2.
tcp_time_wait(s, substate) ==
    [tcp_done(s) EXCEPT !.state = IF substate = "FIN_WAIT2" THEN "TW_FIN_WAIT2" ELSE "TIME_WAIT"]

tcp_reset(s) ==
    IF s.state = "CLOSE" THEN s
    ELSE tcp_done([s EXCEPT !.err = CASE s.state = "SYN_SENT"   -> "ECONNREFUSED"
                                      [] s.state = "CLOSE_WAIT" -> "EPIPE"
                                      [] OTHER                  -> "ECONNRESET"])

-----------------------------------------------------------------------------
(* The parts of a segment. *)

tcp_fin(s) ==
    LET t == [s EXCEPT !.due = TRUE, !.rshut = TRUE, !.done = TRUE]
    IN  CASE s.state \in {"SYN_RECV", "ESTABLISHED"}           -> [t EXCEPT !.state = "CLOSE_WAIT"]
          [] s.state \in {"CLOSE_WAIT", "CLOSING", "LAST_ACK"} -> t
          [] s.state = "FIN_WAIT1"                             -> [tcp_send_ack(t) EXCEPT !.state = "CLOSING"]
          [] s.state = "FIN_WAIT2"                             -> tcp_time_wait(tcp_send_ack(t), "TIME_WAIT")
          [] OTHER                                             -> [t EXCEPT !.impossible = TRUE]

\* tcp_data_queue: old data and data after a hole ask for an ACK at once.
tcp_data_queue(s, g) ==
    IF g.seq = g.end THEN s
    ELSE IF ~after(g.end, s.rcv_nxt) \/ after(g.seq, s.rcv_nxt) THEN tcp_send_ack(s)
    ELSE LET t == [s EXCEPT !.rcv_nxt = g.end, !.got = @ + g.len, !.due = TRUE]
         IN  IF g.fin THEN tcp_fin(t) ELSE t

\* tcp_ack > 0, = 0 and < 0: the ACK is in the window, old, or of what was
\* never sent.
Acceptable_ack(s, g) == ~before(g.ackno, s.snd_una) /\ ~after(g.ackno, s.snd_nxt)

tcp_ack(s, g) == IF Acceptable_ack(s, g) THEN [s EXCEPT !.snd_una = g.ackno] ELSE s

tcp_receive_window(s) == IF s.rcv_wup + Wnd < s.rcv_nxt THEN 0 ELSE s.rcv_wup + Wnd - s.rcv_nxt

tcp_sequence(s, g) ==
    ~before(g.end, s.rcv_wup) /\ ~after(g.seq, s.rcv_nxt + tcp_receive_window(s))

\* MUTANT: a repeated SYN counts as one in the window.
ValidateOldSyn(s, g) ==
    IF ~tcp_sequence(s, g) THEN [res |-> 0, sk |-> IF g.rst THEN s ELSE tcp_send_ack(s)]
    ELSE IF g.rst THEN [res |-> 0, sk |-> tcp_reset(s)]
    ELSE IF g.syn THEN [res |-> -1, sk |-> tcp_reset(s)]
    ELSE [res |-> 1, sk |-> s]

\* res: 1 go on, 0 discard, -1 answer with a reset.
tcp_validate_incoming(s, g) ==
    IF ~tcp_sequence(s, g) THEN [res |-> 0, sk |-> IF g.rst THEN s ELSE tcp_send_ack(s)]
    ELSE IF g.rst THEN [res |-> 0, sk |-> tcp_reset(s)]
    ELSE IF g.syn /\ ~before(g.seq, s.rcv_nxt) THEN [res |-> -1, sk |-> tcp_reset(s)]
    ELSE [res |-> 1, sk |-> s]

-----------------------------------------------------------------------------
(* The receive routines.  The result says whether the caller answers with a  *)
(* reset, and whether tcp_ack_snd_check ends the routine.                    *)

Ok(s) == [reset |-> FALSE, check |-> FALSE, sk |-> s]

Rst(s) == [reset |-> TRUE, check |-> FALSE, sk |-> s]

\* tcp_ack_snd_check: the ACK that is due goes now or waits for the timer.
AckSndCheck(s) == [reset |-> FALSE, check |-> s.due, sk |-> s]

\* Data beyond what has come.
NewData(s, g) == g.end # g.seq /\ after(g.end - (IF g.fin THEN 1 ELSE 0), s.rcv_nxt)

\* Step 7: the segment text.  Nobody is left to read it after a shutdown.
SegmentText(s, g, tmo) ==
    IF s.state \in {"CLOSE_WAIT", "CLOSING", "LAST_ACK"} /\ ~before(g.seq, s.rcv_nxt)
    THEN AckSndCheck(s)
    ELSE IF s.state # "ESTABLISHED" /\ s.rshut /\ NewData(s, g)
    THEN Rst(Gave(tcp_reset(s), "data"))
    ELSE AckSndCheck(tcp_data_queue(s, g))

\* FIN_WAIT1 and our FIN is acknowledged.  s is in FIN_WAIT2 already.
FinAcked(s, g, tmo) ==
    IF ~s.dead THEN SegmentText(s, g, tmo)
    ELSE IF tmo = "none" \/ NewData(s, g)
    THEN Rst(Gave(tcp_done(s), IF tmo = "none" THEN "linger2" ELSE "data"))
    ELSE IF tmo = "long" \/ g.fin THEN SegmentText(s, g, tmo)
    ELSE Ok(tcp_time_wait(s, "FIN_WAIT2"))

\* MUTANT: any ACK completes the close.
AckFieldAny(s, ok, g, tmo) ==
    CASE s.state = "SYN_RECV" ->
           IF ok THEN SegmentText([s EXCEPT !.state = "ESTABLISHED", !.copied = s.rcv_nxt], g, tmo)
           ELSE Rst(s)
      [] s.state = "FIN_WAIT1" -> FinAcked([s EXCEPT !.state = "FIN_WAIT2", !.sshut = TRUE], g, tmo)
      [] s.state = "CLOSING"   -> Ok(tcp_time_wait(s, "TIME_WAIT"))
      [] s.state = "LAST_ACK"  -> Ok(tcp_done(s))
      [] OTHER                 -> SegmentText(s, g, tmo)

\* MUTANT: the ACK of our FIN is not noticed in CLOSING.
AckFieldNotClosing(s, ok, g, tmo) ==
    CASE s.state = "SYN_RECV" ->
           IF ok THEN SegmentText([s EXCEPT !.state = "ESTABLISHED", !.copied = s.rcv_nxt], g, tmo)
           ELSE Rst(s)
      [] s.state = "FIN_WAIT1" /\ s.snd_una = s.snd_nxt ->
           FinAcked([s EXCEPT !.state = "FIN_WAIT2", !.sshut = TRUE], g, tmo)
      [] s.state = "LAST_ACK" /\ s.snd_una = s.snd_nxt -> Ok(tcp_done(s))
      [] OTHER -> SegmentText(s, g, tmo)

\* Step 5: the ACK field.  ok: the ACK was acceptable, and s has taken it.
AckField(s, ok, g, tmo) ==
    CASE s.state = "SYN_RECV" ->
           IF ok THEN SegmentText([s EXCEPT !.state = "ESTABLISHED", !.copied = s.rcv_nxt], g, tmo)
           ELSE Rst(s)
      [] s.state = "FIN_WAIT1" /\ s.snd_una = s.snd_nxt ->
           FinAcked([s EXCEPT !.state = "FIN_WAIT2", !.sshut = TRUE], g, tmo)
      [] s.state = "CLOSING" /\ s.snd_una = s.snd_nxt -> Ok(tcp_time_wait(s, "TIME_WAIT"))
      [] s.state = "LAST_ACK" /\ s.snd_una = s.snd_nxt -> Ok(tcp_done(s))
      [] OTHER -> SegmentText(s, g, tmo)

Validated(v, g, tmo) ==
    IF v.res = -1 THEN Rst(v.sk)
    ELSE IF v.res = 0 THEN Ok(v.sk)
    ELSE IF ~g.ack THEN Ok(v.sk)
    ELSE AckField(tcp_ack(v.sk, g), Acceptable_ack(v.sk, g), g, tmo)

\* tcp_rcv_state_process in the synchronized states and SYN_RECV.
tcp_rcv_state_process(s, g, tmo) == Validated(tcp_validate_incoming(s, g), g, tmo)

ValidatedEstablished(v, g, tmo) ==
    IF v.res = -1 THEN Rst(v.sk)
    ELSE IF v.res = 0 THEN Ok(v.sk)
    ELSE IF g.ack /\ after(g.ackno, v.sk.snd_nxt) THEN Ok(v.sk)
    ELSE AckSndCheck(tcp_data_queue(IF g.ack THEN tcp_ack(v.sk, g) ELSE v.sk, g))

tcp_rcv_established(s, g, tmo) == ValidatedEstablished(tcp_validate_incoming(s, g), g, tmo)

\* The peer's number is known.
Synchronized(s, g, state) ==
    [s EXCEPT !.state = state, !.irs = g.seq, !.rcv_nxt = g.seq + 1, !.rcv_wup = g.seq + 1]

\* MUTANT: a SYN is enough, whatever it acknowledges.
SynSentAnySyn(s, g, tmo) ==
    IF g.rst THEN Ok(IF g.ack /\ g.ackno = s.snd_nxt THEN tcp_reset(s) ELSE s)
    ELSE IF ~g.syn THEN Ok(s)
    ELSE LET t == [Synchronized(s, g, "ESTABLISHED") EXCEPT !.copied = g.seq + 1, !.due = TRUE]
         IN  AckSndCheck(t)

tcp_rcv_synsent_state_process(s, g, tmo) ==
    IF g.ack
    THEN IF g.ackno # s.snd_nxt THEN Rst(s)
         ELSE IF g.rst THEN Ok(tcp_reset(s))
         ELSE IF ~g.syn THEN Ok(s)
         ELSE LET t == [Synchronized(tcp_ack(s, g), g, "ESTABLISHED")
                          EXCEPT !.copied = g.seq + 1, !.due = TRUE]
              IN  AckSndCheck(t)
    ELSE IF g.rst \/ ~g.syn THEN Ok(s)
    ELSE Ok(Emit(Synchronized(s, g, "SYN_RECV"), s.isn, 0, {"SYN", "ACK"}, g.seq + 1))

-----------------------------------------------------------------------------
(* The listener of a passive open, which takes one connection. *)

\* The next request has another number.
ReqDropped(s) == [s EXCEPT !.irs = NoSeq, !.isn = @ + Renewal]

SynAck(s) == Emit(s, s.isn, 0, {"SYN", "ACK"}, s.irs + 1)

\* tcp_v4_syn_recv_sock: the child takes the place of its listener here.
Child(s) ==
    [Synchronized(s, [seq |-> s.irs], "SYN_RECV")
       EXCEPT !.snd_una = s.isn + 1, !.snd_nxt = s.isn + 1, !.copied = s.irs + 1,
              !.used = TRUE]

\* tcp_check_req, then tcp_child_process.
tcp_check_req(s, g, tmo) ==
    IF g.seq = s.irs /\ g.syn /\ ~g.ack /\ ~g.rst THEN Ok(SynAck(s))
    ELSE IF g.ack /\ g.ackno # s.isn + 1 THEN Rst(s)
    ELSE IF ~tcp_in_window(g.seq, g.end, s.irs + 1, s.irs + 1 + Wnd)
    THEN Ok(IF g.rst THEN s ELSE Emit(s, s.isn + 1, 0, {"ACK"}, s.irs + 1))
    ELSE IF g.rst \/ (g.syn /\ g.seq # s.irs)
    THEN (IF g.rst THEN Ok(ReqDropped(s)) ELSE Rst(ReqDropped(s)))
    ELSE IF ~g.ack THEN Ok(s)
    ELSE tcp_rcv_state_process(Child(s), g, tmo)

RcvListen(s, g, tmo) ==
    IF s.irs # NoSeq THEN tcp_check_req(s, g, tmo)
    ELSE IF g.ack THEN Rst(s)
    ELSE IF g.rst \/ ~g.syn \/ s.isn > Iss[s.me] + conf.requests * Renewal THEN Ok(s)
    ELSE Ok(SynAck([s EXCEPT !.irs = g.seq]))

-----------------------------------------------------------------------------
(* TIME_WAIT, by tcp_timewait_state_process of module TimeWait. *)

Timewait_sock(s) ==
    [substate |-> IF s.state = "TIME_WAIT" THEN "TIME_WAIT" ELSE "FIN_WAIT2",
     rcv_nxt |-> s.rcv_nxt, snd_nxt |-> s.snd_nxt, rcv_wnd |-> tcp_receive_window(s),
     ts |-> 0, at |-> 0, timer |-> "long", timeout |-> "long"]

TimewaitDone(s, v) ==
    LET t == [s EXCEPT !.state = CASE v.tw.substate = "dead"      -> "CLOSE"
                                   [] v.tw.substate = "FIN_WAIT2" -> "TW_FIN_WAIT2"
                                   [] OTHER                       -> "TIME_WAIT",
                       !.done = @ \/ v.tw.substate = "TIME_WAIT", !.rcv_nxt = v.tw.rcv_nxt]
    IN  IF v.verdict = "RST" THEN Rst(Gave(t, "data"))
        ELSE IF v.verdict = "SUCCESS" THEN Ok(t)
        ELSE Ok(Emit(t, s.snd_nxt, 0, {"ACK"}, t.rcv_nxt))

\* tcp_v4_rcv with no socket: a reset.
RcvClosed(s) == Rst(IF s.used THEN s ELSE Gave(s, "nobody"))

\* tcp_v4_rcv and tcp_v4_do_rcv, up to the reset they may send.
Received(s, g, tmo) ==
    CASE s.state = "CLOSE"       -> RcvClosed(s)
      [] s.state = "LISTEN"      -> RcvListen(s, g, tmo)
      [] s.state = "SYN_SENT"    -> tcp_rcv_synsent_state_process(s, g, tmo)
      [] s.state = "ESTABLISHED" -> tcp_rcv_established(s, g, tmo)
      [] s.state \in {"TIME_WAIT", "TW_FIN_WAIT2"} ->
           TimewaitDone(s, tcp_timewait_state_process(Timewait_sock(s), g, 0, FALSE))
      [] OTHER                   -> tcp_rcv_state_process(s, g, tmo)

Answered(r, g) ==
    IF r.reset THEN tcp_v4_send_reset(r.sk, g) ELSE r.sk

\* The socket of e becomes s, and what it sent goes out.
Becomes(e, s) ==
    /\ sk' = [sk EXCEPT ![e] = [s EXCEPT !.out = {}]]
    /\ net' = net \cup s.out

Deliver(e, g, r) ==
    \/ Becomes(e, Answered(r, g))
    \/ r.check /\ Becomes(e, tcp_send_ack(r.sk))

\* A segment arrives: any that was ever sent, any time while an end has a socket
\* (once both are closed, only resets come and go).
tcp_v4_rcv(e) ==
    /\ \E f \in Ends : sk[f].state # "CLOSE"
    /\ \E g \in net, tmo \in IF sk[e].state = "FIN_WAIT1" /\ sk[e].dead THEN conf.fintimes ELSE {"short"} :
        g.to = e /\ Deliver(e, g, Received(sk[e], g, tmo))

-----------------------------------------------------------------------------
(* Timers.  External: the code of tcp_timer.c and inet_timewait_sock.c. *)

DelackTimer(e) == sk[e].due /\ Becomes(e, tcp_send_ack(sk[e]))

\* A dead FIN_WAIT2 has waited long enough.
KeepaliveTimer(e) ==
    /\ sk[e].state = "FIN_WAIT2" /\ sk[e].dead
    /\ Becomes(e, tcp_time_wait(sk[e], "FIN_WAIT2"))

\* Retransmissions without an answer, or a request whose SYN-ACKs had none.
RetransTimeout(e) ==
    /\ conf.abort
    /\ \/ /\ sk[e].state \notin {"CLOSE", "LISTEN", "TIME_WAIT", "TW_FIN_WAIT2"}
          /\ sk[e].snd_una # sk[e].snd_nxt
          /\ Becomes(e, Gave(tcp_done([sk[e] EXCEPT !.err = "ETIMEDOUT"]), "timeout"))
       \/ /\ sk[e].state = "LISTEN" /\ sk[e].irs # NoSeq
          /\ Becomes(e, Gave(ReqDropped(sk[e]), "timeout"))

\* TIME_WAIT lasts until the peer has no use for it; dead FIN_WAIT2 does not.
TwTimer(e) ==
    \/ /\ sk[e].state = "TIME_WAIT" /\ sk[Peer(e)].state \in {"CLOSE", "TIME_WAIT"}
       /\ Becomes(e, [sk[e] EXCEPT !.state = "CLOSE"])
    \/ /\ conf.abort /\ sk[e].state = "TW_FIN_WAIT2"
       /\ Becomes(e, Gave([sk[e] EXCEPT !.state = "CLOSE"], "timeout"))

-----------------------------------------------------------------------------
(* ICMP errors. *)

\* MUTANT: the error is kept for later and the socket waits on.
IcmpSoft(s, hard) ==
    IF s.state \in {"SYN_SENT", "SYN_RECV"} \/ hard THEN [s EXCEPT !.err = "EHOSTUNREACH"] ELSE s

\* hard: IP_RECVERR is set.
IcmpError(s, hard) ==
    CASE s.state = "LISTEN" -> Gave(ReqDropped(s), "icmp")
      [] s.state \in {"SYN_SENT", "SYN_RECV"} -> Gave(tcp_done([s EXCEPT !.err = "EHOSTUNREACH"]), "icmp")
      [] OTHER -> IF hard THEN [s EXCEPT !.err = "EHOSTUNREACH"] ELSE s

\* An error about a segment of ours comes back.
tcp_v4_err(e) ==
    /\ conf.abort
    /\ sk[e].state \notin {"CLOSE", "TIME_WAIT", "TW_FIN_WAIT2"}
    /\ \E g \in net, hard \in BOOLEAN :
        /\ g.to = Peer(e)
        /\ IF sk[e].state = "LISTEN" THEN sk[e].irs # NoSeq /\ g.seq = sk[e].isn
           ELSE ~before(g.seq, sk[e].snd_una) /\ ~after(g.seq, sk[e].snd_nxt)
        /\ Becomes(e, IcmpError(sk[e], hard))

-----------------------------------------------------------------------------
(* The socket calls. *)

\* tcp_disconnect (external): an abort.
tcp_disconnect(s) ==
    Gave(tcp_done(IF s.state = "SYN_SENT" THEN [s EXCEPT !.err = "ECONNRESET"] ELSE s), "disconnect")

\* inet_stream_connect up to its wait: tcp_v4_connect sends the SYN.  One
\* connect() per socket.
MayConnect(s) == s.ss = "SS_UNCONNECTED" /\ s.state = "CLOSE" /\ ~s.used

Connect(e) ==
    /\ MayConnect(sk[e])
    /\ Becomes(e, [Emit(sk[e], Iss[e], 0, {"SYN"}, 0)
                      EXCEPT !.state = "SYN_SENT", !.snd_nxt = @ + 1, !.ss = "SS_CONNECTING",
                             !.used = TRUE, !.waits = TRUE])

\* inet_stream_connect after inet_wait_for_connect, which looks at sk_state
\* only: what has become of sock->state meanwhile does not matter.
inet_wait_for_connect(s) == s.state \notin {"SYN_SENT", "SYN_RECV"}

ConnectReturns(e) ==
    /\ sk[e].waits /\ inet_wait_for_connect(sk[e])
    /\ Becomes(e, IF sk[e].state \in {"CLOSE", "TIME_WAIT", "TW_FIN_WAIT2"}
                  THEN [tcp_disconnect([sk[e] EXCEPT !.err = "0"])
                          EXCEPT !.waits = FALSE, !.ss = "SS_UNCONNECTED"]
                  ELSE [sk[e] EXCEPT !.waits = FALSE, !.ss = "SS_CONNECTED"])

\* inet_accept of the child, when it has left SYN_RECV.
MayAccept(s) == conf.mode = "passive" /\ s.me = "B" /\ s.used /\ s.ss = "SS_UNCONNECTED"

inet_accept(e) ==
    /\ MayAccept(sk[e])
    /\ Becomes(e, [sk[e] EXCEPT !.ss = "SS_CONNECTED"])

inet_sendmsg(e) ==
    /\ sk[e].ss = "SS_CONNECTED" /\ ~sk[e].dead /\ ~sk[e].sshut /\ sk[e].sent < conf.data[e]
    /\ sk[e].state \in {"ESTABLISHED", "CLOSE_WAIT"}
    /\ Becomes(e, [Acked(Emit(sk[e], sk[e].snd_nxt, 1, {"ACK"}, sk[e].rcv_nxt))
                      EXCEPT !.snd_nxt = @ + 1, !.sent = @ + 1])

\* The end of the data received: a FIN has a number and no byte.
DataEnd(s) == s.rcv_nxt - (IF s.done THEN 1 ELSE 0)

Unread(s) == s.irs # NoSeq /\ DataEnd(s) > s.irs + 1 /\ DataEnd(s) > s.copied

MayRead(s) == ~s.dead /\ s.copied # NoSeq /\ Unread(s)

inet_recvmsg(e) ==
    /\ MayRead(sk[e])
    /\ Becomes(e, [sk[e] EXCEPT !.copied = DataEnd(sk[e])])

\* tcp_close_state and tcp_send_fin (external): our FIN goes out once.
CloseState(s) ==
    CASE s.state \in {"SYN_RECV", "ESTABLISHED"} -> [tcp_send_fin(s) EXCEPT !.state = "FIN_WAIT1"]
      [] s.state = "CLOSE_WAIT"                  -> [tcp_send_fin(s) EXCEPT !.state = "LAST_ACK"]
      [] OTHER                                   -> s

InetShutdown(s, how) ==
    LET t == [s EXCEPT !.ss = IF @ # "SS_CONNECTING" THEN @
                              ELSE IF s.state \in {"SYN_SENT", "SYN_RECV", "CLOSE"} THEN "SS_DISCONNECTING"
                              ELSE "SS_CONNECTED"]
        u == [t EXCEPT !.rshut = @ \/ how \in {"RD", "RDWR"}, !.sshut = @ \/ how \in {"WR", "RDWR"}]
    IN  IF s.state = "SYN_SENT" THEN [tcp_disconnect(t) EXCEPT !.ss = "SS_UNCONNECTED"]
        ELSE IF how = "RD" THEN u ELSE CloseState(u)

inet_shutdown(e) ==
    /\ sk[e].used /\ ~sk[e].dead /\ sk[e].ss # "SS_UNCONNECTED"
    /\ \E how \in conf.shutdowns[e] : Becomes(e, InetShutdown(sk[e], how))

\* tcp_close (external).  tmo: tcp_fin_time.
tcp_close(s, tmo) ==
    LET t == [s EXCEPT !.dead = TRUE, !.rshut = TRUE, !.sshut = TRUE]
    IN  CASE s.state \in {"CLOSE", "TIME_WAIT", "TW_FIN_WAIT2"} -> t
          [] s.state = "SYN_SENT" -> Gave(tcp_done(t), "gave up")
          [] s.state \notin {"CLOSE", "SYN_SENT", "TIME_WAIT", "TW_FIN_WAIT2"} /\ Unread(s) ->
               Gave(tcp_done(Emit(t, s.snd_nxt, 0, {"RST", "ACK"}, s.rcv_nxt)), "unread")
          [] s.state = "FIN_WAIT2" /\ tmo = "none" ->
               Gave(tcp_done(Emit(t, s.snd_nxt, 0, {"RST", "ACK"}, s.rcv_nxt)), "linger2")
          [] s.state = "FIN_WAIT2" /\ tmo = "short" -> tcp_time_wait(t, "FIN_WAIT2")
          [] OTHER -> CloseState(t)

\* The program has the socket, and reads everything first unless it aborts.
MayRelease(s) ==
    s.used /\ ~s.dead /\ ~s.waits /\ ~MayAccept(s) /\ (conf.abort \/ ~Unread(s))

inet_release(e) ==
    /\ MayRelease(sk[e])
    /\ \E tmo \in IF sk[e].state = "FIN_WAIT2" THEN conf.fintimes ELSE {"short"} :
        Becomes(e, tcp_close(sk[e], tmo))

-----------------------------------------------------------------------------

Next ==
    /\ UNCHANGED conf
    /\ \E e \in Ends :
            \/ tcp_v4_rcv(e) \/ tcp_v4_err(e)
            \/ DelackTimer(e) \/ KeepaliveTimer(e) \/ RetransTimeout(e) \/ TwTimer(e)
            \/ Connect(e) \/ ConnectReturns(e) \/ inet_accept(e)
            \/ inet_sendmsg(e) \/ inet_recvmsg(e) \/ inet_shutdown(e) \/ inet_release(e)

Spec == Init /\ [][Next]_vars

Unchanged(s, t) == t.out \subseteq net /\ [t EXCEPT !.out = {}] = s

\* The connection is at rest: no segment under way changes anything where it goes, no
\* timer is due, no blocked call can return, and no program has a call left to make.
Idle ==
    /\ \A g \in net :
        (\E f \in Ends : sk[f].state # "CLOSE")
          => Unchanged(sk[g.to], Answered(Received(sk[g.to], g, "short"), g))
    /\ \A e \in Ends :
        /\ ~sk[e].due /\ ~(sk[e].state = "FIN_WAIT2" /\ sk[e].dead)
        /\ ~MayConnect(sk[e]) /\ ~(sk[e].waits /\ inet_wait_for_connect(sk[e])) /\ ~MayAccept(sk[e])
        /\ ~MayRead(sk[e]) /\ ~MayRelease(sk[e])

\* As long as the connection is not at rest, something goes on happening: the network
\* does not lose for ever what is sent again and again, timers fire, tasks run.  Any
\* step counts, so this asks for less than weak fairness of each of them.
FairSpec == Spec /\ ([]<>Idle \/ []<><<TRUE>>_vars)

-----------------------------------------------------------------------------
(* Properties. *)

TypeOK ==
    /\ \A e \in Ends :
        /\ sk[e].state \in {"CLOSE", "LISTEN", "SYN_SENT", "SYN_RECV", "ESTABLISHED", "FIN_WAIT1",
                            "FIN_WAIT2", "CLOSE_WAIT", "CLOSING", "LAST_ACK", "TIME_WAIT", "TW_FIN_WAIT2"}
        /\ sk[e].snd_una \in Seq32 /\ sk[e].snd_nxt \in Seq32
        /\ sk[e].rcv_nxt \in Seq32 \cup {NoSeq} /\ sk[e].copied \in Seq32 \cup {NoSeq}
    /\ \A g \in net : g.to \in Ends /\ g.seq \in Seq32 /\ g.ackno \in Seq32 /\ g.len <= 1

\* What an end has had acknowledged, its peer has received, and what an end has
\* received, its peer has sent: tcp_ack and tcp_data_queue never run ahead of
\* the other side.
AckedIsReceived ==
  /\ TypeOK
  /\ \A e \in Ends : LET s == sk[e] p == sk[Peer(e)]
                    IN  /\ p.rcv_nxt # NoSeq /\ s.state # "LISTEN"
                             => s.snd_una <= p.rcv_nxt /\ p.rcv_nxt <= s.snd_nxt
                        /\ s.snd_una > s.isn + 1 => p.rcv_nxt # NoSeq

\* A connection that neither end abandons has, when a socket closes, delivered
\* everything, the FIN included, in both directions (LAST_ACK,
\* CLOSING and FIN_WAIT2 of tcp_rcv_state_process, tcp_fin).
CloseIsComplete ==
    \A e \in Ends :
        sk[e].used /\ sk[e].state \in {"CLOSE", "TIME_WAIT"} /\ sk[e].gave \cup sk[Peer(e)].gave = {}
          => /\ sk[e].done /\ sk[e].got = sk[Peer(e)].sent
             /\ sk[Peer(e)].rcv_nxt = sk[e].snd_nxt

\* End of file is the truth: SOCK_DONE is set only when the peer has closed its
\* sending side and all it sent has been received (tcp_fin, and Closes of
\* tcp_timewait_state_process).
EndOfFileIsTrue ==
    \A e \in Ends : sk[e].done => sk[Peer(e)].sshut /\ sk[e].rcv_nxt = sk[Peer(e)].snd_nxt
                                  /\ sk[e].got = sk[Peer(e)].sent

\* What a program is told of the end of the stream is so: a clean close delivered
\* everything, and an end of file came after the last byte.
ClosesTruthful == CloseIsComplete /\ EndOfFileIsTrue

\* No segment of a healthy connection, however late or repeated, resets it: an
\* error of tcp_reset means that one of the ends refused or abandoned it.
ResetHasCause ==
    \A e \in Ends :
        sk[e].err \in {"ECONNRESET", "EPIPE", "ECONNREFUSED"} => sk[e].gave \cup sk[Peer(e)].gave # {}

\* The basic assumption of inet_wait_for_connect: whoever sets sk_err moves the
\* socket out of TCP_SYN_*.
ErrorLeavesSyn ==
    \A e \in Ends : sk[e].err # "0" => sk[e].state \notin {"SYN_SENT", "SYN_RECV"}

\* WARN_ON of inet_accept and the note in tcp_check_req: the segment that creates
\* the child moves it to ESTABLISHED (or beyond, with its FIN) at once.
ChildIsEstablished ==
    conf.mode = "passive" /\ sk["B"].used /\ sk["B"].ss = "SS_UNCONNECTED"
      => sk["B"].state \in {"ESTABLISHED", "CLOSE_WAIT", "CLOSE"}

\* connect() reports success only for a connection both ends know of: our SYN is
\* acknowledged and the peer's has come, unless our program shut it down meanwhile.
ConnectIsTrue ==
    \A e \in Ends :
        sk[e].used /\ sk[e].ss = "SS_CONNECTED" /\ sk[e].gave = {}
          => sk[e].irs # NoSeq /\ (sk[e].snd_una > sk[e].isn \/ sk[e].sshut)

\* The branch of tcp_fin that its comment calls impossible is never taken.
FinIsPossible == \A e \in Ends : ~sk[e].impossible

\* What the code takes for granted: sk_err means that the socket has left TCP_SYN_*
\* (inet_wait_for_connect), a child is established when accept() returns it (WARN_ON of
\* inet_accept), and tcp_fin is not called in the states it calls impossible.
AssumptionsHold == ErrorLeavesSyn /\ ChildIsEstablished /\ FinIsPossible

\* When both programs close, both sockets end for good, whatever order and repetition the
\* network chooses: neither end is left in FIN_WAIT, CLOSING or LAST_ACK, unless one of
\* the ends refused or abandoned the connection.
BothEnd ==
    \/ <>(\E e \in Ends : sk[e].gave # {})
    \/ <>[](\A e \in Ends : sk[e].state \in {"CLOSE", "TIME_WAIT"})

=============================================================================
