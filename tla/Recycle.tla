------------------------------- MODULE Recycle -------------------------------
(***************************************************************************)
(* The end of one connection and the start of the next between the same     *)
(* two ports.  Our end has sent its FIN and had it acknowledged; it enters  *)
(* TIME_WAIT (or dead FIN_WAIT2) through tcp_time_wait, answers the peer's  *)
(* last segments, and is replaced: by a SYN of the peer (do_time_wait in    *)
(* tcp_v4_rcv, then tcp_v4_conn_request), by a connect() of ours            *)
(* (tcp_twsk_unique), or, after it has gone, by a SYN checked against the   *)
(* timestamp in the peer table (tcp_remember_stamp).  Segments of the old   *)
(* connection are lost, duplicated, delayed and reordered throughout.       *)
(*                                                                         *)
(* The peer is external: it retransmits its FIN, closes when that is        *)
(* acknowledged, answers what it does not know with a reset, and opens a    *)
(* new connection with any initial number, at a later tick of its clock.    *)
(***************************************************************************)
EXTENDS TimeWait, FiniteSets

CONSTANTS
    PeerIsns,     \* initial sequence numbers of the peer's old connection
    OurIsns,      \* ours
    Fresh,        \* what tcp_v4_init_sequence may return: every time another number
    Data,         \* data bytes each side has sent
    Wnd,          \* the receive window
    Confs         \* the settings considered, see conf

ASSUME RecycleConstants ==
    /\ PeerIsns \subseteq Seq32 /\ OurIsns \subseteq Seq32 /\ Fresh \subseteq Seq32
    /\ Data \in Nat /\ Data + 3 < SeqMod
    /\ Wnd \in 0..(Jump - 2) /\ 4 * Wnd <= SeqMod
    /\ Confs \subseteq [timestamps : BOOLEAN, recycle : BOOLEAN, reuse : BOOLEAN,
                        newisns : SUBSET Seq32, maxnow : Nat]

VARIABLES
    conf,         \* timestamps in use; sysctl_tw_recycle; sysctl_tcp_tw_reuse; the initial
                  \* numbers the peer may choose next; a bound on the clock
    tw,           \* our old socket: "open" until tcp_time_wait, "dead" in the end
    new,          \* our new connection or request, or NoConn
    peer,         \* the peer's socket
    net,          \* segments under way to us: any of them may arrive, any time
    out,          \* what we answered
    stamp,        \* the peer table: last timestamp of the host, and is it recent?
    now,          \* the clock, that of the peer's timestamps too
    listening     \* is there a listener on our port?

vars == <<conf, tw, new, peer, net, out, stamp, now, listening>>

NoConn == [via |-> "none"]

Timestamps == conf.timestamps
TwRecycle  == conf.recycle
TwReuse    == conf.reuse
NewIsns    == conf.newisns
MaxNow     == conf.maxnow

Ts(t) == IF Timestamps THEN t ELSE 0

Segment(seq, len, flags, ts) ==
    [seq |-> seq, end |-> Add(seq, len), ts |-> ts,
     syn |-> "SYN" \in flags, fin |-> "FIN" \in flags, rst |-> "RST" \in flags,
     ack |-> "ACK" \in flags, old |-> "NEW" \notin flags]

Reply(kind, seq, ackno, ts) == [kind |-> kind, seq |-> seq, ackno |-> ackno, ts |-> ts]

\* The old connection, all of whose segments may still turn up: the peer's SYN
\* at tick 1, Data bytes at tick 2.
InitFor(p, o, l) ==
    /\ peer = [state |-> "CLOSE_WAIT", isn |-> p, nxt |-> Add(p, 1 + Data),
               aborted |-> FALSE, late |-> FALSE, last |-> 2]
    /\ tw = [substate |-> "open", rcv_nxt |-> Add(p, 1 + Data), snd_nxt |-> Add(o, 2 + Data),
             rcv_wnd |-> Wnd, ts |-> Ts(2), at |-> 2, timer |-> "none", timeout |-> "none",
             how |-> "none"]
    /\ net = {Segment(p, 1, {"SYN"}, Ts(1))} \cup
             {Segment(Add(p, i), 1, {"ACK"}, Ts(2)) : i \in 1..Data}
    /\ new = NoConn /\ out = {} /\ now = 2 /\ listening = l
    /\ stamp = [ts |-> 0, recent |-> FALSE]

Init == conf \in Confs /\ \E p \in PeerIsns, o \in OurIsns, l \in BOOLEAN : InitFor(p, o, l)

\* tcp_remember_stamp and tcp_tw_remember_stamp: the newer timestamp stays,
\* unless it is old and ours was seen later.
remember_stamp(s, ts) ==
    IF s.ts <= ts \/ ~s.recent THEN [ts |-> ts, recent |-> TRUE] ELSE s

RecycleOk(t, haspeer) == TwRecycle /\ t.ts # 0 /\ haspeer

\* tcp_time_wait(sk, state, timeo).  In state TIME_WAIT the peer's FIN has come.
\* ok: a bucket was allocated.  haspeer: the peer table has an entry.
tcp_time_wait(state, ok, haspeer) ==
    /\ tw.substate = "open"
    /\ state = "TIME_WAIT" => peer.state = "LAST_ACK"
    /\ LET recycle_ok == RecycleOk(tw, haspeer)
           got == state = "TIME_WAIT"
           t == [tw EXCEPT !.rcv_nxt = IF got THEN peer.nxt ELSE @,
                           !.ts = IF got THEN Ts(peer.last) ELSE @,
                           !.at = IF got THEN now ELSE @]
       IN  /\ tw' = IF ok
                    THEN [t EXCEPT !.substate = state,
                                   !.timeout = IF recycle_ok THEN "short" ELSE "long",
                                   !.timer = IF recycle_ok \/ ~got THEN "short" ELSE "long"]
                    ELSE [t EXCEPT !.substate = "dead", !.how = "overflow"]
           /\ stamp' = IF recycle_ok THEN remember_stamp(stamp, t.ts) ELSE stamp
    /\ UNCHANGED <<new, peer, net, out, now, listening>>

\* A SYN whose timestamp is behind the last one of the host.
PawsPassiveRejected(seg) ==
    seg.ts # 0 /\ TwRecycle /\ stamp.recent /\ stamp.ts - seg.ts > 1

\* MUTANT: the request does not take the timestamp of the SYN.
ConnRequestNoTs(seg, when) ==
    \/ new' = new /\ out' = out
    \/ /\ when # 0 \/ ~PawsPassiveRejected(seg)
       /\ \E isn \in IF when # 0 THEN {when} ELSE Fresh \ {r.seq : r \in out} :
           /\ new' = [via |-> IF when # 0 THEN "reopen" ELSE "listen", isn |-> isn,
                      rcv_isn |-> seg.seq, ts |-> 0, est |-> FALSE]
           /\ out' = out \cup {Reply("SYNACK", isn, Add(seg.seq, 1), seg.ts)}

\* tcp_v4_conn_request: `when' is the number a TIME_WAIT socket chose, or 0.
\* Without one, the timestamp must not be behind the host's last.  The queues
\* of the listener (module Listener) may refuse the request all the same.
tcp_v4_conn_request(seg, when) ==
    \/ new' = new /\ out' = out
    \/ /\ when # 0 \/ ~PawsPassiveRejected(seg)
       /\ \E isn \in IF when # 0 THEN {when} ELSE Fresh \ {r.seq : r \in out} :
           /\ new' = [via |-> IF when # 0 THEN "reopen" ELSE "listen", isn |-> isn,
                      rcv_isn |-> seg.seq, ts |-> seg.ts, est |-> FALSE]
           /\ out' = out \cup {Reply("SYNACK", isn, Add(seg.seq, 1), seg.ts)}

\* do_time_wait of tcp_v4_rcv.
do_time_wait(seg, v) ==
    CASE v.verdict = "SYN" /\ listening ->
           /\ tw' = [v.tw EXCEPT !.substate = "dead", !.how = "reopened"]
           /\ tcp_v4_conn_request(seg, NextIsn(tw.snd_nxt))
      [] v.verdict = "ACK" \/ (v.verdict = "SYN" /\ ~listening) ->
           /\ tw' = v.tw
           /\ out' = out \cup {Reply("ACK", v.tw.snd_nxt, v.tw.rcv_nxt, v.tw.ts)} /\ new' = new
      [] v.verdict = "RST" ->
           /\ tw' = [v.tw EXCEPT !.how = "killed"]
           /\ out' = out \cup {Reply("RST", 0, 0, 0)} /\ new' = new
      [] v.verdict = "SUCCESS" ->
           /\ tw' = IF v.tw.substate = "dead" THEN [v.tw EXCEPT !.how = "reset"] ELSE v.tw
           /\ UNCHANGED <<out, new>>

\* A segment meets the TIME_WAIT socket.
RcvTimeWait(seg, haspeer) ==
    /\ tw.substate \in {"FIN_WAIT2", "TIME_WAIT"} /\ new = NoConn
    /\ LET recycle_ok == RecycleOk(tw, haspeer)
           v == tcp_timewait_state_process(tw, seg, now, recycle_ok)
       IN  /\ do_time_wait(seg, v)
           /\ stamp' = IF recycle_ok /\ tw.substate # v.tw.substate /\ v.tw.substate = "TIME_WAIT"
                       THEN remember_stamp(stamp, v.tw.ts) ELSE stamp
    /\ UNCHANGED <<peer, net, now, listening>>

\* A segment meets nothing, or the listener.
RcvClosed(seg) ==
    /\ tw.substate = "dead" /\ new = NoConn
    /\ IF seg.syn /\ ~seg.rst /\ ~seg.ack /\ listening
       THEN tcp_v4_conn_request(seg, 0)
       ELSE out' = (IF seg.rst THEN out ELSE out \cup {Reply("RST", 0, seg.end, 0)}) /\ new' = new
    /\ UNCHANGED <<tw, peer, net, stamp, now, listening>>

\* The timer.  A long one outlives every segment sent before it was set.
TwTimer ==
    /\ tw.substate \in {"FIN_WAIT2", "TIME_WAIT"}
    /\ tw' = [tw EXCEPT !.substate = "dead",
                       !.how = IF tw.substate = "TIME_WAIT" THEN "expired" ELSE "fin_timeout"]
    /\ IF tw.timer = "long"
       THEN net' = {} /\ out' = {} /\ stamp' = [stamp EXCEPT !.recent = FALSE]
       ELSE UNCHANGED <<net, out, stamp>>
    /\ UNCHANGED <<new, peer, now, listening>>

\* A request nobody completes goes away.
RequestTimeout ==
    /\ new.via \in {"reopen", "listen"} /\ ~new.est
    /\ new' = NoConn
    /\ UNCHANGED <<tw, peer, net, out, stamp, now, listening>>

\* tcp_twsk_unique, from connect(): twp is NULL for a port bound before.
tcp_twsk_unique(twp) ==
    /\ tw.substate \in {"FIN_WAIT2", "TIME_WAIT"} /\ new = NoConn /\ ~listening
    /\ tw.ts # 0
    /\ twp => TwReuse /\ now - tw.at > 1
    /\ tw' = [tw EXCEPT !.substate = "dead", !.how = "reused"]
    /\ new' = [via |-> "connect", isn |-> NextIsn(tw.snd_nxt), ts |-> tw.ts]
    /\ UNCHANGED <<peer, net, out, stamp, now, listening>>

-----------------------------------------------------------------------------
(* The peer, and the clock. *)

\* Data after our FIN: the peer does not know that nobody reads any more.
PeerWrites ==
    /\ peer.state = "CLOSE_WAIT" /\ ~peer.late /\ tw.substate # "open"
    /\ net' = net \cup {Segment(peer.nxt, 1, {"ACK"}, Ts(now))}
    /\ peer' = [peer EXCEPT !.nxt = Add(@, 1), !.late = TRUE, !.last = now]
    /\ UNCHANGED <<tw, new, out, stamp, now, listening>>

PeerCloses ==
    /\ peer.state = "CLOSE_WAIT"
    /\ net' = net \cup {Segment(peer.nxt, 1, {"FIN", "ACK"}, Ts(now))}
    /\ peer' = [peer EXCEPT !.state = "LAST_ACK", !.nxt = Add(@, 1), !.last = now]
    /\ UNCHANGED <<tw, new, out, stamp, now, listening>>

PeerRetransmits ==
    /\ peer.state = "LAST_ACK"
    /\ net' = net \cup {Segment(Minus(peer.nxt, 1), 1, {"FIN", "ACK"}, Ts(now))}
    /\ peer' = [peer EXCEPT !.last = now]
    /\ UNCHANGED <<tw, new, out, stamp, now, listening>>

\* tcp_rcv_synsent_state_process at the peer: the number and the echoed timestamp.
AcksMySyn(r) == r.ackno = Add(peer.isn, 1) /\ r.ts \in {0, peer.last}

\* The last ACK; a reset of the old connection; an answer to something the
\* peer does not know; the SYN-ACK that completes the new connection.
PeerHears(r) ==
    /\ \/ /\ peer.state = "LAST_ACK" /\ r.kind = "ACK" /\ r.ackno = peer.nxt
          /\ peer' = [peer EXCEPT !.state = "CLOSED", !.last = now]
          /\ UNCHANGED <<net, new>>
       \/ /\ peer.state \in {"CLOSE_WAIT", "LAST_ACK"} /\ r.kind = "RST"
          /\ peer' = [peer EXCEPT !.state = "CLOSED", !.aborted = TRUE, !.last = now]
          /\ UNCHANGED <<net, new>>
       \/ /\ r.kind # "RST"
          /\ peer.state = "CLOSED" \/ (peer.state = "SYN_SENT" /\ ~AcksMySyn(r))
          /\ net' = net \cup {Segment(r.ackno, 0, {"RST"}, 0)}
          /\ UNCHANGED <<peer, new>>
       \/ /\ peer.state = "SYN_SENT" /\ r.kind = "SYNACK" /\ AcksMySyn(r)
          /\ new.via \in {"reopen", "listen"} /\ new.rcv_isn = peer.isn /\ new.isn = r.seq
          /\ peer' = [peer EXCEPT !.state = "ESTABLISHED"]
          /\ new' = [new EXCEPT !.est = TRUE]
          /\ net' = net
    /\ UNCHANGED <<tw, out, stamp, now, listening>>

PeerOpens(isn) ==
    /\ peer.state = "CLOSED" /\ now > peer.last
    /\ peer' = [peer EXCEPT !.state = "SYN_SENT", !.isn = isn, !.last = now]
    /\ net' = net \cup {Segment(isn, 1, {"SYN", "NEW"}, Ts(now))}
    /\ UNCHANGED <<tw, new, out, stamp, now, listening>>

\* Another connection of the host ended here: the peer table has a later stamp.
OtherConnection ==
    /\ TwRecycle /\ Timestamps
    /\ stamp' = [ts |-> now, recent |-> TRUE]
    /\ UNCHANGED <<tw, new, peer, net, out, now, listening>>

Tick ==
    /\ now < MaxNow /\ now' = now + 1
    /\ UNCHANGED <<tw, new, peer, net, out, stamp, listening>>

Next ==
    /\ UNCHANGED conf
    /\ \/ \E state \in {"FIN_WAIT2", "TIME_WAIT"}, ok, haspeer \in BOOLEAN :
              tcp_time_wait(state, ok, haspeer)
       \/ \E seg \in net, haspeer \in BOOLEAN : RcvTimeWait(seg, haspeer)
       \/ \E seg \in net : RcvClosed(seg)
       \/ TwTimer \/ RequestTimeout
       \/ \E twp \in BOOLEAN : tcp_twsk_unique(twp)
       \/ PeerWrites \/ PeerCloses \/ PeerRetransmits
       \/ \E r \in out : PeerHears(r)
       \/ \E isn \in NewIsns : PeerOpens(isn)
       \/ OtherConnection \/ Tick

Spec == Init /\ [][Next]_vars

-----------------------------------------------------------------------------

\* Types.
TypeOK ==
    /\ tw.substate \in {"open", "FIN_WAIT2", "TIME_WAIT", "dead"}
    /\ tw.rcv_nxt \in Seq32 /\ tw.snd_nxt \in Seq32 /\ tw.ts \in 0..now /\ tw.at \in 0..now
    /\ tw.timer \in {"none", "short", "long"}
    /\ tw.how \in {"none", "overflow", "reopened", "killed", "reset", "expired", "fin_timeout", "reused"}
    /\ (tw.how = "none") = (tw.substate # "dead")
    /\ new.via \in {"none", "reopen", "listen", "connect"}
    /\ peer.state \in {"CLOSE_WAIT", "LAST_ACK", "CLOSED", "SYN_SENT", "ESTABLISHED"}
    /\ \A seg \in net : seg.seq \in Seq32 /\ seg.end \in Seq32 /\ seg.ts \in 0..now

\* A segment of the old connection that the new one does not take: outside its
\* window, or refused for its timestamp.
Refused(seg) ==
    \/ seg.ts # 0 /\ new.ts # 0 /\ seg.ts < new.ts
    \/ ~tcp_in_window(seg.seq, seg.end, Add(new.rcv_isn, 1), Add(new.rcv_isn, 1 + Wnd))

\* The comments of tcp_timewait_state_process and tcp_twsk_unique claim data
\* integrity: once a connection has taken the place of one that closed in
\* TIME_WAIT, no duplicate of the old connection's data that is still under
\* way is acceptable to the new one, whatever number the peer starts from,
\* whether the TIME_WAIT socket was replaced or ran out, short or long.
OldDataRefused ==
    new.via \in {"reopen", "listen"} /\ new.est /\ tw.how \in {"reopened", "expired"} /\ ~peer.aborted
      => \A seg \in net : seg.old /\ ~seg.rst => Refused(seg)

\* And in the other direction: what we sent on the old connection is not in the
\* window the peer has for the new one, when the number came from TIME_WAIT.
OurOldDataOutside ==
    new.via \in {"reopen", "connect"}
      => \A i \in 1..(Data + 2) :
            LET seq == Minus(tw.snd_nxt, i)
            IN  ~tcp_in_window(seq, Add(seq, 1), Add(new.isn, 1), Add(new.isn, 1 + Wnd))

\* An old duplicate SYN never replaces a TIME_WAIT socket, and one that meets
\* the SYN_SENT socket that has reused it is refused for its timestamp.
OldSynHarmless ==
    /\ new.via = "reopen" => \A seg \in net : seg.syn /\ seg.old => seg.seq # new.rcv_isn \/ seg.ts < new.ts
    /\ new.via = "connect" => \A seg \in net : seg.syn /\ seg.old => seg.ts < new.ts

\* No segment of the old connection that is still under way disturbs the new one, in
\* either direction: not its data, not its SYN.
OldSegmentsHarmless == OldDataRefused /\ OurOldDataOutside /\ OldSynHarmless

\* "Main purpose of TIME-WAIT state is to close connection gracefully": a peer
\* that retransmits its FIN is reset only if it sent data nobody was there to
\* read, or once the socket has run out of time or memory or was reused.
Graceful ==
    peer.aborted => peer.late \/ tw.how \in {"overflow", "expired", "fin_timeout", "reused"}

\* tcp_in_window judges every segment under way, at every wrap of the numbers
\* and for closed, small and full windows, as RFC 793 asks.
WindowExact ==
    \A seg \in net, wnd \in 0..Wnd :
        WindowExactFor(seg.seq, Minus(seg.end, seg.seq), tw.rcv_nxt, wnd)

\* The number tcp_timewait_state_process and tcp_twsk_unique choose is never 0,
\* which would tell tcp_v4_conn_request that there was no TIME_WAIT socket, lies
\* after every number the old connection used, and beyond any unscaled window
\* its peer could still have open, so that the peer answers our SYN with an ACK
\* instead of a reset.
NextIsnFresh == \A wnd \in 0..(Jump - 2) : FreshFor(tw.snd_nxt, wnd)

\* The sequence arithmetic of TIME_WAIT is right at every wrap: the window test, and the
\* number the next connection starts from.
SequencesRight == WindowExact /\ NextIsnFresh
=============================================================================
