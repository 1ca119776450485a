--------------------------- MODULE MessagesProofs ---------------------------
(***************************************************************************)
(* The counts of sendmmsg and recvmmsg and the questions to the security    *)
(* module, for any number of threads, addresses and messages.               *)
(*                                                                         *)
(* A step changes one call, and what holds of a call does not depend on the *)
(* others: CallInv is kept by each operator on calls (the lemmas), hence by *)
(* every action.                                                            *)
(***************************************************************************)
EXTENDS Messages, TLAPS

CallType ==
    [op : {"none", "send", "recv"}, pc : {"done", "begin", "protocol", "copyout"},
     n : Nat, moved : Nat, used : Addrs \cup {NoAddr}, to : Addrs \cup {NoAddr},
     dest : SUBSET (Addrs \cup {NoAddr}), asked : SUBSET (Addrs \cup {NoAddr}), bufs : 0..2,
     dontwait : BOOLEAN, waitone : BOOLEAN, timeout : BOOLEAN, fault : BOOLEAN,
     ret : {"count", "error", "again"}]

\* The remembered address was asked about; so was the first datagram's sender once
\* there is one; and the only message that may be uncounted is the last, faulted one.
CallInv(c) ==
    /\ c.dest \subseteq c.asked
    /\ c.used # NoAddr => c.used \in c.asked
    /\ c.op = "recv" => c.used = NoAddr /\ (c.n > 0 => NoAddr \in c.asked)
    /\ c.moved - c.n \in (IF c.fault THEN {0, 1} ELSE {0})
    /\ c.pc \in {"begin", "protocol"} => ~c.fault

GoodCalls == {c \in CallType : CallInv(c)}

IInv == call \in [Threads -> GoodCalls]

\* A call that is running has counted everything that went through.
Running(c) == c \in GoodCalls /\ c.moved = c.n /\ ~c.fault

\* Before the call ends nothing has faulted, so nothing is uncounted.
LEMMA RunningCall ==
    ASSUME NEW c \in GoodCalls, c.pc \in {"begin", "protocol"}
    PROVE  Running(c)
BY DEF GoodCalls, CallInv, CallType, Running

\* A thread that has made no call.
LEMMA NoCallGood ==
    NoCall \in GoodCalls
BY DEF NoCall, GoodCalls, CallType, CallInv

\* What SendReturns gives is a call.
LEMMA ReturnType ==
    ASSUME NEW c \in CallType, NEW failed \in BOOLEAN
    PROVE  SendReturns(c, failed) \in CallType
<1>1. (IF c.n # 0 \/ ~failed THEN "count" ELSE "error") \in {"count", "error", "again"}
  OBVIOUS
<1>2. 0 \in 0..2
  OBVIOUS
<1>3. QED
  BY <1>1, <1>2, ZenonT(60) DEF SendReturns, CallType

\* SendReturns keeps what CallInv says.
LEMMA SendReturnsGood ==
    ASSUME NEW c \in GoodCalls, NEW failed \in BOOLEAN
    PROVE  SendReturns(c, failed) \in GoodCalls
<1>0. c \in CallType /\ CallInv(c)
  BY DEF GoodCalls
<1>3. SendReturns(c, failed) \in CallType
  BY <1>0, ReturnType
<1>4. CallInv(SendReturns(c, failed))
  BY <1>0 DEF SendReturns, CallType, CallInv
<1>5. QED
  BY <1>3, <1>4 DEF GoodCalls

\* A message that went out is in dest, and in asked by now or from before.
LEMMA SentMessage ==
    ASSUME NEW c \in GoodCalls, Running(c), c.op = "send"
    PROVE  /\ Sent(c) \in CallType
           /\ Sent(c).op = "send" /\ Sent(c).n = c.n /\ Sent(c).moved = c.n + 1
           /\ Sent(c).fault = FALSE
           /\ Sent(c).dest \subseteq Sent(c).asked
           /\ Sent(c).used # NoAddr => Sent(c).used \in Sent(c).asked
<1>0. c \in CallType /\ CallInv(c) /\ c.moved = c.n /\ c.fault = FALSE
  BY DEF GoodCalls, Running, CallType
<1>1. /\ c.moved + 1 \in Nat /\ c.to \in Addrs \cup {NoAddr}
      /\ c.dest \cup {c.to} \in SUBSET (Addrs \cup {NoAddr})
      /\ c.asked \cup {c.to} \in SUBSET (Addrs \cup {NoAddr})
  BY <1>0 DEF CallType
<1>2. CASE SameAddress(c)
  <2>1. Sent(c) \in CallType
    BY <1>0, <1>1, <1>2, Zenon DEF Sent, CallType
  <2>2. QED
    BY <1>0, <1>2, <2>1 DEF Sent, SameAddress, CallType, CallInv
<1>3. CASE ~SameAddress(c)
  <2>1. Sent(c) \in CallType
    BY <1>0, <1>1, <1>3, Zenon DEF Sent, CallType
  <2>2. QED
    BY <1>0, <1>3, <2>1 DEF Sent, CallType, CallInv
<1>4. QED
  BY ZenonT(40), <1>2, <1>3

\* Counting it, or returning because its length could not be written.
LEMMA SendCountedGood ==
    ASSUME NEW c \in CallType, NEW put \in BOOLEAN, c.op = "send", c.moved = c.n + 1,
           c.fault = FALSE, c.pc = "protocol",
           c.dest \subseteq c.asked, c.used # NoAddr => c.used \in c.asked
    PROVE  SendCounted(c, put) \in GoodCalls
<1>0. c.n \in Nat /\ c.n + 1 \in Nat
  BY DEF CallType
<1>1. CASE ~put
  <2>1. SendReturns([c EXCEPT !.fault = TRUE], TRUE) \in CallType
    <3>1. [c EXCEPT !.fault = TRUE] \in CallType
      BY Zenon DEF CallType
    <3>2. QED
      BY ZenonT(40), <3>1, ReturnType
  <2>2. CallInv(SendReturns([c EXCEPT !.fault = TRUE], TRUE))
    BY <1>0 DEF SendReturns, CallType, CallInv
  <2>3. QED
    BY ZenonT(40), <1>1, <2>1, <2>2 DEF SendCounted, GoodCalls
<1>2. CASE put /\ c.n + 1 < Vlen
  <2>1. [c EXCEPT !.pc = "begin", !.n = c.n + 1] \in CallType
    BY <1>0, Zenon DEF CallType
  <2>2. CallInv([c EXCEPT !.pc = "begin", !.n = c.n + 1])
    BY <1>0 DEF CallType, CallInv
  <2>3. QED
    BY <1>2, <2>1, <2>2 DEF SendCounted, GoodCalls
<1>3. CASE put /\ ~(c.n + 1 < Vlen)
  <2>1. [c EXCEPT !.n = c.n + 1] \in CallType
    BY <1>0, Zenon DEF CallType
  <2>2. SendReturns([c EXCEPT !.n = c.n + 1], FALSE) \in CallType
    BY ZenonT(40), <2>1, ReturnType
  <2>3. CallInv(SendReturns([c EXCEPT !.n = c.n + 1], FALSE))
    BY <1>0 DEF SendReturns, CallType, CallInv
  <2>4. QED
    BY ZenonT(40), <1>3, <2>2, <2>3 DEF SendCounted, GoodCalls
<1>4. QED
  BY <1>1, <1>2, <1>3

\* RecvReturns keeps what CallInv says.
LEMMA RecvReturnsGood ==
    ASSUME NEW c \in CallType, NEW ret \in {"count", "error", "again"},
           CallInv([c EXCEPT !.pc = "done"])
    PROVE  RecvReturns(c, ret) \in GoodCalls
<1>1. /\ (IF c.timeout /\ c.n > 0 THEN "copyout" ELSE "done")
            \in {"done", "begin", "protocol", "copyout"}
      /\ (IF c.n = 0 THEN ret ELSE "count") \in {"count", "error", "again"}
      /\ 0 \in 0..2
  OBVIOUS
<1>2. RecvReturns(c, ret) \in CallType
  <2>1. ASSUME NEW p \in {"done", "begin", "protocol", "copyout"}, NEW b \in 0..2,
               NEW r \in {"count", "error", "again"}
        PROVE  [c EXCEPT !.pc = p, !.bufs = b, !.ret = r] \in CallType
    BY <2>1, Zenon DEF CallType
  <2>2. QED
    BY <1>1, <2>1, Zenon DEF RecvReturns
<1>3. CallInv(RecvReturns(c, ret))
  BY DEF RecvReturns, CallType, CallInv
<1>4. QED
  BY <1>2, <1>3 DEF GoodCalls

\* A datagram taken off the queue: the first was asked about, the others follow it.
LEMMA TakenDatagram ==
    ASSUME NEW c \in GoodCalls, Running(c), c.op = "recv"
    PROVE  /\ Taken(c) \in CallType
           /\ Taken(c).op = "recv" /\ Taken(c).n = c.n /\ Taken(c).moved = c.n + 1
           /\ Taken(c).fault = FALSE /\ Taken(c).used = NoAddr
           /\ Taken(c).dest \subseteq Taken(c).asked /\ NoAddr \in Taken(c).asked
<1>0. c \in CallType /\ CallInv(c) /\ c.moved = c.n /\ c.fault = FALSE
  BY DEF GoodCalls, Running, CallType
<1>1. /\ c.moved + 1 \in Nat /\ {NoAddr} \in SUBSET (Addrs \cup {NoAddr})
      /\ (IF c.n = 0 THEN {NoAddr} ELSE c.asked) \in SUBSET (Addrs \cup {NoAddr})
  BY <1>0 DEF CallType
<1>2. Taken(c) \in CallType
  BY <1>0, <1>1, Zenon DEF Taken, CallType
<1>3. QED
  BY <1>0, <1>2 DEF Taken, CallType, CallInv
\* Counting it, and going on or returning.
LEMMA RecvCountedGood ==
    ASSUME NEW c \in GoodCalls, Running(c), c.op = "recv", NEW stop \in BOOLEAN
    PROVE  RecvCounted(Taken(c), stop) \in GoodCalls
<1> DEFINE d == Taken(c)
<1>0. /\ d \in CallType /\ d.op = "recv" /\ d.moved = d.n + 1 /\ d.fault = FALSE
      /\ d.used = NoAddr /\ d.dest \subseteq d.asked /\ NoAddr \in d.asked
  BY ZenonT(40), TakenDatagram
<1> HIDE DEF d
<1>1. d.n \in Nat /\ d.n + 1 \in Nat /\ 0 \in 0..2 /\ (d.dontwait \/ d.waitone) \in BOOLEAN
  BY <1>0 DEF CallType
<1>2. CASE stop \/ d.n + 1 = Vlen
  <2>1. [d EXCEPT !.n = d.n + 1] \in CallType
    BY ZenonT(40), <1>0, <1>1 DEF CallType
  <2>2. CallInv([[d EXCEPT !.n = d.n + 1] EXCEPT !.pc = "done"])
    BY <1>0, <1>1 DEF CallType, CallInv
  <2>3. RecvReturns([d EXCEPT !.n = d.n + 1], "count") \in GoodCalls
    BY ZenonT(40), <2>1, <2>2, RecvReturnsGood
  <2>4. QED
    BY <1>2, <2>3 DEF RecvCounted, d
<1>3. CASE ~(stop \/ d.n + 1 = Vlen)
  <2> DEFINE e == [d EXCEPT !.pc = "begin", !.n = d.n + 1, !.bufs = 0,
                            !.dontwait = d.dontwait \/ d.waitone]
  <2>1. e \in CallType
    <3>1. ASSUME NEW k \in Nat, NEW b \in 0..2, NEW w \in BOOLEAN
          PROVE  [d EXCEPT !.pc = "begin", !.n = k, !.bufs = b, !.dontwait = w] \in CallType
      BY ZenonT(40), <1>0, <3>1 DEF CallType
    <3>2. QED
      BY <1>1, <3>1, Zenon
  <2>2. CallInv(e)
    BY <1>0, <1>1 DEF CallType, CallInv
  <2>3. QED
    BY <1>3, <2>1, <2>2 DEF RecvCounted, d, GoodCalls
<1>4. QED
  BY <1>2, <1>3

\* A call that ends with an error.
LEMMA RecvFailedGood ==
    ASSUME NEW c \in GoodCalls
    PROVE  \A ret \in {"count", "error", "again"} : RecvReturns(c, ret) \in GoodCalls
<1>1. c \in CallType /\ CallInv([c EXCEPT !.pc = "done"])
  BY DEF GoodCalls, CallType, CallInv
<1>2. QED
  BY <1>1, RecvReturnsGood

\* A datagram whose address or length could not be copied out.
LEMMA RecvFaultGood ==
    ASSUME NEW c \in GoodCalls, Running(c), c.op = "recv"
    PROVE  RecvReturns([Taken(c) EXCEPT !.fault = TRUE], "error") \in GoodCalls
<1> DEFINE d == Taken(c)
<1>0. /\ d \in CallType /\ d.op = "recv" /\ d.moved = d.n + 1 /\ d.fault = FALSE
      /\ d.used = NoAddr /\ d.dest \subseteq d.asked /\ NoAddr \in d.asked
  BY ZenonT(40), TakenDatagram
<1> HIDE DEF d
<1>1. [d EXCEPT !.fault = TRUE] \in CallType
  BY ZenonT(40), <1>0 DEF CallType
<1>2. CallInv([[d EXCEPT !.fault = TRUE] EXCEPT !.pc = "done"])
  BY <1>0 DEF CallType, CallInv
<1>3. QED
  BY ZenonT(40), <1>1, <1>2, RecvReturnsGood DEF d

\* The fields that SendBegin and RecvBegin, SendStart and RecvStart set.
LEMMA BeginGood ==
    ASSUME NEW c \in GoodCalls, c.pc = "begin"
    PROVE  /\ \A to \in Addrs \cup {NoAddr}, b \in 0..2 :
                [c EXCEPT !.pc = "protocol", !.to = to, !.bufs = b] \in GoodCalls
           /\ \A b \in 0..2 : [c EXCEPT !.pc = "protocol", !.bufs = b] \in GoodCalls
<1>0. c \in CallType /\ CallInv(c)
  BY DEF GoodCalls
<1>1. ASSUME NEW to \in Addrs \cup {NoAddr}, NEW b \in 0..2
      PROVE  [c EXCEPT !.pc = "protocol", !.to = to, !.bufs = b] \in GoodCalls
  <2>1. [c EXCEPT !.pc = "protocol", !.to = to, !.bufs = b] \in CallType
    BY <1>0, Zenon DEF CallType
  <2>2. CallInv([c EXCEPT !.pc = "protocol", !.to = to, !.bufs = b])
    BY <1>0 DEF CallType, CallInv
  <2>3. QED
    BY <2>1, <2>2 DEF GoodCalls
<1>2. ASSUME NEW b \in 0..2
      PROVE  [c EXCEPT !.pc = "protocol", !.bufs = b] \in GoodCalls
  <2>1. [c EXCEPT !.pc = "protocol", !.bufs = b] \in CallType
    BY <1>0, Zenon DEF CallType
  <2>2. CallInv([c EXCEPT !.pc = "protocol", !.bufs = b])
    BY SMTT(40), <1>0 DEF CallType, CallInv
  <2>3. QED
    BY <2>1, <2>2 DEF GoodCalls
<1>3. QED
  BY ZenonT(40), <1>1, <1>2

\* A call starts as NoCall with its own flags.
LEMMA StartGood ==
    /\ [NoCall EXCEPT !.op = "send", !.pc = "begin"] \in GoodCalls
    /\ [NoCall EXCEPT !.op = "recv", !.ret = "error"] \in GoodCalls
    /\ \A w, d, o \in BOOLEAN :
          [NoCall EXCEPT !.op = "recv", !.pc = "begin", !.waitone = w,
                         !.dontwait = d, !.timeout = o] \in GoodCalls
<1>0. NoCall \in CallType
  BY NoCallGood DEF GoodCalls
<1>1. [NoCall EXCEPT !.op = "send", !.pc = "begin"] \in GoodCalls
  <2>1. [NoCall EXCEPT !.op = "send", !.pc = "begin"] \in CallType
    BY <1>0, Zenon DEF CallType
  <2>2. CallInv([NoCall EXCEPT !.op = "send", !.pc = "begin"])
    BY DEF NoCall, CallInv
  <2>3. QED
    BY <2>1, <2>2 DEF GoodCalls
<1>2. [NoCall EXCEPT !.op = "recv", !.ret = "error"] \in GoodCalls
  <2>1. [NoCall EXCEPT !.op = "recv", !.ret = "error"] \in CallType
    BY <1>0, Zenon DEF CallType
  <2>2. CallInv([NoCall EXCEPT !.op = "recv", !.ret = "error"])
    BY DEF NoCall, CallInv
  <2>3. QED
    BY <2>1, <2>2 DEF GoodCalls
<1>3. ASSUME NEW w \in BOOLEAN, NEW d \in BOOLEAN, NEW o \in BOOLEAN
      PROVE  [NoCall EXCEPT !.op = "recv", !.pc = "begin", !.waitone = w,
                            !.dontwait = d, !.timeout = o] \in GoodCalls
  <2> DEFINE e == [NoCall EXCEPT !.op = "recv", !.pc = "begin", !.waitone = w,
                                 !.dontwait = d, !.timeout = o]
  <2>1. e \in CallType
    BY ZenonT(40), <1>0, <1>3 DEF CallType
  <2>2. CallInv(e)
    BY DEF NoCall, CallInv
  <2>3. QED
    BY <2>1, <2>2 DEF GoodCalls
<1>4. QED
  BY ZenonT(40), <1>1, <1>2, <1>3

-----------------------------------------------------------------------------

\* A step that makes one call good keeps all of them so.
LEMMA OneCall ==
    ASSUME IInv, NEW t \in Threads, NEW c \in GoodCalls, Becomes(t, c)
    PROVE  IInv'
BY DEF IInv, Becomes

\* Every action of sendmmsg keeps the calls good.
LEMMA SendSteps ==
    ASSUME IInv, NEW t \in Threads
    PROVE  /\ SendStart(t) => IInv'
           /\ \A to \in Addrs \cup {NoAddr}, b \in 0..2 : SendBegin(t, to, b) => IInv'
           /\ \A ok, put \in BOOLEAN : SendEnd(t, ok, put) => IInv'
<1>0. call[t] \in GoodCalls
  BY DEF IInv
<1>1. SendStart(t) => IInv'
  BY ZenonT(40), OneCall, StartGood DEF SendStart
<1>2. ASSUME NEW to \in Addrs \cup {NoAddr}, NEW b \in 0..2, SendBegin(t, to, b)
      PROVE  IInv'
  BY ZenonT(40), <1>0, <1>2, OneCall, BeginGood, SendReturnsGood DEF SendBegin
<1>3. ASSUME NEW ok \in BOOLEAN, NEW put \in BOOLEAN, SendEnd(t, ok, put)
      PROVE  IInv'
  <2> DEFINE c == [call[t] EXCEPT !.bufs = 0]
  <2>1. c \in GoodCalls /\ Running(c) /\ c.op = "send" /\ c.pc = "protocol"
    <3>1. call[t] \in CallType /\ CallInv(call[t])
      BY <1>0 DEF GoodCalls
    <3>2. c \in CallType
      <4>1. 0 \in 0..2
        OBVIOUS
      <4>2. QED
        BY <3>1, <4>1, Zenon DEF CallType
    <3>3. CallInv(c) /\ c.op = "send" /\ c.pc = "protocol"
      BY <1>3, <3>1 DEF SendEnd, CallType, CallInv
    <3>4. c \in GoodCalls
      BY <3>2, <3>3 DEF GoodCalls
    <3>5. QED
      BY ZenonT(40), <3>3, <3>4, RunningCall
  <2> HIDE DEF c
  <2>2. Sent(c).pc = "protocol"
    BY <2>1 DEF Sent, GoodCalls, CallType
  <2>3. SendCounted(Sent(c), put) \in GoodCalls
    BY ZenonT(40), <2>1, <2>2, SentMessage, SendCountedGood
  <2>4. SendReturns(call[t], TRUE) \in GoodCalls
    BY ZenonT(40), <1>0, SendReturnsGood
  <2>5. QED
    BY ZenonT(40), <1>3, <2>3, <2>4, OneCall DEF SendEnd, c
<1>4. QED
  BY <1>1, <1>2, <1>3

\* Every action of recvmmsg keeps the calls good.
LEMMA RecvSteps ==
    ASSUME IInv, NEW t \in Threads
    PROVE  /\ \A w, d, o \in BOOLEAN : RecvStart(t, w, d, o) => IInv'
           /\ \A b \in 0..1 : RecvBegin(t, b) => IInv'
           /\ RecvError(t) \/ RecvInterrupted(t) \/ RecvAgain(t) \/ RecvFault(t) => IInv'
           /\ \A b \in BOOLEAN : RecvDatagram(t, b) \/ CopyTimeout(t, b) => IInv'
<1>0. call[t] \in GoodCalls
  BY DEF IInv
<1>1. ASSUME NEW w \in BOOLEAN, NEW d \in BOOLEAN, NEW o \in BOOLEAN, RecvStart(t, w, d, o)
      PROVE  IInv'
  BY ZenonT(40), <1>1, OneCall, StartGood DEF RecvStart
<1>2. RecvReturns(call[t], "error") \in GoodCalls /\ RecvReturns(call[t], "again") \in GoodCalls
  BY <1>0, RecvFailedGood
<1>3. ASSUME NEW b \in 0..1, RecvBegin(t, b)
      PROVE  IInv'
  <2>1. b \in 0..2
    OBVIOUS
  <2>2. QED
    BY ZenonT(40), <1>0, <1>2, <1>3, <2>1, OneCall, BeginGood DEF RecvBegin, RecvFailed
<1>4. RecvError(t) \/ RecvInterrupted(t) \/ RecvAgain(t) => IInv'
  BY <1>2, OneCall DEF RecvError, RecvInterrupted, RecvAgain, RecvFailed
<1>5. InProtocol(t) => Running(call[t]) /\ call[t].op = "recv"
  BY <1>0, RunningCall DEF InProtocol
<1>6. RecvFault(t) => IInv'
  BY <1>0, <1>5, RecvFaultGood, OneCall DEF RecvFault, RecvFailed
<1>7. ASSUME NEW b \in BOOLEAN, RecvDatagram(t, b)
      PROVE  IInv'
  BY <1>0, <1>5, <1>7, RecvCountedGood, OneCall DEF RecvDatagram
<1>8. ASSUME NEW b \in BOOLEAN, CopyTimeout(t, b)
      PROVE  IInv'
  <2> DEFINE r == IF b THEN "count" ELSE "error"
  <2> DEFINE f == call[t].fault \/ ~b
  <2> DEFINE c == [call[t] EXCEPT !.pc = "done", !.fault = f, !.ret = r]
  <2>0. call[t] \in CallType /\ CallInv(call[t])
    BY <1>0 DEF GoodCalls
  <2>1. r \in {"count", "error", "again"} /\ f \in BOOLEAN
    OBVIOUS
  <2>2. c \in CallType
    <3> HIDE DEF r, f
    <3>1. QED
      BY ZenonT(40), <2>0, <2>1 DEF CallType
  <2>3. CallInv(c)
    BY <2>0 DEF CallType, CallInv
  <2>4. c \in GoodCalls
    BY <2>2, <2>3 DEF GoodCalls
  <2>5. QED
    BY <1>8, <2>4, OneCall DEF CopyTimeout
<1>9. QED
  BY SMTT(40), <1>1, <1>3, <1>4, <1>6, <1>7, <1>8
-----------------------------------------------------------------------------

\* In every execution every call is good: the inductive invariant.
THEOREM CallsStayGood == Spec => []IInv
<1>1. Init => IInv
  BY NoCallGood DEF Init, IInv
<1>2. IInv /\ [Next]_vars => IInv'
  <2>1. ASSUME IInv, NEW t \in Threads, SendStart(t) PROVE IInv'
    BY <2>1, SendSteps
  <2>2. ASSUME IInv, NEW t \in Threads,
               RecvError(t) \/ RecvInterrupted(t) \/ RecvAgain(t) \/ RecvFault(t)
        PROVE  IInv'
    BY <2>2, RecvSteps
  <2>3. ASSUME IInv, NEW t \in Threads, NEW b \in 0..2, NEW to \in Addrs \cup {NoAddr},
               SendBegin(t, to, b)
        PROVE  IInv'
    BY <2>3, SendSteps
  <2>4. ASSUME IInv, NEW t \in Threads, NEW b \in 0..1, RecvBegin(t, b) PROVE IInv'
    BY <2>4, RecvSteps
  <2>5. ASSUME IInv, NEW t \in Threads, NEW ok \in BOOLEAN, NEW put \in BOOLEAN,
               SendEnd(t, ok, put)
        PROVE  IInv'
    BY <2>5, SendSteps
  <2>6. ASSUME IInv, NEW t \in Threads, NEW w \in BOOLEAN, NEW d \in BOOLEAN,
               NEW o \in BOOLEAN, RecvStart(t, w, d, o)
        PROVE  IInv'
    BY <2>6, RecvSteps
  <2>7. ASSUME IInv, NEW t \in Threads, NEW b \in BOOLEAN,
               RecvDatagram(t, b) \/ CopyTimeout(t, b)
        PROVE  IInv'
    BY <2>7, RecvSteps
  <2>8. IInv /\ (Arrive \/ IcmpError \/ UNCHANGED vars) => IInv'
    BY DEF Arrive, IcmpError, vars, IInv
  <2>9. QED
    BY <2>1, <2>2, <2>3, <2>4, <2>5, <2>6, <2>7, <2>8 DEF Next
<1>3. QED
  BY <1>1, <1>2, PTL DEF Spec

\* However many messages and addresses there are, none goes to an address that the
\* security module was not asked about in the same call (used_address in
\* __sys_sendmsg, nosec in __sys_recvmsg).
THEOREM SecurityAlwaysAsked == Spec => []SecurityAsked
<1>1. IInv => SecurityAsked
  BY DEF IInv, GoodCalls, CallInv, SecurityAsked
<1>2. QED
  BY <1>1, CallsStayGood, PTL

\* However many messages a call asks for, its count is what went through, but for
\* one message at most, whose length could not be copied to the caller.
THEOREM CountsAlwaysTrue == Spec => []CountsAreTrue
<1>1. IInv => CountsAreTrue
  BY DEF IInv, GoodCalls, CallInv, CountsAreTrue
<1>2. QED
  BY <1>1, CallsStayGood, PTL
=============================================================================
