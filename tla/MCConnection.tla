---------------------------- MODULE MCConnection ----------------------------
(***************************************************************************)
(* Connection with small numbers: no sequence number wraps here (TimeWait   *)
(* and Recycle do that), the two ends count from different numbers.         *)
(***************************************************************************)
EXTENDS Connection

TwoIss == [A |-> 4, B |-> 14]

Each(a, b) == [A |-> a, B |-> b]

\* A client that sends, half-closes and closes, with any timeout for the peer's FIN.
Client ==
    [mode |-> "passive", data |-> Each(1, 0), requests |-> 0, abort |-> FALSE,
     shutdowns |-> Each({"WR"}, {}), fintimes |-> {"short", "long", "none"}]

\* A server that sends and half-closes.
Server ==
    [Client EXCEPT !.data = Each(0, 1), !.shutdowns = Each({}, {"WR"}), !.fintimes = {"short"}]

\* Both ends connect to each other, and one shuts down meanwhile.
Crossed == [Client EXCEPT !.mode = "crossed", !.data = Each(0, 0), !.fintimes = {"short"}]

\* Programs and peers that give up, with data on its way.
Abort == [Server EXCEPT !.abort = TRUE, !.shutdowns = Each({}, {})]

\* The same, and a listener whose request timed out.
Again == [Abort EXCEPT !.data = Each(0, 0), !.requests = 1]

AllConfs == {Client, Server, Crossed, Abort, Again}
=============================================================================
