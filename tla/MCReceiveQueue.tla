--------------------------- MODULE MCReceiveQueue ---------------------------
(***************************************************************************)
(* Instances of ReceiveQueue for TLC.                                      *)
(***************************************************************************)
EXTENDS ReceiveQueue

\* Holes, and more blocks than the SACK array has room for.
Order ==
    [maxseq |-> 6, maxlen |-> 3, maxcopy |-> 2, rcvbuf |-> 20, windows |-> {6}, urgents |-> {},
     ucopy |-> {0}, allocs |-> {1}, fails |-> {0}, fats |-> {FALSE}, sack |-> TRUE]

\* A buffer too small for bloated segments: collapse and prune, with allocations that fail.
Memory ==
    [Order EXCEPT !.maxseq = 5, !.maxlen = 2, !.maxcopy = 1, !.rcvbuf = 5, !.windows = {4},
                  !.allocs = {0, 2}, !.fats = BOOLEAN]

\* Memory requests that are refused again and again.
Refuse == [Order EXCEPT !.maxseq = 5, !.maxlen = 2, !.rcvbuf = 6, !.windows = {4}, !.fails = 0..3]

\* Urgent bytes, a reader inside recvmsg, windows that close.
Urgent ==
    [Order EXCEPT !.maxseq = 5, !.rcvbuf = 8, !.windows = {0, 3}, !.urgents = {2, 3},
                  !.ucopy = {0, 2}, !.sack = FALSE]

\* A buffer that out-of-order data can fill.
Tight == [Order EXCEPT !.maxseq = 5, !.maxlen = 2, !.rcvbuf = 4, !.windows = {0, 3}]

AllConfs == {Order, Memory, Refuse, Urgent, Tight}
=============================================================================
