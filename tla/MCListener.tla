----------------------------- MODULE MCListener -----------------------------
(* Small instances of Listener for TLC. *)
EXTENDS Listener

Seg(flags, seq, ack_ok, bare) ==
    [flags |-> flags, seq |-> seq, ack_ok |-> ack_ok, paws_reject |-> FALSE, bare |-> bare]

\* A first SYN, the ACK of the handshake with and without data and with FIN, an
\* ACK of something else, an in-window RST and SYN, a RST out of window, and a segment without ACK.
MCSegments ==
    { Seg({"SYN"}, "isn", FALSE, TRUE),
      Seg({"ACK"}, "window", TRUE, TRUE),
      Seg({"ACK", "FIN"}, "window", TRUE, FALSE),
      Seg({"ACK"}, "window", FALSE, TRUE),
      Seg({"RST"}, "window", FALSE, TRUE),
      Seg({"SYN"}, "window", FALSE, FALSE),
      Seg({"RST"}, "outside", FALSE, TRUE),
      Seg({}, "window", FALSE, FALSE) }

\* Peers are numbers, spread over the buckets of the table.
MCHash == [p \in Peers |-> p]

=============================================================================
