--------------------------- MODULE MCLossRecovery ---------------------------
(* Instances of LossRecovery for TLC. *)
EXTENDS LossRecovery

\* A peer without SACK, and F-RTO of RFC 4138.
Reno ==
    [maxseq |-> 4, sack_ok |-> "reno", frto |-> 1, response |-> 0, dsacks |-> FALSE,
     slow |-> FALSE, ece |-> {FALSE}, news |-> {FALSE}]

\* The same with ECN marks, and ACKs that are no duplicates because they carry data.
RenoEcn == [Reno EXCEPT !.maxseq = 3, !.ece = BOOLEAN, !.news = BOOLEAN]

\* SACKs and D-SACKs, F-RTO enhanced by SACK.
Sack ==
    [maxseq |-> 3, sack_ok |-> "sack", frto |-> 2, response |-> 2, dsacks |-> TRUE,
     slow |-> FALSE, ece |-> {FALSE}, news |-> {FALSE}]

\* Forward acknowledgement, and segments that stay out for longer than an RTO.
Fack == [Sack EXCEPT !.sack_ok = "fack", !.response = 0, !.dsacks = FALSE, !.slow = TRUE]

\* Forward acknowledgement with D-SACKs, and no F-RTO.
FackDsack == [Fack EXCEPT !.frto = 0, !.dsacks = TRUE, !.slow = FALSE]

AllConfs == {Reno, RenoEcn, Sack, Fack, FackDsack}

DsackConfs == {FackDsack}
=============================================================================
