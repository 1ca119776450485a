----------------------------- MODULE MCMessages -----------------------------
(* Messages for TLC. *)
EXTENDS Messages, TLC

Names == Permutations(Threads) \cup Permutations(Addrs)
=============================================================================
