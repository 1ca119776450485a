--------------------------- MODULE MCSocketFiles ---------------------------
(* SocketFiles for TLC. *)
EXTENDS SocketFiles, TLC

Names == Permutations(Threads) \cup Permutations(Socks) \cup Permutations(Fds)
=============================================================================
