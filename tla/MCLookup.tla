------------------------------ MODULE MCLookup ------------------------------
(* Lookup for TLC. *)
EXTENDS Lookup, TLC

\* Connections in two buckets; a connection and the listeners it may fall through to.
ConnsOrListeners == {{"t", "o", "x"}, {"t", "l", "w"}}

Names == Permutations(Socks) \cup Permutations(Tws)
=============================================================================
