----------------------------- MODULE MCMd5Keys -----------------------------
(* Md5Keys for TLC. *)
EXTENDS Md5Keys, TLC

Names ==
    Permutations(Socks) \cup Permutations(Tws) \cup Permutations(Addrs)
    \cup Permutations(Keys) \cup Permutations(Objs)
=============================================================================
