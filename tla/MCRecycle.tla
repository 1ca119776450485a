------------------------------ MODULE MCRecycle ------------------------------
(***************************************************************************)
(* Instances of Recycle for TLC.  Sixteen sequence numbers, a window of at  *)
(* most two, a jump of four: an old connection of a few numbers, a window   *)
(* and a jump together fit into half of the space, as they do in 2^32.      *)
(***************************************************************************)
EXTENDS Recycle

All      == Seq32
Wrap     == {SeqMod - 2}
JumpTo0  == {SeqMod - Jump - Data - 2}
TwoFresh == {5, 9}

\* The old numbers once more, the next one, and both sides of half the space.
Edges    == {SeqMod - 2, SeqMod - 1, Data, SeqMod \div 2}
\* No timestamps, and any number next; with them, either of the two shortcuts:
\* tcp_tw_reuse asks for a clock two ticks after the last segment.
Settings(t, recycle, reuse, isns, max) ==
    [timestamps |-> t, recycle |-> recycle, reuse |-> reuse, newisns |-> isns, maxnow |-> max]
AllConfs == {Settings(FALSE, TRUE, FALSE, All, 3),
             Settings(TRUE, TRUE, FALSE, Edges, 3),
             Settings(TRUE, FALSE, TRUE, Edges, 4)}
=============================================================================
