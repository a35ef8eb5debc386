------------------------- MODULE MCControllerLinks -------------------------
(* ControllerLinks for TLC: a source router, or a destination, that         *)
(* connects a second time, and one remover.                                 *)
EXTENDS ControllerLinks, TLC

CONSTANTS a, b, a1, a2, b1, b2, sa, sb, cleaner

SrcEnds == (a1 :> a) @@ (a2 :> a)
DstEnds == (a1 :> a) @@ (b1 :> b) @@ (b2 :> b)
Stripes == (a :> sa) @@ (b :> sb)

\* Neither connection of the destination is there at the start.
DstSymmetry == Permutations({b1, b2})
=============================================================================
