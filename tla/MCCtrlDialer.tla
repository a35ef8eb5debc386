---------------------------- MODULE MCCtrlDialer ----------------------------
(* CtrlDialer for TLC.  Two objects: the tracked one, and one that was     *)
(* deleted from the map and is still queued or being dialed.               *)
EXTENDS CtrlDialer, TLC

CONSTANTS o1, o2

Symmetric == Permutations(Obj)
=============================================================================
