-------------------------- MODULE MCRouterConnect --------------------------
(* RouterConnect for TLC: one router with two connections in flight.       *)
EXTENDS RouterConnect, TLC

CONSTANTS r1, c1, c2, s1

PairRouterOf == (c1 :> r1) @@ (c2 :> r1)
OneStripe == (r1 :> s1)
=============================================================================
