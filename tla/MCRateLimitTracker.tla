--------------------------- MODULE MCRateLimitTracker ---------------------------
(* The tracker with three pieces of work and windows of 1 or 2 slots in an *)
(* int32 of four bits; a factor of 3 takes the window past the maximum, a   *)
(* factor of 0.4 below the minimum.                                         *)
EXTENDS RateLimitTracker

CONSTANTS w1, w2, w3

\* n / d rounded towards zero.
Quotient(n, d) == IF n >= 0 THEN n \div d ELSE -((-n) \div d)

MCGrown == [w \in Int32 |-> 3 * w]
MCShrunk == [w \in Int32 |-> Quotient(w * 2, 5)]

ASSUME Representable
=============================================================================
