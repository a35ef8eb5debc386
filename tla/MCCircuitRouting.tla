-------------------------- MODULE MCCircuitRouting --------------------------
(* An ingress router ri, an egress router re and, in the ring, a third one.  *)
EXTENDS CircuitRouting

CONSTANTS ri, rt, re

Triangle == {{ri, rt}, {rt, re}, {ri, re}}
=============================================================================
