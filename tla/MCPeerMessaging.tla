---------------------------- MODULE MCPeerMessaging ----------------------------
(* One subject with one or two peers and one or two listener values.        *)
EXTENDS PeerMessaging

CONSTANTS p1, p2, l1, l2
=============================================================================
