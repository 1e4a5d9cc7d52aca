----------------------------- MODULE MCBalancer -----------------------------
(* Two addresses, and a third SubConn for an address that comes back while   *)
(* its old SubConn is still shutting down.                                   *)
EXTENDS Balancer

CONSTANTS a1, a2, s1, s2, s3

TwoAddrs      == {a1, a2}
ThreeSubConns == {s1, s2, s3}
=============================================================================
