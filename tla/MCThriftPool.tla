---------------------------- MODULE MCThriftPool ----------------------------
(* Small instances of ThriftPool for TLC: two callers, so that one more      *)
(* connection than MaxConn can be dialled, and a third connection for the    *)
(* time after a Release.                                                     *)
EXTENDS ThriftPool

CONSTANTS p1, p2, r1, c1, c2, c3

TwoCallers  == {p1, p2}
OneReleaser == {r1}
TwoConns    == {c1, c2}
ThreeConns  == {c1, c2, c3}
=============================================================================
