---------------------------- MODULE MCThriftNode ----------------------------
(* Two servers, so that one Conn is pinged while the other is closed, and   *)
(* two users.                                                               *)
EXTENDS ThriftNode
=============================================================================
