---------------------------- MODULE MCGrpcClient ----------------------------
(* A client k beside other users of the resolver package: two groups that   *)
(* share an id, and a connection to it; two lists of endpoints.             *)
EXTENDS GrpcClient
=============================================================================
