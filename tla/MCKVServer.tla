----------------------------- MODULE MCKVServer ----------------------------
(* Two connections and batches of up to two requests: one handler in the    *)
(* store while the other begins, and a stream that is cut in the middle.    *)
EXTENDS KVServer
=============================================================================
