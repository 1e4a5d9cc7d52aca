--------------------------- MODULE MCHealthServer ---------------------------
(* The default service and one more, watched by two streams.                *)
EXTENDS HealthServer

CONSTANTS default, kv, w1, w2

TwoServices == {default, kv}
TwoWatchers == {w1, w2}
=============================================================================
