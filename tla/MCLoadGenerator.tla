-------------------------- MODULE MCLoadGenerator --------------------------
(* One goroutine of each kind, channels and a queue of one place: each is   *)
(* full and empty at every point of the others.                             *)
EXTENDS LoadGenerator
=============================================================================
