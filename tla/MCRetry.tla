------------------------------ MODULE MCRetry ------------------------------
(* Up to five attempts over up to four endpoints (quorums of one to three): *)
(* the loop passes at least one back-off with each of them.                 *)
EXTENDS StreamRetry
=============================================================================
