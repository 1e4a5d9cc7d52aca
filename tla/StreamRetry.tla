---------------------------- MODULE StreamRetry ----------------------------
(***************************************************************************)
(* Calls through both retry interceptors of grpc/client/retry.go: a unary  *)
(* call (Retry), the server stream of the generated Watch stub, or the     *)
(* client stream of the generated PutStream stub.                          *)
(*                                                                         *)
(* A server stream goes through serverStreamingRetryingStream, whose       *)
(* RecvMsg runs the loop of Retry: its attempt 0 is a receive from the     *)
(* stream in use, and every later one makes a new stream, sends the        *)
(* request again and receives from that.  The client itself passes         *)
(* withMax(0) (client.go:126), one of the values of max.                   *)
(*                                                                         *)
(* pc has four more values: "open", the stub opens the stream; "recv",     *)
(* RecvMsg of the underlying stream; "user", the caller has the stream and *)
(* is not in RecvMsg; "ended", it has got an error or the end of the       *)
(* stream and is done with it.  External: the streams of gRPC.             *)
(***************************************************************************)
EXTENDS Retry

VARIABLES call,           \* "unary", "stream" or "clientStream"
          stream,         \* the number of the ClientStream in use, 0 for none
          bufferedSends,  \* how many messages are kept to be sent again
          request,        \* how many messages the stream in use has been sent
          receivedGood,   \* the field
          from            \* history: the streams whose messages the caller got

streamVars == <<stream, bufferedSends, request, receivedGood, from>>
allVars == <<vars, call, streamVars>>

\* The variables of Retry, with what pc and ret may be here.
LoopTypeOK ==
    /\ max \in 0..MaxRetries
    /\ retryPolicy \in {"nonRepeatable", "repeatable"}
    /\ pc \in {"loop", "wait", "invoke", "done", "open", "user", "recv", "ended"}
    /\ attempt \in 0..max
    /\ lastErr \in Errors \cup {"ok"}
    /\ ret \in Errors \cup {"ok", "eof"}
    /\ ctxDone \in BOOLEAN
    /\ n \in 0..MaxEndpoints
    /\ steady \in BOOLEAN
    /\ applied \in Nat /\ ctxRetries \in Nat
    /\ calls \in Nat /\ sinceWait \in Nat

TypeOK ==
    /\ LoopTypeOK
    /\ call \in {"unary", "stream", "clientStream"}
    /\ stream \in Nat /\ bufferedSends \in Nat /\ request \in Nat
    /\ receivedGood \in BOOLEAN
    /\ from \in SUBSET Nat

CallInit ==
    /\ \/ call = "unary" /\ Init
       \/ call \in {"stream", "clientStream"} /\ Fresh /\ pc = "open"
    /\ stream = 0 /\ bufferedSends = 0 /\ request = 0
    /\ receivedGood = FALSE
    /\ from = {}

\* RecvMsg, or the stub that opens the stream, returns e to the caller.
End(e) == pc' = "ended" /\ ret' = e

-----------------------------------------------------------------------------
(* Opening the stream                                                      *)

\* The interceptor is disabled: the caller gets gRPC's own stream.
OpenRaw ==
    /\ pc = "open" /\ max = 0
    /\ End("ok")
    /\ UNCHANGED <<optVars, attempt, lastErr, ctxDone, n, steady, histVars, call, streamVars>>

OpenRefused ==
    /\ pc = "open" /\ max # 0 /\ call = "clientStream"
    /\ End("status")
    /\ UNCHANGED <<optVars, attempt, lastErr, ctxDone, n, steady, histVars, call, streamVars>>

\* The streamer, the first SendMsg or CloseSend fails; nothing is retried.
OpenFails(e) ==
    /\ pc = "open" /\ max # 0 /\ call = "stream"
    /\ End(e)
    /\ UNCHANGED <<optVars, attempt, lastErr, ctxDone, n, steady, histVars, call, streamVars>>

\* The stub opens the stream, sends the request (SendMsg) and CloseSend.
Open ==
    /\ pc = "open" /\ max # 0 /\ call = "stream"
    /\ pc' = "user"
    /\ stream' = 1
    /\ bufferedSends' = bufferedSends + 1
    /\ request' = request + 1
    /\ UNCHANGED <<optVars, attempt, lastErr, ret, ctxDone, n, steady, histVars, call,
                   receivedGood, from>>

-----------------------------------------------------------------------------
(* RecvMsg                                                                 *)

RecvMsg ==
    /\ pc = "user"
    /\ pc' = "recv"
    /\ attempt' = 0 /\ calls' = 0 /\ sinceWait' = 0
    /\ UNCHANGED <<optVars, lastErr, ret, ctxDone, n, steady, applied, ctxRetries, call,
                   streamVars>>

\* Mutant: what was received before does not matter.
MutantRetryReceive(e) == Retried(e)

\* receiveMsgAndIndicateRetry says that error e is to be retried.
RetryReceive(e) == ~receivedGood /\ Retried(e)

\* One receive from the stream in use.
Received ==
    /\ pc = "recv"
    /\ calls' = calls + 1 /\ sinceWait' = sinceWait + 1
    /\ UNCHANGED <<optVars, ctxDone, n, steady, applied, ctxRetries, call, stream,
                   bufferedSends, request>>

ReceiveOk ==
    /\ Received
    /\ pc' = "user"
    /\ receivedGood' = TRUE
    /\ from' = from \cup {stream}
    /\ UNCHANGED <<attempt, lastErr, ret>>

ReceiveEOF ==
    /\ Received
    /\ End("eof")
    /\ receivedGood' = TRUE
    /\ UNCHANGED <<attempt, lastErr, from>>

ReceiveFails(e) ==
    /\ Received /\ ~RetryReceive(e)
    /\ End(e) /\ lastErr' = e
    /\ UNCHANGED <<attempt, receivedGood, from>>

ReceiveRetried(e) ==
    /\ Received /\ RetryReceive(e)
    /\ pc' = "loop" /\ lastErr' = e
    /\ attempt' = attempt + 1
    /\ UNCHANGED <<ret, receivedGood, from>>

Receive ==
    \/ ReceiveOk
    \/ ReceiveEOF
    \/ \E e \in Errors : ReceiveFails(e) \/ ReceiveRetried(e)

\* reestablishStreamAndResendBuffer, then setStream
Reestablish ==
    /\ call = "stream" /\ pc = "invoke"
    /\ pc' = "recv"
    /\ stream' = stream + 1
    /\ request' = bufferedSends
    /\ UNCHANGED <<optVars, attempt, lastErr, ret, ctxDone, n, steady, histVars, call,
                   bufferedSends, receivedGood, from>>

ReestablishFails(e) ==
    /\ call = "stream" /\ pc = "invoke"
    /\ End(e)
    /\ UNCHANGED <<optVars, attempt, lastErr, ctxDone, n, steady, histVars, call, streamVars>>

-----------------------------------------------------------------------------
Opens == OpenRaw \/ OpenRefused \/ Open \/ \E e \in Errors : OpenFails(e)

Reestablishes == Reestablish \/ \E e \in Errors : ReestablishFails(e)

LoopStep == Loop /\ UNCHANGED <<call, streamVars>>

InvokeStep == call = "unary" /\ Invoke /\ UNCHANGED <<call, streamVars>>

CallNext ==
    \/ LoopStep
    \/ InvokeStep
    \/ Opens
    \/ RecvMsg
    \/ Receive
    \/ Reestablishes
    \/ Expire /\ UNCHANGED <<call, streamVars>>
    \/ \E k \in 0..MaxEndpoints : SetEndpoints(k) /\ UNCHANGED <<call, streamVars>>

CallSpec == CallInit /\ [][CallNext]_allVars

\* Timers fire, the invoker and the streamer return, and gRPC ends a receive
\* whose context has ended.  A receive may otherwise wait for ever.
CallFairSpec ==
    /\ CallSpec
    /\ WF_allVars(LoopStep)
    /\ WF_allVars(InvokeStep)
    /\ WF_allVars(Reestablishes)
    /\ WF_allVars(ctxDone /\ Receive)

-----------------------------------------------------------------------------
(* Properties                                                              *)

\* What a caller of Watch receives comes from one stream, which was sent the
\* request once: it is never shown the beginning of a second stream as the
\* continuation of the first (lines 270-283, 364-381).
OneStreamDelivers ==
    /\ \A s, t \in from : s = t
    /\ from # {} => request = 1

\* Every unary call returns, and so does every RecvMsg once its context has
\* ended, through whatever waits and new streams (lines 126-151, 251-267).
Returns ==
    (pc # "open" /\ (call = "unary" \/ ctxDone)) ~> (pc \in {"user", "ended", "done"})
=============================================================================
