------------------------------- MODULE Retry -------------------------------
(***************************************************************************)
(* grpc/client/retry.go, unaryClientInterceptor: one unary call and its    *)
(* retries, with the back-off of client.go (roundRobinQuorumBackoff).      *)
(* StreamRetry adds the stream interceptor, which shares the loop, and     *)
(* states the specification of both.                                       *)
(*                                                                         *)
(* The caller's context may end, and SetEndpoints may change the number of *)
(* endpoints the back-off goes by, at any time.  An error is abstracted to *)
(* the class the code tells it by.  External: the invoker, which sends one *)
(* attempt to a server and returns, and whether that server executed it.   *)
(***************************************************************************)
EXTENDS Integers

CONSTANTS MaxRetries,     \* bound: the largest withMax (100 in the program)
          MaxEndpoints    \* bound: the largest number of endpoints

ASSUME RetryAssumption == MaxRetries \in Nat /\ MaxEndpoints \in Nat

VARIABLES max,        \* callOpts.max
          retryPolicy,  \* callOpts.retryPolicy: "nonRepeatable" by default
          pc,         \* "loop", "wait", "invoke" or "done"
          attempt,    \* the loop variable
          lastErr,    \* the last error, "ok" for nil
          ret,        \* what the call returned
          ctxDone,    \* ctx.Done() is closed
          n,          \* len(c.Endpoints())
          applied,    \* history: attempts the server executed
          ctxRetries, \* history: retries after a context error
          calls,      \* history: invocations
          sinceWait,  \* history: invocations since the call began or last waited
          steady      \* history: the number of endpoints has not changed

optVars  == <<max, retryPolicy>>
loopVars == <<optVars, pc, attempt, lastErr, ret>>
histVars == <<applied, ctxRetries, calls, sinceWait>>
vars == <<loopVars, ctxDone, n, steady, histVars>>

\* What the invoker returns: "context" is DeadlineExceeded or Canceled, "auth"
\* etcd's ErrInvalidAuthToken, "noAddress" Unavailable with one of the two
\* messages at line 361, "unavailable" any other, "etcd" another etcd error,
\* "status" another status and "plain" an error that is no status.
Errors == {"context", "auth", "noAddress", "unavailable", "etcd", "status", "plain"}

\* The errors after which the server may have executed the attempt.
MayBeApplied == Errors \ {"auth", "noAddress"}

\* A call that has not begun, with the options it was given.
Fresh ==
    /\ max \in 0..MaxRetries
    /\ retryPolicy \in {"nonRepeatable", "repeatable"}
    /\ attempt = 0
    /\ lastErr = "ok" /\ ret = "ok"
    /\ ctxDone = FALSE
    /\ n \in 0..MaxEndpoints
    /\ steady = TRUE
    /\ applied = 0 /\ ctxRetries = 0
    /\ calls = 0 /\ sinceWait = 0

\* The short circuit goes straight to the invoker.
Init == Fresh /\ pc = IF max = 0 THEN "invoke" ELSE "loop"

-----------------------------------------------------------------------------
(* isSafeRetry                                                             *)

isContextError(e) == e = "context"

isSafeRetryImmutableRPC(e) == e \in {"noAddress", "unavailable"}

\* Mutant: any Unavailable is taken as safe.
MutantSafeMutable(e) == e \in {"noAddress", "unavailable"}

isSafeRetryMutableRPC(e) == e = "noAddress"

isSafeRetry(e) ==
    /\ ~isContextError(e)
    /\ IF retryPolicy = "repeatable" THEN isSafeRetryImmutableRPC(e)
                                     ELSE isSafeRetryMutableRPC(e)

\* The loop goes on after error e.
Retried(e) == \/ isContextError(e) /\ ~ctxDone
              \/ e = "auth"
              \/ isSafeRetry(e)

-----------------------------------------------------------------------------
(* waitRetryBackoff                                                        *)

Quorum(k) == k \div 2 + 1

\* Mutant: the back-off comes after a round of all endpoints.
MutantBackoff == attempt > 0 /\ attempt % (n + 1) = 0

\* roundRobinQuorumBackoff returns a wait, and not 0.
Backoff == attempt > 0 /\ attempt % Quorum(n) = 0

Return(e) == pc' = "done" /\ ret' = e

\* Mutant: one attempt too few.
MutantAttemptsLeft == attempt < max /\ (attempt = 0 \/ attempt + 1 < max)

AttemptsLeft == attempt < max

Exhausted ==
    /\ pc = "loop" /\ ~AttemptsLeft
    /\ Return(lastErr)
    /\ UNCHANGED <<optVars, attempt, lastErr, ctxDone, n, steady, histVars>>

NoWait ==
    /\ pc = "loop" /\ AttemptsLeft /\ ~Backoff
    /\ pc' = "invoke"
    /\ UNCHANGED <<optVars, attempt, lastErr, ret, ctxDone, n, steady, histVars>>

Wait ==
    /\ pc = "loop" /\ AttemptsLeft /\ Backoff
    /\ pc' = "wait"
    /\ UNCHANGED <<optVars, attempt, lastErr, ret, ctxDone, n, steady, histVars>>

\* Mutant: after the wait the loop starts the same attempt over.
MutantWaitTimer ==
    /\ pc = "wait"
    /\ pc' = "loop"
    /\ UNCHANGED <<optVars, attempt, lastErr, ret, ctxDone, n, steady, histVars>>

WaitTimer ==
    /\ pc = "wait"
    /\ pc' = "invoke"
    /\ sinceWait' = 0
    /\ UNCHANGED <<optVars, attempt, lastErr, ret, ctxDone, n, steady, applied, ctxRetries, calls>>

\* The context ends first: contextErrToGrpcErr
WaitCancelled ==
    /\ pc = "wait" /\ ctxDone
    /\ Return("context")
    /\ UNCHANGED <<optVars, attempt, lastErr, ctxDone, n, steady, histVars>>

-----------------------------------------------------------------------------
(* The invoker                                                             *)

\* One attempt, executed by the server (run = 1) or not (run = 0).
Invoked(run) ==
    /\ pc = "invoke"
    /\ applied' = applied + run
    /\ calls' = calls + 1
    /\ sinceWait' = sinceWait + 1
    /\ UNCHANGED <<optVars, ctxDone, n, steady>>

InvokeOk ==
    /\ Invoked(1)
    /\ Return("ok") /\ lastErr' = "ok"
    /\ UNCHANGED <<attempt, ctxRetries>>

\* The error is returned: it is not retried, or the interceptor is disabled.
InvokeFails(e, run) ==
    /\ Invoked(run)
    /\ max = 0 \/ ~Retried(e)
    /\ Return(e) /\ lastErr' = e
    /\ UNCHANGED <<attempt, ctxRetries>>

InvokeRetried(e, run) ==
    /\ Invoked(run)
    /\ max # 0 /\ Retried(e)
    /\ pc' = "loop" /\ lastErr' = e
    /\ attempt' = attempt + 1
    /\ ctxRetries' = IF isContextError(e) THEN ctxRetries + 1 ELSE ctxRetries
    /\ UNCHANGED ret

Invoke ==
    \/ InvokeOk
    \/ \E e \in Errors : \E run \in IF e \in MayBeApplied THEN {0, 1} ELSE {0} :
          InvokeFails(e, run) \/ InvokeRetried(e, run)

-----------------------------------------------------------------------------
Expire ==
    /\ ~ctxDone
    /\ ctxDone' = TRUE
    /\ UNCHANGED <<loopVars, n, steady, histVars>>

SetEndpoints(k) ==
    /\ pc # "done" /\ k # n
    /\ n' = k
    /\ steady' = FALSE
    /\ UNCHANGED <<loopVars, ctxDone, histVars>>

Loop == Exhausted \/ NoWait \/ Wait \/ WaitTimer \/ WaitCancelled

-----------------------------------------------------------------------------
(* Properties                                                              *)

\* A mutable request is executed again only by a retry that followed a
\* context error (lines 136-143), the one retry isSafeRetry is not asked about.
AtMostOnceButContext ==
    retryPolicy = "nonRepeatable" => applied <= 1 + ctxRetries

\* A call does not give up early: an error that another attempt may mend is
\* returned only when the attempts are used up or the context has ended
\* (lines 126, 137, 303-306).
Mendable == {"context", "auth", "noAddress"}
                \cup (IF retryPolicy = "repeatable" THEN {"unavailable"} ELSE {})
GivesUpLate ==
    pc = "done" /\ max # 0 /\ ret \in Mendable => calls = max \/ ctxDone

\* With the endpoints unchanged, the call never makes more attempts in a row
\* than a quorum of endpoints (client.go:133-145).
WaitsEveryQuorum == steady => sinceWait <= Quorum(n)
=============================================================================
