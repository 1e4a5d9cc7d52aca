---------------------------- MODULE RetryProofs ----------------------------
(***************************************************************************)
(* Proofs about Retry and StreamRetry, for unary calls and streams, any    *)
(* options, any number of attempts and any number of endpoints.            *)
(***************************************************************************)
EXTENDS StreamRetry, TLAPS

\* Where the loop variable means something: in the loop itself, and in a call
\* to the invoker or to RecvMsg of the stream in use.
Looping == pc \in {"loop", "wait", "invoke", "recv"}

\* The loop variable counts the invocations (or receives), and one is under way
\* only if the loop allowed it.
LoopCounts ==
    /\ Looping => calls = attempt
    /\ max = 0 => pc \in {"open", "done", "ended"} \/ (pc = "invoke" /\ call = "unary")
    /\ pc \in {"wait", "invoke", "recv"} /\ max # 0 => attempt < max

\* While the call runs, a mutable request has been executed only by attempts
\* that ended in a context error.
AppliedByContext ==
    retryPolicy = "nonRepeatable" /\ pc # "done" => applied <= ctxRetries

RetryInv ==
    /\ LoopTypeOK
    /\ LoopCounts
    /\ AppliedByContext
    /\ AtMostOnceButContext
    /\ GivesUpLate

LEMMA RetryInit == CallInit => RetryInv
<1> SUFFICES ASSUME CallInit PROVE RetryInv
  OBVIOUS
<1>0. Fresh
  BY DEF CallInit, Init
<1>1. ctxDone \in BOOLEAN /\ steady \in BOOLEAN
  BY <1>0, Zenon DEF Fresh
<1>2. /\ max \in 0..MaxRetries /\ n \in 0..MaxEndpoints
      /\ retryPolicy \in {"nonRepeatable", "repeatable"}
  BY <1>0 DEF Fresh
<1>3. /\ pc \in {"invoke", "loop", "open"}
      /\ pc = "invoke" => max = 0 /\ call = "unary"
      /\ pc = "loop" => max # 0
  BY DEF CallInit, Init
<1>4. LoopTypeOK
  BY <1>0, <1>1, <1>2, <1>3, RetryAssumption DEF Fresh, LoopTypeOK
<1> QED
  BY <1>0, <1>2, <1>3, <1>4, RetryAssumption
     DEF Fresh, RetryInv, LoopCounts, Looping, AppliedByContext, AtMostOnceButContext,
         GivesUpLate

\* The steps of the loop between two invocations.
LEMMA LoopKeeps ==
    ASSUME RetryInv, LoopStep
    PROVE  RetryInv'
<1> USE DEF optVars, histVars, Return, AttemptsLeft, LoopStep, Loop
<1>0. LoopTypeOK /\ LoopCounts /\ AppliedByContext /\ AtMostOnceButContext /\ GivesUpLate
  BY DEF RetryInv
<1>1. UNCHANGED <<max, retryPolicy, attempt, ctxDone, n, steady, applied, ctxRetries, calls,
                  lastErr, call>>
  BY DEF Exhausted, NoWait, Wait, WaitTimer, WaitCancelled
<1>2. ctxDone' \in BOOLEAN /\ steady' \in BOOLEAN
  BY <1>0, <1>1, Zenon DEF LoopTypeOK
<1>3. /\ pc \in {"loop", "wait"} /\ pc' \in {"loop", "wait", "invoke", "done"}
      /\ ret' \in Errors \cup {"ok", "eof"}
      /\ sinceWait' \in Nat
  BY <1>0 DEF LoopTypeOK, Errors, Exhausted, NoWait, Wait, WaitTimer, WaitCancelled
<1>4. LoopTypeOK'
  BY <1>0, <1>1, <1>2, <1>3 DEF LoopTypeOK
<1>5. LoopCounts'
  BY <1>0, <1>1
     DEF LoopTypeOK, LoopCounts, Looping, Exhausted, NoWait, Wait, WaitTimer,
         WaitCancelled
<1>6. AppliedByContext' /\ AtMostOnceButContext'
  BY <1>0, <1>1
     DEF AppliedByContext, AtMostOnceButContext, Exhausted, NoWait, Wait, WaitTimer,
         WaitCancelled
<1>7. GivesUpLate'
  <2>1. CASE Exhausted
    BY <1>0, <1>1, <2>1
       DEF LoopTypeOK, LoopCounts, Looping, GivesUpLate, Exhausted, Mendable
  <2>2. CASE WaitCancelled
    BY <1>0, <1>1, <2>2 DEF GivesUpLate, WaitCancelled, Mendable
  <2>3. CASE NoWait \/ Wait \/ WaitTimer
    BY <2>3 DEF GivesUpLate, NoWait, Wait, WaitTimer
  <2> QED
    BY <2>1, <2>2, <2>3
<1> QED
  BY <1>4, <1>5, <1>6, <1>7 DEF RetryInv

\* One invocation, and what the loop makes of its outcome.
LEMMA InvokeKeeps ==
    ASSUME RetryInv, InvokeStep
    PROVE  RetryInv'
<1> USE DEF optVars, Return, Invoked, InvokeStep
<1>0. LoopTypeOK /\ LoopCounts /\ AppliedByContext /\ AtMostOnceButContext /\ GivesUpLate
  BY DEF RetryInv
<1>1. /\ pc = "invoke"
      /\ UNCHANGED <<max, retryPolicy, ctxDone, n, steady, call>> /\ call = "unary"
      /\ calls' = calls + 1 /\ sinceWait' = sinceWait + 1
  BY DEF Invoke, InvokeOk, InvokeFails, InvokeRetried
<1>2. ctxDone' \in BOOLEAN /\ steady' \in BOOLEAN
  BY <1>0, <1>1, Zenon DEF LoopTypeOK
<1>3. CASE InvokeOk
  <2>1. LoopTypeOK'
    BY <1>0, <1>1, <1>2, <1>3 DEF LoopTypeOK, InvokeOk
  <2> QED
    BY <1>0, <1>1, <1>3, <2>1
       DEF LoopTypeOK, RetryInv, LoopCounts, Looping, AppliedByContext,
           AtMostOnceButContext, GivesUpLate, InvokeOk, Mendable
<1>4. ASSUME NEW e \in Errors, NEW run \in {0, 1}, InvokeFails(e, run)
      PROVE  RetryInv'
  <2>1. LoopTypeOK'
    BY <1>0, <1>1, <1>2, <1>4 DEF LoopTypeOK, InvokeFails
  <2>2. LoopCounts' /\ AppliedByContext' /\ AtMostOnceButContext'
    BY <1>0, <1>1, <1>4
       DEF LoopTypeOK, LoopCounts, Looping, AppliedByContext, AtMostOnceButContext,
           InvokeFails
  <2>3. GivesUpLate'
    BY <1>0, <1>1, <1>4, RetryAssumption
       DEF LoopTypeOK, LoopCounts, Looping, GivesUpLate, InvokeFails, Mendable, Retried,
           isContextError, isSafeRetry, isSafeRetryImmutableRPC, isSafeRetryMutableRPC
  <2> QED
    BY <2>1, <2>2, <2>3 DEF RetryInv
<1>5. ASSUME NEW e \in Errors, NEW run \in {0, 1}, e \notin MayBeApplied => run = 0,
             InvokeRetried(e, run)
      PROVE  RetryInv'
  <2>0. run \in {0, 1} /\ (e \in {"auth", "noAddress"} => run = 0)
    BY <1>5 DEF MayBeApplied
  <2>1. attempt < max /\ calls = attempt
    BY <1>0, <1>1, <1>5 DEF LoopCounts, Looping, InvokeRetried
  <2>2. LoopTypeOK'
    BY <1>0, <1>1, <1>2, <1>5, <2>0, <2>1 DEF LoopTypeOK, InvokeRetried
  <2>3. LoopCounts'
    BY <1>0, <1>1, <1>5, <2>1 DEF LoopTypeOK, LoopCounts, Looping, InvokeRetried
  <2>4. retryPolicy = "nonRepeatable" => applied' <= ctxRetries'
    <3>1. CASE isContextError(e)
      BY <1>0, <1>1, <1>5, <2>0, <3>1 DEF LoopTypeOK, AppliedByContext, InvokeRetried
    <3>2. CASE ~isContextError(e)
      <4> SUFFICES ASSUME retryPolicy = "nonRepeatable"
                   PROVE  applied' <= ctxRetries'
        OBVIOUS
      <4>1. e \in {"auth", "noAddress"}
        BY <1>5, <3>2 DEF InvokeRetried, Retried, isSafeRetry, isSafeRetryMutableRPC
      <4> QED
        BY <1>0, <1>1, <1>5, <2>0, <3>2, <4>1
           DEF LoopTypeOK, AppliedByContext, InvokeRetried
    <3> QED
      BY <3>1, <3>2
  <2>5. AppliedByContext' /\ AtMostOnceButContext'
    <3>1. \A a, b \in Nat : a <= b => a <= 1 + b
      OBVIOUS
    <3>2. applied' \in Nat /\ ctxRetries' \in Nat
      BY <2>2 DEF LoopTypeOK
    <3>3. applied' <= ctxRetries' => applied' <= 1 + ctxRetries'
      BY <3>1, <3>2, Zenon
    <3>4. retryPolicy' = retryPolicy
      BY <1>1
    <3> QED
      BY <2>4, <3>3, <3>4, Zenon DEF AppliedByContext, AtMostOnceButContext
  <2>6. GivesUpLate'
    BY <1>5 DEF GivesUpLate, InvokeRetried
  <2> QED
    BY <2>2, <2>3, <2>5, <2>6 DEF RetryInv
<1> QED
  <2>1. \A e \in Errors : \A run \in IF e \in MayBeApplied THEN {0, 1} ELSE {0} :
            run \in {0, 1} /\ (e \notin MayBeApplied => run = 0)
    OBVIOUS
  <2>2. \A e \in Errors : \A run \in IF e \in MayBeApplied THEN {0, 1} ELSE {0} :
            InvokeFails(e, run) => RetryInv'
    BY <1>4, <2>1
  <2>3. \A e \in Errors : \A run \in IF e \in MayBeApplied THEN {0, 1} ELSE {0} :
            InvokeRetried(e, run) => RetryInv'
    BY <1>5, <2>1
  <2> QED
    BY <1>3, <2>2, <2>3 DEF Invoke

\* The steps of a stream: none of them is executed twice by the server, so the
\* only thing they share with unary calls is the loop.
LEMMA StreamKeeps ==
    ASSUME RetryInv, Opens \/ RecvMsg \/ Receive \/ Reestablishes
    PROVE  RetryInv'
<1> USE DEF optVars, histVars, End, Received
<1>0. LoopTypeOK /\ LoopCounts /\ AppliedByContext /\ AtMostOnceButContext /\ GivesUpLate
  BY DEF RetryInv
<1>1. /\ UNCHANGED <<max, retryPolicy, ctxDone, n, steady, applied, ctxRetries, call>>
      /\ pc \in {"open", "user", "recv", "invoke"}
      /\ pc' # "done"
  BY DEF Opens, OpenRaw, OpenRefused, OpenFails, Open, RecvMsg, Receive, ReceiveOk,
         ReceiveEOF, ReceiveFails, ReceiveRetried, Reestablishes, Reestablish,
         ReestablishFails
<1>2. ctxDone' \in BOOLEAN /\ steady' \in BOOLEAN
  BY <1>0, <1>1, Zenon DEF LoopTypeOK
<1>3. AppliedByContext' /\ AtMostOnceButContext' /\ GivesUpLate'
  BY <1>0, <1>1 DEF AppliedByContext, AtMostOnceButContext, GivesUpLate
<1>4. LoopTypeOK' /\ LoopCounts'
  <2>1. CASE Opens
    BY <1>0, <1>1, <1>2, <2>1
       DEF LoopTypeOK, LoopCounts, Looping, Opens, OpenRaw, OpenRefused, OpenFails, Open,
           Errors
  <2>2. CASE RecvMsg
    BY <1>0, <1>1, <1>2, <2>2 DEF LoopTypeOK, LoopCounts, Looping, RecvMsg
  <2>3. CASE ReceiveOk \/ ReceiveEOF
    BY <1>0, <1>1, <1>2, <2>3 DEF LoopTypeOK, LoopCounts, Looping, ReceiveOk, ReceiveEOF
  <2>4. ASSUME NEW e \in Errors, ReceiveFails(e) \/ ReceiveRetried(e)
        PROVE  LoopTypeOK' /\ LoopCounts'
    BY <1>0, <1>1, <1>2, <2>4
       DEF LoopTypeOK, LoopCounts, Looping, ReceiveFails, ReceiveRetried
  <2>5. CASE Reestablishes
    BY <1>0, <1>1, <1>2, <2>5
       DEF LoopTypeOK, LoopCounts, Looping, Reestablishes, Reestablish, ReestablishFails
  <2> QED
    BY <2>1, <2>2, <2>3, <2>4, <2>5 DEF Receive
<1> QED
  BY <1>3, <1>4 DEF RetryInv

\* The context and the endpoints change from outside.
LEMMA OutsideKeeps ==
    ASSUME RetryInv, UNCHANGED call,
           \/ Expire
           \/ \E k \in 0..MaxEndpoints : SetEndpoints(k)
           \/ UNCHANGED vars
    PROVE  RetryInv'
<1>0. LoopTypeOK /\ LoopCounts /\ AppliedByContext /\ AtMostOnceButContext /\ GivesUpLate
  BY DEF RetryInv
<1>1. UNCHANGED <<loopVars, histVars>>
  BY DEF Expire, SetEndpoints, vars
<1>2. steady' \in BOOLEAN /\ ctxDone' \in BOOLEAN
  BY <1>0, Zenon DEF Expire, SetEndpoints, vars, LoopTypeOK
<1>3. n' \in 0..MaxEndpoints
  BY <1>0 DEF Expire, SetEndpoints, vars, LoopTypeOK
<1>4. ctxDone => ctxDone'
  BY DEF Expire, SetEndpoints, vars
<1> QED
  BY <1>0, <1>1, <1>2, <1>3, <1>4
     DEF optVars, loopVars, histVars, RetryInv, LoopTypeOK, LoopCounts, Looping,
         AppliedByContext, AtMostOnceButContext, GivesUpLate, Mendable

LEMMA RetryAlways == CallSpec => []RetryInv
<1>1. RetryInv /\ [CallNext]_allVars => RetryInv'
  BY LoopKeeps, InvokeKeeps, StreamKeeps, OutsideKeeps DEF CallNext, allVars
<1> QED
  BY <1>1, RetryInit, PTL DEF CallSpec

(* However many retries are allowed, a mutable request is executed more     *)
(* than once only by the retries that follow a context error.               *)
THEOREM SecondExecutionNeedsContextError == CallSpec => []AtMostOnceButContext
<1>1. RetryInv => AtMostOnceButContext
  BY DEF RetryInv
<1> QED
  BY <1>1, RetryAlways, PTL

(* The call uses all its attempts, and no more, before it returns an error  *)
(* that another attempt may mend, unless its context ends.                  *)
THEOREM NoEarlySurrender == CallSpec => []GivesUpLate
<1>1. RetryInv => GivesUpLate
  BY DEF RetryInv
<1> QED
  BY <1>1, RetryAlways, PTL

-----------------------------------------------------------------------------
(* The back-off                                                            *)

LEMMA QuorumPositive == ASSUME NEW k \in Nat PROVE Quorum(k) \in Nat /\ Quorum(k) > 0
BY DEF Quorum

\* A number without a remainder is a number of whole rounds.
LEMMA WholeRounds ==
    ASSUME NEW a \in Nat, NEW q \in Nat, q > 0, a % q = 0
    PROVE  \E m \in Nat : a = m * q
<1>1. a \div q \in Nat /\ a = q * (a \div q) + (a % q)
  OBVIOUS
<1> QED
  BY <1>1

\* Whole rounds leave no remainder.
LEMMA NoRemainder == ASSUME NEW m \in Nat, NEW q \in Nat, q > 0 PROVE (m * q) % q = 0
<1> DEFINE a == m * q
           d == a \div q
           r == a % q
<1>0. a \in Nat /\ d \in Nat /\ r \in Nat
  OBVIOUS
<1>1. a = q * d + r /\ 0 <= r /\ r < q
  OBVIOUS
<1> HIDE DEF d, r
<1>2. q * (m - d) = r
  BY <1>0, <1>1
<1>3. CASE m - d <= 0
  BY <1>0, <1>1, <1>2, <1>3
<1>4. CASE m - d >= 1
  BY <1>0, <1>1, <1>2, <1>4
<1> QED
  BY <1>0, <1>3, <1>4 DEF r

\* While the endpoints stay the same, the loop is some whole rounds of a quorum
\* and sinceWait attempts further; it waits only at the end of a round, and has
\* one attempt left in the round when it makes one.
Paced ==
    steady /\ Looping =>
        /\ \E m \in Nat : attempt = m * Quorum(n) + sinceWait
        /\ pc = "wait" => \E m \in Nat : attempt = m * Quorum(n)
        /\ pc \in {"invoke", "recv"} => sinceWait < Quorum(n)

PaceInv == Paced /\ WaitsEveryQuorum

LEMMA PaceInit == CallInit => PaceInv
<1> SUFFICES ASSUME CallInit PROVE PaceInv
  OBVIOUS
<1>1. attempt = 0 /\ sinceWait = 0 /\ n \in Nat
  BY DEF CallInit, Init, Fresh
<1>2. pc # "wait"
  BY DEF CallInit, Init
<1>3. Quorum(n) \in Nat /\ Quorum(n) > 0
  BY <1>1, QuorumPositive
<1>4. 0 \in Nat /\ attempt = 0 * Quorum(n) + sinceWait
  BY <1>1, <1>3
<1> QED
  BY <1>1, <1>2, <1>3, <1>4 DEF PaceInv, Paced, WaitsEveryQuorum

\* Steps that neither count an attempt nor begin one.
LEMMA PaceUntouched ==
    ASSUME PaceInv, UNCHANGED <<attempt, sinceWait>>,
           steady' => steady /\ n' = n,
           pc' = pc \/ ~Looping'
    PROVE  PaceInv'
BY DEF PaceInv, Paced, Looping, WaitsEveryQuorum, Quorum

\* The loop waits exactly at the end of a round.
LEMMA PaceLoop == ASSUME RetryInv, PaceInv, LoopStep PROVE PaceInv'
<1> DEFINE q == Quorum(n)
<1>0. /\ attempt \in Nat /\ sinceWait \in Nat /\ n \in Nat
      /\ q \in Nat /\ q > 0
  BY QuorumPositive DEF RetryInv, LoopTypeOK
<1>1. UNCHANGED <<attempt, n, steady>>
  BY DEF LoopStep, Loop, Exhausted, NoWait, Wait, WaitTimer, WaitCancelled
<1>2. CASE Exhausted \/ WaitCancelled
  BY <1>1, <1>2, PaceUntouched DEF Exhausted, WaitCancelled, histVars, Return, Looping
<1>3. CASE NoWait
  <2>0. pc = "loop" /\ pc' = "invoke" /\ sinceWait' = sinceWait
    BY <1>3 DEF NoWait, histVars
  <2> SUFFICES ASSUME steady PROVE PaceInv'
    BY <1>1, <2>0 DEF PaceInv, Paced, WaitsEveryQuorum
  <2>1. PICK m \in Nat : attempt = m * q + sinceWait
    BY <2>0 DEF PaceInv, Paced, Looping
  <2>2. sinceWait <= q
    BY DEF PaceInv, WaitsEveryQuorum
  <2>3. sinceWait # q
    <3> SUFFICES ASSUME sinceWait = q PROVE FALSE
      OBVIOUS
    <3> HIDE DEF q
    <3>1. m + 1 \in Nat /\ attempt = (m + 1) * q
      BY <1>0, <2>1
    <3>2. attempt % q = 0
      BY <1>0, <3>1, NoRemainder
    <3>3. attempt > 0
      BY <1>0, <2>1
    <3> QED
      BY <1>3, <3>2, <3>3 DEF NoWait, Backoff, q
  <2>4. sinceWait < q
    BY <1>0, <2>2, <2>3
  <2> QED
    BY <1>1, <2>0, <2>1, <2>2, <2>4 DEF PaceInv, Paced, Looping, WaitsEveryQuorum
<1>4. CASE Wait
  <2>1. attempt % q = 0
    BY <1>4 DEF Wait, Backoff
  <2>2. \E m \in Nat : attempt = m * q
    BY <1>0, <2>1, WholeRounds
  <2> QED
    BY <1>1, <1>4, <2>2 DEF Wait, histVars, PaceInv, Paced, Looping, WaitsEveryQuorum
<1>5. CASE WaitTimer
  <2>1. pc = "wait" /\ sinceWait' = 0
    BY <1>5 DEF WaitTimer
  <2>2. steady => \E m \in Nat : attempt = m * q + 0
    <3> SUFFICES ASSUME steady PROVE \E m \in Nat : attempt = m * q + 0
      OBVIOUS
    <3>1. PICK m \in Nat : attempt = m * q
      BY <2>1 DEF PaceInv, Paced, Looping
    <3> QED
      BY <1>0, <3>1
  <2> QED
    BY <1>0, <1>1, <1>5, <2>1, <2>2
       DEF WaitTimer, PaceInv, Paced, Looping, WaitsEveryQuorum
<1> QED
  BY <1>2, <1>3, <1>4, <1>5 DEF LoopStep, Loop

\* An attempt, made by the invoker or by a receive, counts for the round.
LEMMA PaceAttempt ==
    ASSUME RetryInv, PaceInv, pc \in {"invoke", "recv"}, UNCHANGED <<n, steady>>,
           sinceWait' = sinceWait + 1,
           ~Looping' \/ (pc' = "loop" /\ attempt' = attempt + 1)
    PROVE  PaceInv'
<1> DEFINE q == Quorum(n)
<1>0. /\ attempt \in Nat /\ sinceWait \in Nat /\ n \in Nat
      /\ q \in Nat /\ q > 0
  BY QuorumPositive DEF RetryInv, LoopTypeOK
<1> SUFFICES ASSUME steady PROVE PaceInv'
  BY DEF PaceInv, Paced, WaitsEveryQuorum
<1>1. PICK m \in Nat : attempt = m * q + sinceWait
  BY DEF PaceInv, Paced, Looping
<1>2. sinceWait < q
  BY DEF PaceInv, Paced, Looping
<1>3. attempt + 1 = m * q + (sinceWait + 1) /\ sinceWait + 1 <= q
  BY <1>0, <1>1, <1>2
<1> QED
  BY <1>3 DEF PaceInv, Paced, Looping, WaitsEveryQuorum

\* A receive by the caller begins anew.
LEMMA PaceRecvMsg == ASSUME RetryInv, PaceInv, RecvMsg PROVE PaceInv'
<1>1. attempt' = 0 /\ sinceWait' = 0 /\ pc' = "recv" /\ UNCHANGED <<n, steady>>
  BY DEF RecvMsg
<1>2. Quorum(n) \in Nat /\ Quorum(n) > 0
  BY QuorumPositive DEF RetryInv, LoopTypeOK
<1>3. 0 \in Nat /\ attempt' = 0 * Quorum(n) + sinceWait'
  BY <1>1, <1>2
<1> QED
  BY <1>1, <1>2, <1>3 DEF PaceInv, Paced, Looping, WaitsEveryQuorum

LEMMA PaceAlways == CallSpec => []PaceInv
<1>1. RetryInv /\ PaceInv /\ [CallNext]_allVars => PaceInv'
  <2> SUFFICES ASSUME RetryInv, PaceInv, [CallNext]_allVars PROVE PaceInv'
    OBVIOUS
  <2>1. CASE InvokeStep
    BY <2>1, PaceAttempt
       DEF InvokeStep, Invoke, InvokeOk, InvokeFails, InvokeRetried, Invoked, Return,
           Looping
  <2>2. CASE Receive
    BY <2>2, PaceAttempt
       DEF Receive, ReceiveOk, ReceiveEOF, ReceiveFails, ReceiveRetried, Received, End,
           Looping
  <2>3. CASE Opens
    BY <2>3, PaceUntouched
       DEF Opens, OpenRaw, OpenRefused, OpenFails, Open, End, histVars, Looping
  <2>4. CASE Reestablishes
    <3>1. CASE Reestablish
      BY <3>1 DEF Reestablish, histVars, PaceInv, Paced, Looping, WaitsEveryQuorum
    <3>2. CASE \E e \in Errors : ReestablishFails(e)
      BY <3>2, PaceUntouched DEF ReestablishFails, End, histVars, Looping
    <3> QED
      BY <2>4, <3>1, <3>2 DEF Reestablishes
  <2>5. CASE Expire \/ UNCHANGED allVars
    BY <2>5, PaceUntouched DEF Expire, allVars, vars, loopVars, histVars
  <2>6. CASE \E k \in 0..MaxEndpoints : SetEndpoints(k)
    <3>1. ~steady'
      BY <2>6, Zenon DEF SetEndpoints
    <3> QED
      BY <3>1 DEF PaceInv, Paced, WaitsEveryQuorum
  <2> QED
    BY <2>1, <2>2, <2>3, <2>4, <2>5, <2>6, PaceLoop, PaceRecvMsg DEF CallNext
<1> QED
  BY <1>1, PaceInit, RetryAlways, PTL DEF CallSpec

(* For any number of endpoints and attempts, the loop backs off once it has *)
(* tried a quorum of the endpoints.                                         *)
THEOREM BacksOffEveryQuorum == CallSpec => []WaitsEveryQuorum
<1>1. PaceInv => WaitsEveryQuorum
  BY DEF PaceInv
<1> QED
  BY <1>1, PaceAlways, PTL

-----------------------------------------------------------------------------
(* Streams                                                                 *)

\* What was delivered came from the stream in use, and is on record.
FromStreamInUse == from \subseteq {stream} /\ (from # {} => receivedGood)

\* The loop of RecvMsg runs only before the first message.
LoopBeforeGood ==
    call = "stream" /\ pc \in {"loop", "wait", "invoke"} => ~receivedGood

\* The request is kept from the time the caller has the stream, and the stream
\* that is received from has been sent it.
RequestKept ==
    /\ pc = "open" => bufferedSends = 0 /\ request = 0
    /\ pc \in {"user", "recv"} => bufferedSends = 1 /\ request = 1
    /\ call = "stream" /\ pc \in {"loop", "wait", "invoke"} => bufferedSends = 1
    /\ from # {} => request = 1

StreamInv == FromStreamInUse /\ LoopBeforeGood /\ RequestKept

LEMMA StreamInvInit == CallInit => StreamInv
<1> SUFFICES ASSUME CallInit PROVE StreamInv
  OBVIOUS
<1>1. stream = 0 /\ bufferedSends = 0 /\ request = 0 /\ from = {}
  BY DEF CallInit
<1>2. ~receivedGood
  BY Zenon DEF CallInit
<1>3. pc \in {"invoke", "loop"} \/ pc = "open"
  BY DEF CallInit, Init
<1>4. call = "stream" => pc = "open"
  BY DEF CallInit
<1> QED
  BY <1>1, <1>2, <1>3, <1>4 DEF StreamInv, FromStreamInUse, LoopBeforeGood, RequestKept

\* Steps that leave the stream alone and do not leave the loop for the stream.
LEMMA StreamUntouched ==
    ASSUME StreamInv, UNCHANGED <<call, streamVars>>,
           \/ pc' = pc
           \/ pc \in {"loop", "wait", "invoke"} /\ pc' \in {"loop", "wait", "invoke"}
           \/ pc' \in {"done", "ended"}
    PROVE  StreamInv'
BY DEF StreamInv, FromStreamInUse, LoopBeforeGood, RequestKept, streamVars

LEMMA OpensStep == ASSUME StreamInv, Opens PROVE StreamInv'
<1>1. CASE Open
  BY <1>1 DEF Open, StreamInv, FromStreamInUse, LoopBeforeGood, RequestKept
<1>2. CASE OpenRaw \/ OpenRefused \/ \E e \in Errors : OpenFails(e)
  <2>1. pc' = "ended" /\ UNCHANGED <<call, streamVars>>
    BY <1>2 DEF OpenRaw, OpenRefused, OpenFails, End
  <2> QED
    BY <2>1, StreamUntouched
<1> QED
  BY <1>1, <1>2 DEF Opens

LEMMA ReceiveStep == ASSUME StreamInv, Receive PROVE StreamInv'
<1>1. /\ pc = "recv"
      /\ UNCHANGED <<call, stream, bufferedSends, request>>
  BY DEF Receive, ReceiveOk, ReceiveEOF, ReceiveFails, ReceiveRetried, Received
<1>2. CASE ReceiveOk
  BY <1>1, <1>2 DEF ReceiveOk, StreamInv, FromStreamInUse, LoopBeforeGood, RequestKept
<1>3. CASE ReceiveEOF
  BY <1>1, <1>3
     DEF ReceiveEOF, End, StreamInv, FromStreamInUse, LoopBeforeGood, RequestKept
<1>4. ASSUME NEW e \in Errors, ReceiveFails(e) PROVE StreamInv'
  BY <1>1, <1>4
     DEF ReceiveFails, End, StreamInv, FromStreamInUse, LoopBeforeGood, RequestKept
<1>5. ASSUME NEW e \in Errors, ReceiveRetried(e) PROVE StreamInv'
  BY <1>1, <1>5
     DEF ReceiveRetried, RetryReceive, StreamInv, FromStreamInUse, LoopBeforeGood,
         RequestKept
<1> QED
  BY <1>2, <1>3, <1>4, <1>5 DEF Receive

LEMMA ReestablishesStep == ASSUME StreamInv, Reestablishes PROVE StreamInv'
<1>1. CASE Reestablish
  BY <1>1 DEF Reestablish, StreamInv, FromStreamInUse, LoopBeforeGood, RequestKept
<1>2. CASE \E e \in Errors : ReestablishFails(e)
  <2>1. pc' = "ended" /\ UNCHANGED <<call, streamVars>>
    BY <1>2 DEF ReestablishFails, End
  <2> QED
    BY <2>1, StreamUntouched
<1> QED
  BY <1>1, <1>2 DEF Reestablishes

LEMMA StreamAlways == CallSpec => []StreamInv
<1>1. StreamInv /\ [CallNext]_allVars => StreamInv'
  <2> SUFFICES ASSUME StreamInv, [CallNext]_allVars PROVE StreamInv'
    OBVIOUS
  <2>1. CASE LoopStep
    BY <2>1, StreamUntouched
       DEF LoopStep, Loop, Exhausted, NoWait, Wait, WaitTimer, WaitCancelled, Return
  <2>2. CASE InvokeStep
    BY <2>2, StreamUntouched
       DEF InvokeStep, Invoke, InvokeOk, InvokeFails, InvokeRetried, Invoked, Return
  <2>3. CASE RecvMsg
    BY <2>3
       DEF RecvMsg, streamVars, StreamInv, FromStreamInUse, LoopBeforeGood, RequestKept
  <2>4. CASE Expire /\ UNCHANGED <<call, streamVars>>
    BY <2>4, StreamUntouched DEF Expire, loopVars
  <2>5. CASE \E k \in 0..MaxEndpoints : SetEndpoints(k) /\ UNCHANGED <<call, streamVars>>
    BY <2>5, StreamUntouched DEF SetEndpoints, loopVars
  <2>6. CASE UNCHANGED allVars
    BY <2>6, StreamUntouched DEF allVars, vars, loopVars
  <2> QED
    BY <2>1, <2>2, <2>3, <2>4, <2>5, <2>6, OpensStep, ReceiveStep, ReestablishesStep
       DEF CallNext
<1> QED
  BY <1>1, StreamInvInit, PTL DEF CallSpec

(* However often streams fail and are made anew, the caller of a server     *)
(* stream is delivered the messages of one of them, which was sent its      *)
(* request once.                                                            *)
THEOREM NoSecondStream == CallSpec => []OneStreamDelivers
<1>1. StreamInv => OneStreamDelivers
  BY DEF StreamInv, FromStreamInUse, RequestKept, OneStreamDelivers
<1> QED
  BY <1>1, StreamAlways, PTL

\* The variables of a stream.
StreamTypeOK ==
    /\ call \in {"unary", "stream", "clientStream"}
    /\ stream \in Nat /\ bufferedSends \in Nat /\ request \in Nat
    /\ receivedGood \in BOOLEAN
    /\ from \in SUBSET Nat

(* Every variable of a call, unary or not, keeps its type.                  *)
THEOREM CallTypeCorrect == CallSpec => []TypeOK
<1>1. CallInit => StreamTypeOK
  <2> SUFFICES ASSUME CallInit PROVE StreamTypeOK
    OBVIOUS
  <2>1. receivedGood \in BOOLEAN
    BY Zenon DEF CallInit
  <2> QED
    BY <2>1 DEF CallInit, StreamTypeOK
<1>2. StreamTypeOK /\ [CallNext]_allVars => StreamTypeOK'
  <2> SUFFICES ASSUME StreamTypeOK, [CallNext]_allVars PROVE StreamTypeOK'
    OBVIOUS
  <2>1. CASE UNCHANGED <<call, streamVars>>
    BY <2>1 DEF StreamTypeOK, streamVars
  <2>2. CASE Open
    BY <2>2 DEF Open, StreamTypeOK
  <2>3. CASE Receive
    <3>1. receivedGood' \in BOOLEAN
      BY <2>3, Zenon
         DEF Receive, ReceiveOk, ReceiveEOF, ReceiveFails, ReceiveRetried, StreamTypeOK
    <3>2. /\ UNCHANGED <<call, stream, bufferedSends, request>>
          /\ from' \in {from, from \cup {stream}}
      BY <2>3 DEF Receive, ReceiveOk, ReceiveEOF, ReceiveFails, ReceiveRetried, Received
    <3> QED
      BY <3>1, <3>2 DEF StreamTypeOK
  <2>4. CASE Reestablish
    BY <2>4 DEF Reestablish, StreamTypeOK
  <2> QED
    BY <2>1, <2>2, <2>3, <2>4
       DEF CallNext, LoopStep, InvokeStep, Opens, OpenRaw, OpenRefused, OpenFails,
           RecvMsg, Reestablishes, ReestablishFails, allVars
<1>3. RetryInv /\ StreamTypeOK => TypeOK
  BY DEF RetryInv, StreamTypeOK, TypeOK
<1> QED
  BY <1>1, <1>2, <1>3, RetryAlways, PTL DEF CallSpec
=============================================================================
