----------------------------- MODULE EntryQueue -----------------------------
(***************************************************************************)
(* internal/messagequeue: EntryQueue, and ThriftEntryQueue, which differs  *)
(* from it in the element type only.  Producers Add entries to one of two  *)
(* buffers; Get hands the consumer a slice of that buffer, not a copy, and *)
(* makes the other buffer the target.                                      *)
(*                                                                         *)
(* One action is one critical section.  Add reads `stopped' once more      *)
(* after it has unlocked, so that read is an action of its own.            *)
(***************************************************************************)
EXTENDS Integers, Sequences

CONSTANTS Entries,     \* the requests; each is a fresh object, added once
          Nil,         \* the nil request a buffer starts with
          Producers, Consumers,
          Size         \* size

ASSUME QueueAssumption == Nil \notin Entries /\ Size \in Nat

VARIABLES buf,          \* the buffers left and right
          leftInWrite,
          stopped,
          idx,
          pc, ret,      \* per producer: where in Add, and Add's last result
          slice,        \* per consumer: the slice Get returned, as buffer and length
          seen, later,  \* history, per consumer: the slice's entries at Get, and
                        \* how many Gets have come after it (capped at 2)
          accepted,     \* history: the entries Add accepted, in order
          handed        \* history: the entries Get handed out, in order

queueVars == <<buf, leftInWrite, stopped, idx>>
sliceVars == <<slice, seen, later>>
vars == <<queueVars, pc, ret, sliceVars, accepted, handed>>

Side == {"left", "right"}

TypeOK ==
    /\ buf \in [Side -> [1..Size -> Entries \cup {Nil}]]
    /\ leftInWrite \in BOOLEAN
    /\ stopped \in BOOLEAN
    /\ idx \in 0..Size
    /\ pc \in [Producers -> {"out", "full"}]
    /\ ret \in [Producers -> {"none", "ok", "full", "stopped"}]
    /\ slice \in [Consumers -> [side: Side, n: 0..Size]]
    /\ seen \in [Consumers -> Seq(Entries)]
    /\ later \in [Consumers -> 0..2]
    /\ accepted \in Seq(Entries)
    /\ handed \in Seq(Entries)

Init ==
    /\ buf = [s \in Side |-> [i \in 1..Size |-> Nil]]
    /\ leftInWrite = FALSE
    /\ stopped = FALSE
    /\ idx = 0
    /\ pc = [p \in Producers |-> "out"]
    /\ ret = [p \in Producers |-> "none"]
    /\ slice = [c \in Consumers |-> [side |-> "left", n |-> 0]]
    /\ seen = [c \in Consumers |-> <<>>]
    /\ later = [c \in Consumers |-> 2]
    /\ accepted = <<>>
    /\ handed = <<>>

-----------------------------------------------------------------------------

\* The buffer that is written now.
targetQueue == IF leftInWrite THEN "left" ELSE "right"

\* The entries that wait for the next Get.
Waiting == [i \in 1..idx |-> buf[targetQueue][i]]

Full == idx >= Size

Close ==
    /\ stopped' = TRUE
    /\ UNCHANGED <<buf, leftInWrite, idx, pc, ret, sliceVars, accepted, handed>>

\* Add on a queue that has room but was closed: (false, true).
AddRefused(p) ==
    /\ pc[p] = "out"
    /\ ~Full /\ stopped
    /\ ret' = [ret EXCEPT ![p] = "stopped"]
    /\ UNCHANGED <<queueVars, pc, sliceVars, accepted, handed>>

\* Add on a full queue unlocks ...
AddFull(p) ==
    /\ pc[p] = "out"
    /\ Full
    /\ pc' = [pc EXCEPT ![p] = "full"]
    /\ UNCHANGED <<queueVars, ret, sliceVars, accepted, handed>>

\* ... and then reads `stopped' for its second result.
AddFullReturn(p) ==
    /\ pc[p] = "full"
    /\ pc' = [pc EXCEPT ![p] = "out"]
    /\ ret' = [ret EXCEPT ![p] = IF stopped THEN "stopped" ELSE "full"]
    /\ UNCHANGED <<queueVars, sliceVars, accepted, handed>>

\* Mutant: a closed queue still takes entries.
MutantAddStopped(p, e) ==
    /\ pc[p] = "out"
    /\ ~Full
    /\ buf' = [buf EXCEPT ![targetQueue][idx + 1] = e]
    /\ idx' = idx + 1
    /\ ret' = [ret EXCEPT ![p] = "ok"]
    /\ accepted' = Append(accepted, e)
    /\ UNCHANGED <<leftInWrite, stopped, pc, sliceVars, handed>>

\* Mutant: the write position does not move.
MutantAddInPlace(p, e) ==
    /\ pc[p] = "out"
    /\ ~Full /\ ~stopped
    /\ buf' = [buf EXCEPT ![targetQueue][idx + 1] = e]
    /\ ret' = [ret EXCEPT ![p] = "ok"]
    /\ accepted' = Append(accepted, e)
    /\ UNCHANGED <<leftInWrite, stopped, idx, pc, sliceVars, handed>>

\* Add accepts: (true, false).
AddOk(p, e) ==
    /\ pc[p] = "out"
    /\ ~Full /\ ~stopped
    /\ buf' = [buf EXCEPT ![targetQueue][idx + 1] = e]
    /\ idx' = idx + 1
    /\ ret' = [ret EXCEPT ![p] = "ok"]
    /\ accepted' = Append(accepted, e)
    /\ UNCHANGED <<leftInWrite, stopped, pc, sliceVars, handed>>

\* What the history variables record of a Get by consumer c.
RecordGet(c) ==
    /\ seen' = [seen EXCEPT ![c] = Waiting]
    /\ later' = [d \in Consumers |->
                    IF d = c THEN 0 ELSE IF later[d] < 2 THEN later[d] + 1 ELSE 2]
    /\ handed' = handed \o Waiting

\* Mutant: the buffers are not swapped.
MutantGetNoSwap(c) ==
    /\ slice' = [slice EXCEPT ![c] = [side |-> targetQueue, n |-> idx]]
    /\ idx' = 0
    /\ RecordGet(c)
    /\ UNCHANGED <<buf, leftInWrite, stopped, pc, ret, accepted>>

\* Mutant: the write position is not reset.
MutantGetNoReset(c) ==
    /\ slice' = [slice EXCEPT ![c] = [side |-> targetQueue, n |-> idx]]
    /\ leftInWrite' = ~leftInWrite
    /\ RecordGet(c)
    /\ UNCHANGED <<buf, stopped, idx, pc, ret, accepted>>

Get(c) ==
    /\ slice' = [slice EXCEPT ![c] = [side |-> targetQueue, n |-> idx]]
    /\ idx' = 0
    /\ leftInWrite' = ~leftInWrite
    /\ RecordGet(c)
    /\ UNCHANGED <<buf, stopped, pc, ret, accepted>>

Add(p) ==
    \/ AddRefused(p)
    \/ AddFull(p)
    \/ AddFullReturn(p)
    \/ \E e \in Entries : (\A i \in DOMAIN accepted : accepted[i] # e) /\ AddOk(p, e)

Next ==
    \/ \E p \in Producers : Add(p)
    \/ \E c \in Consumers : Get(c)
    \/ Close

Spec == Init /\ [][Next]_vars

-----------------------------------------------------------------------------
(* Properties                                                              *)

\* The queue as BatchQueue sees it.
Abstract == INSTANCE BatchQueue
                WITH pending <- Waiting, taken <- handed, closed <- stopped

\* Add, Get and Close implement a bounded FIFO queue whose Get takes all.
Refinement == Abstract!Spec

\* Every accepted entry is either waiting or was handed out once, and in the
\* order of acceptance (queue.go:53-55 against 63-67).
Conservation == accepted = handed \o Waiting

\* What a consumer now reads through the slice that Get gave it.
Reads(c) == [i \in 1..slice[c].n |-> buf[slice[c].side][i]]

\* A slice is stable until the next Get.  After one more Get its buffer is the
\* target again, and Add overwrites the slice from its front: exactly the first
\* idx entries are no longer those that Get returned.  (queue.go:66-67 return
\* t[:sz], not a copy.)
SliceDecay ==
    \A c \in Consumers :
        /\ later[c] = 0 => Reads(c) = seen[c]
        /\ later[c] = 1 => \A i \in 1..slice[c].n :
              Reads(c)[i] = IF i <= idx THEN Waiting[i] ELSE seen[c][i]

\* Once a producer was told that the queue is stopped, no producer's entry is
\* accepted any more (queue.go:46-51: the first result's path reads `stopped'
\* without the lock).
StoppedIsFinal ==
    [][(\E p \in Producers : ret[p] = "stopped") => UNCHANGED accepted]_vars
=============================================================================
