----------------------------- MODULE BatchQueue -----------------------------
(***************************************************************************)
(* What internal/messagequeue promises its users: a bounded FIFO queue     *)
(* whose consumers take everything that is pending in one batch.  No entry *)
(* is lost, duplicated or reordered, and a closed queue takes no more.     *)
(***************************************************************************)
EXTENDS Integers, Sequences

CONSTANTS Entries, Size

VARIABLES pending,   \* entries accepted and not yet taken, oldest first
          taken,     \* all entries taken so far, in order
          closed     \* the queue takes no more entries

vars == <<pending, taken, closed>>

Init ==
    /\ pending = <<>>
    /\ taken = <<>>
    /\ closed = FALSE

Accept(e) ==
    /\ ~closed
    /\ Len(pending) < Size
    /\ pending' = Append(pending, e)
    /\ UNCHANGED <<taken, closed>>

TakeAll ==
    /\ taken' = taken \o pending
    /\ pending' = <<>>
    /\ UNCHANGED closed

Shut ==
    /\ closed' = TRUE
    /\ UNCHANGED <<pending, taken>>

Next == (\E e \in Entries : Accept(e)) \/ TakeAll \/ Shut

Spec == Init /\ [][Next]_vars
=============================================================================
