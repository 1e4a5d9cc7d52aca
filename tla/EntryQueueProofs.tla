-------------------------- MODULE EntryQueueProofs --------------------------
(***************************************************************************)
(* Proofs about EntryQueue, for any buffer size and any number of          *)
(* producers and consumers, and about LoadGenerator, the program that uses *)
(* the queue, for any number of goroutines.                                *)
(***************************************************************************)
EXTENDS EntryQueue, LoadGenerator, FiniteSetTheorems, TLAPS

-----------------------------------------------------------------------------
(* The invariant: everything below the write position is an entry, and a   *)
(* slice that is at most one Get old lies where the swaps put it.          *)

Filled == \A i \in 1..idx : buf[targetQueue][i] \in Entries

SlicePlace ==
    \A c \in Consumers :
        /\ later[c] < 2 => Len(seen[c]) = slice[c].n
        /\ later[c] = 0 => slice[c].side # targetQueue
        /\ later[c] = 1 => slice[c].side = targetQueue

QueueInv == TypeOK /\ Filled /\ Conservation /\ SlicePlace /\ SliceDecay

LEMMA TargetSide == targetQueue \in Side /\ (targetQueue)' \in Side
  BY DEF targetQueue, Side

LEMMA WaitingSeq ==
    ASSUME TypeOK, Filled
    PROVE  Waiting \in Seq(Entries) /\ Len(Waiting) = idx
  BY DEF TypeOK, Filled, Waiting

LEMMA WaitingSeqNext ==
    ASSUME TypeOK', Filled'
    PROVE  Waiting' \in Seq(Entries) /\ Len(Waiting') = idx'
<1>1. idx' \in Nat
  BY QueueAssumption DEF TypeOK
<1>2. \A i \in 1..idx' : buf'[targetQueue'][i] \in Entries
  BY DEF Filled
<1>3. Waiting' = [i \in 1..idx' |-> buf'[targetQueue'][i]]
  BY DEF Waiting
<1> QED
  BY <1>1, <1>2, <1>3

LEMMA QueueInit == Init => QueueInv
<1> SUFFICES ASSUME Init PROVE QueueInv
  OBVIOUS
<1> USE QueueAssumption
<1>1. Waiting = <<>>
  BY DEF Init, Waiting
<1>2. TypeOK
  <2>1. buf \in [Side -> [1..Size -> Entries \cup {Nil}]] /\ idx \in 0..Size
    BY DEF Init
  <2>2. slice \in [Consumers -> [side: Side, n: 0..Size]]
    BY DEF Init, Side
  <2>3. leftInWrite \in BOOLEAN /\ stopped \in BOOLEAN
    BY Zenon DEF Init
  <2>4. /\ pc \in [Producers -> {"out", "full"}]
        /\ ret \in [Producers -> {"none", "ok", "full", "stopped"}]
        /\ seen \in [Consumers -> Seq(Entries)]
        /\ later \in [Consumers -> 0..2]
        /\ accepted \in Seq(Entries) /\ handed \in Seq(Entries)
    BY DEF Init
  <2> QED
    BY <2>1, <2>2, <2>3, <2>4 DEF TypeOK
<1>3. Filled
  BY DEF Init, Filled
<1>4. Conservation
  BY <1>1 DEF Init, Conservation
<1>5. SlicePlace /\ SliceDecay
  BY DEF Init, SlicePlace, SliceDecay
<1> QED
  BY <1>2, <1>3, <1>4, <1>5 DEF QueueInv

\* Steps that touch neither the buffers nor the histories.
LEMMA QueueQuiet ==
    ASSUME QueueInv, TypeOK', UNCHANGED <<buf, leftInWrite, idx, sliceVars, accepted, handed>>
    PROVE  QueueInv'
<1>1. Waiting' = Waiting /\ UNCHANGED targetQueue
  BY DEF Waiting, targetQueue
<1>2. \A c \in Consumers : Reads(c)' = Reads(c)
  BY DEF Reads, sliceVars
<1>3. Filled' /\ SlicePlace'
  BY <1>1 DEF QueueInv, Filled, SlicePlace, sliceVars
<1>4. Conservation' /\ SliceDecay'
  BY <1>1, <1>2 DEF QueueInv, Conservation, SliceDecay, sliceVars
<1> QED
  BY <1>3, <1>4 DEF QueueInv

LEMMA AddOkWaiting ==
    ASSUME QueueInv, NEW p \in Producers, NEW e \in Entries, AddOk(p, e)
    PROVE  Waiting' = Append(Waiting, e)
<1>1. /\ buf \in [Side -> [1..Size -> Entries \cup {Nil}]]
      /\ idx \in Nat /\ idx' = idx + 1 /\ idx + 1 \in 1..Size
      /\ buf' = [buf EXCEPT ![targetQueue][idx + 1] = e]
  BY QueueAssumption DEF QueueInv, TypeOK, AddOk, Full
<1>2. targetQueue \in Side /\ targetQueue' = targetQueue
  BY TargetSide DEF targetQueue, AddOk
<1>3. Waiting \in Seq(Entries) /\ Len(Waiting) = idx
  BY WaitingSeq DEF QueueInv
<1>4. \A i \in 1..(idx + 1) :
         buf'[targetQueue][i] = IF i = idx + 1 THEN e ELSE Waiting[i]
  BY <1>1, <1>2, QueueAssumption DEF Waiting
<1>5. Waiting' = [i \in 1..(idx + 1) |-> IF i = idx + 1 THEN e ELSE Waiting[i]]
  BY <1>1, <1>2, <1>4 DEF Waiting
<1>6. Waiting' \in Seq(Entries) /\ Len(Waiting') = idx + 1
  <2>1. \A i \in 1..(idx + 1) : i # idx + 1 => Waiting[i] \in Entries
    BY <1>1, <1>3
  <2> QED
    BY <1>1, <1>5, <2>1
<1>7. Append(Waiting, e) \in Seq(Entries) /\ Len(Append(Waiting, e)) = idx + 1
  BY <1>3
<1>8. \A i \in 1..(idx + 1) : Waiting'[i] = Append(Waiting, e)[i]
  BY <1>1, <1>3, <1>5
<1> QED
  BY <1>6, <1>7, <1>8

LEMMA AddOkStep ==
    ASSUME QueueInv, NEW p \in Producers, NEW e \in Entries, AddOk(p, e)
    PROVE  QueueInv'
<1>1. /\ buf \in [Side -> [1..Size -> Entries \cup {Nil}]]
      /\ idx \in 0..Size /\ idx < Size /\ idx' = idx + 1 /\ idx + 1 \in 1..Size
      /\ buf' = [buf EXCEPT ![targetQueue][idx + 1] = e]
      /\ UNCHANGED <<leftInWrite, sliceVars, handed>>
  BY QueueAssumption DEF QueueInv, TypeOK, AddOk, Full
<1>2. targetQueue \in Side /\ UNCHANGED targetQueue
  BY <1>1, TargetSide DEF targetQueue
<1>3. /\ buf' \in [Side -> [1..Size -> Entries \cup {Nil}]]
      /\ \A s \in Side, i \in 1..Size :
            buf'[s][i] = IF s = targetQueue /\ i = idx + 1 THEN e ELSE buf[s][i]
  BY <1>1, <1>2
<1>4. TypeOK'
  <2>1. accepted' \in Seq(Entries) /\ idx' \in 0..Size
    BY <1>1 DEF QueueInv, TypeOK, AddOk
  <2>2. ret' \in [Producers -> {"none", "ok", "full", "stopped"}]
    BY DEF QueueInv, TypeOK, AddOk
  <2>3. leftInWrite' \in BOOLEAN /\ stopped' \in BOOLEAN
    BY Zenon DEF QueueInv, TypeOK, AddOk
  <2> QED
    BY <1>1, <1>3, <2>1, <2>2, <2>3 DEF QueueInv, TypeOK, AddOk, sliceVars
<1>5. Filled'
  BY <1>1, <1>2, <1>3 DEF QueueInv, Filled
<1>6. Waiting' = Append(Waiting, e)
  BY AddOkWaiting
<1>7. Conservation'
  <2>1. accepted' = Append(handed \o Waiting, e) /\ handed' = handed
    BY <1>1 DEF QueueInv, Conservation, AddOk
  <2>2. handed \in Seq(Entries) /\ Waiting \in Seq(Entries)
    BY WaitingSeq DEF QueueInv, TypeOK
  <2>3. Append(handed \o Waiting, e) = handed \o Append(Waiting, e)
    <3>1. \A a, b \in Seq(Entries) : Append(a \o b, e) = a \o Append(b, e)
      OBVIOUS
    <3> QED
      BY <2>2, <3>1
  <2> QED
    BY <1>6, <2>1, <2>3, Zenon DEF Conservation
<1>8. SlicePlace'
  BY <1>1, <1>2 DEF QueueInv, SlicePlace, sliceVars
<1>9. SliceDecay'
  <2> SUFFICES ASSUME NEW c \in Consumers
               PROVE  /\ later'[c] = 0 => Reads(c)' = seen'[c]
                      /\ later'[c] = 1 => \A i \in 1..slice'[c].n :
                            Reads(c)'[i] = IF i <= idx' THEN Waiting'[i] ELSE seen'[c][i]
    BY DEF SliceDecay
  <2>1. slice' = slice /\ seen' = seen /\ later' = later
    BY <1>1 DEF sliceVars
  <2>2. slice[c].n \in 0..Size /\ slice[c].side \in Side
    BY DEF QueueInv, TypeOK
  <2>3. ASSUME later[c] = 0 PROVE Reads(c)' = seen'[c]
    <3>1. slice[c].side # targetQueue /\ Reads(c) = seen[c]
      BY <2>3 DEF QueueInv, SlicePlace, SliceDecay
    <3>2. \A i \in 1..slice[c].n : buf'[slice[c].side][i] = buf[slice[c].side][i]
      BY <1>2, <1>3, <2>2, <3>1, QueueAssumption
    <3>3. Reads(c)' = Reads(c)
      BY <2>1, <3>2 DEF Reads
    <3> QED
      BY <2>1, <3>1, <3>3
  <2>4. ASSUME later[c] = 1, NEW i \in 1..slice[c].n
        PROVE  Reads(c)'[i] = IF i <= idx' THEN Waiting'[i] ELSE seen'[c][i]
    <3>1. slice[c].side = targetQueue
      BY <2>4 DEF QueueInv, SlicePlace
    <3>2. Reads(c)[i] = IF i <= idx THEN Waiting[i] ELSE seen[c][i]
      BY <2>4 DEF QueueInv, SliceDecay
    <3>3. /\ i \in 1..Size
          /\ Reads(c)'[i] = buf'[targetQueue][i]
          /\ Reads(c)[i] = buf[targetQueue][i]
      BY <2>1, <2>2, <2>4, <3>1, QueueAssumption DEF Reads
    <3>4. CASE i <= idx + 1
      BY <1>1, <1>2, <3>3, <3>4 DEF Waiting
    <3>5. CASE i > idx + 1
      BY <1>1, <1>2, <1>3, <2>1, <3>2, <3>3, <3>5
    <3> QED
      BY <1>1, <3>3, <3>4, <3>5
  <2> QED
    BY <2>1, <2>3, <2>4
<1> QED
  BY <1>4, <1>5, <1>7, <1>8, <1>9 DEF QueueInv

LEMMA GetStep ==
    ASSUME QueueInv, NEW c \in Consumers, Get(c)
    PROVE  QueueInv'
<1>1. /\ idx \in Nat /\ idx <= Size /\ idx' = 0 /\ Size \in Nat
      /\ buf' = buf /\ accepted' = accepted /\ handed' = handed \o Waiting
  BY QueueAssumption DEF QueueInv, TypeOK, Get, RecordGet
<1>2. Waiting \in Seq(Entries) /\ Len(Waiting) = idx
  BY WaitingSeq DEF QueueInv
<1>3. Waiting' = <<>>
  BY <1>1 DEF Waiting
<1>4. targetQueue' # targetQueue
  BY DEF targetQueue, Get, QueueInv, TypeOK
<1>5. TypeOK'
  <2>1. slice' \in [Consumers -> [side: Side, n: 0..Size]]
    BY <1>1, TargetSide DEF QueueInv, TypeOK, Get
  <2>2. seen' \in [Consumers -> Seq(Entries)] /\ handed' \in Seq(Entries)
    <3>1. seen \in [Consumers -> Seq(Entries)] /\ handed \in Seq(Entries)
      BY DEF QueueInv, TypeOK
    <3>2. seen' = [seen EXCEPT ![c] = Waiting]
      BY DEF Get, RecordGet
    <3> HIDE DEF Waiting
    <3>3. seen' \in [Consumers -> Seq(Entries)]
      BY <1>2, <3>1, <3>2
    <3>4. handed \o Waiting \in Seq(Entries)
      BY <1>2, <3>1
    <3> QED
      BY <1>1, <3>3, <3>4
  <2>3. later' \in [Consumers -> 0..2]
    <3>1. later \in [Consumers -> 0..2]
      BY DEF QueueInv, TypeOK
    <3>2. later' = [d \in Consumers |->
                      IF d = c THEN 0 ELSE IF later[d] < 2 THEN later[d] + 1 ELSE 2]
      BY DEF Get, RecordGet
    <3> QED
      BY <3>1, <3>2
  <2>4. leftInWrite' \in BOOLEAN /\ stopped' \in BOOLEAN
    BY Zenon DEF QueueInv, TypeOK, Get
  <2> QED
    BY <1>1, <2>1, <2>2, <2>3, <2>4 DEF QueueInv, TypeOK, Get
<1>6. Filled'
  BY <1>1 DEF Filled
<1>7. Conservation'
  <2>1. handed' \in Seq(Entries)
    BY <1>5 DEF TypeOK
  <2>2. handed' \o <<>> = handed'
    BY <2>1
  <2>3. accepted = handed \o Waiting
    BY DEF QueueInv, Conservation
  <2> QED
    BY <1>1, <1>3, <2>2, <2>3, Zenon DEF Conservation
<1>8. \A d \in Consumers :
         /\ d = c => slice'[d].side = targetQueue /\ slice'[d].n = idx /\ seen'[d] = Waiting
         /\ d # c => slice'[d] = slice[d] /\ seen'[d] = seen[d]
         /\ later'[d] = 0 <=> d = c
         /\ later'[d] = 1 <=> d # c /\ later[d] = 0
         /\ later'[d] < 2 => d = c \/ later[d] = 0
  <2>1. /\ slice \in [Consumers -> [side: Side, n: 0..Size]]
        /\ seen \in [Consumers -> Seq(Entries)]
        /\ later \in [Consumers -> 0..2]
    BY DEF QueueInv, TypeOK
  <2>2. /\ slice' = [slice EXCEPT ![c] = [side |-> targetQueue, n |-> idx]]
        /\ seen' = [seen EXCEPT ![c] = Waiting]
        /\ later' = [d \in Consumers |->
                       IF d = c THEN 0 ELSE IF later[d] < 2 THEN later[d] + 1 ELSE 2]
    BY DEF Get, RecordGet
  <2>3. ASSUME NEW d \in Consumers
        PROVE  /\ d = c => slice'[d].side = targetQueue /\ slice'[d].n = idx
                             /\ seen'[d] = Waiting
               /\ d # c => slice'[d] = slice[d] /\ seen'[d] = seen[d]
    BY <2>1, <2>2
  <2>4. ASSUME NEW d \in Consumers
        PROVE  /\ later'[d] = 0 <=> d = c
               /\ later'[d] = 1 <=> d # c /\ later[d] = 0
               /\ later'[d] < 2 => d = c \/ later[d] = 0
    <3>1. later[d] \in 0..2
      BY <2>1
    <3>2. later'[d] = IF d = c THEN 0 ELSE IF later[d] < 2 THEN later[d] + 1 ELSE 2
      BY <2>2
    <3> QED
      BY <3>1, <3>2
  <2> QED
    BY <2>3, <2>4
<1>9. SlicePlace'
  <2> SUFFICES ASSUME NEW d \in Consumers
               PROVE  /\ later'[d] < 2 => Len(seen'[d]) = slice'[d].n
                      /\ later'[d] = 0 => slice'[d].side # targetQueue'
                      /\ later'[d] = 1 => slice'[d].side = targetQueue'
    BY DEF SlicePlace
  <2>1. CASE d = c
    BY <1>2, <1>4, <1>8, <2>1
  <2>2. CASE d # c
    <3>1. later[d] = 0 => Len(seen[d]) = slice[d].n /\ slice[d].side # targetQueue
      BY DEF QueueInv, SlicePlace
    <3>2. slice[d].side \in Side
      BY DEF QueueInv, TypeOK
    <3>3. slice[d].side # targetQueue => slice[d].side = targetQueue'
      BY <1>4, <3>2, TargetSide DEF Side
    <3> QED
      BY <1>8, <2>2, <3>1, <3>3
  <2> QED
    BY <2>1, <2>2
<1>10. SliceDecay'
  <2> SUFFICES ASSUME NEW d \in Consumers
               PROVE  /\ later'[d] = 0 => Reads(d)' = seen'[d]
                      /\ later'[d] = 1 => \A i \in 1..slice'[d].n :
                            Reads(d)'[i] = IF i <= idx' THEN Waiting'[i] ELSE seen'[d][i]
    BY DEF SliceDecay
  <2>1. CASE d = c
    BY <1>1, <1>8, <2>1 DEF Reads, Waiting
  <2>2. CASE d # c
    <3> SUFFICES ASSUME later[d] = 0, NEW i \in 1..slice[d].n
                 PROVE  Reads(d)'[i] = IF i <= 0 THEN Waiting'[i] ELSE seen[d][i]
      BY <1>1, <1>8, <2>2
    <3>1. Reads(d) = seen[d]
      BY DEF QueueInv, SliceDecay
    <3>2. Reads(d)' = Reads(d)
      BY <1>1, <1>8, <2>2 DEF Reads
    <3>3. ~(i <= 0)
      BY DEF QueueInv, TypeOK
    <3> QED
      BY <3>1, <3>2, <3>3
  <2> QED
    BY <2>1, <2>2
<1> QED
  BY <1>5, <1>6, <1>7, <1>9, <1>10 DEF QueueInv

LEMMA QueueStep == QueueInv /\ [Next]_vars => QueueInv'
<1> SUFFICES ASSUME QueueInv, [Next]_vars PROVE QueueInv'
  OBVIOUS
<1>1. ASSUME NEW p \in Producers, AddRefused(p) PROVE QueueInv'
  <2>1. TypeOK'
    BY <1>1 DEF QueueInv, TypeOK, AddRefused, queueVars, sliceVars
  <2> QED
    BY <1>1, <2>1, QueueQuiet DEF AddRefused, queueVars
<1>2. ASSUME NEW p \in Producers, AddFull(p) PROVE QueueInv'
  <2>1. TypeOK'
    BY <1>2 DEF QueueInv, TypeOK, AddFull, queueVars, sliceVars
  <2> QED
    BY <1>2, <2>1, QueueQuiet DEF AddFull, queueVars
<1>3. ASSUME NEW p \in Producers, AddFullReturn(p) PROVE QueueInv'
  <2>1. ret' \in [Producers -> {"none", "ok", "full", "stopped"}]
    BY <1>3 DEF QueueInv, TypeOK, AddFullReturn
  <2>2. TypeOK'
    BY <1>3, <2>1 DEF QueueInv, TypeOK, AddFullReturn, queueVars, sliceVars
  <2> QED
    BY <1>3, <2>2, QueueQuiet DEF AddFullReturn, queueVars
<1>4. ASSUME Close PROVE QueueInv'
  <2>1. stopped' \in BOOLEAN
    BY <1>4, Zenon DEF Close
  <2>2. TypeOK'
    BY <1>4, <2>1 DEF QueueInv, TypeOK, Close, sliceVars
  <2> QED
    BY <1>4, <2>2, QueueQuiet DEF Close
<1>5. ASSUME UNCHANGED vars PROVE QueueInv'
  <2>1. TypeOK'
    BY <1>5 DEF QueueInv, TypeOK, vars, queueVars, sliceVars
  <2> QED
    BY <1>5, <2>1, QueueQuiet DEF vars, queueVars
<1> QED
  BY <1>1, <1>2, <1>3, <1>4, <1>5, AddOkStep, GetStep DEF Next, Add

LEMMA QueueAlways == Spec => []QueueInv
  BY QueueInit, QueueStep, PTL DEF Spec

(* Whatever the interleaving of Add, Get and Close, no accepted entry is    *)
(* lost, duplicated or reordered on its way to a Get.                       *)
THEOREM EntriesConserved == Spec => []Conservation
<1>1. QueueInv => Conservation
  BY DEF QueueInv
<1> QED
  BY <1>1, QueueAlways, PTL

(* How long the slice that Get returns stays what it was.                   *)
THEOREM SliceStability == Spec => []SliceDecay
<1>1. QueueInv => SliceDecay
  BY DEF QueueInv
<1> QED
  BY <1>1, QueueAlways, PTL

(* The double buffer implements the abstract batch queue.                   *)
THEOREM ImplementsBatchQueue == Spec => Refinement
<1>1. Init => Abstract!Init
  BY DEF Init, Abstract!Init, Waiting
<1>2. QueueInv /\ QueueInv' /\ [Next]_vars => [Abstract!Next]_(Abstract!vars)
  <2> SUFFICES ASSUME QueueInv, QueueInv', [Next]_vars
               PROVE  Abstract!Next \/ UNCHANGED Abstract!vars
    OBVIOUS
  <2>1. CASE UNCHANGED <<queueVars, handed>>
    BY <2>1 DEF Abstract!vars, queueVars, Waiting, targetQueue
  <2>2. CASE Close
    BY <2>2 DEF Close, Abstract!Next, Abstract!Shut, Waiting, targetQueue
  <2>3. ASSUME NEW c \in Consumers, Get(c) PROVE Abstract!Next
    <3>1. Waiting' = <<>>
      BY <2>3 DEF Get, Waiting
    <3> QED
      BY <2>3, <3>1 DEF Get, RecordGet, Abstract!Next, Abstract!TakeAll
  <2>4. ASSUME NEW p \in Producers, NEW e \in Entries, AddOk(p, e)
        PROVE  Abstract!Next
    <3>1. Waiting' = Append(Waiting, e)
      BY <2>4, AddOkWaiting
    <3>2. Len(Waiting) < Size
      BY <2>4, WaitingSeq, QueueAssumption DEF QueueInv, TypeOK, AddOk, Full
    <3> QED
      BY <2>4, <3>1, <3>2 DEF AddOk, Abstract!Next, Abstract!Accept
  <2> QED
    BY <2>1, <2>2, <2>3, <2>4 DEF Next, Add, AddRefused, AddFull, AddFullReturn, vars
<1> QED
  BY <1>1, <1>2, QueueAlways, PTL DEF Spec, Refinement, Abstract!Spec

-----------------------------------------------------------------------------
(* Closing the queue                                                       *)

\* A producer that was told so can rely on it: nothing reopens the queue.
ToldStopped == \A p \in Producers : ret[p] = "stopped" => stopped

LEMMA ToldStoppedInit == Init => ToldStopped
  BY DEF Init, ToldStopped

LEMMA ToldStoppedStep == QueueInv /\ ToldStopped /\ [Next]_vars => ToldStopped'
<1> SUFFICES ASSUME QueueInv, ToldStopped, [Next]_vars, NEW q \in Producers,
                    ret'[q] = "stopped"
             PROVE  stopped'
  BY DEF ToldStopped
<1>1. ret \in [Producers -> {"none", "ok", "full", "stopped"}]
  BY DEF QueueInv, TypeOK
<1>2. ret[q] = "stopped" => stopped
  BY DEF ToldStopped
<1>3. ASSUME NEW p \in Producers, AddRefused(p) PROVE stopped'
  BY <1>3 DEF AddRefused, queueVars
<1>4. ASSUME NEW p \in Producers, AddFull(p) PROVE stopped'
  BY <1>2, <1>4 DEF AddFull, queueVars
<1>5. ASSUME NEW p \in Producers, AddFullReturn(p) PROVE stopped'
  <2>1. ret'[q] = IF q = p THEN IF stopped THEN "stopped" ELSE "full" ELSE ret[q]
    BY <1>1, <1>5 DEF AddFullReturn
  <2>2. stopped
    BY <1>2, <2>1
  <2> QED
    BY <1>5, <2>2 DEF AddFullReturn, queueVars
<1>6. ASSUME NEW p \in Producers, NEW e \in Entries, AddOk(p, e) PROVE stopped'
  <2>1. ret'[q] = IF q = p THEN "ok" ELSE ret[q]
    BY <1>1, <1>6 DEF AddOk
  <2> QED
    BY <1>2, <1>6, <2>1 DEF AddOk
<1>7. ASSUME NEW c \in Consumers, Get(c) PROVE stopped'
  BY <1>2, <1>7 DEF Get
<1>8. CASE Close
  BY <1>8, Zenon DEF Close
<1>9. CASE UNCHANGED vars
  BY <1>2, <1>9 DEF vars, queueVars
<1> QED
  BY <1>3, <1>4, <1>5, <1>6, <1>7, <1>8, <1>9 DEF Next, Add

(* Once Add has returned `stopped' to one producer, every later entry of     *)
(* every producer is refused, although Add's full path reads `stopped'       *)
(* after it has unlocked (queue.go:46-51).                                   *)
THEOREM NothingAfterStopped == Spec => StoppedIsFinal
<1>1. QueueInv /\ ToldStopped /\ [Next]_vars =>
         [(\E p \in Producers : ret[p] = "stopped") => UNCHANGED accepted]_vars
  <2> SUFFICES ASSUME ToldStopped, [Next]_vars, NEW p \in Producers, ret[p] = "stopped"
               PROVE  UNCHANGED accepted \/ UNCHANGED vars
    OBVIOUS
  <2>1. stopped
    BY DEF ToldStopped
  <2> QED
    BY <2>1 DEF Next, Add, AddRefused, AddFull, AddFullReturn, AddOk, Get, Close, vars
<1> QED
  BY <1>1, ToldStoppedInit, ToldStoppedStep, QueueAlways, PTL DEF Spec, StoppedIsFinal

-----------------------------------------------------------------------------
(* The load generators: the WaitGroup counts those who have yet to call    *)
(* Done, and Thrift's program has no receiver that could empty a channel.  *)

\* The workers that Stop waits for.
Active == {w \in Workers : wpc[w] \in {"loop", "add", "call"}}

NoReceiver ==
    \A w \in Workers : ~Started(w) => wpc[w] \in {"start", "stopped"}

LoadInv == LoadTypeOK /\ NoReceiver

LEMMA LoadBounds == IsFiniteSet(Workers) /\ Cap \in Nat /\ MaxHelpers \in Nat
  BY LoadAssumption, FS_Union DEF Workers, Senders

LEMMA RegisteredSum ==
    Registered = Cardinality(Active)
                     + (IF gpc \in {"loop", "send"} THEN 1 ELSE 0)
                     + (IF cpc \in {"loop", "call", "left"} THEN 1 ELSE 0)
  BY DEF Registered, Active

LEMMA RegisteredSumNext ==
    Registered' = Cardinality(Active')
                      + (IF gpc' \in {"loop", "send"} THEN 1 ELSE 0)
                      + (IF cpc' \in {"loop", "call", "left"} THEN 1 ELSE 0)
  BY DEF Registered, Active

LEMMA ActiveFinite ==
    IsFiniteSet(Active) /\ Cardinality(Active) \in Nat
<1>1. IsFiniteSet(Workers) /\ Active \subseteq Workers
  BY LoadBounds DEF Active
<1>2. IsFiniteSet(Active)
  BY <1>1, FS_Subset
<1> QED
  BY <1>2, FS_CardinalityType

LEMMA LoadStart == LoadInit => LoadInv
<1> SUFFICES ASSUME LoadInit PROVE LoadInv
  OBVIOUS
<1>1. Active = {}
  BY DEF LoadInit, Active
<1>2. wg = Registered
  BY <1>1, RegisteredSum, FS_EmptySet DEF LoadInit
<1>3. exitchan \in BOOLEAN
  BY Zenon DEF LoadInit
<1>4. chan \in [Chans -> 0..Cap] /\ helpers \in 0..MaxHelpers /\ mq \in 0..QueueSize
  BY LoadBounds, LoadAssumption DEF LoadInit
<1>5. LoadTypeOK
  BY <1>2, <1>3, <1>4 DEF LoadInit, LoadTypeOK, Chans
<1>6. NoReceiver
  BY DEF LoadInit, NoReceiver
<1> QED
  BY <1>5, <1>6 DEF LoadInv

\* genData's steps leave the workers and the consumer alone.
LEMMA GenDataStep == ASSUME LoadInv, genData PROVE LoadInv'
<1> USE DEF genVars
<1>1. UNCHANGED <<kind, exitchan, stop, mq, wpc, cpc, helpers>>
  BY
     DEF genData, GenStart, GenSend, GenExit, GenSelectExit, GenDone,
         GenRequest
<1>2. Active' = Active /\ NoReceiver'
  BY <1>1 DEF Active, NoReceiver, LoadInv, Started
<1>3. wg = Registered
  BY DEF LoadInv, LoadTypeOK
<1>4. wg' = Registered'
  <2>1. CASE GenStart
    BY <1>1, <1>2, <1>3, <2>1, ActiveFinite, RegisteredSum, RegisteredSumNext
       DEF GenStart
  <2>2. CASE (gpc \in {"loop", "send"}) /\ GenDone
    BY <1>1, <1>2, <1>3, <2>2, ActiveFinite, RegisteredSum, RegisteredSumNext
       DEF GenDone
  <2>3. CASE GenSend \/ \E c \in Chans : GenRequest(c)
    BY <1>1, <1>2, <1>3, <2>3, ActiveFinite, RegisteredSum, RegisteredSumNext
    DEF GenSend, GenRequest
  <2> QED
    BY <2>1, <2>2, <2>3 DEF genData, GenExit, GenSelectExit
<1>5. gpc' \in {"start", "loop", "send", "stopped"} /\ gch' \in Chans
  BY DEF genData, GenStart, GenSend, GenExit, GenSelectExit, GenDone,
         GenRequest, LoadInv, LoadTypeOK
<1>6. chan' \in [Chans -> 0..Cap]
  <2>1. chan \in [Chans -> 0..Cap] /\ gch \in Chans
    BY DEF LoadInv, LoadTypeOK
  <2>2. CASE GenSend
    <3>1. chan[gch] \in 0..Cap /\ chan[gch] < Cap /\ Cap \in Nat
      BY LoadBounds, <2>1, <2>2 DEF GenSend
    <3>2. chan[gch] + 1 \in 0..Cap
      BY <3>1
    <3> QED
      BY <2>1, <2>2, <3>2 DEF GenSend
  <2>3. CASE ~GenSend
    BY <2>1, <2>3 DEF genData, GenStart, GenExit, GenSelectExit, GenDone,
                      GenRequest
  <2> QED
    BY <2>2, <2>3
<1> QED
  BY <1>1, <1>2, <1>4, <1>5, <1>6 DEF LoadInv, LoadTypeOK

LEMMA ConsumeMQStep == ASSUME LoadInv, consumeMQ PROVE LoadInv'
<1> USE DEF genVars
<1>1. UNCHANGED <<kind, exitchan, stop, chan, gpc, gch, wpc, helpers>>
  BY DEF consumeMQ, ConsumerStart, ConsumerTick, ConsumerReturn, ConsumerLeaves,
         ConsumerExit
<1>2. Active' = Active /\ NoReceiver'
  BY <1>1 DEF Active, NoReceiver, LoadInv, Started
<1>3. wg = Registered
  BY DEF LoadInv, LoadTypeOK
<1>4. wg' = Registered'
  <2>1. CASE ConsumerStart
    BY <1>1, <1>2, <1>3, <2>1, ActiveFinite, RegisteredSum, RegisteredSumNext
    DEF ConsumerStart
  <2>2. CASE ConsumerExit
    BY <1>1, <1>2, <1>3, <2>2, ActiveFinite, RegisteredSum, RegisteredSumNext
    DEF ConsumerExit
  <2>3. CASE ConsumerTick \/ ConsumerReturn \/ ConsumerLeaves
    BY <1>1, <1>2, <1>3, <2>3, ActiveFinite, RegisteredSum, RegisteredSumNext
    DEF ConsumerTick, ConsumerReturn, ConsumerLeaves
  <2> QED
    BY <2>1, <2>2, <2>3 DEF consumeMQ
<1>5. cpc' \in {"start", "loop", "call", "left", "stopped"} /\ mq' \in 0..QueueSize
  BY LoadAssumption
  DEF consumeMQ, ConsumerStart, ConsumerTick, ConsumerReturn, ConsumerLeaves,
      ConsumerExit, LoadInv, LoadTypeOK
<1> QED
  BY <1>1, <1>2, <1>4, <1>5 DEF LoadInv, LoadTypeOK

\* A worker's step changes its own place, and the counter by as much as the
\* worker's being active changes.
LEMMA WorkerCount ==
    ASSUME LoadInv, NEW w \in Workers, Worker(w)
    PROVE  /\ wpc' \in [Workers -> {"start", "loop", "add", "call", "stopped"}]
           /\ wg' - wg = Cardinality(Active') - Cardinality(Active)
<1>1. /\ wpc \in [Workers -> {"start", "loop", "add", "call", "stopped"}]
      /\ Cardinality(Active) \in Nat /\ IsFiniteSet(Active)
      /\ wg \in Int
  BY ActiveFinite, RegisteredSum DEF LoadInv, LoadTypeOK
<1>2. CASE WorkerStart(w)
  <2>1. Active' = Active \cup {w} /\ w \notin Active
    BY <1>1, <1>2 DEF Active, WorkerStart
  <2>2. Cardinality(Active') = Cardinality(Active) + 1
    BY <1>1, <2>1, FS_AddElement
  <2> QED
    BY <1>1, <1>2, <2>2 DEF WorkerStart
<1>3. CASE WorkerExit(w)
  <2>1. Active' = Active \ {w} /\ w \in Active
    BY <1>1, <1>3 DEF Active, WorkerExit
  <2>2. Cardinality(Active') = Cardinality(Active) - 1
    BY <1>1, <2>1, FS_RemoveElement
  <2> QED
    BY <1>1, <1>3, <2>2 DEF WorkerExit
<1>4. CASE WorkerTake(w) \/ WorkerReturn(w) \/ QueueAdd(w) \/ QueueFull(w)
  <2>1. Active' = Active /\ wg' = wg
    BY <1>1, <1>4 DEF Active, WorkerTake, WorkerReturn, QueueAdd, QueueFull
  <2>2. wpc' \in [Workers -> {"start", "loop", "add", "call", "stopped"}]
    BY <1>1, <1>4 DEF WorkerTake, WorkerReturn, QueueAdd, QueueFull
  <2> QED
    BY <1>1, <2>1, <2>2
<1> QED
  BY <1>2, <1>3, <1>4 DEF Worker

LEMMA WorkerStep ==
    ASSUME LoadInv, NEW w \in Workers, Worker(w)
    PROVE  LoadInv'
<1> USE DEF genVars
<1>1. UNCHANGED <<kind, exitchan, stop, gpc, gch, cpc>>
  BY DEF Worker, WorkerStart, WorkerTake, WorkerReturn, QueueAdd, QueueFull,
         WorkerExit
<1>2. wg' = Registered'
  <2>1. Active' \subseteq Workers
    BY DEF Active
  <2>2. Cardinality(Active') \in Nat
    BY LoadBounds, <2>1, FS_Subset, FS_CardinalityType
  <2>3. wg = Registered /\ Cardinality(Active) \in Nat
    BY ActiveFinite DEF LoadInv, LoadTypeOK
  <2>4. wg' \in Int
    BY <2>3, RegisteredSum
       DEF Worker, WorkerStart, WorkerTake, WorkerReturn, QueueAdd, QueueFull,
           WorkerExit
  <2> QED
    BY <1>1, <2>2, <2>3, <2>4, WorkerCount, RegisteredSum, RegisteredSumNext
<1>3. chan' \in [Chans -> 0..Cap]
  <2>1. chan \in [Chans -> 0..Cap] /\ Source(w) \in Chans /\ Cap \in Nat
    BY LoadBounds DEF LoadInv, LoadTypeOK, Source, Chans
  <2>2. CASE WorkerTake(w)
    <3>1. chan[Source(w)] - 1 \in 0..Cap
      BY <2>1, <2>2 DEF WorkerTake
    <3> QED
      BY <2>1, <2>2, <3>1 DEF WorkerTake
  <2>3. CASE ~WorkerTake(w)
    BY <2>1, <2>3 DEF Worker, WorkerStart, WorkerReturn, QueueAdd, QueueFull,
                      WorkerExit
  <2> QED
    BY <2>2, <2>3
<1>4. mq' \in 0..QueueSize /\ helpers' \in 0..MaxHelpers
  BY LoadBounds, LoadAssumption DEF Worker, WorkerStart, WorkerTake,
     WorkerReturn, QueueAdd, QueueFull, WorkerExit, LoadInv, LoadTypeOK
<1>5. NoReceiver'
  <2> SUFFICES ASSUME NEW v \in Workers, ~Started(v)' PROVE wpc'[v] \in {"start", "stopped"}
    BY DEF NoReceiver
  <2>1. ~Started(v)
    BY <1>1 DEF Started
  <2>2. wpc[v] \in {"start", "stopped"}
    BY <2>1 DEF LoadInv, NoReceiver
  <2>3. v # w
    <3>1. CASE WorkerStart(w)
      BY <2>1, <3>1 DEF WorkerStart
    <3>2. CASE wpc[w] \in {"loop", "add", "call"}
      BY <2>2, <3>2
    <3> QED
      BY <3>1, <3>2 DEF Worker, WorkerTake, WorkerReturn, QueueAdd, QueueFull,
                        WorkerExit
  <2>4. wpc'[v] = wpc[v]
    BY <2>3 DEF Worker, WorkerStart, WorkerTake, WorkerReturn, QueueAdd,
                QueueFull, WorkerExit, LoadInv, LoadTypeOK
  <2> QED
    BY <2>2, <2>4
<1> QED
  BY <1>1, <1>2, <1>3, <1>4, <1>5, WorkerCount DEF LoadInv, LoadTypeOK

\* The batch goroutines and Stop touch none of what is counted.
LEMMA OtherStep ==
    ASSUME LoadInv,
           HelperGet \/ HelperNoStream \/ StopClose \/ StopWait \/ UNCHANGED loadVars
    PROVE  LoadInv'
<1> USE DEF genVars
<1>1. UNCHANGED <<kind, wg, chan, gpc, gch, wpc, cpc>>
  BY DEF HelperGet, HelperNoStream, StopClose, StopWait, loadVars
<1>2. Registered' = Registered /\ NoReceiver'
  BY <1>1 DEF Registered, NoReceiver, LoadInv, Started
<1>3. exitchan' \in BOOLEAN
  <2>1. CASE StopClose
    BY <2>1, Zenon DEF StopClose
  <2>2. CASE UNCHANGED exitchan
    BY <2>2 DEF LoadInv, LoadTypeOK
  <2> QED
    BY <2>1, <2>2 DEF HelperGet, HelperNoStream, StopWait, loadVars
<1>4. /\ stop' \in {"run", "wait", "done", "panicked"}
      /\ helpers' \in 0..MaxHelpers /\ mq' \in 0..QueueSize
  BY LoadBounds, LoadAssumption DEF LoadInv, LoadTypeOK, HelperGet,
     HelperNoStream, StopClose, StopWait, loadVars
<1> QED
  BY <1>1, <1>2, <1>3, <1>4 DEF LoadInv, LoadTypeOK

LEMMA StartPanicsStep == ASSUME LoadInv, StartPanics PROVE LoadInv'
<1>1. Active' = {}
  BY DEF Active, StartPanics
<1>2. wg' = Registered'
  BY <1>1, RegisteredSumNext, FS_EmptySet DEF StartPanics
<1>3. wpc' \in [Workers -> {"start", "loop", "add", "call", "stopped"}] /\ NoReceiver'
  BY DEF StartPanics, NoReceiver
<1>4. UNCHANGED <<kind, exitchan, chan, mq, gch>> /\ helpers' \in 0..MaxHelpers
  BY LoadBounds DEF StartPanics
<1> QED
  BY <1>2, <1>3, <1>4 DEF LoadInv, LoadTypeOK, StartPanics

LEMMA LoadStep ==
    LoadInv /\ [LoadNext]_loadVars => LoadInv'
<1> SUFFICES ASSUME LoadInv, [LoadNext]_loadVars PROVE LoadInv'
  OBVIOUS
<1> QED
  BY GenDataStep, ConsumeMQStep, WorkerStep, OtherStep, StartPanicsStep DEF LoadNext

LEMMA LoadAlways == LoadSpec => []LoadInv
  BY LoadStart, LoadStep, PTL DEF LoadSpec

(* Stop waits for a generator that is stuck in a send, or for a consumer    *)
(* that left without wg.Done, for ever: the WaitGroup still counts it, and  *)
(* nothing but a panic takes the program out of either state                *)
(* (thrift client.go:77, 110).                                              *)
THEOREM HungForGood == LoadSpec => HangIsFinal
<1>1. LoadInv /\ [LoadNext]_loadVars =>
         [stop # "done" /\ Hung =>
            stop' = "panicked" \/ (stop' # "done" /\ Hung')]_loadVars
  <2> USE DEF genVars
  <2> SUFFICES ASSUME LoadInv, LoadNext, stop # "done", Hung
               PROVE  stop' = "panicked" \/ (stop' # "done" /\ Hung')
    OBVIOUS
  <2>1. CASE StartPanics
    BY <2>1 DEF StartPanics
  <2>2. CASE StopWait
    <3>1. Registered = 0
      BY <2>2 DEF StopWait, LoadInv, LoadTypeOK
    <3>2. gpc \notin {"loop", "send"} /\ cpc \notin {"loop", "call", "left"}
      BY <3>1, RegisteredSum, ActiveFinite
    <3> QED
      BY <3>2 DEF Hung, GeneratorStuck
  <2>3. ASSUME ~StartPanics, ~StopWait PROVE stop' # "done"
    BY <2>3 DEF LoadNext, genData, GenStart, GenSend, GenExit, GenSelectExit,
         GenDone, GenRequest, consumeMQ, ConsumerStart, ConsumerTick,
         ConsumerReturn, ConsumerLeaves, ConsumerExit, Worker, WorkerStart,
         WorkerTake, WorkerReturn, QueueAdd, QueueFull, WorkerExit,
         HelperGet, HelperNoStream, StopClose
  <2>4. ASSUME ~StartPanics, ~StopWait, cpc = "left" PROVE Hung'
    <3>1. cpc' = "left"
      BY <2>4 DEF LoadNext, genData, GenStart, GenSend, GenExit, GenSelectExit,
         GenDone, GenRequest, consumeMQ, ConsumerStart, ConsumerTick,
         ConsumerReturn, ConsumerLeaves, ConsumerExit, Worker, WorkerStart,
         WorkerTake, WorkerReturn, QueueAdd, QueueFull, WorkerExit,
         HelperGet, HelperNoStream, StopClose
    <3> QED
      BY <3>1 DEF Hung
  <2>5. ASSUME ~StartPanics, ~StopWait, GeneratorStuck PROVE Hung'
    <3>1. /\ kind = "thrift" /\ gpc = "send" /\ chan[gch] = Cap /\ Cap \in Nat
          /\ \A w \in Workers : Source(w) = gch /\ Started(w) => wpc[w] = "stopped"
      BY LoadBounds, <2>5 DEF GeneratorStuck
    <3>2. ~genData
      BY <3>1
         DEF genData, GenStart, GenSend, GenExit, GenSelectExit, GenRequest
    <3>3. ASSUME NEW w \in Workers, Worker(w) PROVE GeneratorStuck'
      <4>1. Source(w) # gch
        <5>1. CASE Started(w)
          BY <3>1, <3>3, <5>1 DEF Worker, WorkerStart, WorkerTake, WorkerReturn,
                     QueueAdd, QueueFull, WorkerExit
        <5>2. CASE ~Started(w)
          BY <3>3, <5>2 DEF LoadInv, NoReceiver, Worker, WorkerStart, WorkerTake,
                WorkerReturn, QueueAdd, QueueFull, WorkerExit
        <5> QED
          BY <5>1, <5>2
      <4>2. UNCHANGED <<kind, gpc, gch>> /\ chan'[gch] = chan[gch]
        BY <3>3, <4>1 DEF Worker, WorkerStart, WorkerTake, WorkerReturn,
              QueueAdd, QueueFull, WorkerExit, LoadInv, LoadTypeOK
      <4>3. \A v \in Workers : v # w => wpc'[v] = wpc[v]
        BY <3>3 DEF Worker, WorkerStart, WorkerTake, WorkerReturn, QueueAdd,
              QueueFull, WorkerExit, LoadInv, LoadTypeOK
      <4> QED
        BY <3>1, <4>1, <4>2, <4>3 DEF GeneratorStuck, Source, Started
    <3>4. CASE consumeMQ \/ HelperGet \/ HelperNoStream \/ StopClose
      <4>1. UNCHANGED <<kind, gpc, gch, chan, wpc>>
        BY <3>4 DEF consumeMQ, ConsumerStart, ConsumerTick, ConsumerReturn,
           ConsumerLeaves, ConsumerExit, HelperGet, HelperNoStream, StopClose
      <4> QED
        BY <3>1, <4>1 DEF Hung, GeneratorStuck, Source, Started
    <3> QED
      BY <2>5, <3>2, <3>3, <3>4 DEF LoadNext, Hung
  <2> QED
    BY <2>1, <2>2, <2>3, <2>4, <2>5 DEF Hung
<1> QED
  BY <1>1, LoadAlways, PTL DEF LoadSpec, HangIsFinal
=============================================================================
