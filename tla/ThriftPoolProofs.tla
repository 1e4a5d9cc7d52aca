-------------------------- MODULE ThriftPoolProofs --------------------------
(***************************************************************************)
(* Proofs about ThriftPool, for any number of callers, releasers and       *)
(* connections and any quota.                                              *)
(***************************************************************************)
EXTENDS ThriftPool, FiniteSetTheorems, TLAPS

(***************************************************************************)
(* Moving one caller to another label changes the number of callers at a   *)
(* set of labels by what it leaves and what it enters.                     *)
(***************************************************************************)
In(l, labels) == IF l \in labels THEN 1 ELSE 0

NumAt(f, labels) == Cardinality({q \in Callers : f[q] \in labels})

LEMMA NumAtNat ==
    ASSUME NEW f, NEW labels
    PROVE  /\ NumAt(f, labels) \in Nat
           /\ NumAt(f, labels) <= Cardinality(Callers)
           /\ Cardinality(Callers) \in Nat
<1> DEFINE S == {q \in Callers : f[q] \in labels}
<1>1. S \in SUBSET Callers
  OBVIOUS
<1>2. IsFiniteSet(S) /\ Cardinality(S) <= Cardinality(Callers)
  BY <1>1, PoolAssumption, FS_Subset
<1> QED
  BY <1>2, PoolAssumption, FS_CardinalityType DEF NumAt

LEMMA NumAtMove ==
    ASSUME NEW f \in [Callers -> CallerPc], NEW p \in Callers,
           NEW l \in CallerPc, NEW labels
    PROVE  NumAt([f EXCEPT ![p] = l], labels)
              = NumAt(f, labels) + In(l, labels) - In(f[p], labels)
<1> DEFINE S == {q \in Callers : f[q] \in labels}
           T == {q \in Callers : [f EXCEPT ![p] = l][q] \in labels}
<1>1. IsFiniteSet(S)
  <2>1. S \in SUBSET Callers
    OBVIOUS
  <2> QED
    BY <2>1, PoolAssumption, FS_Subset
<1>2. Cardinality(S) \in Nat
  BY <1>1, FS_CardinalityType
<1>3. CASE l \in labels
  <2>1. T = S \cup {p}
    BY <1>3
  <2>2. Cardinality(T) = IF p \in S THEN Cardinality(S) ELSE Cardinality(S) + 1
    BY <2>1, <1>1, FS_AddElement
  <2>3. p \in S <=> f[p] \in labels
    OBVIOUS
  <2> QED
    BY <1>2, <1>3, <2>2, <2>3 DEF NumAt, In
<1>4. CASE l \notin labels
  <2>1. T = S \ {p}
    BY <1>4
  <2>2. Cardinality(T) = IF p \in S THEN Cardinality(S) - 1 ELSE Cardinality(S)
    BY <2>1, <1>1, FS_RemoveElement
  <2>3. p \in S <=> f[p] \in labels
    OBVIOUS
  <2> QED
    BY <1>2, <1>4, <2>2, <2>3 DEF NumAt, In
<1> QED
  BY <1>3, <1>4

-----------------------------------------------------------------------------
(* Type correctness                                                        *)

LEMMA TypeInit == Init => TypeOK
<1> SUFFICES ASSUME Init PROVE TypeOK
  OBVIOUS
<1>1. relList \in [Releasers -> Seq(IdleConn)] /\ idle \in Seq(IdleConn)
  BY DEF Init
<1>2. \A p \in Callers : cl[p] = NoConn /\ pc[p] = "out"
  BY DEF Init
<1>3. /\ pc \in [Callers -> CallerPc]
      /\ cl \in [Callers -> Conns \cup {NoConn}]
      /\ relPc \in [Releasers -> {"out", "swap", "close"}]
  BY DEF Init, CallerPc
<1>4. count = 0 /\ open = {} /\ cleanPc = "scan" /\ cleanCl = NoConn
  BY DEF Init
<1>5. released \in BOOLEAN
  BY Zenon DEF Init
<1> QED
  BY <1>1, <1>2, <1>3, <1>4, <1>5 DEF TypeOK

\* Taking the first element of a list of idle connections.
LEMMA TakeFirst ==
    ASSUME NEW list \in Seq(IdleConn), list # <<>>
    PROVE  /\ Head(list).c \in Conns
           /\ Tail(list) \in Seq(IdleConn)
           /\ Len(list) \in Nat /\ Len(Tail(list)) = Len(list) - 1
<1>1. Head(list) \in IdleConn /\ Tail(list) \in Seq(IdleConn)
  OBVIOUS
<1>2. Head(list).c \in Conns
  BY <1>1 DEF IdleConn
<1>3. Len(list) \in Nat /\ Len(Tail(list)) = Len(list) - 1
  OBVIOUS
<1> QED
  BY <1>1, <1>2, <1>3

LEMMA TypeCaller ==
    ASSUME TypeOK, NEW p \in Callers, Get(p) \/ Put(p) \/ CloseErrConn(p)
    PROVE  TypeOK'
<1> USE DEF TypeOK, CallerPc, callerVars, cleanVars, relVars, Goto, Return
<1>1. CASE GetOverMax(p)
  BY <1>1 DEF GetOverMax, vars
<1>2. CASE GetMiss(p)
  BY <1>2 DEF GetMiss
<1>3. CASE GetHit(p)
  <2>1. Head(idle).c \in Conns /\ Tail(idle) \in Seq(IdleConn)
    BY <1>3, TakeFirst DEF GetHit
  <2> QED
    BY <1>3, <2>1, PoolAssumption DEF GetHit
<1>4. CASE DialError(p)
  BY <1>4, PoolAssumption DEF DialError
<1>5. CASE DialOk(p)
  BY <1>5, PoolAssumption DEF DialOk
<1>6. CASE GetDialed(p)
  <2>1. CASE Check(cl[p])
    BY <1>6, <2>1, SMTT(30) DEF GetDialed, Check
  <2>2. CASE ~Check(cl[p])
    BY <1>6, <2>2, PoolAssumption DEF GetDialed
  <2> QED
    BY <2>1, <2>2
<1>7. CASE GetChecked(p)
  <2>1. CASE Check(cl[p])
    BY <1>7, <2>1 DEF GetChecked
  <2>2. CASE ~Check(cl[p])
    BY <1>7, <2>2, PoolAssumption, SMTT(30) DEF GetChecked, Check
  <2> QED
    BY <2>1, <2>2
<1>8. CASE PutNil(p)
  BY <1>8, PoolAssumption DEF PutNil
<1>9. CASE PutTest(p)
  BY <1>9 DEF PutTest
<1>10. CASE PutPush(p)
  <2>1. [c |-> cl[p], age |-> 0] \in IdleConn
    BY <1>10, PoolAssumption DEF PutPush, IdleConn
  <2>2. PushBack(cl[p]) \in Seq(IdleConn)
    BY <2>1 DEF PushBack
  <2>3. CASE Check(cl[p])
    BY <1>10, <2>2, <2>3, PoolAssumption DEF PutPush
  <2>4. CASE ~Check(cl[p])
    BY <1>10, <2>4 DEF PutPush
  <2> QED
    BY <2>3, <2>4
<1>11. CASE Uncount(p)
  BY <1>11 DEF Uncount
<1>12. CASE CloseConn(p)
  BY <1>12, PoolAssumption DEF CloseConn
<1>13. CASE CloseErrConn(p)
  BY <1>13 DEF CloseErrConn
<1> QED
  BY <1>1, <1>2, <1>3, <1>4, <1>5, <1>6, <1>7, <1>8, <1>9, <1>10, <1>11,
     <1>12, <1>13 DEF Get, Put

LEMMA TypeClearConn == TypeOK /\ ClearConn => TypeOK'
<1> SUFFICES ASSUME TypeOK, ClearConn PROVE TypeOK'
  OBVIOUS
<1> USE DEF TypeOK, callerVars, cleanVars, relVars
<1>1. CASE ScanRemove
  <2>1. Head(idle).c \in Conns /\ Tail(idle) \in Seq(IdleConn)
    BY <1>1, TakeFirst DEF ScanRemove, FrontExpired
  <2> QED
    BY <1>1, <2>1, PoolAssumption DEF ScanRemove
<1>2. CASE ScanEnd
  BY <1>2 DEF ScanEnd
<1>3. CASE ScanClose
  BY <1>3 DEF ScanClose
<1>4. CASE ScanUncount
  BY <1>4 DEF ScanUncount
<1>5. CASE ClearConnWake
  BY <1>5 DEF ClearConnWake
<1> QED
  BY <1>1, <1>2, <1>3, <1>4, <1>5 DEF ClearConn

LEMMA TypeRelease ==
    ASSUME TypeOK, NEW r \in Releasers, Release(r)
    PROVE  TypeOK'
<1> USE DEF TypeOK, callerVars, cleanVars, relVars
<1>1. CASE ReleaseCount(r)
  BY <1>1 DEF ReleaseCount
<1>2. CASE ReleaseSwap(r)
  BY <1>2 DEF ReleaseSwap
<1>3. CASE ReleaseClose(r)
  <2>1. relList[r] \in Seq(IdleConn)
    OBVIOUS
  <2>2. CASE relList[r] # <<>>
    BY <1>3, <2>1, <2>2, TakeFirst DEF ReleaseClose
  <2>3. CASE relList[r] = <<>>
    BY <1>3, <2>3 DEF ReleaseClose
  <2> QED
    BY <2>2, <2>3
<1> QED
  BY <1>1, <1>2, <1>3 DEF Release

LEMMA TypeTick == TypeOK /\ Tick => TypeOK'
<1> SUFFICES ASSUME TypeOK, Tick PROVE TypeOK'
  OBVIOUS
<1>1. \A i \in DOMAIN idle : Older(idle[i]) \in IdleConn
  <2> TAKE i \in DOMAIN idle
  <2>1. idle[i] \in IdleConn
    BY DEF TypeOK
  <2> QED
    BY <2>1, PoolAssumption DEF Older, IdleConn
<1>2. idle' \in Seq(IdleConn)
  BY <1>1 DEF TypeOK, Tick
<1> QED
  BY <1>2 DEF TypeOK, Tick, callerVars, cleanVars, relVars

LEMMA TypeStep == TypeOK /\ [Next]_vars => TypeOK'
<1> SUFFICES ASSUME TypeOK, [Next]_vars PROVE TypeOK'
  OBVIOUS
<1>1. CASE Disconnect
  BY <1>1 DEF TypeOK, Disconnect, callerVars, cleanVars, relVars
<1>2. CASE UNCHANGED vars
  BY <1>2 DEF TypeOK, vars, callerVars, cleanVars, relVars
<1> QED
  BY <1>1, <1>2, TypeCaller, TypeClearConn, TypeRelease, TypeTick DEF Next

(* Every variable stays in its type, and a goroutine carries a connection   *)
(* exactly at the labels where the code has one (pool.go:80-190).           *)
THEOREM TypeCorrect == Spec => []TypeOK
  BY TypeInit, TypeStep, PTL DEF Spec

-----------------------------------------------------------------------------
(* The counter, the idle list and the quota                                *)

CountedPc == {"check", "has", "put", "drop"}
ActivePc  == CallerPc \ {"out"}

LEMMA CardNat ==
    /\ Cardinality(Counted) \in Nat
    /\ Cardinality(Pushing) \in Nat
    /\ Cardinality(Active) \in Nat
    /\ Cardinality(Active) <= Cardinality(Callers)
    /\ Cardinality(Callers) \in Nat
  BY NumAtNat DEF NumAt, Counted, Pushing, Active, At

\* The same after a step; a caller about to push is one of those counted.
LEMMA CardNatNext ==
    /\ Cardinality(Counted') \in Nat
    /\ Cardinality(Pushing') \in Nat
    /\ Cardinality(Active') \in Nat
    /\ Cardinality(Active') <= Cardinality(Callers)
    /\ Cardinality(Pushing') <= Cardinality(Counted')
<1>1. Pushing' \subseteq Counted' /\ Counted' \subseteq Callers
  BY DEF Pushing, Counted, At
<1>2. Cardinality(Pushing') <= Cardinality(Counted')
  <2>1. IsFiniteSet(Counted')
    BY <1>1, PoolAssumption, FS_Subset
  <2> QED
    BY <1>1, <2>1, FS_Subset
<1> QED
  BY <1>2, NumAtNat DEF NumAt, Counted, Pushing, Active, At

LEMMA CallerMove ==
    ASSUME TypeOK, NEW p \in Callers, NEW l \in CallerPc,
           pc' = [pc EXCEPT ![p] = l]
    PROVE  /\ Cardinality(Counted') = Cardinality(Counted)
                  + In(l, CountedPc) - In(pc[p], CountedPc)
           /\ Cardinality(Pushing') = Cardinality(Pushing)
                  + In(l, {"put"}) - In(pc[p], {"put"})
           /\ Cardinality(Active') = Cardinality(Active)
                  + In(l, ActivePc) - In(pc[p], ActivePc)
<1>1. pc \in [Callers -> CallerPc] /\ pc[p] \in CallerPc
  BY DEF TypeOK
<1>2. NumAt(pc', CountedPc)
        = NumAt(pc, CountedPc) + In(l, CountedPc) - In(pc[p], CountedPc)
  BY <1>1, NumAtMove
<1>3. NumAt(pc', {"put"})
        = NumAt(pc, {"put"}) + In(l, {"put"}) - In(pc[p], {"put"})
  BY <1>1, NumAtMove
<1>4. NumAt(pc', ActivePc) = NumAt(pc, ActivePc)
        + In(l, ActivePc) - In(pc[p], ActivePc)
  BY <1>1, NumAtMove
<1> QED
  BY <1>2, <1>3, <1>4 DEF NumAt, Counted, Pushing, Active, At, CountedPc, ActivePc

\* A step that leaves the callers' labels alone leaves the three numbers alone.
LEMMA NoMove ==
    ASSUME UNCHANGED pc
    PROVE  UNCHANGED <<Counted, Pushing, Active>>
  BY DEF Counted, Pushing, Active, At

\* A goroutine inside Release has set the history variable.
ReleaseMarked == \A r \in Releasers : relPc[r] # "out" => released

LEMMA MarkedStep == ReleaseMarked /\ TypeOK /\ [Next]_vars => ReleaseMarked'
<1> SUFFICES ASSUME ReleaseMarked, TypeOK, [Next]_vars PROVE ReleaseMarked'
  OBVIOUS
<1>1. relPc \in [Releasers -> {"out", "swap", "close"}]
  BY DEF TypeOK
<1> USE DEF ReleaseMarked
<1>2. CASE UNCHANGED <<relPc, released>>
  BY <1>2
<1>3. ASSUME NEW r \in Releasers, Release(r) PROVE ReleaseMarked'
  <2>1. CASE ReleaseCount(r)
    BY <2>1 DEF ReleaseCount
  <2>2. CASE ReleaseSwap(r)
    BY <1>1, <2>2 DEF ReleaseSwap
  <2>3. CASE ReleaseClose(r)
    BY <1>1, <2>3 DEF ReleaseClose
  <2> QED
    BY <1>3, <2>1, <2>2, <2>3 DEF Release
<1>4. ASSUME NEW p \in Callers, Get(p) \/ Put(p) \/ CloseErrConn(p)
      PROVE  UNCHANGED <<relPc, released>>
  BY <1>4 DEF Get, Put, GetOverMax, GetMiss, GetHit, DialError, DialOk,
       GetDialed, GetChecked, PutNil, PutTest, PutPush, Uncount, CloseConn,
       CloseErrConn, vars, relVars
<1>5. ClearConn \/ Tick \/ Disconnect \/ UNCHANGED vars
        => UNCHANGED <<relPc, released>>
  BY DEF ClearConn, ScanRemove, ScanEnd, ScanClose, ScanUncount, ClearConnWake,
       Tick, Disconnect, vars, relVars
<1> QED
  BY <1>2, <1>3, <1>4, <1>5 DEF Next

PoolInv == TypeOK /\ ReleaseMarked /\ CountExact /\ IdleWithinMax /\ BoundedByCallers

LEMMA InvInit == Init => PoolInv
<1> SUFFICES ASSUME Init PROVE PoolInv
  OBVIOUS
<1>1. Counted = {} /\ Pushing = {} /\ Active = {}
  BY DEF Init, Counted, Pushing, Active, At, CallerPc
<1>2. idle = <<>> /\ count = 0 /\ cleanPc = "scan"
  BY DEF Init
<1>3. Len(idle) = 0
  BY <1>2
<1>4. ReleaseMarked
  BY DEF Init, ReleaseMarked
<1> QED
  BY <1>1, <1>2, <1>3, <1>4, TypeInit, FS_EmptySet, CardNat, PoolAssumption
     DEF PoolInv, CountExact, IdleWithinMax, BoundedByCallers, CleanerHolds

(***************************************************************************)
(* A caller p moves to label l; the three invariants survive when its move *)
(* and those of the counter and the list balance.                          *)
(***************************************************************************)
LEMMA CallerDelta ==
    ASSUME PoolInv, NEW p \in Callers, NEW l \in CallerPc,
           Goto(p, l),
           count' \in Int, Len(idle') \in Int,
           cleanPc' = cleanPc, released' <=> released,
           count' - Len(idle') - In(l, CountedPc)
              = count - Len(idle) - In(pc[p], CountedPc)
    PROVE  /\ CountExact'
           /\ Len(idle') + In(l, {"put"}) <= Len(idle) + In(pc[p], {"put"})
                 => IdleWithinMax'
           /\ Len(idle') + In(l, ActivePc) <= Len(idle) + In(pc[p], ActivePc)
                 => BoundedByCallers'
<1>1. TypeOK /\ Len(idle) \in Nat /\ count \in Int /\ MaxConn \in Int
  BY PoolAssumption DEF PoolInv, TypeOK
<1> DEFINE nc == Cardinality(Counted)
           np == Cardinality(Pushing)
           na == Cardinality(Active)
<1>2. nc \in Nat /\ np \in Nat /\ na \in Nat /\ Cardinality(Callers) \in Nat
  BY CardNat
<1>3. /\ Cardinality(Counted') = nc + In(l, CountedPc) - In(pc[p], CountedPc)
      /\ Cardinality(Pushing') = np + In(l, {"put"}) - In(pc[p], {"put"})
      /\ Cardinality(Active') = na + In(l, ActivePc) - In(pc[p], ActivePc)
  BY <1>1, CallerMove DEF Goto
<1> DEFINE c1 == In(l, CountedPc)
           c0 == In(pc[p], CountedPc)
           p1 == In(l, {"put"})
           p0 == In(pc[p], {"put"})
           a1 == In(l, ActivePc)
           a0 == In(pc[p], ActivePc)
<1>4. c1 \in Int /\ c0 \in Int /\ p1 \in Int /\ p0 \in Int /\ a1 \in Int /\ a0 \in Int
  BY DEF In
<1>5. CleanerHolds' = CleanerHolds /\ CleanerHolds \in Int
  BY DEF CleanerHolds
<1>6. (released' <=> released) /\ count' - Len(idle') - c1 = count - Len(idle) - c0
  OBVIOUS
<1> HIDE DEF nc, np, na, c1, c0, p1, p0, a1, a0
<1>7. CountExact'
  <2>1. count = Len(idle) + nc + CleanerHolds
          => count' = Len(idle') + (nc + c1 - c0) + CleanerHolds'
    BY <1>1, <1>2, <1>4, <1>5, <1>6
  <2> QED
    BY <1>3, <1>6, <2>1 DEF PoolInv, CountExact, nc, c1, c0
<1>8. Len(idle') + p1 <= Len(idle) + p0 => IdleWithinMax'
  <2>1. Len(idle) + np <= MaxConn /\ Len(idle') + p1 <= Len(idle) + p0
          => Len(idle') + (np + p1 - p0) <= MaxConn
    BY <1>1, <1>2, <1>4
  <2> QED
    BY <1>3, <1>6, <2>1 DEF PoolInv, IdleWithinMax, np, p1, p0
<1>9. Len(idle') + a1 <= Len(idle) + a0 => BoundedByCallers'
  <2>1. Len(idle) + na <= Cardinality(Callers) /\ Len(idle') + a1 <= Len(idle) + a0
          => Len(idle') + (na + a1 - a0) <= Cardinality(Callers)
    BY <1>1, <1>2, <1>4
  <2> QED
    BY <1>3, <2>1 DEF PoolInv, BoundedByCallers, na, a1, a0
<1> QED
  BY <1>7, <1>8, <1>9 DEF p1, p0, a1, a0

\* Which labels count towards which number.
LEMMA Labels ==
    /\ \A l \in {"out", "dial", "dialed", "close"} : l \in CallerPc /\ In(l, CountedPc) = 0
    /\ \A l \in {"check", "has", "put", "drop"} : l \in CallerPc /\ In(l, CountedPc) = 1
    /\ \A l \in CallerPc \ {"put"} : In(l, {"put"}) = 0
    /\ In("put", {"put"}) = 1
    /\ \A l \in CallerPc \ {"out"} : In(l, ActivePc) = 1
    /\ In("out", ActivePc) = 0
  BY DEF In, CountedPc, ActivePc, CallerPc

\* The moves of one caller, as instances of CallerDelta.
LEMMA InvCaller ==
    ASSUME PoolInv, NEW p \in Callers, Get(p) \/ Put(p) \/ CloseErrConn(p)
    PROVE  CountExact' /\ IdleWithinMax' /\ BoundedByCallers'
<1>1. TypeOK /\ idle \in Seq(IdleConn) /\ Len(idle) \in Nat /\ count \in Int
  BY DEF PoolInv, TypeOK
<1>2. CASE GetOverMax(p)
  BY <1>2, NoMove DEF GetOverMax, vars, PoolInv, CountExact, IdleWithinMax,
       BoundedByCallers, CleanerHolds, cleanVars, callerVars
<1>3. CASE GetMiss(p)
  <2>1. /\ pc[p] = "out" /\ Goto(p, "dial") /\ idle = <<>>
        /\ count' = count /\ idle' = idle /\ cleanPc' = cleanPc
        /\ released' <=> released
    BY <1>3 DEF GetMiss, cleanVars
  <2>2. CountExact' /\ IdleWithinMax'
    BY <1>1, <2>1, Labels, CallerDelta
  <2>3. Cardinality(Active') <= Cardinality(Callers) /\ Cardinality(Active') \in Nat
    BY CardNatNext
  <2>4. Len(idle') = 0
    BY <2>1
  <2> QED
    BY <2>2, <2>3, <2>4 DEF BoundedByCallers
<1>4. CASE GetHit(p)
  <2>1. /\ pc[p] = "out" /\ Goto(p, "check")
        /\ count' = count /\ Len(idle') = Len(idle) - 1 /\ cleanPc' = cleanPc
        /\ released' <=> released
    BY <1>1, <1>4, TakeFirst DEF GetHit, cleanVars, Goto, Return
  <2> QED
    BY <1>1, <2>1, Labels, CallerDelta
<1>5. CASE DialError(p)
  <2>1. /\ pc[p] = "dial" /\ Goto(p, "out")
        /\ count' = count /\ Len(idle') = Len(idle) /\ cleanPc' = cleanPc
        /\ released' <=> released
    BY <1>1, <1>5 DEF DialError, cleanVars, Goto, Return
  <2> QED
    BY <1>1, <2>1, Labels, CallerDelta
<1>6. CASE DialOk(p)
  <2>1. /\ pc[p] = "dial" /\ Goto(p, "dialed")
        /\ count' = count /\ Len(idle') = Len(idle) /\ cleanPc' = cleanPc
        /\ released' <=> released
    BY <1>1, <1>6 DEF DialOk, cleanVars, Goto, Return
  <2> QED
    BY <1>1, <2>1, Labels, CallerDelta
<1>7. CASE GetDialed(p)
  <2>1. CASE Check(cl[p])
    <3>1. /\ pc[p] = "dialed" /\ Goto(p, "has")
          /\ count' = count + 1 /\ Len(idle') = Len(idle) /\ cleanPc' = cleanPc
          /\ released' <=> released
      BY <1>1, <1>7, <2>1 DEF GetDialed, cleanVars, Goto, Return, Check
    <3> QED
      BY <1>1, <3>1, Labels, CallerDelta
  <2>2. CASE ~Check(cl[p])
    <3>1. /\ pc[p] = "dialed" /\ Goto(p, "out")
          /\ count' = count /\ Len(idle') = Len(idle) /\ cleanPc' = cleanPc
          /\ released' <=> released
      BY <1>1, <1>7, <2>2 DEF GetDialed, cleanVars, Goto, Return, Check
    <3> QED
      BY <1>1, <3>1, Labels, CallerDelta
  <2> QED
    BY <2>1, <2>2
<1>8. CASE GetChecked(p)
  <2>1. CASE Check(cl[p])
    <3>1. /\ pc[p] = "check" /\ Goto(p, "has")
          /\ count' = count /\ Len(idle') = Len(idle) /\ cleanPc' = cleanPc
          /\ released' <=> released
      BY <1>1, <1>8, <2>1 DEF GetChecked, cleanVars, Goto, Return, Check
    <3> QED
      BY <1>1, <3>1, Labels, CallerDelta
  <2>2. CASE ~Check(cl[p])
    <3>1. /\ pc[p] = "check" /\ Goto(p, "out")
          /\ count' = count - 1 /\ Len(idle') = Len(idle) /\ cleanPc' = cleanPc
          /\ released' <=> released
      BY <1>1, <1>8, <2>2 DEF GetChecked, cleanVars, Goto, Return, Check
    <3> QED
      BY <1>1, <3>1, Labels, CallerDelta
  <2> QED
    BY <2>1, <2>2
<1>9. CASE PutNil(p)
  <2>1. /\ pc[p] = "has" /\ Goto(p, "out")
        /\ count' = count - 1 /\ Len(idle') = Len(idle) /\ cleanPc' = cleanPc
        /\ released' <=> released
    BY <1>1, <1>9 DEF PutNil, cleanVars, Goto, Return
  <2> QED
    BY <1>1, <2>1, Labels, CallerDelta
<1>10. CASE PutTest(p)
  <2>1. /\ pc[p] = "has" /\ count' = count /\ Len(idle') = Len(idle)
        /\ cleanPc' = cleanPc /\ (released' <=> released)
    BY <1>1, <1>10 DEF PutTest, cleanVars
  <2>2. CASE OverQuota \/ ~Check(cl[p])
    <3>1. Goto(p, "drop")
      BY <1>10, <2>2 DEF PutTest, OverQuota, Check
    <3> QED
      BY <1>1, <2>1, <3>1, Labels, CallerDelta
  <2>3. CASE ~(OverQuota \/ ~Check(cl[p]))
    <3>1. Goto(p, "put") /\ count <= MaxConn
      BY <1>1, <1>10, <2>3, PoolAssumption DEF PutTest, OverQuota, Check
    <3>2. CountExact' /\ BoundedByCallers'
      BY <1>1, <2>1, <3>1, Labels, CallerDelta
    <3>3. IdleWithinMax'
      <4>1. /\ Cardinality(Pushing') <= Cardinality(Counted')
            /\ Cardinality(Pushing') \in Nat /\ Cardinality(Counted') \in Nat
        BY CardNatNext
      <4>2. CleanerHolds' \in Nat /\ MaxConn \in Nat /\ Len(idle') \in Nat
        BY <1>1, <2>1, PoolAssumption DEF CleanerHolds
      <4>3. count' <= MaxConn /\ count' \in Int
        BY <1>1, <2>1, <3>1
      <4> QED
        BY <3>2, <4>1, <4>2, <4>3 DEF CountExact, IdleWithinMax
    <3> QED
      BY <3>2, <3>3
  <2> QED
    BY <2>2, <2>3
<1>11. CASE PutPush(p)
  <2>1. CASE Check(cl[p])
    <3>1. /\ pc[p] = "put" /\ Goto(p, "out")
          /\ count' = count /\ Len(idle') = Len(idle) + 1 /\ cleanPc' = cleanPc
          /\ released' <=> released
      BY <1>1, <1>11, <2>1 DEF PutPush, cleanVars, Goto, Return, Check, PushBack
    <3> QED
      BY <1>1, <3>1, Labels, CallerDelta
  <2>2. CASE ~Check(cl[p])
    <3>1. /\ pc[p] = "put" /\ Goto(p, "drop")
          /\ count' = count /\ Len(idle') = Len(idle) /\ cleanPc' = cleanPc
          /\ released' <=> released
      BY <1>1, <1>11, <2>2 DEF PutPush, cleanVars, Goto, Return, Check, PushBack
    <3> QED
      BY <1>1, <3>1, Labels, CallerDelta
  <2> QED
    BY <2>1, <2>2
<1>12. CASE Uncount(p)
  <2>1. /\ pc[p] = "drop" /\ Goto(p, "close")
        /\ count' = count - 1 /\ Len(idle') = Len(idle) /\ cleanPc' = cleanPc
        /\ released' <=> released
    BY <1>1, <1>12 DEF Uncount, cleanVars, Goto, Return
  <2> QED
    BY <1>1, <2>1, Labels, CallerDelta
<1>13. CASE CloseConn(p)
  <2>1. /\ pc[p] = "close" /\ Goto(p, "out")
        /\ count' = count /\ Len(idle') = Len(idle) /\ cleanPc' = cleanPc
        /\ released' <=> released
    BY <1>1, <1>13 DEF CloseConn, cleanVars, Goto, Return
  <2> QED
    BY <1>1, <2>1, Labels, CallerDelta
<1>14. CASE CloseErrConn(p)
  <2>1. /\ pc[p] = "has" /\ Goto(p, "drop")
        /\ count' = count /\ Len(idle') = Len(idle) /\ cleanPc' = cleanPc
        /\ released' <=> released
    BY <1>1, <1>14 DEF CloseErrConn, cleanVars, Goto, Return
  <2> QED
    BY <1>1, <2>1, Labels, CallerDelta
<1> QED
  BY <1>2, <1>3, <1>4, <1>5, <1>6, <1>7, <1>8, <1>9, <1>10, <1>11, <1>12,
     <1>13, <1>14 DEF Get, Put

\* A step that moves no caller: the counter, the list and the cleaner balance.
LEMMA OtherDelta ==
    ASSUME PoolInv, UNCHANGED pc,
           count' \in Int, Len(idle') \in Int,
           Len(idle') <= Len(idle),
           ~released' => ~released /\
              count' - Len(idle') - CleanerHolds' = count - Len(idle) - CleanerHolds
    PROVE  CountExact' /\ IdleWithinMax' /\ BoundedByCallers'
<1>1. Len(idle) \in Nat /\ count \in Int /\ MaxConn \in Nat
  BY PoolAssumption DEF PoolInv, TypeOK
<1>2. Counted' = Counted /\ Pushing' = Pushing /\ Active' = Active
  BY NoMove
<1>3. CleanerHolds \in Int /\ CleanerHolds' \in Int
  BY DEF CleanerHolds
<1>4. CountExact'
  <2> SUFFICES ASSUME ~released'
               PROVE  count' = Len(idle') + Cardinality(Counted') + CleanerHolds'
    BY DEF CountExact
  <2>1. ~released /\ count' - Len(idle') - CleanerHolds' = count - Len(idle) - CleanerHolds
    OBVIOUS
  <2>2. count = Len(idle) + Cardinality(Counted) + CleanerHolds
    BY <2>1 DEF PoolInv, CountExact
  <2>3. Cardinality(Counted') = Cardinality(Counted) /\ Cardinality(Counted) \in Int
    BY <1>2, CardNat
  <2>4. ASSUME NEW n \in Int, NEW m \in Int, count = Len(idle) + n + CleanerHolds, m = n
        PROVE  count' = Len(idle') + m + CleanerHolds'
    BY <1>1, <1>3, <2>1, <2>4
  <2> QED
    BY <2>2, <2>3, <2>4
<1>5. IdleWithinMax'
  BY <1>1, <1>2, CardNat DEF PoolInv, IdleWithinMax
<1>6. BoundedByCallers'
  BY <1>1, <1>2, CardNat DEF PoolInv, BoundedByCallers
<1> QED
  BY <1>4, <1>5, <1>6

LEMMA InvClearConn ==
    ASSUME PoolInv, ClearConn
    PROVE  CountExact' /\ IdleWithinMax' /\ BoundedByCallers'
<1>1. idle \in Seq(IdleConn) /\ Len(idle) \in Nat /\ count \in Int
  BY DEF PoolInv, TypeOK
<1>2. CASE ScanRemove
  <2>1. /\ count' = count /\ Len(idle') = Len(idle) - 1 /\ UNCHANGED pc
        /\ cleanPc = "scan" /\ cleanPc' = "close" /\ (released' <=> released)
    BY <1>1, <1>2, TakeFirst DEF ScanRemove, FrontExpired, callerVars
  <2>2. CleanerHolds = 0 /\ CleanerHolds' = 1
    BY <2>1 DEF CleanerHolds
  <2> QED
    BY <1>1, <2>1, <2>2, OtherDelta
<1>3. CASE ScanEnd
  <2>1. /\ count' = count /\ Len(idle') = Len(idle) /\ UNCHANGED pc
        /\ cleanPc = "scan" /\ cleanPc' = "sleep" /\ (released' <=> released)
    BY <1>3 DEF ScanEnd, callerVars
  <2>2. CleanerHolds = 0 /\ CleanerHolds' = 0
    BY <2>1 DEF CleanerHolds
  <2> QED
    BY <1>1, <2>1, <2>2, OtherDelta
<1>4. CASE ScanClose
  <2>1. /\ count' = count /\ Len(idle') = Len(idle) /\ UNCHANGED pc
        /\ cleanPc = "close" /\ cleanPc' = "dec" /\ (released' <=> released)
    BY <1>4 DEF ScanClose, callerVars
  <2>2. CleanerHolds = 1 /\ CleanerHolds' = 1
    BY <2>1 DEF CleanerHolds
  <2> QED
    BY <1>1, <2>1, <2>2, OtherDelta
<1>5. CASE ScanUncount
  <2>1. /\ count' = count - 1 /\ Len(idle') = Len(idle) /\ UNCHANGED pc
        /\ cleanPc = "dec" /\ cleanPc' = "scan" /\ (released' <=> released)
    BY <1>5 DEF ScanUncount, callerVars
  <2>2. CleanerHolds = 1 /\ CleanerHolds' = 0
    BY <2>1 DEF CleanerHolds
  <2> QED
    BY <1>1, <2>1, <2>2, OtherDelta
<1>6. CASE ClearConnWake
  <2>1. /\ count' = count /\ Len(idle') = Len(idle) /\ UNCHANGED pc
        /\ cleanPc = "sleep" /\ cleanPc' = "scan" /\ (released' <=> released)
    BY <1>6 DEF ClearConnWake, callerVars
  <2>2. CleanerHolds = 0 /\ CleanerHolds' = 0
    BY <2>1 DEF CleanerHolds
  <2> QED
    BY <1>1, <2>1, <2>2, OtherDelta
<1> QED
  BY <1>2, <1>3, <1>4, <1>5, <1>6 DEF ClearConn

LEMMA InvRelease ==
    ASSUME PoolInv, NEW r \in Releasers, Release(r)
    PROVE  CountExact' /\ IdleWithinMax' /\ BoundedByCallers'
<1>1. Len(idle) \in Nat /\ count \in Int
  BY DEF PoolInv, TypeOK
<1>2. CASE ReleaseCount(r)
  <2>1. /\ count' \in Int /\ Len(idle') = Len(idle) /\ UNCHANGED pc /\ released'
    BY <1>2 DEF ReleaseCount, callerVars
  <2> QED
    BY <1>1, <2>1, OtherDelta
<1>3. CASE ReleaseSwap(r)
  <2>1. /\ count' = count /\ Len(idle') = 0 /\ UNCHANGED <<pc, cleanPc>>
        /\ released'
    BY <1>3 DEF ReleaseSwap, callerVars, cleanVars, PoolInv, ReleaseMarked
  <2> QED
    BY <1>1, <2>1, OtherDelta
<1>4. CASE ReleaseClose(r)
  <2>1. /\ count' = count /\ Len(idle') = Len(idle) /\ UNCHANGED <<pc, cleanPc>>
        /\ (released' <=> released)
    BY <1>4 DEF ReleaseClose, callerVars, cleanVars
  <2>2. CleanerHolds' = CleanerHolds
    BY <2>1 DEF CleanerHolds
  <2> QED
    BY <1>1, <2>1, <2>2, OtherDelta
<1> QED
  BY <1>2, <1>3, <1>4 DEF Release

\* Time, disconnections and stuttering move nobody.
LEMMA InvEnvironment ==
    ASSUME PoolInv, Tick \/ Disconnect \/ UNCHANGED vars
    PROVE  CountExact' /\ IdleWithinMax' /\ BoundedByCallers'
<1>1. idle \in Seq(IdleConn) /\ Len(idle) \in Nat /\ count \in Int
  BY DEF PoolInv, TypeOK
<1>2. Len(idle') = Len(idle)
  BY <1>1 DEF Tick, Disconnect, vars
<1>3. count' = count /\ UNCHANGED <<pc, cleanPc>> /\ (released' <=> released)
  BY DEF Tick, Disconnect, vars, callerVars, cleanVars
<1>4. CleanerHolds' = CleanerHolds
  BY <1>3 DEF CleanerHolds
<1> QED
  BY <1>1, <1>2, <1>3, <1>4, OtherDelta

LEMMA InvStep == PoolInv /\ [Next]_vars => PoolInv'
<1> SUFFICES ASSUME PoolInv, [Next]_vars PROVE PoolInv'
  OBVIOUS
<1>1. TypeOK' /\ ReleaseMarked'
  BY TypeStep, MarkedStep DEF PoolInv
<1>2. CountExact' /\ IdleWithinMax' /\ BoundedByCallers'
  BY InvCaller, InvClearConn, InvRelease, InvEnvironment DEF Next
<1> QED
  BY <1>1, <1>2 DEF PoolInv

(* Until the first Release the unlocked counter is exact, whatever the      *)
(* interleaving of Get, Put, CloseErrConn and CheckTimeout.                 *)
THEOREM CounterIsExact == Spec => []CountExact
<1>1. PoolInv => CountExact
  BY DEF PoolInv
<1> QED
  BY <1>1, InvInit, InvStep, PTL DEF Spec

(* The idle list never outgrows maxConn before the first Release.           *)
THEOREM IdleListWithinQuota == Spec => []IdleWithinMax
<1>1. PoolInv => IdleWithinMax
  BY DEF PoolInv
<1> QED
  BY <1>1, InvInit, InvStep, PTL DEF Spec

(* Idle connections and active callers together never outnumber the         *)
(* callers, before and after Release.                                       *)
THEOREM PoolBoundedByCallers == Spec => []BoundedByCallers
<1>1. PoolInv => BoundedByCallers
  BY DEF PoolInv
<1> QED
  BY <1>1, InvInit, InvStep, PTL DEF Spec

-----------------------------------------------------------------------------
(* Who has a connection                                                    *)

Distinct(list) == \A i, j \in DOMAIN list : list[i].c = list[j].c => i = j

\* SingleOwner, said of single connections.
Apart ==
    /\ Distinct(idle)
    /\ \A p, q \in Callers : cl[p] = cl[q] /\ cl[p] # NoConn => p = q
    /\ \A p \in Callers : cl[p] # NoConn => cl[p] \notin ConnsOf(idle) /\ cl[p] # cleanCl
    /\ cleanCl \notin ConnsOf(idle)
    /\ \A r \in Releasers : \A c \in ConnsOf(relList[r]) :
          c \notin ConnsOf(idle) /\ c # cleanCl /\ \A p \in Callers : cl[p] # c

OpenHeld ==
    \A c \in open :
        \/ c \in ConnsOf(idle)
        \/ \E p \in Callers : cl[p] = c
        \/ c = cleanCl
        \/ \E r \in Releasers : c \in ConnsOf(relList[r])

LEMMA OwnerForm == SingleOwner <=> Apart /\ OpenHeld
<1>1. open \subseteq Referenced <=> OpenHeld
  BY DEF Referenced, OpenHeld
<1> QED
  BY <1>1 DEF SingleOwner, Apart, Distinct

LEMMA ConnsType ==
    ASSUME NEW list \in Seq(IdleConn)
    PROVE  ConnsOf(list) \subseteq Conns
<1>1. \A i \in DOMAIN list : list[i] \in IdleConn
  OBVIOUS
<1> QED
  BY <1>1 DEF ConnsOf, IdleConn

\* Taking the first entry of a list.
LEMMA TakeConn ==
    ASSUME NEW list \in Seq(IdleConn), list # <<>>
    PROVE  /\ Head(list).c \in ConnsOf(list)
           /\ ConnsOf(list) = ConnsOf(Tail(list)) \cup {Head(list).c}
           /\ Distinct(list) => Distinct(Tail(list)) /\ Head(list).c \notin ConnsOf(Tail(list))
<1> DEFINE t == Tail(list)
<1>1. /\ DOMAIN list = 1..Len(list) /\ Len(list) \in Nat /\ Len(list) > 0
      /\ DOMAIN t = 1..(Len(list) - 1)
      /\ Head(list) = list[1]
      /\ \A i \in DOMAIN t : t[i] = list[i + 1]
  OBVIOUS
<1>2. \A i \in DOMAIN t : i + 1 \in DOMAIN list /\ i + 1 # 1
  BY <1>1
<1>3. \A i \in DOMAIN list : i # 1 => i - 1 \in DOMAIN t /\ t[i - 1] = list[i]
  BY <1>1
<1>4. 1 \in DOMAIN list
  BY <1>1
<1> HIDE DEF t
<1>5. ConnsOf(list) = ConnsOf(t) \cup {list[1].c}
  <2>1. ASSUME NEW i \in DOMAIN list PROVE list[i].c \in ConnsOf(t) \cup {list[1].c}
    BY <1>3 DEF ConnsOf
  <2>2. ASSUME NEW i \in DOMAIN t PROVE t[i].c \in ConnsOf(list)
    BY <1>1, <1>2 DEF ConnsOf
  <2> QED
    BY <1>4, <2>1, <2>2 DEF ConnsOf
<1>6. ASSUME Distinct(list) PROVE Distinct(t) /\ list[1].c \notin ConnsOf(t)
  <2>1. ASSUME NEW i \in DOMAIN t, NEW j \in DOMAIN t, t[i].c = t[j].c PROVE i = j
    <3>1. i + 1 = j + 1
      BY <1>1, <1>2, <1>6, <2>1 DEF Distinct
    <3> QED
      BY <1>1, <3>1
  <2>2. ASSUME NEW i \in DOMAIN t PROVE t[i].c # list[1].c
    BY <1>1, <1>2, <1>4, <1>6 DEF Distinct
  <2> QED
    BY <2>1, <2>2 DEF Distinct, ConnsOf
<1> QED
  BY <1>1, <1>5, <1>6 DEF t

\* Putting a connection at the end.
LEMMA PushConn ==
    ASSUME NEW list \in Seq(IdleConn), NEW e \in IdleConn
    PROVE  /\ ConnsOf(Append(list, e)) = ConnsOf(list) \cup {e.c}
           /\ Distinct(list) /\ e.c \notin ConnsOf(list) => Distinct(Append(list, e))
<1> DEFINE t == Append(list, e)
<1>1. /\ DOMAIN list = 1..Len(list) /\ Len(list) \in Nat
      /\ DOMAIN t = 1..(Len(list) + 1)
      /\ \A i \in DOMAIN list : t[i] = list[i]
      /\ t[Len(list) + 1] = e
  OBVIOUS
<1> DEFINE n == Len(list) + 1
<1>2. n \in DOMAIN t /\ \A i \in DOMAIN t : i # n => i \in DOMAIN list
  BY <1>1
<1>3. \A i \in DOMAIN list : i \in DOMAIN t /\ i # n
  BY <1>1
<1>4. t[n] = e /\ \A i \in DOMAIN list : t[i] = list[i]
  BY <1>1
<1> HIDE DEF t, n
<1>5. ConnsOf(t) = ConnsOf(list) \cup {e.c}
  <2>1. ASSUME NEW i \in DOMAIN t PROVE t[i].c \in ConnsOf(list) \cup {e.c}
    BY <1>2, <1>4 DEF ConnsOf
  <2>2. ASSUME NEW i \in DOMAIN list PROVE list[i].c \in ConnsOf(t)
    BY <1>3, <1>4 DEF ConnsOf
  <2>3. e.c \in ConnsOf(t)
    BY <1>2, <1>4 DEF ConnsOf
  <2> QED
    BY <2>1, <2>2, <2>3 DEF ConnsOf
<1>6. ASSUME Distinct(list), e.c \notin ConnsOf(list) PROVE Distinct(t)
  <2>1. \A i \in DOMAIN list : list[i].c # e.c
    BY <1>6 DEF ConnsOf
  <2> QED
    BY <1>2, <1>4, <1>6, <2>1 DEF Distinct
<1> QED
  BY <1>5, <1>6 DEF t

\* Connections are never nil.
LEMMA NotNil ==
    ASSUME TypeOK
    PROVE  /\ NoConn \notin ConnsOf(idle) /\ NoConn \notin open
           /\ \A r \in Releasers : NoConn \notin ConnsOf(relList[r])
<1>1. ConnsOf(idle) \subseteq Conns /\ \A r \in Releasers : ConnsOf(relList[r]) \subseteq Conns
  BY ConnsType DEF TypeOK
<1> QED
  BY <1>1, PoolAssumption DEF TypeOK

\* A step that leaves the idle list alone and takes connections away from
\* callers, ClearConn or Release only when they are closed.
LEMMA OwnerGivesUp ==
    ASSUME TypeOK, Apart, OpenHeld, UNCHANGED idle, open' \subseteq open,
           \A p \in Callers : cl'[p] = cl[p] \/ (cl'[p] = NoConn /\ cl[p] \notin open'),
           cleanCl' = cleanCl \/ (cleanCl' = NoConn /\ cleanCl \notin open'),
           \A r \in Releasers :
              /\ ConnsOf(relList'[r]) \subseteq ConnsOf(relList[r])
              /\ \A c \in ConnsOf(relList[r]) : c \in ConnsOf(relList'[r]) \/ c \notin open'
    PROVE  Apart' /\ OpenHeld'
<1>1. /\ NoConn \notin ConnsOf(idle)
      /\ \A r \in Releasers : NoConn \notin ConnsOf(relList[r])
  BY NotNil
<1>2. ConnsOf(idle') = ConnsOf(idle) /\ (Distinct(idle') <=> Distinct(idle))
  OBVIOUS
<1>3. Apart'
  BY <1>1, <1>2 DEF Apart
<1>4. OpenHeld'
  BY <1>1, <1>2 DEF OpenHeld
<1> QED
  BY <1>3, <1>4

\* SingleOwner, with what is known of those that are about to let go: ClearConn
\* has closed the connection that it uncounts, and a Release that has not
\* detached the list yet holds none.
OwnerInv ==
    /\ TypeOK
    /\ Apart
    /\ OpenHeld
    /\ cleanPc = "dec" => cleanCl \notin open
    /\ \A r \in Releasers : relPc[r] # "close" => relList[r] = <<>>

LEMMA OwnerInit == Init => OwnerInv
<1> SUFFICES ASSUME Init PROVE OwnerInv
  OBVIOUS
<1>1. idle = <<>> /\ open = {} /\ cleanPc = "scan" /\ cleanCl = NoConn
  BY DEF Init
<1>2. \A p \in Callers : cl[p] = NoConn
  BY DEF Init
<1>3. \A r \in Releasers : relList[r] = <<>>
  BY DEF Init
<1>4. ConnsOf(<<>>) = {}
  BY DEF ConnsOf
<1>5. Apart
  BY <1>1, <1>2, <1>3, <1>4 DEF Apart, Distinct
<1> QED
  BY <1>1, <1>3, <1>5, TypeInit DEF OwnerInv, OpenHeld

\* What a caller's step leaves alone.
LEMMA CallerLeaves ==
    ASSUME TypeOK, NEW p \in Callers, Get(p) \/ Put(p) \/ CloseErrConn(p)
    PROVE  UNCHANGED <<cleanPc, cleanCl, relPc, relList>>
<1> USE DEF cleanVars, relVars
<1>1. CASE Get(p)
  BY <1>1 DEF Get, GetOverMax, GetMiss, GetHit, DialError, DialOk, GetDialed,
              GetChecked, vars
<1>2. CASE Put(p) \/ CloseErrConn(p)
  BY <1>2 DEF Put, PutNil, PutTest, PutPush, Uncount, CloseConn, CloseErrConn
<1> QED
  BY <1>1, <1>2

LEMMA OwnerGet ==
    ASSUME OwnerInv, NEW p \in Callers, Get(p)
    PROVE  Apart' /\ OpenHeld' /\ (cleanPc = "dec" => cleanCl \notin open')
<1>1. /\ TypeOK /\ Apart /\ OpenHeld
      /\ cl \in [Callers -> Conns \cup {NoConn}] /\ idle \in Seq(IdleConn)
      /\ cleanPc = "dec" => cleanCl \notin open
  BY DEF OwnerInv, TypeOK
<1>2. UNCHANGED <<cleanCl, relList>>
  BY <1>1, CallerLeaves
<1>3. CASE GetOverMax(p) \/ GetMiss(p)
  <2>1. UNCHANGED <<idle, open, cl>>
    BY <1>3 DEF GetOverMax, GetMiss, vars, callerVars
  <2> QED
    BY <1>1, <1>2, <2>1, OwnerGivesUp
<1>4. CASE GetHit(p)
  <2>1. /\ idle # <<>> /\ idle' = Tail(idle) /\ UNCHANGED open
        /\ cl' = [cl EXCEPT ![p] = Head(idle).c]
        /\ cl[p] = NoConn
    BY <1>1, <1>4 DEF GetHit, TypeOK
  <2> DEFINE h == Head(idle).c
  <2>2. /\ h \in ConnsOf(idle) /\ ConnsOf(idle) = ConnsOf(idle') \cup {h}
        /\ Distinct(idle') /\ h \notin ConnsOf(idle')
    BY <1>1, <2>1, TakeConn DEF Apart
  <2>3. cl'[p] = h /\ \A q \in Callers : q # p => cl'[q] = cl[q]
    BY <1>1, <2>1
  <2> HIDE DEF h
  <2>4. NoConn \notin open /\ NoConn \notin ConnsOf(idle)
    BY <1>1, NotNil
  <2>5. Apart'
    BY <1>1, <1>2, <2>2, <2>3, <2>4 DEF Apart
  <2>6. OpenHeld'
    BY <1>1, <1>2, <2>1, <2>2, <2>3, <2>4 DEF OpenHeld
  <2> QED
    BY <1>1, <2>1, <2>5, <2>6
<1>5. CASE DialError(p)
  <2>1. UNCHANGED <<idle, open>> /\ cl' = [cl EXCEPT ![p] = NoConn] /\ cl[p] = NoConn
    BY <1>1, <1>5 DEF DialError, Return, TypeOK
  <2>2. UNCHANGED cl
    BY <1>1, <2>1
  <2> QED
    BY <1>1, <1>2, <2>1, <2>2, OwnerGivesUp
<1>6. CASE DialOk(p)
  <2>1. PICK c \in Conns \ (Referenced \cup open) :
           open' = open \cup {c} /\ cl' = [cl EXCEPT ![p] = c]
    BY <1>6 DEF DialOk
  <2>2. UNCHANGED idle /\ cl[p] = NoConn
    BY <1>1, <1>6 DEF DialOk, TypeOK
  <2>3. cl'[p] = c /\ \A q \in Callers : q # p => cl'[q] = cl[q]
    BY <1>1, <2>1
  <2>4. /\ c \notin ConnsOf(idle) /\ c # cleanCl /\ c \notin open
        /\ \A q \in Callers : cl[q] # c
        /\ \A r \in Releasers : c \notin ConnsOf(relList[r])
    BY <2>1 DEF Referenced
  <2>5. NoConn \notin open
    BY <1>1, NotNil
  <2>6. ConnsOf(idle') = ConnsOf(idle) /\ (Distinct(idle') <=> Distinct(idle))
    BY <2>2
  <2>7. Apart'
    BY <1>1, <1>2, <2>3, <2>4, <2>6 DEF Apart
  <2>8. OpenHeld'
    BY <1>1, <1>2, <2>1, <2>2, <2>3, <2>5, <2>6 DEF OpenHeld
  <2> QED
    BY <1>1, <2>1, <2>4, <2>7, <2>8
<1>7. CASE GetDialed(p) \/ GetChecked(p)
  <2>1. UNCHANGED <<idle, open>>
    BY <1>7 DEF GetDialed, GetChecked
  <2>2. \/ UNCHANGED cl
        \/ cl' = [cl EXCEPT ![p] = NoConn] /\ cl[p] \notin open
    BY <1>7 DEF GetDialed, GetChecked, Return, Check
  <2>3. \A q \in Callers : cl'[q] = cl[q] \/ (cl'[q] = NoConn /\ cl[q] \notin open')
    BY <1>1, <2>1, <2>2
  <2> QED
    BY <1>1, <1>2, <2>1, <2>3, OwnerGivesUp
<1> QED
  BY <1>3, <1>4, <1>5, <1>6, <1>7 DEF Get

LEMMA OwnerPut ==
    ASSUME OwnerInv, NEW p \in Callers, Put(p) \/ CloseErrConn(p)
    PROVE  Apart' /\ OpenHeld' /\ (cleanPc = "dec" => cleanCl \notin open')
<1>1. /\ TypeOK /\ Apart /\ OpenHeld
      /\ cl \in [Callers -> Conns \cup {NoConn}] /\ idle \in Seq(IdleConn)
      /\ cleanPc = "dec" => cleanCl \notin open
  BY DEF OwnerInv, TypeOK
<1>2. UNCHANGED <<cleanCl, relList>>
  BY <1>1, CallerLeaves
<1>3. CASE PutTest(p) \/ Uncount(p) \/ CloseErrConn(p)
  <2>1. UNCHANGED <<idle, open, cl>>
    BY <1>3 DEF PutTest, Uncount, CloseErrConn
  <2> QED
    BY <1>1, <1>2, <2>1, OwnerGivesUp
<1>4. CASE PutNil(p) \/ CloseConn(p)
  <2>1. UNCHANGED idle /\ open' = open \ {cl[p]} /\ cl' = [cl EXCEPT ![p] = NoConn]
    BY <1>4 DEF PutNil, CloseConn, Return
  <2>2. \A q \in Callers : cl'[q] = cl[q] \/ (cl'[q] = NoConn /\ cl[q] \notin open')
    BY <1>1, <2>1
  <2> QED
    BY <1>1, <1>2, <2>1, <2>2, OwnerGivesUp
<1>5. CASE PutPush(p) /\ Check(cl[p])
  <2>1. /\ idle' = PushBack(cl[p]) /\ UNCHANGED open
        /\ cl' = [cl EXCEPT ![p] = NoConn]
    BY <1>5 DEF PutPush, Return
  <2>2. cl[p] \in Conns /\ cl[p] # NoConn
    BY <1>1, <1>5, PoolAssumption DEF TypeOK, Check
  <2>3. [c |-> cl[p], age |-> 0] \in IdleConn
    BY <2>2, PoolAssumption DEF IdleConn
  <2>4. ConnsOf(idle') = ConnsOf(idle) \cup {cl[p]} /\ Distinct(idle')
    <3>1. cl[p] \notin ConnsOf(idle) /\ Distinct(idle)
      BY <1>1, <2>2 DEF Apart
    <3> QED
      BY <1>1, <2>1, <2>3, <3>1, PushConn DEF PushBack
  <2>5. cl'[p] = NoConn /\ \A q \in Callers : q # p => cl'[q] = cl[q]
    BY <1>1, <2>1
  <2>6. Apart'
    BY <1>1, <1>2, <2>2, <2>4, <2>5, NotNil DEF Apart
  <2>7. OpenHeld'
    BY <1>1, <1>2, <2>1, <2>4, <2>5 DEF OpenHeld
  <2> QED
    BY <1>1, <2>1, <2>6, <2>7
<1>6. CASE PutPush(p) /\ ~Check(cl[p])
  <2>1. UNCHANGED <<idle, open, cl>>
    BY <1>6 DEF PutPush
  <2> QED
    BY <1>1, <1>2, <2>1, OwnerGivesUp
<1> QED
  BY <1>3, <1>4, <1>5, <1>6 DEF Put

LEMMA OwnerClearConn ==
    ASSUME OwnerInv, ClearConn
    PROVE  Apart' /\ OpenHeld' /\ (cleanPc' = "dec" => cleanCl' \notin open')
<1>1. /\ TypeOK /\ Apart /\ OpenHeld /\ idle \in Seq(IdleConn)
      /\ cleanPc = "dec" => cleanCl \notin open
  BY DEF OwnerInv, TypeOK
<1>2. UNCHANGED <<cl, relList>>
  BY DEF ClearConn, ScanRemove, ScanEnd, ScanClose, ScanUncount, ClearConnWake,
         callerVars, relVars
<1>3. CASE ScanRemove
  <2>1. /\ idle # <<>> /\ idle' = Tail(idle) /\ UNCHANGED open
        /\ cleanCl' = Head(idle).c /\ cleanPc' = "close"
        /\ cleanCl = NoConn
    BY <1>1, <1>3 DEF ScanRemove, FrontExpired, TypeOK
  <2>2. /\ cleanCl' \in ConnsOf(idle) /\ ConnsOf(idle) = ConnsOf(idle') \cup {cleanCl'}
        /\ Distinct(idle') /\ cleanCl' \notin ConnsOf(idle')
    BY <1>1, <2>1, TakeConn DEF Apart
  <2>3. NoConn \notin open
    BY <1>1, NotNil
  <2>4. Apart'
    BY <1>1, <1>2, <2>2 DEF Apart
  <2>5. OpenHeld'
    BY <1>1, <1>2, <2>1, <2>2, <2>3 DEF OpenHeld
  <2> QED
    BY <2>1, <2>4, <2>5
<1>4. CASE ScanEnd \/ ClearConnWake
  <2>1. UNCHANGED <<idle, open, cleanCl>> /\ cleanPc' # "dec"
    BY <1>4 DEF ScanEnd, ClearConnWake
  <2> QED
    BY <1>1, <1>2, <2>1, OwnerGivesUp
<1>5. CASE ScanClose
  <2>1. UNCHANGED <<idle, cleanCl>> /\ open' = open \ {cleanCl}
    BY <1>5 DEF ScanClose
  <2> QED
    BY <1>1, <1>2, <2>1, OwnerGivesUp
<1>6. CASE ScanUncount
  <2>1. UNCHANGED <<idle, open>> /\ cleanCl' = NoConn /\ cleanPc = "dec" /\ cleanPc' = "scan"
    BY <1>6 DEF ScanUncount
  <2> QED
    BY <1>1, <1>2, <2>1, OwnerGivesUp
<1> QED
  BY <1>3, <1>4, <1>5, <1>6 DEF ClearConn

LEMMA OwnerRelease ==
    ASSUME OwnerInv, NEW r \in Releasers, Release(r)
    PROVE  /\ Apart' /\ OpenHeld' /\ (cleanPc' = "dec" => cleanCl' \notin open')
           /\ \A s \in Releasers : relPc'[s] # "close" => relList'[s] = <<>>
<1>1. /\ TypeOK /\ Apart /\ OpenHeld /\ idle \in Seq(IdleConn)
      /\ relList \in [Releasers -> Seq(IdleConn)]
      /\ relPc \in [Releasers -> {"out", "swap", "close"}]
      /\ cleanPc = "dec" => cleanCl \notin open
      /\ \A s \in Releasers : relPc[s] # "close" => relList[s] = <<>>
  BY DEF OwnerInv, TypeOK
<1>2. UNCHANGED <<cl, cleanCl, cleanPc>>
  BY DEF Release, ReleaseCount, ReleaseSwap, ReleaseClose, callerVars, cleanVars
<1>3. CASE ReleaseCount(r)
  <2>1. /\ UNCHANGED <<idle, open, relList>> /\ relPc[r] = "out"
        /\ relPc' = [relPc EXCEPT ![r] = "swap"]
    BY <1>3 DEF ReleaseCount
  <2>2. \A s \in Releasers : relPc'[s] # "close" => relPc[s] # "close"
    BY <1>1, <2>1
  <2> QED
    BY <1>1, <1>2, <2>1, <2>2, OwnerGivesUp
<1>4. CASE ReleaseSwap(r)
  <2>1. /\ idle' = <<>> /\ UNCHANGED open /\ relPc[r] = "swap"
        /\ relList' = [relList EXCEPT ![r] = idle]
        /\ relPc' = [relPc EXCEPT ![r] = "close"]
    BY <1>4 DEF ReleaseSwap
  <2>2. ConnsOf(<<>>) = {} /\ Distinct(<<>>)
    BY DEF ConnsOf, Distinct
  <2>3. relList'[r] = idle /\ \A s \in Releasers : s # r => relList'[s] = relList[s]
    BY <1>1, <2>1
  <2>4. relPc'[r] = "close" /\ \A s \in Releasers : s # r => relPc'[s] = relPc[s]
    BY <1>1, <2>1
  <2>5. relList[r] = <<>>
    BY <1>1, <2>1
  <2>6. ConnsOf(idle') = {} /\ Distinct(idle')
    BY <2>1, <2>2
  <2>7. ConnsOf(relList'[r]) = ConnsOf(idle) /\ ConnsOf(relList[r]) = {}
    BY <2>2, <2>3, <2>5
  <2>8. NoConn \notin ConnsOf(idle)
    BY <1>1, NotNil
  <2>9. Apart'
    <3>1. ASSUME NEW s \in Releasers, NEW c \in ConnsOf(relList'[s])
          PROVE  c # cleanCl /\ \A p \in Callers : cl[p] # c
      <4>1. CASE s = r
        BY <1>1, <2>7, <2>8, <3>1, <4>1 DEF Apart
      <4>2. CASE s # r
        BY <1>1, <2>3, <3>1, <4>2 DEF Apart
      <4> QED
        BY <4>1, <4>2
    <3> QED
      BY <1>1, <1>2, <2>6, <3>1 DEF Apart
  <2>10. OpenHeld'
    <3>1. \A s \in Releasers : s # r => ConnsOf(relList'[s]) = ConnsOf(relList[s])
      BY <2>3
    <3> QED
      BY <1>1, <1>2, <2>1, <2>7, <3>1 DEF OpenHeld
  <2> QED
    BY <1>1, <1>2, <2>1, <2>3, <2>4, <2>9, <2>10
<1>5. CASE ReleaseClose(r) /\ relList[r] # <<>>
  <2> DEFINE h == Head(relList[r]).c
  <2>1. /\ UNCHANGED <<idle, relPc>> /\ open' = open \ {h} /\ relPc[r] = "close"
        /\ relList' = [relList EXCEPT ![r] = Tail(relList[r])]
    BY <1>5 DEF ReleaseClose
  <2>2. relList'[r] = Tail(relList[r]) /\ \A s \in Releasers : s # r => relList'[s] = relList[s]
    BY <1>1, <2>1
  <2>3. ConnsOf(relList[r]) = ConnsOf(relList'[r]) \cup {h}
    BY <1>1, <1>5, <2>2, TakeConn
  <2>4. \A s \in Releasers : s # r => ConnsOf(relList'[s]) = ConnsOf(relList[s])
    BY <2>2
  <2> HIDE DEF h
  <2>5. \A s \in Releasers :
           /\ ConnsOf(relList'[s]) \subseteq ConnsOf(relList[s])
           /\ \A c \in ConnsOf(relList[s]) : c \in ConnsOf(relList'[s]) \/ c \notin open'
    BY <2>1, <2>3, <2>4
  <2>6. Apart' /\ OpenHeld'
    BY <1>1, <1>2, <2>1, <2>5, OwnerGivesUp
  <2> QED
    BY <1>1, <1>2, <2>1, <2>2, <2>6
<1>6. CASE ReleaseClose(r) /\ relList[r] = <<>>
  <2>1. /\ UNCHANGED <<idle, open, relList>>
        /\ relPc' = [relPc EXCEPT ![r] = "out"]
    BY <1>6 DEF ReleaseClose
  <2>2. \A s \in Releasers : relPc'[s] # "close" => s = r \/ relPc[s] # "close"
    BY <1>1, <2>1
  <2> QED
    BY <1>1, <1>2, <1>6, <2>1, <2>2, OwnerGivesUp
<1> QED
  BY <1>3, <1>4, <1>5, <1>6 DEF Release

LEMMA OwnerEnvironment ==
    ASSUME OwnerInv, Tick \/ Disconnect \/ UNCHANGED vars
    PROVE  Apart' /\ OpenHeld' /\ (cleanPc' = "dec" => cleanCl' \notin open')
<1>1. /\ TypeOK /\ Apart /\ OpenHeld /\ idle \in Seq(IdleConn)
      /\ cleanPc = "dec" => cleanCl \notin open
  BY DEF OwnerInv, TypeOK
<1>2. UNCHANGED <<cl, cleanCl, cleanPc, relList>>
  BY DEF Tick, Disconnect, vars, callerVars, cleanVars, relVars
<1>3. CASE Tick
  <2>1. UNCHANGED open /\ idle' = [i \in DOMAIN idle |-> Older(idle[i])]
    BY <1>3 DEF Tick
  <2>2. DOMAIN idle' = DOMAIN idle /\ \A i \in DOMAIN idle : idle'[i] = Older(idle[i])
    BY <2>1
  <2>3. \A e \in IdleConn : Older(e).c = e.c
    BY DEF Older, IdleConn
  <2>4. \A i \in DOMAIN idle : idle[i] \in IdleConn
    BY <1>1
  <2>5. \A i \in DOMAIN idle : idle'[i].c = idle[i].c
    BY <2>2, <2>3, <2>4
  <2>6. ConnsOf(idle') = ConnsOf(idle)
    BY <2>2, <2>5 DEF ConnsOf
  <2>7. Distinct(idle) => Distinct(idle')
    BY <2>2, <2>5 DEF Distinct
  <2>8. Apart'
    BY <1>1, <1>2, <2>6, <2>7 DEF Apart
  <2>9. OpenHeld'
    BY <1>1, <1>2, <2>1, <2>6 DEF OpenHeld
  <2> QED
    BY <1>1, <1>2, <2>1, <2>8, <2>9
<1>4. CASE Disconnect \/ UNCHANGED vars
  <2>1. UNCHANGED idle /\ open' \subseteq open
    BY <1>4 DEF Disconnect, vars
  <2> QED
    BY <1>1, <1>2, <2>1, OwnerGivesUp
<1> QED
  BY <1>3, <1>4

LEMMA OwnerStep == OwnerInv /\ [Next]_vars => OwnerInv'
<1> SUFFICES ASSUME OwnerInv, [Next]_vars PROVE OwnerInv'
  OBVIOUS
<1>1. TypeOK /\ TypeOK'
  BY TypeStep DEF OwnerInv
<1>2. Apart' /\ OpenHeld' /\ (cleanPc' = "dec" => cleanCl' \notin open')
  BY <1>1, CallerLeaves, OwnerGet, OwnerPut, OwnerClearConn, OwnerRelease,
     OwnerEnvironment DEF Next
<1>3. \A r \in Releasers : relPc'[r] # "close" => relList'[r] = <<>>
  <2>1. CASE \E r \in Releasers : Release(r)
    BY <2>1, OwnerRelease
  <2>2. CASE UNCHANGED <<relPc, relList>>
    BY <2>2 DEF OwnerInv
  <2>3. CASE \E p \in Callers : Get(p) \/ Put(p) \/ CloseErrConn(p)
    BY <1>1, <2>2, <2>3, CallerLeaves
  <2>4. CASE ClearConn \/ Tick \/ Disconnect \/ UNCHANGED vars
    BY <2>2, <2>4 DEF ClearConn, ScanRemove, ScanEnd, ScanClose, ScanUncount,
                      ClearConnWake, Tick, Disconnect, vars, relVars
  <2> QED
    BY <2>1, <2>3, <2>4 DEF Next
<1> QED
  BY <1>1, <1>2, <1>3 DEF OwnerInv

(* Whatever Get, Put, ClearConn and several Releases do at once, no         *)
(* connection has two owners and no open connection is forgotten.           *)
THEOREM OneOwner == Spec => []SingleOwner
<1>1. OwnerInv => SingleOwner
  BY OwnerForm DEF OwnerInv
<1> QED
  BY <1>1, OwnerInit, OwnerStep, PTL DEF Spec

=============================================================================
