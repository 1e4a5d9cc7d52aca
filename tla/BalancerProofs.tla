--------------------------- MODULE BalancerProofs ---------------------------
(***************************************************************************)
(* Proofs about Balancer, for any sets of addresses and SubConns, any      *)
(* width of the counters and any number of reports under way.              *)
(***************************************************************************)
EXTENDS Balancer, FiniteSetTheorems, TLAPS

\* What is known of a SubConn from the outside: gRPC knows exactly the SubConns
\* that have entries, its reports end with the state it is in, and no Shutdown
\* comes before the end.  One that is Idle with nothing left to report has been
\* asked to Connect.
Ends(q, st) ==
    \A i \in DOMAIN q : IF i = Len(q) THEN q[i] = st ELSE q[i] # "Shutdown"

Known(sc) ==
    /\ real[sc] = None <=> scToSt[sc] = None
    /\ Ends(reports[sc], real[sc])
    /\ real[sc] \in {None, "Shutdown"} => sc \notin Live
    /\ real[sc] = None => reports[sc] = <<>>
    /\ real[sc] = "Shutdown" => reports[sc] # <<>>
    /\ real[sc] = "Idle" /\ reports[sc] = <<>> => sc \in asked

Lifecycle == \A sc \in SubConns : Known(sc)

BalancerInv ==
    /\ BalancerTypeOK
    /\ RecorderExact
    /\ PickerCurrent
    /\ MapsAgree
    /\ Lifecycle

-----------------------------------------------------------------------------
(* Reports under way                                                       *)

LEMMA EndsAppend ==
    ASSUME NEW q \in Seq(State), NEW old, NEW s \in State,
           Ends(q, old), old # "Shutdown"
    PROVE  Append(q, s) \in Seq(State) /\ Append(q, s) # <<>> /\ Ends(Append(q, s), s)
<1> DEFINE t == Append(q, s)
<1>1. /\ t \in Seq(State) /\ Len(t) = Len(q) + 1 /\ Len(q) \in Nat
      /\ DOMAIN q = 1..Len(q) /\ DOMAIN t = 1..Len(t)
      /\ t[Len(t)] = s
      /\ \A i \in 1..Len(q) : t[i] = q[i]
  OBVIOUS
<1>2. \A i \in DOMAIN q : q[i] # "Shutdown"
  BY DEF Ends
<1>3. \A i \in DOMAIN t : i # Len(t) => t[i] # "Shutdown"
  BY <1>1, <1>2
<1>4. t # <<>>
  BY <1>1
<1> HIDE DEF t
<1>5. Ends(t, s)
  BY <1>1, <1>3 DEF Ends
<1> QED
  BY <1>1, <1>4, <1>5 DEF t

LEMMA EndsTail ==
    ASSUME NEW q \in Seq(State), NEW st, Ends(q, st), q # <<>>
    PROVE  /\ Head(q) \in State
           /\ Tail(q) \in Seq(State)
           /\ Ends(Tail(q), st)
           /\ IF Tail(q) = <<>> THEN Head(q) = st ELSE Head(q) # "Shutdown"
<1> DEFINE t == Tail(q)
<1>1. /\ t \in Seq(State) /\ Len(t) = Len(q) - 1 /\ Len(q) \in Nat /\ Len(q) > 0
      /\ DOMAIN q = 1..Len(q) /\ DOMAIN t = 1..Len(t)
      /\ \A i \in 1..Len(t) : t[i] = q[i + 1]
      /\ Head(q) = q[1] /\ q[1] \in State
  OBVIOUS
<1>2. ASSUME NEW i \in DOMAIN t PROVE IF i = Len(t) THEN t[i] = st ELSE t[i] # "Shutdown"
  <2>1. i + 1 \in DOMAIN q /\ (i + 1 = Len(q) <=> i = Len(t)) /\ t[i] = q[i + 1]
    BY <1>1
  <2> QED
    BY <2>1 DEF Ends
<1> HIDE DEF t
<1>3. 1 \in DOMAIN q /\ (1 = Len(q) <=> t = <<>>)
  <2>1. t = <<>> <=> Len(t) = 0
    BY <1>1
  <2> QED
    BY <1>1, <2>1
<1>4. IF t = <<>> THEN q[1] = st ELSE q[1] # "Shutdown"
  BY <1>3 DEF Ends
<1>5. Ends(t, st)
  BY <1>2 DEF Ends
<1> QED
  BY <1>1, <1>4, <1>5 DEF t

-----------------------------------------------------------------------------
(* Counting SubConns                                                       *)

Num(f, st) == Cardinality({x \in SubConns : f[x] = st})

LEMMA NumBound ==
    ASSUME NEW f, NEW st
    PROVE  /\ IsFiniteSet({x \in SubConns : f[x] = st})
           /\ Num(f, st) \in 0..(Width - 1)
           /\ \A sc \in SubConns : f[sc] # st => Num(f, st) < Width - 1
           /\ \A sc \in SubConns : f[sc] = st => Num(f, st) > 0
<1> DEFINE S == {x \in SubConns : f[x] = st}
<1>1. IsFiniteSet(S) /\ Cardinality(S) <= Cardinality(SubConns)
  <2>1. S \in SUBSET SubConns
    OBVIOUS
  <2> QED
    BY <2>1, FS_Subset, BalancerAssumption
<1>2. Cardinality(S) \in Nat /\ Cardinality(SubConns) \in Nat
  BY <1>1, FS_CardinalityType, BalancerAssumption
<1>3. Width \in Nat /\ Width > Cardinality(SubConns)
  BY BalancerAssumption
<1>4. ASSUME NEW sc \in SubConns, f[sc] # st PROVE Cardinality(S) < Cardinality(SubConns)
  <2>1. S \in SUBSET SubConns /\ S # SubConns
    BY <1>4
  <2> QED
    BY <1>2, <2>1, FS_Subset, BalancerAssumption
<1>5. ASSUME NEW sc \in SubConns, f[sc] = st PROVE Cardinality(S) > 0
  <2>1. S # {}
    BY <1>5
  <2> QED
    BY <1>1, <1>2, <2>1, FS_EmptySet
<1> HIDE DEF S
<1>6. Cardinality(S) \in 0..(Width - 1)
  BY <1>1, <1>2, <1>3
<1>7. \A sc \in SubConns : f[sc] # st => Cardinality(S) < Width - 1
  BY <1>2, <1>3, <1>4
<1> QED
  BY <1>1, <1>5, <1>6, <1>7 DEF Num, S

\* Moving one SubConn to another state changes the numbers as the wrapping
\* counters do: none of them wraps.
LEMMA NumMove ==
    ASSUME NEW f, NEW g, NEW sc \in SubConns, NEW s \in State, NEW st \in State,
           st # "Shutdown",
           g[sc] = IF s = "Shutdown" THEN None ELSE s,
           \A x \in SubConns : x # sc => g[x] = f[x]
    PROVE  Num(g, st) = CountMove(Num(f, st), st, f[sc], s)
<1> DEFINE S == {x \in SubConns : f[x] = st}
           T == {x \in SubConns : g[x] = st}
           n == Cardinality(S)
<1>1. IsFiniteSet(S) /\ n \in 0..(Width - 1) /\ Width \in Nat
      /\ (sc \notin S => n < Width - 1) /\ (sc \in S => n > 0)
  <2>1. /\ IsFiniteSet(S) /\ n \in 0..(Width - 1)
        /\ \A x \in SubConns : f[x] # st => n < Width - 1
        /\ \A x \in SubConns : f[x] = st => n > 0
    BY NumBound DEF Num
  <2>2. sc \in S <=> f[sc] = st
    OBVIOUS
  <2> HIDE DEF S, n
  <2> QED
    BY <2>1, <2>2, BalancerAssumption
<1>2. g[sc] = st <=> s = st
  BY BalancerAssumption
<1>3. sc \in S <=> f[sc] = st
  OBVIOUS
<1>4. CASE s = st
  <2>1. T = S \cup {sc}
    BY <1>2, <1>4
  <2>2. Cardinality(T) = IF sc \in S THEN n ELSE n + 1
    BY <1>1, <2>1, FS_AddElement
  <2> HIDE DEF S, T, n
  <2>3. CountMove(n, st, f[sc], s) = IF sc \in S THEN n ELSE n + 1
    BY <1>1, <1>3, <1>4 DEF CountMove, Inc, Dec
  <2> QED
    BY <2>2, <2>3 DEF Num, S, T, n
<1>5. CASE s # st
  <2>1. T = S \ {sc}
    BY <1>2, <1>5
  <2>2. Cardinality(T) = IF sc \in S THEN n - 1 ELSE n
    BY <1>1, <2>1, FS_RemoveElement
  <2> HIDE DEF S, T, n
  <2>3. CountMove(n, st, f[sc], s) = IF sc \in S THEN n - 1 ELSE n
    BY <1>1, <1>3, <1>5 DEF CountMove, Inc, Dec
  <2> QED
    BY <2>2, <2>3 DEF Num, S, T, n
<1> QED
  BY <1>4, <1>5

LEMMA RecorderForm ==
    RecorderExact <=> /\ recorder.numReady = Num(scToSt, "Ready")
                      /\ recorder.numConnecting = Num(scToSt, "Connecting")
                      /\ recorder.numTransientFailure = Num(scToSt, "TransientFailure")
BY DEF RecorderExact, Num, In

-----------------------------------------------------------------------------
(* Initially                                                               *)

LEMMA BalancerStart == BalancerInit => BalancerInv
<1> SUFFICES ASSUME BalancerInit PROVE BalancerInv
  OBVIOUS
<1>1. /\ addrToSc = [a \in Addrs |-> None]
      /\ scToAddr = [sc \in SubConns |-> None]
      /\ scToSt = [sc \in SubConns |-> None]
      /\ recorder = [numReady |-> 0, numConnecting |-> 0,
                     numTransientFailure |-> 0, cur |-> "Idle"]
      /\ picker = [kind |-> "noSubConn", scs |-> <<>>, next |-> 0]
      /\ real = [sc \in SubConns |-> None]
      /\ reports = [sc \in SubConns |-> <<>>]
      /\ asked = {}
  BY DEF BalancerInit, ErrPicker
<1>2. Width \in Nat /\ Width > 0
  <2>1. Cardinality(SubConns) \in Nat
    BY FS_CardinalityType, BalancerAssumption
  <2> QED
    BY <2>1, BalancerAssumption
<1>3. BalancerTypeOK
  <2>1. recorder \in [numReady: 0..(Width - 1), numConnecting: 0..(Width - 1),
                      numTransientFailure: 0..(Width - 1), cur: State]
    BY <1>1, <1>2 DEF State
  <2>2. picker \in [kind: {"noSubConn", "transientFailure", "roundrobin"},
                    scs: Seq(SubConns), next: Nat]
    BY <1>1
  <2>3. reports \in [SubConns -> Seq(State)]
    BY <1>1
  <2> QED
    BY <1>1, <2>1, <2>2, <2>3 DEF BalancerTypeOK
<1>4. Live = {} /\ \A st \in State : In(st) = {}
  BY <1>1, BalancerAssumption DEF Live, In
<1>5. RecorderExact
  BY <1>1, <1>4, FS_EmptySet DEF RecorderExact, State
<1>6. PickerCurrent
  BY <1>1, <1>4 DEF PickerCurrent, PickerScs, State
<1>7. MapsAgree
  BY <1>1 DEF MapsAgree
<1>8. Lifecycle
  BY <1>1, <1>4, BalancerAssumption DEF Lifecycle, Known, Ends, State
<1> QED
  BY <1>3, <1>5, <1>6, <1>7, <1>8 DEF BalancerInv

-----------------------------------------------------------------------------
(* HandleResolvedAddrs                                                     *)

LEMMA ResolvedStep ==
    ASSUME BalancerInv, NEW list \in SUBSET Addrs,
           NEW new \in NewSubConns({a \in list : addrToSc[a] = None}),
           HandleResolvedAddrs(list, new)
    PROVE  BalancerInv'
<1> DEFINE D    == {a \in list : addrToSc[a] = None}
           gone == {a \in Addrs \ list : addrToSc[a] # None}
           out  == {addrToSc[a] : a \in gone}
           made == {new[a] : a \in DOMAIN new} \ {None}
           addr(sc) == CHOOSE a \in DOMAIN new : new[a] = sc
<1>1. /\ addrToSc \in [Addrs -> SubConns \cup {None}]
      /\ scToAddr \in [SubConns -> Addrs \cup {None}]
      /\ scToSt \in [SubConns -> (State \ {"Shutdown"}) \cup {None}]
      /\ real \in [SubConns -> State \cup {None}]
      /\ reports \in [SubConns -> Seq(State)]
      /\ asked \in SUBSET SubConns
  BY DEF BalancerInv, BalancerTypeOK
<1>2. /\ new \in [D -> {sc \in SubConns : real[sc] = None} \cup {None}]
      /\ \A a, b \in D : new[a] = new[b] /\ new[a] # None => a = b
  BY DEF NewSubConns
<1>3. /\ addrToSc' = [a \in Addrs |-> IF a \in DOMAIN new THEN new[a]
                                      ELSE IF a \in gone THEN None ELSE addrToSc[a]]
      /\ scToAddr' = [sc \in SubConns |->
                          IF sc \in made THEN addr(sc) ELSE scToAddr[sc]]
      /\ scToSt' = [sc \in SubConns |-> IF sc \in made THEN "Idle" ELSE scToSt[sc]]
      /\ real' = [sc \in SubConns |-> IF sc \in made THEN "Idle"
                      ELSE IF sc \in out THEN "Shutdown" ELSE real[sc]]
      /\ reports' = [sc \in SubConns |-> IF sc \in out
                          THEN Append(reports[sc], "Shutdown") ELSE reports[sc]]
      /\ asked' = asked \cup made
      /\ UNCHANGED <<recorder, picker>>
  BY DEF HandleResolvedAddrs
<1>4. MapsAgree /\ Lifecycle /\ RecorderExact /\ PickerCurrent
  BY DEF BalancerInv
<1>5. /\ made \subseteq SubConns
      /\ \A sc \in made : real[sc] = None /\ scToSt[sc] = None /\ sc # None
      /\ \A sc \in made : \E a \in D : new[a] = sc
  <2>1. \A sc \in made : sc \in SubConns /\ real[sc] = None /\ sc # None
    BY <1>2
  <2>2. \A sc \in made : scToSt[sc] = None
    BY <1>4, <2>1 DEF Lifecycle, Known
  <2> QED
    BY <1>2, <2>1, <2>2
<1>6. /\ out \subseteq Live
      /\ Live \subseteq SubConns
      /\ \A sc \in Live : real[sc] \in State \ {"Shutdown"}
  <2>1. Live \subseteq SubConns
    BY <1>1 DEF Live
  <2>2. ASSUME NEW a \in gone PROVE addrToSc[a] \in Live
    BY <1>1 DEF Live
  <2>3. out \subseteq Live
    BY <2>2
  <2> QED
    BY <1>1, <1>4, <2>1, <2>3 DEF Lifecycle, Known
<1>7. made \cap Live = {}
  BY <1>5, <1>6, BalancerAssumption
<1>8. /\ \A a \in D : a \in Addrs /\ addrToSc'[a] = new[a]
      /\ \A a \in gone : addrToSc'[a] = None
      /\ \A a \in Addrs : a \notin D /\ a \notin gone => addrToSc'[a] = addrToSc[a]
  BY <1>2, <1>3
<1>9. Live' = (Live \ out) \cup made
  <2>1. ASSUME NEW a \in Addrs, addrToSc'[a] # None
        PROVE  addrToSc'[a] \in (Live \ out) \cup made
    <3>1. CASE a \in D
      BY <1>2, <1>8, <2>1, <3>1
    <3>2. CASE a \notin D
      <4>1. a \notin gone /\ addrToSc'[a] = addrToSc[a]
        BY <1>8, <2>1, <3>2
      <4>2. \A b \in gone : addrToSc[b] # addrToSc[a]
        BY <1>4, <2>1, <4>1 DEF MapsAgree
      <4> QED
        BY <2>1, <4>1, <4>2 DEF Live
    <3> QED
      BY <3>1, <3>2
  <2>2. ASSUME NEW a \in Addrs, addrToSc[a] # None, addrToSc[a] \notin out
        PROVE  addrToSc'[a] = addrToSc[a]
    BY <1>8, <2>2
  <2>3. \A sc \in Live \ out : \E a \in Addrs : addrToSc'[a] = sc /\ sc # None
    BY <2>2 DEF Live
  <2>4. \A sc \in made : \E a \in Addrs : addrToSc'[a] = sc /\ sc # None
    BY <1>5, <1>8
  <2> HIDE DEF out, made
  <2>5. Live' = {addrToSc'[a] : a \in Addrs} \ {None}
    BY DEF Live
  <2> QED
    BY <2>1, <2>3, <2>4, <2>5
<1>10. \A a \in D : new[a] # None => addr(new[a]) = a
  BY <1>2
<1>11. \A sc \in made : addr(sc) \in Addrs
  BY <1>2, <1>5
<1> HIDE DEF addr
<1>12. BalancerTypeOK'
  <2>1. addrToSc' \in [Addrs -> SubConns \cup {None}]
    BY <1>1, <1>2, <1>3
  <2>2. scToAddr' \in [SubConns -> Addrs \cup {None}]
    BY <1>1, <1>3, <1>11
  <2> HIDE DEF made, out
  <2>3. /\ scToSt' \in [SubConns -> (State \ {"Shutdown"}) \cup {None}]
        /\ real' \in [SubConns -> State \cup {None}]
    BY <1>1, <1>3 DEF State
  <2>4. reports' \in [SubConns -> Seq(State)]
    <3>1. \A sc \in SubConns : Append(reports[sc], "Shutdown") \in Seq(State)
      BY <1>1 DEF State
    <3> QED
      BY <1>1, <1>3, <3>1
  <2>5. asked' \in SUBSET SubConns
    BY <1>1, <1>3, <1>5
  <2> QED
    BY <1>3, <2>1, <2>2, <2>3, <2>4, <2>5 DEF BalancerInv, BalancerTypeOK
<1>13. \A st \in State \ {"Idle"} : In(st)' = In(st)
  <2> HIDE DEF made, out
  <2>1. \A sc \in SubConns : \A st \in State \ {"Idle"} :
           scToSt'[sc] = st <=> scToSt[sc] = st
    BY <1>1, <1>3, <1>5, BalancerAssumption
  <2> QED
    BY <2>1 DEF In
<1>14. RecorderExact'
  BY <1>3, <1>4, <1>13 DEF RecorderExact, State
<1>15. PickerCurrent'
  <2> HIDE DEF made, out
  <2>1. made \cap In("Ready") = {}
    BY <1>5, BalancerAssumption DEF In, State
  <2>2. PickerScs' = PickerScs
    BY <1>3 DEF PickerScs
  <2>3. In("Ready")' = In("Ready")
    BY <1>13 DEF State
  <2>4. (Live \cap In("Ready"))' \subseteq Live \cap In("Ready")
    BY <1>9, <2>1, <2>3
  <2> QED
    BY <1>3, <1>4, <2>2, <2>3, <2>4 DEF PickerCurrent
<1>16. MapsAgree'
  <2>1. ASSUME NEW a \in Addrs, addrToSc'[a] # None
        PROVE  scToAddr'[addrToSc'[a]] = a
    <3>1. CASE a \in D
      <4>1. addrToSc'[a] = new[a] /\ new[a] \in made
        BY <1>2, <1>8, <2>1, <3>1
      <4> QED
        BY <1>3, <1>5, <1>10, <2>1, <3>1, <4>1
    <3>2. CASE a \notin D
      <4>1. addrToSc'[a] = addrToSc[a]
        BY <1>8, <2>1, <3>2
      <4>2. addrToSc[a] \in Live
        BY <2>1, <4>1 DEF Live
      <4> HIDE DEF made, out
      <4>3. scToAddr'[addrToSc[a]] = scToAddr[addrToSc[a]]
        BY <1>3, <1>6, <1>7, <4>2
      <4> QED
        BY <1>4, <2>1, <4>1, <4>3 DEF MapsAgree
    <3> QED
      BY <3>1, <3>2
  <2> HIDE DEF made, out
  <2>2. ASSUME NEW sc \in SubConns
        PROVE  scToAddr'[sc] # None <=> scToSt'[sc] # None
    BY <1>3, <1>4, <1>11, BalancerAssumption DEF MapsAgree, State
  <2>3. ASSUME NEW sc \in SubConns, scToSt'[sc] # None
        PROVE  sc \in Live' \/ real'[sc] = "Shutdown"
    BY <1>3, <1>4, <1>6, <1>7, <1>9, <2>3 DEF MapsAgree
  <2> QED
    BY <2>1, <2>2, <2>3 DEF MapsAgree
<1>17. Lifecycle'
  <2> HIDE DEF made, out
  <2> SUFFICES ASSUME NEW sc \in SubConns PROVE Known(sc)'
    BY DEF Lifecycle
  <2>1. Known(sc)
    BY <1>4 DEF Lifecycle
  <2>2. CASE sc \in made
    <3>1. /\ scToSt'[sc] = "Idle" /\ real'[sc] = "Idle" /\ sc \in asked'
          /\ reports'[sc] = reports[sc] /\ reports[sc] = <<>>
      BY <1>3, <1>5, <1>6, <1>7, <2>1, <2>2 DEF Known
    <3>2. Ends(reports'[sc], real'[sc])
      BY <3>1 DEF Ends
    <3> QED
      BY <3>1, <3>2, BalancerAssumption DEF Known, State
  <2>3. CASE sc \in out
    <3>1. /\ scToSt'[sc] = scToSt[sc] /\ real'[sc] = "Shutdown" /\ sc \notin Live'
          /\ reports'[sc] = Append(reports[sc], "Shutdown")
      BY <1>3, <1>6, <1>7, <1>9, <2>3
    <3>2. real[sc] \in State /\ real[sc] # "Shutdown" /\ scToSt[sc] # None
      BY <1>6, <2>1, <2>3, BalancerAssumption DEF Known
    <3>3. reports[sc] \in Seq(State) /\ Ends(reports[sc], real[sc])
      BY <1>1, <2>1 DEF Known
    <3>4. Ends(reports'[sc], "Shutdown") /\ reports'[sc] # <<>>
      BY <3>1, <3>2, <3>3, EndsAppend DEF State
    <3> QED
      BY <3>1, <3>2, <3>4, BalancerAssumption DEF Known, State
  <2>4. CASE sc \notin made /\ sc \notin out
    <3>1. /\ scToSt'[sc] = scToSt[sc] /\ real'[sc] = real[sc]
          /\ reports'[sc] = reports[sc] /\ (sc \in Live' <=> sc \in Live)
          /\ (sc \in asked => sc \in asked')
      BY <1>3, <1>9, <2>4
    <3> QED
      BY <2>1, <3>1 DEF Known
  <2> QED
    BY <2>2, <2>3, <2>4
<1> QED
  BY <1>12, <1>14, <1>15, <1>16, <1>17 DEF BalancerInv

-----------------------------------------------------------------------------
(* HandleSubConnStateChange                                                *)

\* A picker made from the SubConns in use that are Ready.
LEMMA NewPicker ==
    ASSUME NEW S \in SUBSET SubConns, NEW scs \in Orders(S), IsFiniteSet(S)
    PROVE  /\ scs \in Seq(SubConns)
           /\ {scs[i] : i \in DOMAIN scs} = S
           /\ scs # <<>> => 0 < Len(scs)
<1>1. Cardinality(S) \in Nat
  BY FS_CardinalityType
<1>2. scs \in [1..Cardinality(S) -> S] /\ \A i, j \in DOMAIN scs : scs[i] = scs[j] => i = j
  BY DEF Orders
<1>3. scs \in Seq(SubConns) /\ DOMAIN scs = 1..Cardinality(S)
  BY <1>1, <1>2
<1>4. {scs[i] : i \in DOMAIN scs} = S
  <2> DEFINE R == {scs[i] : i \in DOMAIN scs}
  <2>1. R \in SUBSET S
    BY <1>2
  <2>2. scs \in Bijection(1..Cardinality(S), R)
    BY <1>2 DEF Bijection, Injection, Surjection, IsInjective
  <2>3. Cardinality(R) = Cardinality(S)
    <3>1. IsFiniteSet(1..Cardinality(S)) /\ Cardinality(1..Cardinality(S)) = Cardinality(S)
      BY <1>1, FS_Interval
    <3> HIDE DEF R
    <3>2. ExistsBijection(1..Cardinality(S), R)
      BY <2>2 DEF ExistsBijection
    <3> QED
      BY <3>1, <3>2, FS_Bijection
  <2> HIDE DEF R
  <2>4. R = S
    BY <2>1, <2>3, FS_Subset
  <2> QED
    BY <2>4 DEF R
<1>5. scs # <<>> => 0 < Len(scs)
  BY <1>3
<1> QED
  BY <1>3, <1>4, <1>5

\* What a report does to the maps: the reported SubConn has entries, so it is
\* never ignored, and a Shutdown is the last thing heard of it.
LEMMA ReportFacts ==
    ASSUME BalancerInv, NEW sc \in SubConns, reports[sc] # <<>>
    PROVE  /\ scToSt[sc] # None /\ real[sc] # None
           /\ Head(reports[sc]) \in State
           /\ Tail(reports[sc]) \in Seq(State)
           /\ Ends(Tail(reports[sc]), real[sc])
           /\ Head(reports[sc]) = "Shutdown"
                 => real[sc] = "Shutdown" /\ Tail(reports[sc]) = <<>> /\ sc \notin Live
           /\ real[sc] = "Shutdown" /\ Head(reports[sc]) # "Shutdown"
                 => Tail(reports[sc]) # <<>>
           /\ real[sc] = "Idle" /\ Tail(reports[sc]) = <<>> => Head(reports[sc]) = "Idle"
<1>1. Known(sc) /\ reports[sc] \in Seq(State)
  BY DEF BalancerInv, BalancerTypeOK, Lifecycle
<1>2. Ends(reports[sc], real[sc])
  BY <1>1 DEF Known
<1>3. /\ Head(reports[sc]) \in State
      /\ Tail(reports[sc]) \in Seq(State)
      /\ Ends(Tail(reports[sc]), real[sc])
      /\ IF Tail(reports[sc]) = <<>> THEN Head(reports[sc]) = real[sc]
                                    ELSE Head(reports[sc]) # "Shutdown"
  BY <1>1, <1>2, EndsTail
<1>4. scToSt[sc] # None /\ real[sc] # None
  BY <1>1 DEF Known
<1>5. real[sc] = "Shutdown" => sc \notin Live
  BY <1>1 DEF Known
<1> QED
  BY <1>3, <1>4, <1>5

LEMMA ReportStep ==
    ASSUME BalancerInv, NEW sc \in SubConns, HandleSubConnStateChange(sc)
    PROVE  BalancerInv'
<1> DEFINE s   == Head(reports[sc])
           old == scToSt[sc]
           l   == IF s = "Shutdown" THEN None ELSE s
<1>1. /\ addrToSc \in [Addrs -> SubConns \cup {None}]
      /\ scToAddr \in [SubConns -> Addrs \cup {None}]
      /\ scToSt \in [SubConns -> (State \ {"Shutdown"}) \cup {None}]
      /\ real \in [SubConns -> State \cup {None}]
      /\ reports \in [SubConns -> Seq(State)]
      /\ asked \in SUBSET SubConns
      /\ reports[sc] # <<>>
      /\ MapsAgree /\ Lifecycle /\ RecorderExact /\ PickerCurrent
  BY DEF BalancerInv, BalancerTypeOK, HandleSubConnStateChange
<1>2. /\ old # None /\ real[sc] # None
      /\ s \in State
      /\ Tail(reports[sc]) \in Seq(State)
      /\ Ends(Tail(reports[sc]), real[sc])
      /\ s = "Shutdown"
            => real[sc] = "Shutdown" /\ Tail(reports[sc]) = <<>> /\ sc \notin Live
      /\ real[sc] = "Shutdown" /\ s # "Shutdown" => Tail(reports[sc]) # <<>>
      /\ real[sc] = "Idle" /\ Tail(reports[sc]) = <<>> => s = "Idle"
  BY <1>1, ReportFacts
<1>3. StateChange(sc, s, old)
  BY <1>2 DEF HandleSubConnStateChange
<1>4. /\ UNCHANGED addrToSc
      /\ real' = [real EXCEPT ![sc] = IF s = "Shutdown" THEN None ELSE real[sc]]
      /\ reports' = [reports EXCEPT ![sc] = Tail(reports[sc])]
  BY DEF HandleSubConnStateChange
<1>5. /\ scToSt' = [scToSt EXCEPT ![sc] = l]
      /\ scToAddr' = [scToAddr EXCEPT ![sc] = IF s = "Shutdown" THEN None ELSE scToAddr[sc]]
      /\ asked' = IF s = "Idle" THEN asked \cup {sc} ELSE asked
  BY <1>3 DEF StateChange, DropIfShutdown, ConnectIfIdle
<1>6. /\ recorder'.numReady = CountMove(recorder.numReady, "Ready", old, s)
      /\ recorder'.numConnecting = CountMove(recorder.numConnecting, "Connecting", old, s)
      /\ recorder'.numTransientFailure
            = CountMove(recorder.numTransientFailure, "TransientFailure", old, s)
      /\ recorder'.cur = Aggregate(recorder'.numReady, recorder'.numConnecting)
      /\ recorder' = [numReady |-> recorder'.numReady,
                      numConnecting |-> recorder'.numConnecting,
                      numTransientFailure |-> recorder'.numTransientFailure,
                      cur |-> recorder'.cur]
  BY <1>3 DEF StateChange, RecordTransition
<1>7. \/ PickerOutdated(old, s) /\ updatePicker
      \/ ~PickerOutdated(old, s) /\ UNCHANGED picker
  BY <1>3 DEF StateChange
<1>8. Live' = Live /\ Live \subseteq SubConns
  BY <1>1, <1>4 DEF Live
<1> HIDE DEF s
<1>9. l \in (State \ {"Shutdown"}) \cup {None} /\ None \notin State
  BY <1>2, BalancerAssumption
<1>10. /\ scToSt'[sc] = l
       /\ \A x \in SubConns : x # sc => scToSt'[x] = scToSt[x]
       /\ scToAddr'[sc] = IF s = "Shutdown" THEN None ELSE scToAddr[sc]
       /\ \A x \in SubConns : x # sc => scToAddr'[x] = scToAddr[x]
       /\ real'[sc] = IF s = "Shutdown" THEN None ELSE real[sc]
       /\ \A x \in SubConns : x # sc => real'[x] = real[x]
       /\ reports'[sc] = Tail(reports[sc])
       /\ \A x \in SubConns : x # sc => reports'[x] = reports[x]
  BY <1>1, <1>4, <1>5
<1>11. RecorderExact'
  <2>1. \A st \in {"Ready", "Connecting", "TransientFailure"} :
           Num(scToSt', st) = CountMove(Num(scToSt, st), st, old, s)
    <3> SUFFICES ASSUME NEW st \in {"Ready", "Connecting", "TransientFailure"}
                 PROVE  Num(scToSt', st) = CountMove(Num(scToSt, st), st, old, s)
      OBVIOUS
    <3>1. st \in State /\ st # "Shutdown"
      BY DEF State
    <3> QED
      BY <1>2, <1>10, <3>1, NumMove
  <2>2. /\ recorder.numReady = Num(scToSt, "Ready")
        /\ recorder.numConnecting = Num(scToSt, "Connecting")
        /\ recorder.numTransientFailure = Num(scToSt, "TransientFailure")
    BY <1>1, RecorderForm
  <2> HIDE DEF old
  <2>3. /\ recorder'.numReady = Num(scToSt', "Ready")
        /\ recorder'.numConnecting = Num(scToSt', "Connecting")
        /\ recorder'.numTransientFailure = Num(scToSt', "TransientFailure")
    BY <1>6, <2>1, <2>2
  <2> QED
    BY <2>3 DEF RecorderExact, Num, In
<1>12. recorder' \in [numReady: 0..(Width - 1), numConnecting: 0..(Width - 1),
                      numTransientFailure: 0..(Width - 1), cur: State]
  <2>1. \A st \in State : Num(scToSt', st) \in 0..(Width - 1)
    BY NumBound
  <2>2. /\ recorder'.numReady \in 0..(Width - 1)
        /\ recorder'.numConnecting \in 0..(Width - 1)
        /\ recorder'.numTransientFailure \in 0..(Width - 1)
    BY <1>11, <2>1 DEF RecorderExact, Num, In, State
  <2>3. recorder'.cur \in State
    BY <1>6 DEF Aggregate, State
  <2> QED
    BY <1>6, <2>2, <2>3
<1>13. recorder'.cur = "TransientFailure" => In("Ready")' = {}
  <2>1. ASSUME recorder'.cur = "TransientFailure", NEW x \in SubConns
        PROVE  scToSt'[x] # "Ready"
    <3>1. Num(scToSt', "Ready") = recorder'.numReady
      BY <1>11 DEF RecorderExact, Num, In
    <3>2. ~(recorder'.numReady > 0)
      BY <1>6, <2>1 DEF Aggregate
    <3>3. scToSt'[x] = "Ready" => Num(scToSt', "Ready") > 0
      BY NumBound
    <3> QED
      BY <3>1, <3>2, <3>3
  <2> QED
    BY <2>1 DEF In
<1>14. PickerCurrent' /\ picker' \in [kind: {"noSubConn", "transientFailure", "roundrobin"},
                                      scs: Seq(SubConns), next: Nat]
  <2>1. CASE ~PickerOutdated(old, s)
    <3>1. /\ UNCHANGED picker /\ (s = "Ready" <=> old = "Ready")
          /\ recorder'.cur = "TransientFailure" <=> recorder.cur = "TransientFailure"
      BY <1>7, <2>1 DEF PickerOutdated
    <3>2. l = "Ready" <=> old = "Ready"
      BY <1>9, <3>1 DEF State
    <3>3. In("Ready")' = In("Ready")
      BY <1>10, <3>2 DEF In
    <3>4. PickerScs' = PickerScs
      BY <3>1 DEF PickerScs
    <3>5. PickerCurrent'
      BY <1>1, <1>8, <3>1, <3>3, <3>4 DEF PickerCurrent
    <3> QED
      BY <3>1, <3>5 DEF BalancerInv, BalancerTypeOK
  <2>2. CASE PickerOutdated(old, s) /\ recorder'.cur = "TransientFailure"
    <3>1. picker' = [kind |-> "transientFailure", scs |-> <<>>, next |-> 0]
      BY <1>7, <2>2 DEF updatePicker, ErrPicker
    <3>2. PickerScs' = {}
      BY <3>1 DEF PickerScs
    <3>3. PickerCurrent'
      BY <1>13, <2>2, <3>1, <3>2 DEF PickerCurrent
    <3> QED
      BY <3>1, <3>3
  <2>3. CASE PickerOutdated(old, s) /\ recorder'.cur # "TransientFailure"
    <3> DEFINE S == {x \in Live : scToSt'[x] = "Ready"}
    <3>1. PICK scs \in Orders(S) :
             picker' = [kind |-> "roundrobin", scs |-> scs, next |-> 0]
      BY <1>7, <2>3 DEF updatePicker
    <3>2. S \in SUBSET SubConns /\ IsFiniteSet(S)
      <4>1. S \in SUBSET SubConns
        BY <1>8
      <4> QED
        BY <4>1, FS_Subset, BalancerAssumption
    <3>3. S = (Live \cap In("Ready"))'
      BY <1>8 DEF In
    <3> HIDE DEF S
    <3>4. scs \in Seq(SubConns) /\ {scs[i] : i \in DOMAIN scs} = S /\ (scs # <<>> => 0 < Len(scs))
      BY <3>1, <3>2, NewPicker
    <3>5. PickerScs' = S
      BY <3>1, <3>4 DEF PickerScs
    <3>6. PickerCurrent'
      BY <2>3, <3>1, <3>3, <3>4, <3>5 DEF PickerCurrent
    <3> QED
      BY <3>1, <3>4, <3>6
  <2> QED
    BY <2>1, <2>2, <2>3
<1>15. BalancerTypeOK'
  <2>1. /\ addrToSc' \in [Addrs -> SubConns \cup {None}]
        /\ asked' \in SUBSET SubConns
        /\ reports' \in [SubConns -> Seq(State)]
    BY <1>1, <1>2, <1>4, <1>5
  <2>2. /\ scToAddr' \in [SubConns -> Addrs \cup {None}]
        /\ real' \in [SubConns -> State \cup {None}]
    BY <1>1, <1>4, <1>5
  <2>3. scToSt' \in [SubConns -> (State \ {"Shutdown"}) \cup {None}]
    BY <1>1, <1>5, <1>9
  <2> QED
    BY <1>12, <1>14, <2>1, <2>2, <2>3 DEF BalancerTypeOK
<1>16. MapsAgree'
  <2>1. ASSUME NEW a \in Addrs, addrToSc[a] # None
        PROVE  scToAddr'[addrToSc[a]] = a
    <3>1. addrToSc[a] \in Live /\ scToAddr[addrToSc[a]] = a /\ addrToSc[a] \in SubConns
      BY <1>1, <2>1 DEF Live, MapsAgree
    <3> QED
      BY <1>2, <1>10, <3>1
  <2>2. ASSUME NEW x \in SubConns
        PROVE  /\ scToAddr'[x] # None <=> scToSt'[x] # None
               /\ scToSt'[x] # None => x \in Live' \/ real'[x] = "Shutdown"
    <3>1. /\ scToAddr[x] # None <=> scToSt[x] # None
          /\ scToSt[x] # None => x \in Live \/ real[x] = "Shutdown"
      BY <1>1 DEF MapsAgree
    <3>2. CASE x = sc
      BY <1>2, <1>8, <1>9, <1>10, <3>1, <3>2
    <3>3. CASE x # sc
      BY <1>8, <1>10, <3>1, <3>3
    <3> QED
      BY <3>2, <3>3
  <2> QED
    BY <1>4, <2>1, <2>2 DEF MapsAgree
<1>17. Lifecycle'
  <2> SUFFICES ASSUME NEW x \in SubConns PROVE Known(x)'
    BY DEF Lifecycle
  <2>1. Known(x)
    BY <1>1 DEF Lifecycle
  <2>2. CASE x # sc
    <3>1. x \in asked => x \in asked'
      BY <1>5
    <3> QED
      BY <1>8, <1>10, <2>1, <2>2, <3>1 DEF Known
  <2>3. CASE x = sc
    <3>1. CASE s = "Shutdown"
      <4>1. scToSt'[x] = None /\ real'[x] = None /\ reports'[x] = <<>> /\ x \notin Live'
        BY <1>2, <1>8, <1>10, <2>3, <3>1
      <4>2. Ends(reports'[x], real'[x])
        BY <4>1 DEF Ends
      <4> QED
        BY <1>9, <4>1, <4>2 DEF Known, State
    <3>2. CASE s # "Shutdown"
      <4>1. /\ scToSt'[x] = s /\ real'[x] = real[x] /\ reports'[x] = Tail(reports[sc])
            /\ s # None /\ real[x] # None
        BY <1>2, <1>9, <1>10, <2>3, <3>2
      <4>2. Ends(reports'[x], real'[x])
        BY <1>2, <2>3, <4>1
      <4>3. real'[x] = "Idle" /\ reports'[x] = <<>> => x \in asked'
        BY <1>2, <1>5, <2>3, <4>1
      <4>4. real'[x] = "Shutdown" => reports'[x] # <<>>
        BY <1>2, <2>3, <3>2, <4>1
      <4> QED
        BY <1>8, <2>1, <4>1, <4>2, <4>3, <4>4 DEF Known
    <3> QED
      BY <3>1, <3>2
  <2> QED
    BY <2>2, <2>3
<1> QED
  BY <1>11, <1>14, <1>15, <1>16, <1>17 DEF BalancerInv

-----------------------------------------------------------------------------
(* Pick, and gRPC's moves                                                  *)

LEMMA PickStep ==
    ASSUME BalancerInv, Pick
    PROVE  BalancerInv'
<1>1. /\ picker \in [kind: {"noSubConn", "transientFailure", "roundrobin"},
                     scs: Seq(SubConns), next: Nat]
      /\ picker.scs # <<>>
      /\ picker' = [picker EXCEPT !.next = Advance]
      /\ UNCHANGED <<addrToSc, scToAddr, scToSt, recorder, real, reports, asked>>
  BY DEF BalancerInv, BalancerTypeOK, Pick, mapVars, grpcVars
<1>2. Len(picker.scs) \in Nat /\ Len(picker.scs) > 0
  BY <1>1
<1>3. Advance \in Nat /\ Advance < Len(picker.scs)
  <2>1. \A n \in Nat, m \in Nat : m > 0 => n % m \in 0..(m - 1)
    OBVIOUS
  <2>2. picker.next + 1 \in Nat
    BY <1>1
  <2> QED
    BY <1>2, <2>1, <2>2 DEF Advance
<1>4. /\ picker'.kind = picker.kind /\ picker'.scs = picker.scs
      /\ picker'.next = Advance
      /\ picker' \in [kind: {"noSubConn", "transientFailure", "roundrobin"},
                      scs: Seq(SubConns), next: Nat]
  BY <1>1, <1>3
<1>5. BalancerTypeOK'
  BY <1>1, <1>4 DEF BalancerInv, BalancerTypeOK
<1>6. PickerCurrent'
  <2>1. /\ PickerScs' = PickerScs /\ Live' = Live
        /\ In("Ready")' = In("Ready")
    BY <1>1, <1>4 DEF PickerScs, Live, In
  <2> QED
    BY <1>1, <1>3, <1>4, <2>1 DEF BalancerInv, PickerCurrent
<1>7. RecorderExact' /\ MapsAgree' /\ Lifecycle'
  BY <1>1 DEF BalancerInv, RecorderExact, MapsAgree, Lifecycle, Known, Live, In
<1> QED
  BY <1>5, <1>6, <1>7 DEF BalancerInv

LEMMA TransitionStep ==
    ASSUME BalancerInv, NEW sc \in SubConns, NEW s \in State, Transition(sc, s)
    PROVE  BalancerInv'
<1>1. /\ real \in [SubConns -> State \cup {None}]
      /\ reports \in [SubConns -> Seq(State)]
      /\ asked \in SUBSET SubConns
      /\ Lifecycle
      /\ s \in Moves(sc)
      /\ real' = [real EXCEPT ![sc] = s]
      /\ reports' = [reports EXCEPT ![sc] = Append(reports[sc], s)]
      /\ asked' = asked \ {sc}
      /\ UNCHANGED <<addrToSc, scToAddr, scToSt, recorder, picker>>
  BY DEF BalancerInv, BalancerTypeOK, Transition, mapVars
<1>2. real[sc] \in State /\ real[sc] # "Shutdown" /\ s # "Shutdown" /\ None \notin State
  BY <1>1, BalancerAssumption DEF Moves, State
<1>3. Ends(reports[sc], real[sc])
  BY <1>1 DEF Lifecycle, Known
<1>4. /\ Append(reports[sc], s) \in Seq(State) /\ Append(reports[sc], s) # <<>>
      /\ Ends(Append(reports[sc], s), s)
  BY <1>1, <1>2, <1>3, EndsAppend
<1>5. /\ real'[sc] = s /\ reports'[sc] = Append(reports[sc], s)
      /\ \A x \in SubConns : x # sc => real'[x] = real[x] /\ reports'[x] = reports[x]
  BY <1>1
<1>6. BalancerTypeOK'
  <2>1. real' \in [SubConns -> State \cup {None}] /\ reports' \in [SubConns -> Seq(State)]
    BY <1>1, <1>4
  <2> QED
    BY <1>1, <2>1 DEF BalancerInv, BalancerTypeOK
<1>7. RecorderExact' /\ PickerCurrent'
  BY <1>1 DEF BalancerInv, RecorderExact, PickerCurrent, PickerScs, Live, In
<1>8. Live' = Live
  BY <1>1 DEF Live
<1>9. MapsAgree'
  <2>1. \A x \in SubConns : real[x] = "Shutdown" => real'[x] = "Shutdown"
    BY <1>2, <1>5
  <2> QED
    BY <1>1, <1>8, <2>1 DEF BalancerInv, MapsAgree
<1>10. Lifecycle'
  <2> SUFFICES ASSUME NEW x \in SubConns PROVE Known(x)'
    BY DEF Lifecycle
  <2>1. Known(x)
    BY <1>1 DEF Lifecycle
  <2>2. CASE x # sc
    BY <1>1, <1>5, <1>8, <2>1, <2>2 DEF Known
  <2>3. CASE x = sc
    <3>1. /\ Ends(reports'[x], real'[x]) /\ reports'[x] # <<>>
          /\ real'[x] = s /\ s # None /\ s # "Shutdown"
          /\ real[x] # None /\ scToSt'[x] = scToSt[x]
      BY <1>1, <1>2, <1>4, <1>5, <2>3
    <3> QED
      BY <2>1, <3>1 DEF Known
  <2> QED
    BY <2>2, <2>3
<1> QED
  BY <1>6, <1>7, <1>9, <1>10 DEF BalancerInv

LEMMA BalancerStep == BalancerInv /\ [BalancerNext]_balancerVars => BalancerInv'
<1> SUFFICES ASSUME BalancerInv, [BalancerNext]_balancerVars PROVE BalancerInv'
  OBVIOUS
<1>1. ASSUME UNCHANGED balancerVars PROVE BalancerInv'
  <2>1. UNCHANGED <<addrToSc, scToAddr, scToSt, recorder, picker, real, reports, asked>>
    BY <1>1 DEF balancerVars, mapVars, grpcVars
  <2>2. BalancerTypeOK' /\ MapsAgree'
    BY <2>1 DEF BalancerInv, BalancerTypeOK, MapsAgree, Live
  <2>3. RecorderExact' /\ PickerCurrent'
    BY <2>1 DEF BalancerInv, RecorderExact, PickerCurrent, PickerScs, Live, In
  <2>4. Lifecycle'
    BY <2>1 DEF BalancerInv, Lifecycle, Known, Live
  <2> QED
    BY <2>2, <2>3, <2>4 DEF BalancerInv
<1>2. CASE HandleResolvedError \/ PickError \/ UNCHANGED balancerVars
  BY <1>1, <1>2 DEF HandleResolvedError, PickError
<1>3. CASE \E list \in SUBSET Addrs :
              \E new \in NewSubConns({a \in list : addrToSc[a] = None}) :
                  HandleResolvedAddrs(list, new)
  BY <1>3, ResolvedStep
<1>4. CASE \E sc \in SubConns : HandleSubConnStateChange(sc)
  BY <1>4, ReportStep
<1>5. CASE Pick
  BY <1>5, PickStep
<1>6. CASE \E sc \in SubConns, s \in State : Transition(sc, s)
  BY <1>6, TransitionStep
<1> QED
  BY <1>2, <1>3, <1>4, <1>5, <1>6 DEF BalancerNext

-----------------------------------------------------------------------------

(* The recorder's wrapping counters are exact for any number of SubConns    *)
(* below their width: none wraps, whatever is resolved, removed or reported. *)
THEOREM CountersExact == BalancerSpec => []RecorderExact
<1>1. BalancerInv => RecorderExact
  BY DEF BalancerInv
<1> QED
  BY <1>1, BalancerStart, BalancerStep, PTL DEF BalancerSpec

(* The picker that gRPC holds has every Ready SubConn in use, none that is  *)
(* not Ready, and fails RPCs exactly while the aggregate says so.           *)
THEOREM PickerFits == BalancerSpec => []PickerCurrent
<1>1. BalancerInv => PickerCurrent
  BY DEF BalancerInv
<1> QED
  BY <1>1, BalancerStart, BalancerStep, PTL DEF BalancerSpec

(* The three maps stay consistent although a removed SubConn's entries      *)
(* outlive it and its address may come back meanwhile.                      *)
THEOREM MapsConsistent == BalancerSpec => []MapsAgree
<1>1. BalancerInv => MapsAgree
  BY DEF BalancerInv
<1> QED
  BY <1>1, BalancerStart, BalancerStep, PTL DEF BalancerSpec

(* No SubConn in use stays Idle without having been asked to Connect.       *)
THEOREM NobodyStranded == BalancerSpec => []NotStranded
<1>1. BalancerInv => NotStranded
  <2>1. ASSUME BalancerInv PROVE Live \subseteq SubConns
    BY <2>1 DEF BalancerInv, BalancerTypeOK, Live
  <2> QED
    BY <2>1 DEF BalancerInv, Lifecycle, Known, NotStranded
<1> QED
  BY <1>1, BalancerStart, BalancerStep, PTL DEF BalancerSpec
=============================================================================
