------------------------------ MODULE Balancer ------------------------------
(***************************************************************************)
(* grpc/client/balancer: baseBalancer (balancer.go), the connectivity      *)
(* recorder (connectivity/connectivity.go) and the round-robin picker      *)
(* (picker/).  Both handlers run with bb.mu held, so each is one action;   *)
(* Pick runs on the goroutines of the RPCs.                                *)
(*                                                                         *)
(* External: gRPC's ClientConn.  It opens a SubConn when asked to Connect, *)
(* moves it between states on its own and reports the changes later, each  *)
(* SubConn's in order.  After RemoveSubConn it reports Shutdown, last.     *)
(***************************************************************************)
EXTENDS Integers, Sequences, FiniteSets

CONSTANTS Addrs,        \* resolver addresses
          SubConns,     \* identities of SubConns
          None,         \* no entry in a map
          Width,        \* the recorder's counters are in 0..Width-1 and wrap
          MaxReports    \* bound: reports of one SubConn under way

State == {"Idle", "Connecting", "Ready", "TransientFailure", "Shutdown"}

ASSUME BalancerAssumption ==
    /\ IsFiniteSet(SubConns)
    /\ None \notin SubConns \cup Addrs \cup State
    /\ Width \in Nat /\ Width > Cardinality(SubConns)
    /\ MaxReports \in Nat

VARIABLES addrToSc,     \* address -> SubConn or None
          scToAddr,     \* SubConn -> address or None
          scToSt,       \* SubConn -> state as last reported, or None
          recorder,     \* numReady, numConnecting, numTransientFailure, cur
          picker,       \* the picker given to gRPC: its kind, scs and next
          real,         \* external: SubConn -> its state in gRPC, None if unused
          reports,      \* external: SubConn -> states not yet reported
          asked         \* external: SubConns asked to Connect since last Idle

mapVars  == <<addrToSc, scToAddr, scToSt>>
grpcVars == <<real, reports, asked>>
balancerVars == <<mapVars, recorder, picker, grpcVars>>

BalancerTypeOK ==
    /\ addrToSc \in [Addrs -> SubConns \cup {None}]
    /\ scToAddr \in [SubConns -> Addrs \cup {None}]
    /\ scToSt \in [SubConns -> (State \ {"Shutdown"}) \cup {None}]
    /\ recorder \in [numReady: 0..(Width - 1), numConnecting: 0..(Width - 1),
                     numTransientFailure: 0..(Width - 1), cur: State]
    /\ picker \in [kind: {"noSubConn", "transientFailure", "roundrobin"},
                   scs: Seq(SubConns), next: Nat]
    /\ real \in [SubConns -> State \cup {None}]
    /\ reports \in [SubConns -> Seq(State)]
    /\ asked \in SUBSET SubConns

ErrPicker(kind) == [kind |-> kind, scs |-> <<>>, next |-> 0]

BalancerInit ==
    /\ addrToSc = [a \in Addrs |-> None]
    /\ scToAddr = [sc \in SubConns |-> None]
    /\ scToSt = [sc \in SubConns |-> None]
    /\ recorder = [numReady |-> 0, numConnecting |-> 0,
                   numTransientFailure |-> 0, cur |-> "Idle"]
    /\ picker = ErrPicker("noSubConn")
    /\ real = [sc \in SubConns |-> None]
    /\ reports = [sc \in SubConns |-> <<>>]
    /\ asked = {}

\* The SubConns in use, and among them those last reported as Ready.
Live == {addrToSc[a] : a \in Addrs} \ {None}
In(st) == {sc \in SubConns : scToSt[sc] = st}

-----------------------------------------------------------------------------
(* HandleResolvedAddrs                                                     *)

\* An error from the resolver changes nothing.
HandleResolvedError == UNCHANGED balancerVars

\* The addresses that have no SubConn get one (new: address -> SubConn, None
\* where NewSubConn fails) and it is asked to Connect; the SubConns of addresses
\* no longer resolved are removed, but keep their state until Shutdown arrives.
HandleResolvedAddrs(addrs, new) ==
    LET gone == {a \in Addrs \ addrs : addrToSc[a] # None}
        out  == {addrToSc[a] : a \in gone}
        made == {new[a] : a \in DOMAIN new} \ {None}
        addr(sc) == CHOOSE a \in DOMAIN new : new[a] = sc
    IN  /\ addrToSc' = [a \in Addrs |-> IF a \in DOMAIN new THEN new[a]
                                        ELSE IF a \in gone THEN None ELSE addrToSc[a]]
        /\ scToAddr' = [sc \in SubConns |->
                            IF sc \in made THEN addr(sc) ELSE scToAddr[sc]]
        /\ scToSt' = [sc \in SubConns |-> IF sc \in made THEN "Idle" ELSE scToSt[sc]]
        /\ real' = [sc \in SubConns |-> IF sc \in made THEN "Idle"
                        ELSE IF sc \in out THEN "Shutdown" ELSE real[sc]]
        /\ reports' = [sc \in SubConns |-> IF sc \in out
                            THEN Append(reports[sc], "Shutdown") ELSE reports[sc]]
        /\ asked' = asked \cup made
        /\ UNCHANGED <<recorder, picker>>

\* What NewSubConn may return for a set of addresses: different new SubConns,
\* or errors.
NewSubConns(addrs) ==
    {f \in [addrs -> {sc \in SubConns : real[sc] = None} \cup {None}] :
        \A a, b \in addrs : f[a] = f[b] /\ f[a] # None => a = b}

-----------------------------------------------------------------------------
(* The recorder                                                            *)

\* updateVal on unsigned counters.
Inc(n) == IF n = Width - 1 THEN 0 ELSE n + 1
Dec(n) == IF n = 0 THEN Width - 1 ELSE n - 1

\* Mutant: the old state keeps its place in the count.
MutantCountMove(n, st, old, new) == IF new = st THEN Inc(n) ELSE n

\* The counter for state st when a SubConn goes from old to new.
CountMove(n, st, old, new) ==
    LET m == IF old = st THEN Dec(n) ELSE n
    IN  IF new = st THEN Inc(m) ELSE m

Aggregate(ready, connecting) ==
    IF ready > 0 THEN "Ready"
    ELSE IF connecting > 0 THEN "Connecting" ELSE "TransientFailure"

RecordTransition(old, new) ==
    LET r == CountMove(recorder.numReady, "Ready", old, new)
        c == CountMove(recorder.numConnecting, "Connecting", old, new)
        t == CountMove(recorder.numTransientFailure, "TransientFailure", old, new)
    IN  recorder' = [numReady |-> r, numConnecting |-> c,
                     numTransientFailure |-> t, cur |-> Aggregate(r, c)]

-----------------------------------------------------------------------------
(* HandleSubConnStateChange                                                *)

\* The orders in which a Go map with the keys S may be ranged over.
Orders(S) ==
    {f \in [1..Cardinality(S) -> S] : \A i, j \in DOMAIN f : f[i] = f[j] => i = j}

\* updatePicker: an error picker, or a round-robin picker over what is Ready.
updatePicker ==
    \/ /\ recorder'.cur = "TransientFailure"
       /\ picker' = ErrPicker("transientFailure")
    \/ /\ recorder'.cur # "TransientFailure"
       /\ \E scs \in Orders({sc \in Live : scToSt'[sc] = "Ready"}) :
             picker' = [kind |-> "roundrobin", scs |-> scs, next |-> 0]

\* Mutant: a SubConn that is no longer Ready is left in the picker.
MutantPickerOutdated(old, s) ==
    \/ s = "Ready" /\ old # "Ready"
    \/ (recorder'.cur = "TransientFailure") # (recorder.cur = "TransientFailure")

PickerOutdated(old, s) ==
    \/ (s = "Ready") # (old = "Ready")
    \/ (recorder'.cur = "TransientFailure") # (recorder.cur = "TransientFailure")

\* Mutant: a SubConn that fell back to Idle is not connected again.
MutantConnectIfIdle(sc, s) == UNCHANGED asked

ConnectIfIdle(sc, s) == asked' = IF s = "Idle" THEN asked \cup {sc} ELSE asked

\* Mutant: the Shutdown of a removed SubConn does not delete its entries.
MutantDropIfShutdown(sc, s) ==
    /\ scToSt' = [scToSt EXCEPT ![sc] = IF s = "Shutdown" THEN "Idle" ELSE s]
    /\ UNCHANGED scToAddr

DropIfShutdown(sc, s) ==
    /\ scToSt' = [scToSt EXCEPT ![sc] = IF s = "Shutdown" THEN None ELSE s]
    /\ scToAddr' = [scToAddr EXCEPT ![sc] = IF s = "Shutdown" THEN None ELSE @]

\* Mutant: a SubConn that failed is taken as failed until it is Idle again.
MutantStateChange(sc, s, old) ==
    \/ /\ old = "TransientFailure" /\ s \in {"Connecting", "Ready"}
       /\ UNCHANGED <<mapVars, recorder, picker, asked>>
    \/ /\ ~(old = "TransientFailure" /\ s \in {"Connecting", "Ready"})
       /\ DropIfShutdown(sc, s)
       /\ ConnectIfIdle(sc, s)
       /\ RecordTransition(old, s)
       /\ \/ PickerOutdated(old, s) /\ updatePicker
          \/ ~PickerOutdated(old, s) /\ UNCHANGED picker

\* The state change s of sc, whose last known state was old.
StateChange(sc, s, old) ==
    /\ DropIfShutdown(sc, s)
    /\ ConnectIfIdle(sc, s)
    /\ RecordTransition(old, s)
    /\ \/ PickerOutdated(old, s) /\ updatePicker
       \/ ~PickerOutdated(old, s) /\ UNCHANGED picker

\* gRPC reports the next state of sc.  A report about a SubConn that has no
\* entry is ignored.  With Shutdown reported, the SubConn is gone.
HandleSubConnStateChange(sc) ==
    /\ reports[sc] # <<>>
    /\ LET s == Head(reports[sc]) IN
          /\ \/ scToSt[sc] # None /\ StateChange(sc, s, scToSt[sc])
             \/ scToSt[sc] = None /\ UNCHANGED <<mapVars, recorder, picker, asked>>
          /\ real' = [real EXCEPT ![sc] = IF s = "Shutdown" THEN None ELSE @]
    /\ reports' = [reports EXCEPT ![sc] = Tail(@)]
    /\ UNCHANGED addrToSc

-----------------------------------------------------------------------------
(* Pick                                                                    *)

Advance == (picker.next + 1) % Len(picker.scs)

\* Pick from a picker that has no SubConn to give: the picker's error.
PickError ==
    /\ picker.scs = <<>>
    /\ UNCHANGED balancerVars

\* The SubConn at next is given to the RPC, and next moves on.
Pick ==
    /\ picker.scs # <<>>
    /\ picker' = [picker EXCEPT !.next = Advance]
    /\ UNCHANGED <<mapVars, recorder, grpcVars>>

-----------------------------------------------------------------------------
(* gRPC moves a SubConn                                                    *)

\* Where a SubConn goes from each state; out of Idle only after Connect.
Moves(sc) ==
    CASE real[sc] = "Idle" -> IF sc \in asked THEN {"Connecting"} ELSE {}
      [] real[sc] = "Connecting" -> {"Ready", "TransientFailure"}
      [] real[sc] = "Ready" -> {"Idle", "Connecting", "TransientFailure"}
      [] real[sc] = "TransientFailure" -> {"Connecting", "Idle"}
      [] OTHER -> {}

Transition(sc, s) ==
    /\ s \in Moves(sc)
    /\ Len(reports[sc]) < MaxReports
    /\ real' = [real EXCEPT ![sc] = s]
    /\ reports' = [reports EXCEPT ![sc] = Append(@, s)]
    /\ asked' = asked \ {sc}
    /\ UNCHANGED <<mapVars, recorder, picker>>

-----------------------------------------------------------------------------

BalancerNext ==
    \/ HandleResolvedError
    \/ \E addrs \in SUBSET Addrs :
          \E new \in NewSubConns({a \in addrs : addrToSc[a] = None}) :
              HandleResolvedAddrs(addrs, new)
    \/ \E sc \in SubConns : HandleSubConnStateChange(sc)
    \/ PickError
    \/ Pick
    \/ \E sc \in SubConns, s \in State : Transition(sc, s)

BalancerSpec == BalancerInit /\ [][BalancerNext]_balancerVars

\* gRPC's watcher goroutine delivers every report.
BalancerFairSpec ==
    BalancerSpec /\ \A sc \in SubConns : WF_balancerVars(HandleSubConnStateChange(sc))

-----------------------------------------------------------------------------
(* Properties                                                              *)

\* The unsigned counters are the numbers of SubConns in each state, so they
\* never wrap below zero, and removed SubConns leave them (connectivity.go:49-74
\* against the entries that balancer.go keeps and deletes).
RecorderExact ==
    /\ recorder.numReady = Cardinality(In("Ready"))
    /\ recorder.numConnecting = Cardinality(In("Connecting"))
    /\ recorder.numTransientFailure = Cardinality(In("TransientFailure"))

\* The picker that gRPC holds fits what has been reported (balancer.go:182-211):
\* every SubConn in use that is known to be Ready can be picked, and nothing
\* that is not; its position is within the list (roundrobin.go:46-47); and RPCs
\* fail at once exactly while the aggregated state is TransientFailure.
PickerScs == {picker.scs[i] : i \in DOMAIN picker.scs}
PickerCurrent ==
    /\ Live \cap In("Ready") \subseteq PickerScs
    /\ PickerScs \subseteq In("Ready")
    /\ picker.scs # <<>> => picker.next < Len(picker.scs)
    /\ picker.kind = "transientFailure" <=> recorder.cur = "TransientFailure"

\* The three maps agree: an address and its SubConn point at each other, and a
\* SubConn that is no longer in use has entries only while its Shutdown is
\* on the way (balancer.go:125-148,165-169).
MapsAgree ==
    /\ \A a \in Addrs : addrToSc[a] # None => scToAddr[addrToSc[a]] = a
    /\ \A sc \in SubConns :
          /\ scToAddr[sc] # None <=> scToSt[sc] # None
          /\ scToSt[sc] # None => sc \in Live \/ real[sc] = "Shutdown"

\* A SubConn in use is not left Idle: once its state is reported, it has been
\* asked to Connect (balancer.go:133,163-164).
NotStranded ==
    \A sc \in Live : real[sc] = "Idle" /\ reports[sc] = <<>> => sc \in asked

\* The picker converges: a SubConn that stays in use and Ready can be picked in
\* the end, and one that is no longer in use cannot.
Converges ==
    \A sc \in SubConns :
        /\ <>[](sc \in Live /\ real[sc] = "Ready") => <>[](sc \in PickerScs)
        /\ <>[](sc \notin Live) => <>[](sc \notin PickerScs)
=============================================================================
