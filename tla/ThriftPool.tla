----------------------------- MODULE ThriftPool -----------------------------
(***************************************************************************)
(* thrift/client/pool/pool.go: the pool of thrift connections to one       *)
(* server.  Get and Put run on any number of caller goroutines, ClearConn  *)
(* on a goroutine of its own, Release on whoever tears the pool down.      *)
(*                                                                         *)
(* The mutex protects the idle list only; `count' is updated by atomics    *)
(* outside of it, and dialing and closing happen with no lock held.  One   *)
(* action is one critical section, one atomic operation or one socket      *)
(* operation, so every interleaving of these is a behaviour.  The status   *)
(* word is left out: nothing stores poolStop (the store in Release is      *)
(* commented out), so its tests always take the open branch.               *)
(***************************************************************************)
EXTENDS Integers, Sequences, FiniteSets

CONSTANTS Callers,      \* goroutines that Get and Put, one connection at a time
          Releasers,    \* goroutines that call Release
          Conns,        \* identities of connections
          NoConn,       \* the nil *IdleClient
          MaxConn,      \* maxConn
          IdleTimeout   \* idleTimeout, in ticks

ASSUME PoolAssumption ==
    /\ IsFiniteSet(Callers)
    /\ NoConn \notin Conns
    /\ MaxConn \in Nat
    /\ IdleTimeout \in Nat

VARIABLES idle,       \* the idle list: [c: connection, age: ticks since Put]
          count,      \* the connection counter
          open,       \* connections whose Transport.IsOpen() is true
          pc, cl,     \* per caller: where it is, and the connection it carries
          cleanPc, cleanCl,  \* the same for the ClearConn goroutine
          relPc, relList,    \* the same for Release: the list it detached
          released    \* history: some Release has begun

callerVars == <<pc, cl>>
cleanVars  == <<cleanPc, cleanCl>>
relVars    == <<relPc, relList>>
vars == <<idle, count, open, callerVars, cleanVars, relVars, released>>

IdleConn == [c: Conns, age: 0..IdleTimeout]

\* Where a caller can be: outside the pool ("out"), in Get ("dial" before and
\* "dialed" after Dial, "check" with a connection taken from the list), using
\* a connection ("has"), in Put ("put" past the count test) and giving a
\* connection up ("drop" before the decrement, "close" before Close).
CallerPc == {"out", "dial", "dialed", "check", "has", "put", "drop", "close"}

TypeOK ==
    /\ idle \in Seq(IdleConn)
    /\ count \in Int
    /\ open \in SUBSET Conns
    /\ pc \in [Callers -> CallerPc]
    /\ cl \in [Callers -> Conns \cup {NoConn}]
    /\ cleanPc \in {"sleep", "scan", "close", "dec"}
    /\ cleanCl \in Conns \cup {NoConn}
    /\ relPc \in [Releasers -> {"out", "swap", "close"}]
    /\ relList \in [Releasers -> Seq(IdleConn)]
    /\ released \in BOOLEAN
    /\ \A p \in Callers : cl[p] # NoConn <=> pc[p] \notin {"out", "dial"}
    /\ cleanCl # NoConn <=> cleanPc \in {"close", "dec"}

Init ==
    /\ idle = <<>>
    /\ count = 0
    /\ open = {}
    /\ pc = [p \in Callers |-> "out"]
    /\ cl = [p \in Callers |-> NoConn]
    /\ cleanPc = "scan"
    /\ cleanCl = NoConn
    /\ relPc = [r \in Releasers |-> "out"]
    /\ relList = [r \in Releasers |-> <<>>]
    /\ released = FALSE

-----------------------------------------------------------------------------
(* Which connections somebody still refers to.                             *)

ConnsOf(list) == {list[i].c : i \in DOMAIN list}

Referenced ==
    ConnsOf(idle) \cup {cl[p] : p \in Callers} \cup {cleanCl}
        \cup UNION {ConnsOf(relList[r]) : r \in Releasers}

\* IdleClient.Check
Check(c) == c \in open

Goto(p, l) == pc' = [pc EXCEPT ![p] = l]

\* Caller p leaves the pool and forgets its connection.
Return(p) ==
    /\ pc' = [pc EXCEPT ![p] = "out"]
    /\ cl' = [cl EXCEPT ![p] = NoConn]

-----------------------------------------------------------------------------
(* Get                                                                     *)

\* The quota test, made with the lock held against a counter that is not
\* protected by it.
AtQuota == count >= MaxConn

GetOverMax(p) ==
    /\ pc[p] = "out"
    /\ idle = <<>> /\ AtQuota
    /\ UNCHANGED vars

\* Mutant: dials whether or not an idle connection is there.
MutantGetMiss(p) ==
    /\ pc[p] = "out"
    /\ ~AtQuota
    /\ Goto(p, "dial")
    /\ UNCHANGED <<idle, count, open, cl, cleanVars, relVars, released>>

\* The list is empty: unlock, then dial.
GetMiss(p) ==
    /\ pc[p] = "out"
    /\ idle = <<>> /\ ~AtQuota
    /\ Goto(p, "dial")
    /\ UNCHANGED <<idle, count, open, cl, cleanVars, relVars, released>>

\* Mutant: the connection handed out stays on the list.
MutantGetHit(p) ==
    /\ pc[p] = "out"
    /\ idle # <<>>
    /\ cl' = [cl EXCEPT ![p] = Head(idle).c]
    /\ Goto(p, "check")
    /\ UNCHANGED <<idle, count, open, cleanVars, relVars, released>>

GetHit(p) ==
    /\ pc[p] = "out"
    /\ idle # <<>>
    /\ idle' = Tail(idle)
    /\ cl' = [cl EXCEPT ![p] = Head(idle).c]
    /\ Goto(p, "check")
    /\ UNCHANGED <<count, open, cleanVars, relVars, released>>

\* p.Dial returns: an error, or a new connection.
DialError(p) ==
    /\ pc[p] = "dial"
    /\ Return(p)
    /\ UNCHANGED <<idle, count, open, cleanVars, relVars, released>>

DialOk(p) ==
    /\ pc[p] = "dial"
    /\ \E c \in Conns \ (Referenced \cup open) :
          /\ open' = open \cup {c}
          /\ cl' = [cl EXCEPT ![p] = c]
    /\ Goto(p, "dialed")
    /\ UNCHANGED <<idle, count, cleanVars, relVars, released>>

\* The new connection enters the count only now.
GetDialed(p) ==
    /\ pc[p] = "dialed"
    /\ \/ /\ Check(cl[p])
          /\ count' = count + 1
          /\ Goto(p, "has")
          /\ UNCHANGED cl
       \/ /\ ~Check(cl[p])
          /\ Return(p)
          /\ UNCHANGED count
    /\ UNCHANGED <<idle, open, cleanVars, relVars, released>>

\* Mutant: a dead connection is dropped without giving its slot back.
MutantGetChecked(p) ==
    /\ pc[p] = "check"
    /\ \/ Check(cl[p]) /\ Goto(p, "has") /\ UNCHANGED cl
       \/ ~Check(cl[p]) /\ Return(p)
    /\ UNCHANGED <<idle, count, open, cleanVars, relVars, released>>

\* A connection from the list is handed out, or was found dead.
GetChecked(p) ==
    /\ pc[p] = "check"
    /\ \/ /\ Check(cl[p])
          /\ Goto(p, "has")
          /\ UNCHANGED <<cl, count>>
       \/ /\ ~Check(cl[p])
          /\ count' = count - 1
          /\ Return(p)
    /\ UNCHANGED <<idle, open, cleanVars, relVars, released>>

-----------------------------------------------------------------------------
(* Put and CloseErrConn                                                    *)

\* Put(nil): the caller has closed its connection itself (the pool never sees
\* it) and gives the slot back.
PutNil(p) ==
    /\ pc[p] = "has"
    /\ count' = count - 1
    /\ open' = open \ {cl[p]}
    /\ Return(p)
    /\ UNCHANGED <<idle, cleanVars, relVars, released>>

\* Mutant: off by one in the quota test.
MutantOverQuota == count > MaxConn + 1

\* More connections than the quota: the one returned is closed instead.
OverQuota == count > MaxConn

PutTest(p) ==
    /\ pc[p] = "has"
    /\ Goto(p, IF OverQuota \/ ~Check(cl[p]) THEN "drop" ELSE "put")
    /\ UNCHANGED <<idle, count, open, cl, cleanVars, relVars, released>>

\* Mutant: pushed at the end that Get and CheckTimeout take from.
MutantPushBack(c) == <<[c |-> c, age |-> 0]>> \o idle

\* Put's second Check, then the push; nowFunc() is read with the lock held.
PushBack(c) == Append(idle, [c |-> c, age |-> 0])

PutPush(p) ==
    /\ pc[p] = "put"
    /\ \/ /\ Check(cl[p])
          /\ idle' = PushBack(cl[p])
          /\ Return(p)
       \/ /\ ~Check(cl[p])
          /\ Goto(p, "drop")
          /\ UNCHANGED <<idle, cl>>
    /\ UNCHANGED <<count, open, cleanVars, relVars, released>>

\* The decrement of Put's closing branches, and CloseErrConn's.
Uncount(p) ==
    /\ pc[p] = "drop"
    /\ count' = count - 1
    /\ Goto(p, "close")
    /\ UNCHANGED <<idle, open, cl, cleanVars, relVars, released>>

CloseConn(p) ==
    /\ pc[p] = "close"
    /\ open' = open \ {cl[p]}
    /\ Return(p)
    /\ UNCHANGED <<idle, count, cleanVars, relVars, released>>

CloseErrConn(p) ==
    /\ pc[p] = "has"
    /\ Goto(p, "drop")
    /\ UNCHANGED <<idle, count, open, cl, cleanVars, relVars, released>>

-----------------------------------------------------------------------------
(* CheckTimeout, run by ClearConn between sleeps                           *)

Expired(e) == e.age >= IdleTimeout

FrontExpired == idle # <<>> /\ Expired(Head(idle))

ScanRemove ==
    /\ cleanPc = "scan"
    /\ FrontExpired
    /\ idle' = Tail(idle)
    /\ cleanCl' = Head(idle).c
    /\ cleanPc' = "close"
    /\ UNCHANGED <<count, open, callerVars, relVars, released>>

\* The list is empty or its front is young enough: the scan ends.
ScanEnd ==
    /\ cleanPc = "scan"
    /\ ~FrontExpired
    /\ cleanPc' = "sleep"
    /\ UNCHANGED <<idle, count, open, callerVars, cleanCl, relVars, released>>

ScanClose ==
    /\ cleanPc = "close"
    /\ open' = open \ {cleanCl}
    /\ cleanPc' = "dec"
    /\ UNCHANGED <<idle, count, callerVars, cleanCl, relVars, released>>

ScanUncount ==
    /\ cleanPc = "dec"
    /\ count' = count - 1
    /\ cleanCl' = NoConn
    /\ cleanPc' = "scan"
    /\ UNCHANGED <<idle, open, callerVars, relVars, released>>

ClearConnWake ==
    /\ cleanPc = "sleep"
    /\ cleanPc' = "scan"
    /\ UNCHANGED <<idle, count, open, callerVars, cleanCl, relVars, released>>

ClearConn == ScanRemove \/ ScanEnd \/ ScanClose \/ ScanUncount \/ ClearConnWake

-----------------------------------------------------------------------------
(* Release                                                                 *)

\* The counter is reset before the lock is taken ...
ReleaseCount(r) ==
    /\ relPc[r] = "out"
    /\ count' = 0
    /\ released' = TRUE
    /\ relPc' = [relPc EXCEPT ![r] = "swap"]
    /\ UNCHANGED <<idle, open, callerVars, cleanVars, relList>>

\* ... the list is detached under it ...
ReleaseSwap(r) ==
    /\ relPc[r] = "swap"
    /\ relList' = [relList EXCEPT ![r] = idle]
    /\ idle' = <<>>
    /\ relPc' = [relPc EXCEPT ![r] = "close"]
    /\ UNCHANGED <<count, open, callerVars, cleanVars, released>>

\* ... and its connections are closed one by one.
ReleaseClose(r) ==
    /\ relPc[r] = "close"
    /\ \/ /\ relList[r] # <<>>
          /\ open' = open \ {Head(relList[r]).c}
          /\ relList' = [relList EXCEPT ![r] = Tail(@)]
          /\ UNCHANGED relPc
       \/ /\ relList[r] = <<>>
          /\ relPc' = [relPc EXCEPT ![r] = "out"]
          /\ UNCHANGED <<open, relList>>
    /\ UNCHANGED <<idle, count, callerVars, cleanVars, released>>

-----------------------------------------------------------------------------
(* The environment: time passes, and a connection may stop being open.     *)

Older(e) == [e EXCEPT !.age = IF @ < IdleTimeout THEN @ + 1 ELSE @]

\* Ages saturate at IdleTimeout, where Expired no longer changes.
Tick ==
    /\ \E i \in DOMAIN idle : ~Expired(idle[i])
    /\ idle' = [i \in DOMAIN idle |-> Older(idle[i])]
    /\ UNCHANGED <<count, open, callerVars, cleanVars, relVars, released>>

Disconnect ==
    /\ \E c \in open : open' = open \ {c}
    /\ UNCHANGED <<idle, count, callerVars, cleanVars, relVars, released>>

-----------------------------------------------------------------------------

Get(p) == GetOverMax(p) \/ GetMiss(p) \/ GetHit(p) \/ DialError(p) \/ DialOk(p)
              \/ GetDialed(p) \/ GetChecked(p)
Put(p) == PutNil(p) \/ PutTest(p) \/ PutPush(p) \/ Uncount(p) \/ CloseConn(p)
Release(r) == ReleaseCount(r) \/ ReleaseSwap(r) \/ ReleaseClose(r)

Next ==
    \/ \E p \in Callers : Get(p) \/ Put(p) \/ CloseErrConn(p)
    \/ ClearConn
    \/ \E r \in Releasers : Release(r)
    \/ Tick
    \/ Disconnect

Spec == Init /\ [][Next]_vars

\* ClearConn is an endless loop around a finite sleep, and time does not stop.
FairSpec == Spec /\ WF_vars(ClearConn) /\ WF_vars(Tick)

-----------------------------------------------------------------------------
(* Properties                                                              *)

\* Callers whose connection is in the count, those past Put's test, and those
\* that are using the pool at all.
At(labels) == {p \in Callers : pc[p] \in labels}
Counted == At({"check", "has", "put", "drop"})
Pushing == At({"put"})
Active  == At(CallerPc \ {"out"})

CleanerHolds == IF cleanPc \in {"close", "dec"} THEN 1 ELSE 0

\* Until the first Release, the counter that Get and Put test is exactly the
\* number of pooled connections: idle, in callers' hands, or on their way out
\* (pool.go:105,115,134,141,159,184 against the list operations).
CountExact ==
    ~released => count = Len(idle) + Cardinality(Counted) + CleanerHolds

\* Until the first Release, the idle list and the connections about to enter it
\* never exceed maxConn, although Get may dial more: Put's unlocked test of the
\* counter (pool.go:133) is enough, whatever runs between test and push.
IdleWithinMax == ~released => Len(idle) + Cardinality(Pushing) <= MaxConn

\* The pool dials only when the list is empty (pool.go:93), so connections
\* never outnumber the callers that were active at the same time.
BoundedByCallers == Len(idle) + Cardinality(Active) <= Cardinality(Callers)

\* A connection has one owner: it is at one place of the idle list, or with one
\* caller, or with ClearConn, or on one released list (pool.go:109-112,148,
\* 180,225-226).  And none is forgotten while its socket is open: every path
\* that drops one closes it first or found it closed (pool.go:101,114,128-145,
\* 162,183,230).
SingleOwner ==
    /\ \A i, j \in DOMAIN idle : idle[i].c = idle[j].c => i = j
    /\ \A p, q \in Callers : cl[p] = cl[q] /\ cl[p] # NoConn => p = q
    /\ \A p \in Callers :
          cl[p] # NoConn => cl[p] \notin ConnsOf(idle) \cup {cleanCl}
    /\ cleanCl \notin ConnsOf(idle)
    /\ \A r \in Releasers :
          ConnsOf(relList[r]) \cap
            (ConnsOf(idle) \cup {cl[p] : p \in Callers} \cup {cleanCl}) = {}
    /\ open \subseteq Referenced

\* A connection that stays unused leaves the idle list in the end (ClearConn,
\* pool.go:213-218), however busy the rest of the pool is.
IdleReaped ==
    \A c \in Conns : c \in ConnsOf(idle) ~> c \notin ConnsOf(idle)

\* What Release promises (thrift/client/client.go:93): a pool left without
\* connections dials new ones, so Get refuses only when connections exist.
RefusalJustified ==
    (idle = <<>> /\ AtQuota /\ MaxConn > 0)
        => Referenced \ {NoConn} # {}
=============================================================================
