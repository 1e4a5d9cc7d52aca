--------------------------- MODULE KVServerProofs ---------------------------
(***************************************************************************)
(* Proofs about KVServer, for any number of connections and any length of  *)
(* a batch, and about HealthServer, the service the gRPC server adds.      *)
(***************************************************************************)
EXTENDS KVServer, HealthServer, TLAPS

\* A goroutine reads the database exactly while it holds the read lock, and
\* the database is not closed while anybody does.
ReadsLocked ==
    /\ \A h \in Conns : pc[h] = "reads" <=> h \in rlock
    /\ rlock # {} => db = "open"

\* The database is open until Close has the lock.
OpenUntilClose == db = "open" <=> srv \in {"new", "run", "wait", "close"}

\* When Thrift's Stop comes to the store, no connection is served any more, and
\* until then the process has nothing to die of.
ThriftDrained ==
    kind = "thrift" =>
        /\ ~crashed
        /\ srv \notin {"new", "run", "wait"} => \A h \in Conns : pc[h] \in {"none", "gone"}

\* How far the call of h has come, and what it has got by then.
Progress(h) ==
    /\ acked[h] => pc[h] \in {"reading", "gone"} /\ Good(h)
    /\ pc[h] \in {"lookup", "reads"} => stored[h] = sent[h]
    /\ pc[h] \in {"write", "writes"} =>
          taken[h] = sent[h] \/ refused[h] \/ stream[h] = "dead"
    /\ pc[h] = "respond" => Good(h) \/ stream[h] = "dead"

\* The inductive invariant: what holds of the store, and of each call.
StoreInv == ReadsLocked /\ OpenUntilClose /\ ThriftDrained

ServerInv == TypeOK /\ StoreInv /\ \A h \in Conns : Progress(h)

\* The state of a server that was just made.
LEMMA ServerInvInit == Init => ServerInv
<1> SUFFICES ASSUME Init PROVE ServerInv
  OBVIOUS
<1>1. TypeOK
  <2>1. 0 \in 0..MaxBatch
    BY ServerAssumption
  <2>2. crashed \in BOOLEAN /\ refused \in [Conns -> BOOLEAN] /\ acked \in [Conns -> BOOLEAN]
    BY Zenon DEF Init
  <2> QED
    BY <2>1, <2>2 DEF Init, TypeOK
<1>2. StoreInv
  BY DEF Init, StoreInv, ReadsLocked, OpenUntilClose, ThriftDrained
<1>3. ASSUME NEW h \in Conns PROVE Progress(h)
  BY DEF Init, Progress, Good
<1> QED
  BY <1>1, <1>2, <1>3 DEF ServerInv

\* A connection is accepted or lost, or a call arrives.
LEMMA CallStep ==
    ASSUME ServerInv, ~crashed, NEW h \in Conns,
           \/ Accept(h) \/ HangUp(h) \/ Get(h) \/ Put(h) \/ PutStream(h)
           \/ \E k \in 0..MaxBatch : MultiPut(h, k)
    PROVE  ServerInv'
<1> USE DEF Goto, srvVars, callVars
<1>1. CASE Accept(h)
  <2>1. TypeOK'
    BY <1>1, ServerAssumption DEF ServerInv, TypeOK, Accept
  <2>2. StoreInv'
    BY <1>1
       DEF ServerInv, TypeOK, StoreInv, ReadsLocked, OpenUntilClose, ThriftDrained,
           Accept
  <2>3. ASSUME NEW g \in Conns PROVE Progress(g)'
    BY <1>1
       DEF ServerInv, TypeOK, StoreInv, ThriftDrained, OpenUntilClose, Progress, Good,
           Accept
  <2> QED
    BY <2>1, <2>2, <2>3 DEF ServerInv
<1>2. CASE HangUp(h)
  <2>1. TypeOK'
    BY <1>2, ServerAssumption DEF ServerInv, TypeOK, HangUp
  <2>2. StoreInv'
    BY <1>2
       DEF ServerInv, TypeOK, StoreInv, ReadsLocked, OpenUntilClose, ThriftDrained,
           HangUp
  <2>3. ASSUME NEW g \in Conns PROVE Progress(g)'
    BY <1>2
       DEF ServerInv, TypeOK, StoreInv, ThriftDrained, OpenUntilClose, Progress, Good,
           HangUp
  <2> QED
    BY <2>1, <2>2, <2>3 DEF ServerInv
<1>3. CASE Get(h)
  <2>1. TypeOK'
    BY <1>3, ServerAssumption DEF ServerInv, TypeOK, Get, Arrives
  <2>2. StoreInv'
    BY <1>3
       DEF ServerInv, TypeOK, StoreInv, ReadsLocked, OpenUntilClose, ThriftDrained, Get,
           Arrives
  <2>3. ASSUME NEW g \in Conns PROVE Progress(g)'
    BY <1>3
       DEF ServerInv, TypeOK, StoreInv, ThriftDrained, OpenUntilClose, Progress, Good,
           Get, Arrives
  <2> QED
    BY <2>1, <2>2, <2>3 DEF ServerInv
<1>4. CASE Put(h)
  <2>1. TypeOK'
    BY <1>4, ServerAssumption DEF ServerInv, TypeOK, Put, Arrives
  <2>2. StoreInv'
    BY <1>4
       DEF ServerInv, TypeOK, StoreInv, ReadsLocked, OpenUntilClose, ThriftDrained, Put,
           Arrives
  <2>3. ASSUME NEW g \in Conns PROVE Progress(g)'
    BY <1>4
       DEF ServerInv, TypeOK, StoreInv, ThriftDrained, OpenUntilClose, Progress, Good,
           Put, Arrives
  <2> QED
    BY <2>1, <2>2, <2>3 DEF ServerInv
<1>5. ASSUME NEW k \in 0..MaxBatch, MultiPut(h, k) PROVE ServerInv'
  <2>1. TypeOK'
    BY <1>5, ServerAssumption DEF ServerInv, TypeOK, MultiPut, Arrives
  <2>2. StoreInv'
    BY <1>5
       DEF ServerInv, TypeOK, StoreInv, ReadsLocked, OpenUntilClose, ThriftDrained,
           MultiPut, Arrives
  <2>3. ASSUME NEW g \in Conns PROVE Progress(g)'
    BY <1>5
       DEF ServerInv, TypeOK, StoreInv, ThriftDrained, OpenUntilClose, Progress, Good,
           MultiPut, Arrives
  <2> QED
    BY <2>1, <2>2, <2>3 DEF ServerInv
<1>6. CASE PutStream(h)
  <2>1. TypeOK'
    BY <1>6, ServerAssumption DEF ServerInv, TypeOK, PutStream, Arrives
  <2>2. StoreInv'
    BY <1>6
       DEF ServerInv, TypeOK, StoreInv, ReadsLocked, OpenUntilClose, ThriftDrained,
           PutStream, Arrives
  <2>3. ASSUME NEW g \in Conns PROVE Progress(g)'
    BY <1>6
       DEF ServerInv, TypeOK, StoreInv, ThriftDrained, OpenUntilClose, Progress, Good,
           PutStream, Arrives
  <2> QED
    BY <2>1, <2>2, <2>3 DEF ServerInv
<1> QED
  BY <1>1, <1>2, <1>3, <1>4, <1>5, <1>6

\* The loop of PutStream.
LEMMA StreamStep ==
    ASSUME ServerInv, ~crashed, NEW h \in Conns,
           StreamSend(h) \/ StreamRecv(h) \/ StreamEOF(h) \/ StreamRefused(h) \/ StreamBreaks(h)
    PROVE  ServerInv'
<1> USE DEF Goto, srvVars, callVars
<1>1. CASE StreamSend(h)
  <2>1. TypeOK'
    BY <1>1, ServerAssumption DEF ServerInv, TypeOK, StreamSend
  <2>2. StoreInv'
    BY <1>1
       DEF ServerInv, TypeOK, StoreInv, ReadsLocked, OpenUntilClose, ThriftDrained,
           StreamSend
  <2>3. ASSUME NEW g \in Conns PROVE Progress(g)'
    BY <1>1
       DEF ServerInv, TypeOK, StoreInv, ThriftDrained, OpenUntilClose, Progress, Good,
           StreamSend
  <2> QED
    BY <2>1, <2>2, <2>3 DEF ServerInv
<1>2. CASE StreamRecv(h)
  <2>1. TypeOK'
    BY <1>2, ServerAssumption DEF ServerInv, TypeOK, StreamRecv
  <2>2. StoreInv'
    BY <1>2
       DEF ServerInv, TypeOK, StoreInv, ReadsLocked, OpenUntilClose, ThriftDrained,
           StreamRecv
  <2>3. ASSUME NEW g \in Conns PROVE Progress(g)'
    BY <1>2
       DEF ServerInv, TypeOK, StoreInv, ThriftDrained, OpenUntilClose, Progress, Good,
           StreamRecv
  <2> QED
    BY <2>1, <2>2, <2>3 DEF ServerInv
<1>3. CASE StreamEOF(h)
  <2>1. TypeOK'
    BY <1>3, ServerAssumption DEF ServerInv, TypeOK, StreamEOF
  <2>2. StoreInv'
    BY <1>3
       DEF ServerInv, TypeOK, StoreInv, ReadsLocked, OpenUntilClose, ThriftDrained,
           StreamEOF
  <2>3. ASSUME NEW g \in Conns PROVE Progress(g)'
    BY <1>3
       DEF ServerInv, TypeOK, StoreInv, ThriftDrained, OpenUntilClose, Progress, Good,
           StreamEOF
  <2> QED
    BY <2>1, <2>2, <2>3 DEF ServerInv
<1>4. CASE StreamRefused(h)
  <2>1. TypeOK'
    BY <1>4, ServerAssumption DEF ServerInv, TypeOK, StreamRefused
  <2>2. StoreInv'
    BY <1>4
       DEF ServerInv, TypeOK, StoreInv, ReadsLocked, OpenUntilClose, ThriftDrained,
           StreamRefused
  <2>3. ASSUME NEW g \in Conns PROVE Progress(g)'
    BY <1>4
       DEF ServerInv, TypeOK, StoreInv, ThriftDrained, OpenUntilClose, Progress, Good,
           StreamRefused
  <2> QED
    BY <2>1, <2>2, <2>3 DEF ServerInv
<1>5. CASE StreamBreaks(h)
  <2>1. TypeOK'
    BY <1>5, ServerAssumption DEF ServerInv, TypeOK, StreamBreaks
  <2>2. StoreInv'
    BY <1>5
       DEF ServerInv, TypeOK, StoreInv, ReadsLocked, OpenUntilClose, ThriftDrained,
           StreamBreaks
  <2>3. ASSUME NEW g \in Conns PROVE Progress(g)'
    BY <1>5
       DEF ServerInv, TypeOK, StoreInv, ThriftDrained, OpenUntilClose, Progress, Good,
           StreamBreaks
  <2> QED
    BY <2>1, <2>2, <2>3 DEF ServerInv
<1> QED
  BY <1>1, <1>2, <1>3, <1>4, <1>5

\* A handler in the store.
LEMMA StoreStep ==
    ASSUME ServerInv, ~crashed, NEW h \in Conns,
           LookupBegin(h) \/ LookupNil(h) \/ LookupEnd(h) \/ WriteBegin(h) \/ WriteNil(h) \/
           WriteEnd(h) \/ WriteFails(h) \/ WriteFreed(h)
    PROVE  ServerInv'
<1> USE DEF Goto, srvVars, callVars
<1>1. CASE LookupBegin(h)
  <2>1. TypeOK'
    BY <1>1, ServerAssumption DEF ServerInv, TypeOK, LookupBegin
  <2>2. StoreInv'
    BY <1>1
       DEF ServerInv, TypeOK, StoreInv, ReadsLocked, OpenUntilClose, ThriftDrained,
           LookupBegin
  <2>3. ASSUME NEW g \in Conns PROVE Progress(g)'
    BY <1>1
       DEF ServerInv, TypeOK, StoreInv, ThriftDrained, OpenUntilClose, Progress, Good,
           LookupBegin
  <2> QED
    BY <2>1, <2>2, <2>3 DEF ServerInv
<1>2. CASE LookupNil(h)
  <2>1. TypeOK'
    BY <1>2, ServerAssumption DEF ServerInv, TypeOK, LookupNil, Crash
  <2>2. StoreInv'
    BY <1>2
       DEF ServerInv, TypeOK, StoreInv, ReadsLocked, OpenUntilClose, ThriftDrained,
           LookupNil, Crash
  <2>3. ASSUME NEW g \in Conns PROVE Progress(g)'
    BY <1>2
       DEF ServerInv, TypeOK, StoreInv, ThriftDrained, OpenUntilClose, Progress, Good,
           LookupNil, Crash
  <2> QED
    BY <2>1, <2>2, <2>3 DEF ServerInv
<1>3. CASE LookupEnd(h)
  <2>1. TypeOK'
    BY <1>3, ServerAssumption DEF ServerInv, TypeOK, LookupEnd
  <2>2. StoreInv'
    BY <1>3
       DEF ServerInv, TypeOK, StoreInv, ReadsLocked, OpenUntilClose, ThriftDrained,
           LookupEnd
  <2>3. ASSUME NEW g \in Conns PROVE Progress(g)'
    BY <1>3
       DEF ServerInv, TypeOK, StoreInv, ThriftDrained, OpenUntilClose, Progress, Good,
           LookupEnd
  <2> QED
    BY <2>1, <2>2, <2>3 DEF ServerInv
<1>4. CASE WriteBegin(h)
  <2>1. TypeOK'
    BY <1>4, ServerAssumption DEF ServerInv, TypeOK, WriteBegin
  <2>2. StoreInv'
    BY <1>4
       DEF ServerInv, TypeOK, StoreInv, ReadsLocked, OpenUntilClose, ThriftDrained,
           WriteBegin
  <2>3. ASSUME NEW g \in Conns PROVE Progress(g)'
    BY <1>4
       DEF ServerInv, TypeOK, StoreInv, ThriftDrained, OpenUntilClose, Progress, Good,
           WriteBegin
  <2> QED
    BY <2>1, <2>2, <2>3 DEF ServerInv
<1>5. CASE WriteNil(h)
  <2>1. TypeOK'
    BY <1>5, ServerAssumption DEF ServerInv, TypeOK, WriteNil, Crash
  <2>2. StoreInv'
    BY <1>5
       DEF ServerInv, TypeOK, StoreInv, ReadsLocked, OpenUntilClose, ThriftDrained,
           WriteNil, Crash
  <2>3. ASSUME NEW g \in Conns PROVE Progress(g)'
    BY <1>5
       DEF ServerInv, TypeOK, StoreInv, ThriftDrained, OpenUntilClose, Progress, Good,
           WriteNil, Crash
  <2> QED
    BY <2>1, <2>2, <2>3 DEF ServerInv
<1>6. CASE WriteEnd(h)
  <2>1. TypeOK'
    BY <1>6, ServerAssumption DEF ServerInv, TypeOK, WriteEnd
  <2>2. StoreInv'
    BY <1>6
       DEF ServerInv, TypeOK, StoreInv, ReadsLocked, OpenUntilClose, ThriftDrained,
           WriteEnd
  <2>3. ASSUME NEW g \in Conns PROVE Progress(g)'
    BY <1>6
       DEF ServerInv, TypeOK, StoreInv, ThriftDrained, OpenUntilClose, Progress, Good,
           WriteEnd
  <2> QED
    BY <2>1, <2>2, <2>3 DEF ServerInv
<1>7. CASE WriteFails(h)
  <2>1. TypeOK'
    BY <1>7, ServerAssumption DEF ServerInv, TypeOK, WriteFails
  <2>2. StoreInv'
    BY <1>7
       DEF ServerInv, TypeOK, StoreInv, ReadsLocked, OpenUntilClose, ThriftDrained,
           WriteFails
  <2>3. ASSUME NEW g \in Conns PROVE Progress(g)'
    BY <1>7
       DEF ServerInv, TypeOK, StoreInv, ThriftDrained, OpenUntilClose, Progress, Good,
           WriteFails
  <2> QED
    BY <2>1, <2>2, <2>3 DEF ServerInv
<1>8. CASE WriteFreed(h)
  <2>1. TypeOK'
    BY <1>8, ServerAssumption DEF ServerInv, TypeOK, WriteFreed, Crash
  <2>2. StoreInv'
    BY <1>8
       DEF ServerInv, TypeOK, StoreInv, ReadsLocked, OpenUntilClose, ThriftDrained,
           WriteFreed, Crash
  <2>3. ASSUME NEW g \in Conns PROVE Progress(g)'
    BY <1>8
       DEF ServerInv, TypeOK, StoreInv, ThriftDrained, OpenUntilClose, Progress, Good,
           WriteFreed, Crash
  <2> QED
    BY <2>1, <2>2, <2>3 DEF ServerInv
<1> QED
  BY <1>1, <1>2, <1>3, <1>4, <1>5, <1>6, <1>7, <1>8

\* The answer.
LEMMA AnswerStep ==
    ASSUME ServerInv, ~crashed, NEW h \in Conns,
           Respond(h) \/ RespondError(h)
    PROVE  ServerInv'
<1> USE DEF Goto, srvVars, callVars
<1>1. CASE Respond(h)
  <2>1. TypeOK'
    BY <1>1, ServerAssumption DEF ServerInv, TypeOK, Respond, Again
  <2>2. StoreInv'
    BY <1>1
       DEF ServerInv, TypeOK, StoreInv, ReadsLocked, OpenUntilClose, ThriftDrained,
           Respond, Again
  <2>3. ASSUME NEW g \in Conns PROVE Progress(g)'
    BY <1>1
       DEF ServerInv, TypeOK, StoreInv, ThriftDrained, OpenUntilClose, Progress, Good,
           Respond, Again
  <2> QED
    BY <2>1, <2>2, <2>3 DEF ServerInv
<1>2. CASE RespondError(h)
  <2>1. TypeOK'
    BY <1>2, ServerAssumption DEF ServerInv, TypeOK, RespondError, Again
  <2>2. StoreInv'
    BY <1>2
       DEF ServerInv, TypeOK, StoreInv, ReadsLocked, OpenUntilClose, ThriftDrained,
           RespondError, Again
  <2>3. ASSUME NEW g \in Conns PROVE Progress(g)'
    BY <1>2
       DEF ServerInv, TypeOK, StoreInv, ThriftDrained, OpenUntilClose, Progress, Good,
           RespondError, Again
  <2> QED
    BY <2>1, <2>2, <2>3 DEF ServerInv
<1> QED
  BY <1>1, <1>2

\* Start and Stop.
LEMMA ServerStep ==
    ASSUME ServerInv, ~crashed,
           Start \/ StopGrpc \/ StopUnstarted \/ StopThrift \/ StopWaited \/ CloseBegin \/
           CloseEnd
    PROVE  ServerInv'
<1> USE DEF Goto, srvVars, callVars
<1>1. CASE Start
  <2>1. TypeOK'
    BY <1>1, ServerAssumption DEF ServerInv, TypeOK, Start
  <2>2. StoreInv'
    BY <1>1
       DEF ServerInv, TypeOK, StoreInv, ReadsLocked, OpenUntilClose, ThriftDrained, Start
  <2>3. ASSUME NEW g \in Conns PROVE Progress(g)'
    BY <1>1
       DEF ServerInv, TypeOK, StoreInv, ThriftDrained, OpenUntilClose, Progress, Good,
           Start
  <2> QED
    BY <2>1, <2>2, <2>3 DEF ServerInv
<1>2. CASE StopGrpc
  <2>1. TypeOK'
    BY <1>2, ServerAssumption DEF ServerInv, TypeOK, StopGrpc
  <2>2. StoreInv'
    BY <1>2
       DEF ServerInv, TypeOK, StoreInv, ReadsLocked, OpenUntilClose, ThriftDrained,
           StopGrpc
  <2>3. ASSUME NEW g \in Conns PROVE Progress(g)'
    BY <1>2
       DEF ServerInv, TypeOK, StoreInv, ThriftDrained, OpenUntilClose, Progress, Good,
           StopGrpc
  <2> QED
    BY <2>1, <2>2, <2>3 DEF ServerInv
<1>3. CASE StopUnstarted
  <2>1. TypeOK'
    BY <1>3, ServerAssumption DEF ServerInv, TypeOK, StopUnstarted, Crash
  <2>2. StoreInv'
    BY <1>3
       DEF ServerInv, TypeOK, StoreInv, ReadsLocked, OpenUntilClose, ThriftDrained,
           StopUnstarted, Crash
  <2>3. ASSUME NEW g \in Conns PROVE Progress(g)'
    BY <1>3
       DEF ServerInv, TypeOK, StoreInv, ThriftDrained, OpenUntilClose, Progress, Good,
           StopUnstarted, Crash
  <2> QED
    BY <2>1, <2>2, <2>3 DEF ServerInv
<1>4. CASE StopThrift
  <2>1. TypeOK'
    BY <1>4, ServerAssumption DEF ServerInv, TypeOK, StopThrift
  <2>2. StoreInv'
    BY <1>4
       DEF ServerInv, TypeOK, StoreInv, ReadsLocked, OpenUntilClose, ThriftDrained,
           StopThrift
  <2>3. ASSUME NEW g \in Conns PROVE Progress(g)'
    BY <1>4
       DEF ServerInv, TypeOK, StoreInv, ThriftDrained, OpenUntilClose, Progress, Good,
           StopThrift
  <2> QED
    BY <2>1, <2>2, <2>3 DEF ServerInv
<1>5. CASE StopWaited
  <2>1. TypeOK'
    BY <1>5, ServerAssumption DEF ServerInv, TypeOK, StopWaited
  <2>2. StoreInv'
    BY <1>5
       DEF ServerInv, TypeOK, StoreInv, ReadsLocked, OpenUntilClose, ThriftDrained,
           StopWaited
  <2>3. ASSUME NEW g \in Conns PROVE Progress(g)'
    BY <1>5
       DEF ServerInv, TypeOK, StoreInv, ThriftDrained, OpenUntilClose, Progress, Good,
           StopWaited
  <2> QED
    BY <2>1, <2>2, <2>3 DEF ServerInv
<1>6. CASE CloseBegin
  <2>1. TypeOK'
    BY <1>6, ServerAssumption DEF ServerInv, TypeOK, CloseBegin
  <2>2. StoreInv'
    BY <1>6
       DEF ServerInv, TypeOK, StoreInv, ReadsLocked, OpenUntilClose, ThriftDrained,
           CloseBegin
  <2>3. ASSUME NEW g \in Conns PROVE Progress(g)'
    BY <1>6
       DEF ServerInv, TypeOK, StoreInv, ThriftDrained, OpenUntilClose, Progress, Good,
           CloseBegin
  <2> QED
    BY <2>1, <2>2, <2>3 DEF ServerInv
<1>7. CASE CloseEnd
  <2>1. TypeOK'
    BY <1>7, ServerAssumption DEF ServerInv, TypeOK, CloseEnd
  <2>2. StoreInv'
    BY <1>7
       DEF ServerInv, TypeOK, StoreInv, ReadsLocked, OpenUntilClose, ThriftDrained,
           CloseEnd
  <2>3. ASSUME NEW g \in Conns PROVE Progress(g)'
    BY <1>7
       DEF ServerInv, TypeOK, StoreInv, ThriftDrained, OpenUntilClose, Progress, Good,
           CloseEnd
  <2> QED
    BY <2>1, <2>2, <2>3 DEF ServerInv
<1> QED
  BY <1>1, <1>2, <1>3, <1>4, <1>5, <1>6, <1>7

\* The inductive invariant holds in every reachable state.
LEMMA ServerAlways == Spec => []ServerInv
<1>1. ServerInv /\ [Next]_vars => ServerInv'
  <2> SUFFICES ASSUME ServerInv, [Next]_vars PROVE ServerInv'
    OBVIOUS
  <2>1. CASE UNCHANGED vars
    BY <2>1 DEF vars, srvVars, callVars, ServerInv, TypeOK, StoreInv, ReadsLocked,
                OpenUntilClose, ThriftDrained, Progress, Good
  <2>2. CASE ~crashed /\ (Start \/ Stop \/ Stopping)
    BY <2>2, ServerStep DEF Stop, Stopping
  <2>3. ASSUME NEW h \in Conns, ~crashed,
               Accept(h) \/ HangUp(h) \/ Call(h) \/ Streams(h) \/ Handler(h)
        PROVE  ServerInv'
    BY <2>3, CallStep, StreamStep, StoreStep, AnswerStep DEF Call, Streams, Handler
  <2> QED
    BY <2>1, <2>2, <2>3 DEF Next
<1> QED
  BY <1>1, ServerInvInit, PTL DEF Spec

(* For any number of connections, reads of either server have an open       *)
(* database, and the Thrift server's Stop leaves none of its handlers       *)
(* behind: it reads and writes an open database only.                       *)
THEOREM DatabaseOpenInUse == Spec => []DatabaseUsedOpen
<1>1. ServerInv => DatabaseUsedOpen
  BY
     DEF ServerInv, TypeOK, StoreInv, ReadsLocked, OpenUntilClose, ThriftDrained,
         DatabaseUsedOpen
<1> QED
  BY <1>1, ServerAlways, PTL

(* For batches of any length, what is acknowledged is stored, but for what  *)
(* the two exceptions in AckedIsStored name.                                *)
THEOREM AcknowledgedIsStored == Spec => []AckedIsStored
<1>1. ServerInv => AckedIsStored
  BY DEF ServerInv, Progress, AckedIsStored
<1> QED
  BY <1>1, ServerAlways, PTL

-----------------------------------------------------------------------------
(* The health service of the gRPC server, for any services, streams and    *)
(* statuses.                                                               *)

\* While Shutdown works its way through the services, those it has set and
\* those without an entry are down, and it sets NOT_SERVING.
ShutdownProgress ==
    shutdown =>
        /\ \A s \in Services \ todo : statusMap[s] \in {"NOT_SERVING", None}
        /\ holder = "set" => val = "NOT_SERVING"

\* The statuses on their way are those of the map.
Announced ==
    /\ \A w \in notify : val = statusMap[svc[w]]
    /\ NeverBlocks /\ NotStale

HealthInv == HealthTypeOK /\ ShutdownProgress /\ Announced

LEMMA HealthStart == ASSUME HealthInit PROVE HealthInv
<1>1. HealthTypeOK
  <2>1. shutdown \in BOOLEAN
    BY Zenon DEF HealthInit
  <2>2. "SERVING" \in Status
    BY DEF Status, Known
  <2>3. /\ statusMap \in [Services -> Status \cup {None}]
        /\ chan \in [Watchers -> Status \cup {None}]
        /\ wpc \in [Watchers -> {"off", "select", "send", "end"}]
        /\ svc \in [Watchers -> Services]
        /\ last \in [Watchers -> Status \cup {None}]
        /\ got \in [Watchers -> Status \cup {None}]
    BY HealthAssumption, <2>2 DEF HealthInit
  <2>4. /\ updates = {} /\ holder = "none" /\ todo = {} /\ val = "SERVING"
        /\ notify = {} /\ cleared = None
    BY DEF HealthInit
  <2> QED
    BY <2>1, <2>2, <2>3, <2>4 DEF HealthTypeOK
<1>2. ShutdownProgress
  BY DEF HealthInit, ShutdownProgress
<1>3. Announced
  BY DEF HealthInit, Announced, NeverBlocks, NotStale
<1> QED
  BY <1>1, <1>2, <1>3 DEF HealthInv

LEMMA InitialInStatus ==
    ASSUME HealthTypeOK, NEW s \in Services
    PROVE  InitialStatus(s) \in Status
  BY DEF HealthTypeOK, InitialStatus, Status, Known

\* The steps of a Watch.
LEMMA WatchStep ==
    ASSUME HealthInv, NEW w \in Watchers, Watch(w)
    PROVE  HealthInv'
<1> USE DEF mapVars, holderVars
<1>1. HealthTypeOK /\ ShutdownProgress /\ Announced
  BY DEF HealthInv
<1>2. UNCHANGED <<statusMap, shutdown, holder, todo, val, notify, cleared>>
  BY DEF Watch, WatchStart, WatchReceive, WatchSendOk, WatchReturn, WatchEnd
<1>3. ShutdownProgress'
  BY <1>1, <1>2 DEF ShutdownProgress
<1>4. \A s \in Services : InitialStatus(s)' = InitialStatus(s)
  BY <1>2 DEF InitialStatus
<1>5. CASE \E s \in Services : WatchStart(w, s)
  <2> PICK s \in Services : WatchStart(w, s)
    BY <1>5
  <2>1. holder = "none" /\ notify = {} /\ cleared = None
    BY <1>1 DEF WatchStart, HealthTypeOK
  <2>2. HealthTypeOK'
    BY <1>1, <1>2, <2>1, InitialInStatus DEF HealthTypeOK, WatchStart
  <2>3. \A u \in updates' :
           (IF chan'[u] # None THEN chan'[u] ELSE last'[u]) = InitialStatus(svc'[u])
    <3> TAKE u \in updates'
    <3>1. CASE u = w
      <4>1. chan'[w] = InitialStatus(s) /\ svc'[w] = s
        BY <1>1 DEF HealthTypeOK, WatchStart
      <4>2. InitialStatus(s) # None
        BY HealthAssumption, <1>1, InitialInStatus
      <4> QED
        BY <3>1, <4>1, <4>2
    <3>2. CASE u # w
      BY <1>1, <2>1, <3>2 DEF HealthTypeOK, WatchStart, Announced, NotStale
    <3> QED
      BY <3>1, <3>2
  <2>4. NotStale'
    BY <1>4, <2>2, <2>3 DEF NotStale, HealthTypeOK
  <2>5. Announced'
    BY <1>2, <2>1, <2>4 DEF Announced, NeverBlocks
  <2> QED
    BY <1>3, <2>2, <2>5 DEF HealthInv
<1>6. CASE WatchReceive(w)
  <2>1. HealthTypeOK'
    BY <1>1, <1>2, <1>6 DEF HealthTypeOK, WatchReceive
  <2>2. UNCHANGED svc /\ updates' = updates /\ chan[w] # None
    BY <1>6 DEF WatchReceive
  <2>3. NeverBlocks'
    BY <1>1, <1>2, <1>6 DEF HealthTypeOK, WatchReceive, Announced, NeverBlocks
  <2>4. \A u \in updates \ notify :
           (IF chan'[u] # None THEN chan'[u] ELSE last'[u])
              = (IF chan[u] # None THEN chan[u] ELSE last[u])
    BY <1>1, <1>6 DEF HealthTypeOK, WatchReceive
  <2>5. NotStale'
    BY <1>1, <1>2, <1>4, <2>1, <2>2, <2>4 DEF Announced, NotStale, HealthTypeOK
  <2>6. Announced'
    BY <1>1, <1>2, <2>2, <2>3, <2>5 DEF Announced
  <2> QED
    BY <1>3, <2>1, <2>6 DEF HealthInv
<1>7. CASE WatchSendOk(w) \/ WatchReturn(w)
  <2>1. HealthTypeOK'
    BY <1>1, <1>2, <1>7 DEF HealthTypeOK, WatchSendOk, WatchReturn
  <2>2. UNCHANGED <<svc, updates, chan, last>>
    BY <1>7 DEF WatchSendOk, WatchReturn
  <2>3. NeverBlocks' /\ NotStale'
    BY <1>1, <1>2, <1>4, <2>2 DEF HealthTypeOK, Announced, NeverBlocks, NotStale
  <2>4. Announced'
    BY <1>1, <1>2, <2>2, <2>3 DEF Announced
  <2> QED
    BY <1>3, <2>1, <2>4 DEF HealthInv
<1>8. CASE WatchEnd(w)
  <2>1. holder = "none" /\ notify = {} /\ cleared = None
    BY <1>1, <1>8 DEF WatchEnd, HealthTypeOK
  <2>2. HealthTypeOK'
    BY <1>1, <1>2, <1>8, <2>1 DEF HealthTypeOK, WatchEnd
  <2>3. \A u \in updates' : u \in updates /\ chan'[u] = chan[u] /\ last'[u] = last[u]
                              /\ svc'[u] = svc[u]
    BY <1>1, <1>8 DEF HealthTypeOK, WatchEnd
  <2>4. NotStale'
    BY <1>1, <1>2, <1>4, <2>1, <2>2, <2>3 DEF Announced, NotStale, HealthTypeOK
  <2>5. Announced'
    BY <1>2, <2>1, <2>4 DEF Announced, NeverBlocks
  <2> QED
    BY <1>3, <2>2, <2>5 DEF HealthInv
<1> QED
  BY <1>5, <1>6, <1>7, <1>8 DEF Watch

\* A service gets a new status while no stream is waiting to be told.
LEMMA LockedStep ==
    ASSUME HealthTypeOK, Announced, NEW s \in Services, NEW v \in Status,
           notify = {}, setServingStatusLocked(s, v),
           UNCHANGED <<updates, chan, cleared, svc, last>>
    PROVE  Announced' /\ notify' \subseteq updates /\ cleared = None
              /\ statusMap' \in [Services -> Status \cup {None}]
<1>1. cleared = None /\ cleared' = None
  BY DEF HealthTypeOK
<1>2. /\ statusMap \in [Services -> Status \cup {None}]
      /\ statusMap' = [statusMap EXCEPT ![s] = v]
      /\ notify' = {w \in updates : svc[w] = s} /\ val' = v
      /\ svc \in [Watchers -> Services] /\ updates \subseteq Watchers
  BY DEF HealthTypeOK, setServingStatusLocked
<1>3. \A w \in notify' : val' = statusMap'[svc'[w]]
  BY <1>2
<1>4. \A w \in updates \ notify' : statusMap'[svc[w]] = statusMap[svc[w]]
  BY <1>2
<1>5. NotStale'
  BY <1>4 DEF Announced, NotStale, InitialStatus
<1> QED
  BY <1>1, <1>2, <1>3, <1>5 DEF Announced, NeverBlocks

LEMMA HolderStep ==
    ASSUME HealthInv,
           \/ \E s \in Services, v \in Settable : SetServingStatus(s, v)
           \/ SetIgnored \/ Shutdown \/ Resume \/ Holder \/ UNCHANGED healthVars
    PROVE  HealthInv'
<1>1. HealthTypeOK /\ ShutdownProgress /\ Announced
  BY DEF HealthInv
<1> USE DEF mapVars, watchVars
<1>2. CASE \E s \in Services, v \in Settable : SetServingStatus(s, v)
  <2> PICK s \in Services, v \in Settable : SetServingStatus(s, v)
    BY <1>2
  <2>1. v \in Status /\ notify = {}
    BY <1>1 DEF Status, HealthTypeOK, SetServingStatus
  <2>2. Announced' /\ notify' \subseteq updates /\ cleared = None
           /\ statusMap' \in [Services -> Status \cup {None}]
    BY <1>1, <2>1, LockedStep DEF SetServingStatus
  <2>3. ~shutdown /\ ~shutdown' /\ shutdown' \in BOOLEAN
    BY <1>1, Zenon DEF SetServingStatus, HealthTypeOK
  <2>4. HealthTypeOK'
    BY <1>1, <2>1, <2>2, <2>3 DEF HealthTypeOK, SetServingStatus, setServingStatusLocked
  <2> QED
    BY <2>2, <2>3, <2>4 DEF HealthInv, ShutdownProgress
<1>3. ASSUME NEW flag \in BOOLEAN, NEW v \in {"SERVING", "NOT_SERVING"},
             flag => v = "NOT_SERVING", SetAll(flag, v)
      PROVE  HealthInv'
  <2>1. /\ notify = {} /\ cleared = None /\ notify' = {} /\ cleared' = None
        /\ holder' = "set" /\ val' = v /\ v \in Status /\ todo' = Entered
        /\ UNCHANGED <<statusMap, updates, chan, wpc, svc, last, got>>
    BY <1>1, <1>3 DEF HealthTypeOK, SetAll, Status, Known
  <2>2. shutdown' \in BOOLEAN /\ (shutdown' <=> flag)
    BY <1>3, Zenon DEF SetAll
  <2>3. HealthTypeOK'
    BY <1>1, <2>1, <2>2 DEF HealthTypeOK, Entered
  <2>4. ShutdownProgress'
    BY <1>3, <2>1, <2>2 DEF ShutdownProgress, Entered
  <2>5. Announced'
    BY <1>1, <2>1 DEF Announced, NeverBlocks, NotStale, InitialStatus
  <2> QED
    BY <2>3, <2>4, <2>5 DEF HealthInv
<1>4. CASE Shutdown
  BY <1>3, <1>4 DEF Shutdown
<1>5. CASE Resume
  BY <1>3, <1>5 DEF Resume
<1>6. ASSUME NEW s \in Services, SetNext(s) PROVE HealthInv'
  <2>1. val \in Status /\ notify = {} /\ holder = "set" /\ s \in todo
    BY <1>1, <1>6 DEF HealthTypeOK, SetNext
  <2>2. Announced' /\ notify' \subseteq updates /\ cleared = None
           /\ statusMap' \in [Services -> Status \cup {None}]
    BY <1>1, <1>6, <2>1, LockedStep DEF SetNext
  <2>3. HealthTypeOK'
    BY <1>1, <1>6, <2>1, <2>2 DEF HealthTypeOK, SetNext, setServingStatusLocked
  <2>4. ShutdownProgress'
    <3> SUFFICES ASSUME shutdown'
                 PROVE  /\ \A t \in Services \ todo' : statusMap'[t] \in {"NOT_SERVING", None}
                        /\ holder' = "set" => val' = "NOT_SERVING"
      BY DEF ShutdownProgress
    <3>1. shutdown /\ val = "NOT_SERVING" /\ val' = val
      BY <1>1, <1>6, <2>1 DEF ShutdownProgress, SetNext, setServingStatusLocked
    <3>2. \A t \in Services \ todo : statusMap[t] \in {"NOT_SERVING", None}
      BY <1>1, <3>1 DEF ShutdownProgress
    <3>3. statusMap' = [statusMap EXCEPT ![s] = val] /\ todo' = todo \ {s}
      BY <1>6 DEF SetNext, setServingStatusLocked
    <3>4. statusMap \in [Services -> Status \cup {None}]
      BY <1>1 DEF HealthTypeOK
    <3> QED
      BY <3>1, <3>2, <3>3, <3>4
  <2> QED
    BY <2>2, <2>3, <2>4 DEF HealthInv
<1>7. ASSUME NEW w \in Watchers, ClearUpdate(w) PROVE HealthInv'
  <2>1. HealthTypeOK'
    BY <1>1, <1>7 DEF HealthTypeOK, ClearUpdate
  <2>2. ShutdownProgress'
    BY <1>1, <1>7 DEF ShutdownProgress, ClearUpdate
  <2>3. NotStale'
    BY <1>1, <1>7 DEF HealthTypeOK, ClearUpdate, Announced, NotStale, InitialStatus
  <2>4. Announced'
    BY <1>1, <1>7, <2>3 DEF HealthTypeOK, ClearUpdate, Announced, NeverBlocks
  <2> QED
    BY <2>1, <2>2, <2>4 DEF HealthInv
<1>8. ASSUME NEW w \in Watchers, PutUpdate(w) PROVE HealthInv'
  <2>1. w \in notify /\ w \in updates /\ cleared = w /\ cleared' = None
    BY HealthAssumption, <1>1, <1>8 DEF HealthTypeOK, PutUpdate
  <2>2. HealthTypeOK'
    BY <1>1, <1>8, <2>1 DEF HealthTypeOK, PutUpdate
  <2>3. ShutdownProgress'
    BY <1>1, <1>8 DEF ShutdownProgress, PutUpdate
  <2>4. val \in Status /\ val = statusMap[svc[w]] /\ val # None
    BY HealthAssumption, <1>1, <2>1 DEF HealthTypeOK, Announced
  <2>5. /\ chan' = [chan EXCEPT ![w] = val] /\ notify' = notify \ {w}
        /\ chan \in [Watchers -> Status \cup {None}] /\ updates \subseteq Watchers
        /\ UNCHANGED <<statusMap, updates, val, svc, last>>
    BY <1>1, <1>8 DEF HealthTypeOK, PutUpdate
  <2>6. NotStale'
    <3> SUFFICES ASSUME NEW u \in updates \ notify'
                 PROVE  (IF chan'[u] # None THEN chan'[u] ELSE last[u])
                           = (IF statusMap[svc[u]] # None THEN statusMap[svc[u]]
                                ELSE "SERVICE_UNKNOWN")
      BY <2>5 DEF NotStale, InitialStatus
    <3>1. CASE u = w
      BY <2>4, <2>5, <3>1
    <3>2. CASE u # w
      BY <1>1, <2>5, <3>2 DEF Announced, NotStale, InitialStatus
    <3> QED
      BY <3>1, <3>2
  <2>7. Announced'
    BY <1>1, <2>1, <2>5, <2>6 DEF Announced, NeverBlocks
  <2> QED
    BY <2>2, <2>3, <2>7 DEF HealthInv
<1>9. CASE Unlock
  <2>1. /\ UNCHANGED <<statusMap, shutdown, updates, chan, todo, val, notify,
                       cleared, wpc, svc, last, got>>
        /\ holder' = "none" /\ todo = {} /\ notify = {}
    BY <1>9 DEF Unlock
  <2>2. HealthTypeOK' /\ ShutdownProgress'
    BY <1>1, <2>1 DEF HealthTypeOK, ShutdownProgress
  <2>3. Announced'
    BY <1>1, <2>1 DEF Announced, NeverBlocks, NotStale, InitialStatus
  <2> QED
    BY <2>2, <2>3 DEF HealthInv
<1>10. CASE SetIgnored \/ UNCHANGED healthVars
  <2>1. UNCHANGED <<statusMap, shutdown, updates, chan, holder, todo, val, notify,
                    cleared, wpc, svc, last, got>>
    BY <1>10 DEF SetIgnored, healthVars, holderVars
  <2>2. HealthTypeOK' /\ ShutdownProgress'
    BY <1>1, <2>1 DEF HealthTypeOK, ShutdownProgress
  <2>3. Announced'
    BY <1>1, <2>1 DEF Announced, NeverBlocks, NotStale, InitialStatus
  <2> QED
    BY <2>2, <2>3 DEF HealthInv
<1> QED
  BY <1>2, <1>4, <1>5, <1>6, <1>7, <1>8, <1>9, <1>10 DEF Holder

LEMMA HealthAlways == HealthSpec => []HealthInv
<1>1. HealthInv /\ [HealthNext]_healthVars => HealthInv'
  BY WatchStep, HolderStep DEF HealthNext
<1> QED
  BY <1>1, HealthStart, PTL DEF HealthSpec

(* A server that is shut down reports NOT_SERVING for every service it      *)
(* knows, as the comment on the shutdown field demands.                     *)
THEOREM ShutdownHolds == HealthSpec => []ShutdownAllDown
<1>1. HealthInv => ShutdownAllDown
  BY DEF HealthInv, HealthTypeOK, ShutdownProgress, ShutdownAllDown, Check
<1> QED
  BY <1>1, HealthAlways, PTL

(* No stream, however slow, can block a status change that holds the mutex. *)
THEOREM SettersNeverBlock == HealthSpec => []NeverBlocks
<1>1. HealthInv => NeverBlocks
  BY DEF HealthInv, Announced
<1> QED
  BY <1>1, HealthAlways, PTL

(* Dropping updates from full channels never leaves a stream with an old    *)
(* status.                                                                  *)
THEOREM StreamsNeverStale == HealthSpec => []NotStale
<1>1. HealthInv => NotStale
  BY DEF HealthInv, Announced
<1> QED
  BY <1>1, HealthAlways, PTL
=============================================================================
