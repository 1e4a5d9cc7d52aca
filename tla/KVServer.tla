----------------------------- MODULE KVServer ------------------------------
(***************************************************************************)
(* The two servers, grpc/server (grpcserver.go, kv.go) and thrift/server   *)
(* (server.go, kv.go), and the store below them, rocksdbstore/store.go:    *)
(* what the handlers do to the store while Stop closes it, and what        *)
(* PutStream makes of a stream that does not end well.                     *)
(*                                                                         *)
(* A connection carries one call at a time here (gRPC's carry several:     *)
(* each is a connection of this model).  The requests of a batch are       *)
(* counted.  External: the database, which Close frees; grpc.Server and    *)
(* TSimpleServer, of which Stop waits for the connections of the latter.   *)
(***************************************************************************)
EXTENDS Integers

CONSTANTS Conns,     \* the connections clients make
          MaxBatch   \* bound: requests in a stream or a batch

ASSUME ServerAssumption == MaxBatch \in Nat /\ MaxBatch > 0

VARIABLES
    kind,     \* "grpc" or "thrift"
    srv,      \* "new", "run", then Stop: "wait", "close", "closing", "stopped"
    crashed,  \* the process has died of a nil pointer or of freed memory
    db,       \* RocksdbStore.db: "open", "freed" by db.Close, "nil"
    rlock,    \* holders of the store's read lock
    pc,       \* the server's side of a connection
    sent,     \* requests of the call the client has sent
    taken,    \* those in the write batch
    stream,   \* the stream of the call: "live" or "dead"
    refused,  \* a message of it was over MaxRecvMsgSize
    stored,   \* requests of the call that are in the database
    acked     \* the client got an answer without an error

callVars == <<sent, taken, stream, refused, stored, acked>>
srvVars == <<kind, srv, crashed, db>>
vars == <<srvVars, rlock, pc, callVars>>

TypeOK ==
    /\ kind \in {"grpc", "thrift"}
    /\ srv \in {"new", "run", "wait", "close", "closing", "stopped"}
    /\ crashed \in BOOLEAN
    /\ db \in {"open", "freed", "nil"}
    /\ rlock \in SUBSET Conns
    /\ pc \in [Conns -> {"none", "reading", "gone", "stream", "lookup", "reads",
                          "write", "writes", "respond", "fail"}]
    /\ sent \in [Conns -> 0..MaxBatch] /\ taken \in [Conns -> 0..MaxBatch]
    /\ stream \in [Conns -> {"live", "dead"}]
    /\ refused \in [Conns -> BOOLEAN]
    /\ stored \in [Conns -> 0..MaxBatch]
    /\ acked \in [Conns -> BOOLEAN]

Init ==
    /\ kind \in {"grpc", "thrift"}
    /\ srv = "new" /\ crashed = FALSE
    /\ db = "open" /\ rlock = {}
    /\ pc = [h \in Conns |-> "none"]
    /\ sent = [h \in Conns |-> 0] /\ taken = [h \in Conns |-> 0]
    /\ stream = [h \in Conns |-> "live"] /\ refused = [h \in Conns |-> FALSE]
    /\ stored = [h \in Conns |-> 0] /\ acked = [h \in Conns |-> FALSE]

Goto(h, at) == pc' = [pc EXCEPT ![h] = at]

-----------------------------------------------------------------------------
(* Start, connections and calls                                            *)

Start ==
    /\ srv = "new"
    /\ srv' = "run"
    /\ UNCHANGED <<kind, crashed, db, rlock, pc, callVars>>

Accept(h) ==
    /\ srv = "run" /\ pc[h] = "none"
    /\ Goto(h, "reading")
    /\ UNCHANGED <<srvVars, rlock, callVars>>

HangUp(h) ==
    /\ pc[h] = "reading"
    /\ Goto(h, "gone")
    /\ UNCHANGED <<srvVars, rlock, callVars>>

\* A call of k requests arrives: its history begins anew.
Arrives(h, k) ==
    /\ pc[h] = "reading"
    /\ sent' = [sent EXCEPT ![h] = k] /\ taken' = [taken EXCEPT ![h] = k]
    /\ stream' = [stream EXCEPT ![h] = "live"]
    /\ refused' = [refused EXCEPT ![h] = FALSE]
    /\ stored' = [stored EXCEPT ![h] = 0] /\ acked' = [acked EXCEPT ![h] = FALSE]
    /\ UNCHANGED <<srvVars, rlock>>

Get(h) == Arrives(h, 0) /\ Goto(h, "lookup")

Put(h) == Arrives(h, 1) /\ Goto(h, "write")

\* Thrift's MultiPut comes with all its requests.
MultiPut(h, k) == kind = "thrift" /\ Arrives(h, k) /\ Goto(h, "write")

PutStream(h) == kind = "grpc" /\ Arrives(h, 0) /\ Goto(h, "stream")

-----------------------------------------------------------------------------
(* PutStream: the loop around Recv                                         *)

\* Client: stream.Send; an error is only counted, and the sending goes on.
StreamSend(h) ==
    /\ pc[h] = "stream"
    /\ sent[h] < MaxBatch
    /\ sent' = [sent EXCEPT ![h] = @ + 1]
    /\ UNCHANGED <<srvVars, rlock, pc, taken, stream, refused, stored, acked>>

\* wb.Put
StreamRecv(h) ==
    /\ pc[h] = "stream" /\ taken[h] < sent[h]
    /\ taken' = [taken EXCEPT ![h] = @ + 1]
    /\ UNCHANGED <<srvVars, rlock, pc, sent, stream, refused, stored, acked>>

\* io.EOF: the client has called CloseAndRecv, and everything is read.
StreamEOF(h) ==
    /\ pc[h] = "stream" /\ taken[h] = sent[h]
    /\ Goto(h, "write")
    /\ UNCHANGED <<srvVars, rlock, callVars>>

\* Any other error ends the loop too.  The next message is over the limit:
\* the stream is as good as before.
StreamRefused(h) ==
    /\ pc[h] = "stream" /\ taken[h] < sent[h]
    /\ refused' = [refused EXCEPT ![h] = TRUE]
    /\ Goto(h, "write")
    /\ UNCHANGED <<srvVars, rlock, sent, taken, stream, stored, acked>>

\* The client cancels, or the connection breaks.
StreamBreaks(h) ==
    /\ pc[h] = "stream"
    /\ stream' = [stream EXCEPT ![h] = "dead"]
    /\ Goto(h, "write")
    /\ UNCHANGED <<srvVars, rlock, sent, taken, refused, stored, acked>>

-----------------------------------------------------------------------------
(* The store                                                               *)

\* A nil *gorocksdb.DB, or a database that has been freed: the process dies.
Crash ==
    /\ crashed' = TRUE
    /\ UNCHANGED <<kind, srv, db, rlock, pc, callVars>>

\* Lookup: RLock, which waits for a Close that has, or waits for, the lock.
LookupBegin(h) ==
    /\ pc[h] = "lookup" /\ srv \notin {"close", "closing"} /\ db = "open"
    /\ rlock' = rlock \cup {h}
    /\ Goto(h, "reads")
    /\ UNCHANGED <<srvVars, callVars>>

LookupNil(h) ==
    /\ pc[h] = "lookup" /\ srv = "stopped"
    /\ Crash

\* Mutant: the error for a key without a value leaves the lock taken.
MutantLookupEnd(h) ==
    /\ pc[h] = "reads"
    /\ \/ Goto(h, "respond") /\ rlock' = rlock \ {h}
       \/ Goto(h, "fail") /\ rlock' = rlock
    /\ UNCHANGED <<srvVars, callVars>>

\* RUnlock, with a value or with the error for a key without one.
LookupEnd(h) ==
    /\ pc[h] = "reads"
    /\ rlock' = rlock \ {h}
    /\ \/ Goto(h, "respond")
       \/ Goto(h, "fail")
    /\ UNCHANGED <<srvVars, callVars>>

\* Write and BatchWrite take no lock.
WriteBegin(h) ==
    /\ pc[h] = "write" /\ db # "nil"
    /\ Goto(h, "writes")
    /\ UNCHANGED <<srvVars, rlock, callVars>>

WriteNil(h) ==
    /\ pc[h] = "write" /\ db = "nil"
    /\ Crash

\* The batch is written, or an error returned.  Freed memory may do for either.
WriteEnd(h) ==
    /\ pc[h] = "writes"
    /\ stored' = [stored EXCEPT ![h] = taken[h]]
    /\ Goto(h, "respond")
    /\ UNCHANGED <<srvVars, rlock, sent, taken, stream, refused, acked>>

\* Mutant: the error is not looked at.
MutantWriteFails(h) ==
    /\ pc[h] = "writes"
    /\ Goto(h, "respond")
    /\ UNCHANGED <<srvVars, rlock, callVars>>

WriteFails(h) ==
    /\ pc[h] = "writes"
    /\ Goto(h, "fail")
    /\ UNCHANGED <<srvVars, rlock, callVars>>

\* Freed memory may lose the write and report none of it, or end the process.
WriteFreed(h) ==
    /\ pc[h] = "writes" /\ db # "open"
    /\ \/ Crash
       \/ /\ Goto(h, "respond")
          /\ UNCHANGED <<srvVars, rlock, callVars>>

-----------------------------------------------------------------------------
(* The answer                                                              *)

\* Where the goroutine goes next: TSimpleServer's looks whether it is closed.
Again(h) ==
    IF stream[h] = "dead" \/ (kind = "thrift" /\ srv \notin {"new", "run"})
    THEN Goto(h, "gone") ELSE Goto(h, "reading")

Respond(h) ==
    /\ pc[h] = "respond"
    /\ acked' = [acked EXCEPT ![h] = stream[h] = "live"]
    /\ Again(h)
    /\ UNCHANGED <<srvVars, rlock, sent, taken, stream, refused, stored>>

\* An error is answered.  TSimpleServer then closes the connection.
RespondError(h) ==
    /\ pc[h] = "fail"
    /\ IF kind = "thrift" THEN Goto(h, "gone") ELSE Again(h)
    /\ UNCHANGED <<srvVars, rlock, callVars>>

-----------------------------------------------------------------------------
(* Stop                                                                    *)

\* gRPC's Stop closes the listener and goes on to the store; without a Start
\* there is no listener.
StopGrpc ==
    /\ kind = "grpc" /\ srv = "run"
    /\ srv' = "close"
    /\ UNCHANGED <<kind, crashed, db, rlock, pc, callVars>>

StopUnstarted ==
    /\ kind = "grpc" /\ srv = "new"
    /\ Crash

\* Thrift's: server.Stop
StopThrift ==
    /\ kind = "thrift" /\ srv \in {"new", "run"}
    /\ srv' = "wait"
    /\ UNCHANGED <<kind, crashed, db, rlock, pc, callVars>>

\* Mutant: Stop does not wait for the connections.
MutantStopWaited ==
    /\ srv = "wait"
    /\ srv' = "close"
    /\ UNCHANGED <<kind, crashed, db, rlock, pc, callVars>>

\* ... waits for every connection's goroutine.
StopWaited ==
    /\ srv = "wait"
    /\ \A h \in Conns : pc[h] \in {"none", "gone"}
    /\ srv' = "close"
    /\ UNCHANGED <<kind, crashed, db, rlock, pc, callVars>>

\* RocksdbStore.Close: Lock, and the database is closed and freed,
CloseBegin ==
    /\ srv = "close" /\ rlock = {}
    /\ srv' = "closing" /\ db' = "freed"
    /\ UNCHANGED <<kind, crashed, rlock, pc, callVars>>

\* then the options are destroyed and db set to nil.
CloseEnd ==
    /\ srv = "closing"
    /\ srv' = "stopped" /\ db' = "nil"
    /\ UNCHANGED <<kind, crashed, rlock, pc, callVars>>

-----------------------------------------------------------------------------
Call(h) == Get(h) \/ Put(h) \/ PutStream(h) \/ (\E k \in 0..MaxBatch : MultiPut(h, k))

Streams(h) ==
    StreamSend(h) \/ StreamRecv(h) \/ StreamEOF(h) \/ StreamRefused(h) \/ StreamBreaks(h)

Handler(h) ==
    \/ LookupBegin(h) \/ LookupNil(h) \/ LookupEnd(h)
    \/ WriteBegin(h) \/ WriteNil(h) \/ WriteEnd(h) \/ WriteFails(h) \/ WriteFreed(h)
    \/ Respond(h) \/ RespondError(h)

Stop == StopGrpc \/ StopUnstarted \/ StopThrift

Stopping == StopWaited \/ CloseBegin \/ CloseEnd

Next ==
    /\ ~crashed
    /\ \/ Start \/ Stop \/ Stopping
       \/ \E h \in Conns :
             Accept(h) \/ HangUp(h) \/ Call(h) \/ Streams(h) \/ Handler(h)

Spec == Init /\ [][Next]_vars

\* Handlers and Stop are scheduled; clients owe nothing, not the end of a stream
\* either.
FairSpec ==
    /\ Spec
    /\ WF_vars(~crashed /\ Stopping)
    /\ \A h \in Conns : WF_vars(~crashed /\ Handler(h))

-----------------------------------------------------------------------------
(* Properties                                                              *)

\* The store's lock keeps Close away from the reads of either server
\* (store.go:94, 164), and only TSimpleServer's Stop, which waits, from the
\* writes (store.go:136, 140): the Thrift server never touches a database that
\* is closed, nor dies of it.
DatabaseUsedOpen ==
    /\ \A h \in Conns : pc[h] = "reads" => db = "open"
    /\ kind = "thrift" =>
          ~crashed /\ \A h \in Conns : pc[h] \in {"reads", "writes"} => db = "open"

\* What a call of h has stored is what the client may take it to have stored.
Good(h) ==
    \/ stored[h] = sent[h]
    \/ refused[h] /\ stored[h] = taken[h]
    \/ kind = "grpc" /\ db # "open"

\* What a client was told is stored is stored, all of it, but for a stream with
\* a message over the limit (kv.go:65-68), of which the part before it is; and
\* but for a gRPC server that was stopped under the call.
AckedIsStored == \A h \in Conns : acked[h] => Good(h)

\* A Stop that never returns is Thrift's, and waits for clients that keep their
\* connections open and silent (server.go:54, before the store is closed): it
\* hangs neither on the store's lock nor on a handler.
StopHangsOnSilence ==
    <>[](srv \in {"wait", "close", "closing"} /\ ~crashed)
        => <>[](srv = "wait" /\ \E h \in Conns : pc[h] = "reading")
=============================================================================
