----------------------------- MODULE ThriftRpc -----------------------------
(***************************************************************************)
(* A Thrift call from end to end: the callers Get, Put and MultiPut of     *)
(* test/thrift/client/client.go and Ping of thrift/client/conn.go, the     *)
(* generated KVClient and KVProcessor of thrift/rpc/rpc.go, and the        *)
(* handlers of thrift/server/kv.go, over connections of the pool.          *)
(*                                                                         *)
(* A caller starts a goroutine for the call and waits for it no longer     *)
(* than its timeout.  It then puts the connection back, though the         *)
(* goroutine may still be using it.  External: TStandardClient (numbers    *)
(* the calls of a connection and compares the numbers of the replies), the *)
(* framed transport, which is not safe for concurrent use, TSimpleServer   *)
(* (one goroutine per connection) and the database.                        *)
(***************************************************************************)
EXTENDS ThriftWire

CONSTANTS Calls,       \* the calls made
          Workloads,   \* what they may ask for: functions from Calls to Requests
          Conns,       \* bound: the connections the pool dials
          CheckConn,   \* the connection of conn.checkClient
          Keys         \* the keys of the database

\* A method of the service and what it is called with.
Requests ==
    [name: {"Ping"}, req: {<<>>}]
        \cup [name: {"Get"}, req: [Key: Keys, Serializable: BOOLEAN]]
        \cup [name: {"Put"}, req: [Key: Keys, Value: Strings]]
        \cup [name: {"MultiPut"}, req: Seq([Key: Keys, Value: Strings])]

ASSUME RpcAssumption ==
    /\ CheckConn \notin Conns
    /\ nil \notin Calls
    /\ Keys \subseteq Strings
    /\ "0.0.0.0:xxx" \in Strings
    /\ Workloads \subseteq [Calls -> Requests]

AllConns == Conns \cup {CheckConn}

VARIABLES
    request,  \* what each call asks for
    cpc,      \* the caller: "start", "wait", "ok", "error" or "timeout"
    gpc,      \* its goroutine: "none", "send", "recv" or "end"
    via,      \* the connection of the call
    chan,     \* what the goroutine sent to ch or ech: "empty", "ok" or "error"
    result,   \* the response in ch, which the caller returns
    num,      \* the number of the call
    dialled,  \* connections dialled
    idle,     \* the pool's idle list
    seqId,    \* TStandardClient.seqId
    out, in,  \* frames on their way to and from the server
    up,       \* the server has not closed the connection
    db,       \* the database: "" for a key without a value
    exited,   \* log.Fatalf after a Ping that timed out
    handled,  \* history: the request and response of the handler, by call
    shared,   \* history: connections two goroutines have used at a time
    late      \* history: calls begun on a connection with a reply to come

callVars == <<request, cpc, gpc, via, chan, result, num>>
poolVars == <<dialled, idle>>
wireVars == <<seqId, out, in, up>>
histVars == <<handled, shared, late>>
vars == <<callVars, poolVars, wireVars, db, exited, histVars>>

Using(k) == {c \in Calls : via[c] = k /\ gpc[c] \in {"send", "recv"}}

Init ==
    /\ request \in Workloads
    /\ cpc = [c \in Calls |-> "start"]
    /\ gpc = [c \in Calls |-> "none"] /\ via = [c \in Calls |-> nil]
    /\ chan = [c \in Calls |-> "empty"] /\ result = [c \in Calls |-> nil]
    /\ num = [c \in Calls |-> 0]
    /\ dialled = {CheckConn} /\ idle = <<>>
    /\ seqId = [k \in AllConns |-> 0] /\ up = [k \in AllConns |-> TRUE]
    /\ out = [k \in AllConns |-> <<>>] /\ in = [k \in AllConns |-> <<>>]
    /\ db = [k \in Keys |-> ""]
    /\ exited = FALSE
    /\ handled = [c \in Calls |-> nil] /\ shared = {} /\ late = {}

-----------------------------------------------------------------------------
(* The caller                                                              *)

\* The goroutine is started on connection k.  If another is still using it, the
\* frames and numbers of k mean nothing from here on.
Go(c, k) ==
    /\ cpc[c] = "start"
    /\ cpc' = [cpc EXCEPT ![c] = "wait"]
    /\ gpc' = [gpc EXCEPT ![c] = "send"]
    /\ via' = [via EXCEPT ![c] = k]
    /\ IF Using(k) = {}
       THEN UNCHANGED <<shared, out, in>>
       ELSE /\ shared' = shared \cup {k}
            /\ out' = [out EXCEPT ![k] = <<>>] /\ in' = [in EXCEPT ![k] = <<>>]
    /\ late' = IF out[k] \o in[k] = <<>> THEN late ELSE late \cup {c}
    /\ UNCHANGED <<request, chan, result, num, seqId, up, db, exited, handled>>

\* ThriftPool.Get: the first idle connection, or one dialled anew.
CallIdle(c) ==
    /\ request[c].name # "Ping"
    /\ idle # <<>>
    /\ Go(c, Head(idle))
    /\ idle' = Tail(idle)
    /\ UNCHANGED dialled

CallDial(c, k) ==
    /\ request[c].name # "Ping"
    /\ idle = <<>> /\ k \notin dialled
    /\ Go(c, k)
    /\ dialled' = dialled \cup {k}
    /\ UNCHANGED idle

\* Get fails: the dial does, or the pool is at its limit.
CallRefused(c) ==
    /\ request[c].name # "Ping"
    /\ idle = <<>> /\ cpc[c] = "start"
    /\ cpc' = [cpc EXCEPT ![c] = "error"]
    /\ UNCHANGED <<request, gpc, via, chan, result, num, poolVars, wireVars, db, exited,
                   histVars>>

\* checkNode pings one at a time, with a connection of its own.
CallPing(c) ==
    /\ request[c].name = "Ping"
    /\ \A d \in Calls : request[d].name = "Ping" => cpc[d] # "wait"
    /\ Go(c, CheckConn)
    /\ UNCHANGED poolVars

\* The call returns; the deferred Put puts the connection back.
Return(c, how) ==
    /\ cpc[c] = "wait"
    /\ cpc' = [cpc EXCEPT ![c] = how]
    /\ idle' = IF via[c] = CheckConn THEN idle ELSE Append(idle, via[c])
    /\ UNCHANGED <<request, gpc, via, chan, result, num, dialled, wireVars, db, histVars>>

\* case rpcResp := <-ch, case err := <-ech
Receive(c) ==
    /\ chan[c] # "empty"
    /\ Return(c, chan[c])
    /\ UNCHANGED exited

\* case <-ctx.Done(); for a Ping, checkNode then ends the program.
Timeout(c) ==
    /\ Return(c, "timeout")
    /\ exited' = (request[c].name = "Ping")

-----------------------------------------------------------------------------
(* The goroutine: KVClient, and Call of TStandardClient                    *)

\* KVClient.Ping, Get, Put and MultiPut: the arguments of the call
ArgsOf(r) ==
    CASE r.name = "Ping"     -> WriteKVPingArgs(<<>>)
      [] r.name = "Get"      -> WriteKVGetArgs([Req |-> r.req])
      [] r.name = "Put"      -> WriteKVPutArgs([Req |-> r.req])
      [] r.name = "MultiPut" -> WriteKVMultiPutArgs([Reqs |-> r.req])

\* and what they return of its result
SuccessOf(name, w) ==
    CASE name = "Ping"     -> ReadKVPingResult(w).Success
      [] name = "Get"      -> ReadKVGetResult(w).Success
      [] name = "Put"      -> ReadKVPutResult(w).Success
      [] name = "MultiPut" -> ReadKVMultiPutResult(w).Success

Message(type, name, seq, body, from) ==
    [type |-> type, name |-> name, seq |-> seq, body |-> body, from |-> from]

\* What is left of a frame reads as no message.
Broken == Message("BROKEN", "", 0, <<>>, nil)

\* The goroutine ends, with a response or with an error, which nobody reads
\* from the channel once the caller has returned.
End(c, what, resp) ==
    /\ gpc' = [gpc EXCEPT ![c] = "end"]
    /\ num' = [num EXCEPT ![c] = 0]
    /\ IF cpc[c] = "wait" THEN /\ chan' = [chan EXCEPT ![c] = what]
                               /\ result' = [result EXCEPT ![c] = resp]
                          ELSE UNCHANGED <<chan, result>>
    /\ UNCHANGED <<request, cpc, via, poolVars, db, exited, histVars>>

\* The call is numbered (p.seqId++), written and flushed.
SendRequest(c) ==
    LET k == via[c]
    IN  /\ gpc[c] = "send" /\ up[k] /\ k \notin shared
        /\ gpc' = [gpc EXCEPT ![c] = "recv"]
        /\ num' = [num EXCEPT ![c] = seqId[k] + 1]
        /\ seqId' = [seqId EXCEPT ![k] = @ + 1]
        /\ out' = [out EXCEPT ![k] = Append(@,
               Message("CALL", request[c].name, seqId[k] + 1, ArgsOf(request[c]), c))]
        /\ UNCHANGED <<request, cpc, via, chan, result, poolVars, in, up, db, exited,
                       histVars>>

\* The server has closed the connection, which TSocket.IsOpen does not see:
\* the write fails, or the read that follows it.
SendFails(c) ==
    /\ gpc[c] = "send" /\ ~up[via[c]]
    /\ End(c, "error", nil)
    /\ UNCHANGED wireVars

\* Mutant: a reply is not checked against the number of the call.
MutantIsReply(c, m) == m.name = request[c].name

\* Recv goes on after the message's header.
IsReply(c, m) == m.name = request[c].name /\ m.seq = num[c]

\* A reply is read, an exception too; of any other frame the header is read,
\* and the rest of it left for the next read.
Recv(c) ==
    LET k == via[c]
        m == Head(in[k])
    IN  /\ gpc[c] = "recv" /\ in[k] # <<>> /\ k \notin shared
        /\ \/ /\ IsReply(c, m) /\ m.type = "REPLY"
              /\ End(c, "ok", SuccessOf(m.name, m.body))
              /\ in' = [in EXCEPT ![k] = Tail(@)]
           \/ /\ IsReply(c, m) /\ m.type = "EXCEPTION"
              /\ End(c, "error", nil)
              /\ in' = [in EXCEPT ![k] = Tail(@)]
           \/ /\ ~IsReply(c, m)
              /\ End(c, "error", nil)
              /\ in' = [in EXCEPT ![k] = IF m = Broken THEN Tail(@)
                                                       ELSE <<Broken>> \o Tail(@)]
        /\ UNCHANGED <<seqId, out, up>>

\* The socket's own timeout (connTimeout), or the end of the connection.
RecvFails(c) ==
    /\ gpc[c] = "recv"
    /\ End(c, "error", nil)
    /\ UNCHANGED wireVars

-----------------------------------------------------------------------------
(* The server: KVProcessor and kvImpl                                      *)

Header == [ClusterID |-> 0, NodeID |-> 0, ConsumeTime |-> 1, NodeIP |-> "0.0.0.0:xxx"]

\* What a handler returns: the response, or nil for an error, and the database.
Handler(resp, after) == [resp |-> resp, db |-> after]

Ping == Handler([OK |-> TRUE, Errors |-> ""], db)

\* Lookup: a key without a value, or with an empty one, is not found.
Get(req) ==
    Handler(IF db[req.Key] = "" THEN nil
            ELSE [Header |-> Header,
                  Kvs    |-> <<[Key |-> req.Key, Value |-> db[req.Key]]>>], db)

Put(req) == Handler([Header |-> Header], [db EXCEPT ![req.Key] = req.Value])

\* One batch: of two requests for a key the later one counts.
MultiPut(reqs) ==
    Handler([Header |-> Header],
            [k \in Keys |->
                LET at == {i \in DOMAIN reqs : reqs[i].Key = k}
                IN  IF at = {} THEN db[k] ELSE reqs[Max(at)].Value])

\* kVProcessorX.Process: reads the arguments, runs the handler on them and
\* writes its result.
Processed(req, h, body) == [req |-> req, resp |-> h.resp, db |-> h.db, body |-> body]

kVProcessorPing(w) ==
    Processed(ReadKVPingArgs(w), Ping, WriteKVPingResult([Success |-> Ping.resp]))

kVProcessorGet(w) ==
    LET req == ReadKVGetArgs(w).Req
    IN  Processed(req, Get(req), WriteKVGetResult([Success |-> Get(req).resp]))

kVProcessorPut(w) ==
    LET req == ReadKVPutArgs(w).Req
    IN  Processed(req, Put(req), WriteKVPutResult([Success |-> Put(req).resp]))

kVProcessorMultiPut(w) ==
    LET reqs == ReadKVMultiPutArgs(w).Reqs
    IN  Processed(reqs, MultiPut(reqs), WriteKVMultiPutResult([Success |-> MultiPut(reqs).resp]))

\* processorMap
ProcessorOf(m) ==
    CASE m.name = "Ping"     -> kVProcessorPing(m.body)
      [] m.name = "Get"      -> kVProcessorGet(m.body)
      [] m.name = "Put"      -> kVProcessorPut(m.body)
      [] m.name = "MultiPut" -> kVProcessorMultiPut(m.body)

Reply(k, m) == /\ out' = [out EXCEPT ![k] = Tail(@)]
               /\ in' = [in EXCEPT ![k] = Append(@, m)]
               /\ UNCHANGED <<callVars, poolVars, seqId, exited, shared, late>>

Process(k) ==
    LET m == Head(out[k])
        p == ProcessorOf(m)
    IN  /\ out[k] # <<>> /\ up[k]
        /\ p.resp # nil
        /\ Reply(k, Message("REPLY", m.name, m.seq, p.body, m.from))
        /\ db' = p.db
        /\ handled' = [handled EXCEPT ![m.from] = [req |-> p.req, resp |-> p.resp]]
        /\ UNCHANGED up

\* The handler fails, for want of the key or with an error of the database: an
\* exception is written, and TSimpleServer closes the connection.
ProcessFails(k) ==
    LET m == Head(out[k])
    IN  /\ out[k] # <<>> /\ up[k]
        /\ m.name # "Ping"
        /\ Reply(k, Message("EXCEPTION", m.name, m.seq, <<>>, m.from))
        /\ up' = [up EXCEPT ![k] = FALSE]
        /\ UNCHANGED <<db, handled>>

-----------------------------------------------------------------------------
(* A connection two goroutines have used at a time.  seqId, the write      *)
(* buffer and the read buffer of the client are then subject to data       *)
(* races: a goroutine may get the reply of the other, parts of both or an  *)
(* error, and the server a request made of both, or one it cannot read.    *)

SharedEnd(c) ==
    /\ gpc[c] \in {"send", "recv"} /\ via[c] \in shared
    /\ \/ End(c, "error", nil)
       \/ \E d \in Calls :
             /\ via[d] = via[c]
             /\ End(c, "ok", IF handled[d] = nil THEN nil ELSE handled[d].resp)
    /\ UNCHANGED wireVars

SharedProcess(k) ==
    /\ k \in shared /\ up[k]
    /\ \E c, d \in Calls :
          LET p == ProcessorOf(Message("CALL", request[c].name, 0, ArgsOf(request[d]), c))
          IN  /\ via[c] = k /\ via[d] = k /\ request[c].name = request[d].name
              /\ p.resp # nil
              /\ db' = p.db
              /\ handled' = [handled EXCEPT ![c] = [req |-> p.req, resp |-> p.resp]]
    /\ UNCHANGED <<callVars, poolVars, wireVars, exited, shared, late>>

\* KVProcessor.Process and args.Read fail on what they cannot read or do not
\* know, and TSimpleServer closes the connection.
SharedBroken(k) ==
    /\ k \in shared /\ up[k]
    /\ up' = [up EXCEPT ![k] = FALSE]
    /\ UNCHANGED <<callVars, poolVars, seqId, out, in, db, exited, histVars>>

-----------------------------------------------------------------------------
Caller(c) ==
    \/ CallIdle(c) \/ CallRefused(c) \/ CallPing(c)
    \/ (\E k \in Conns : CallDial(c, k))
    \/ Receive(c) \/ Timeout(c)

Goroutine(c) ==
    SendRequest(c) \/ SendFails(c) \/ Recv(c) \/ RecvFails(c) \/ SharedEnd(c)

Server(k) == Process(k) \/ ProcessFails(k) \/ SharedProcess(k) \/ SharedBroken(k)

Next ==
    /\ ~exited
    /\ \/ \E c \in Calls : Caller(c) \/ Goroutine(c)
       \/ \E k \in AllConns : Server(k)

Spec == Init /\ [][Next]_vars

-----------------------------------------------------------------------------
(* Properties                                                              *)

\* A call that returns a response got the one its own request was answered
\* with, and the handler saw the request as the caller made it, for all that
\* replies to earlier calls may still be on the connection.  Only on a
\* connection that two goroutines have used at a time, which takes a call that
\* timed out (client.go:229, 261, 293), may it get another.
ExchangeFaithful ==
    \A c \in Calls : cpc[c] = "ok" =>
        \/ handled[c] = [req |-> request[c].req, resp |-> result[c]]
        \/ /\ via[c] \in shared
           /\ \E d \in Calls : via[d] = via[c] /\ cpc[d] = "timeout"

\* A connection that a reply was left on is lost to the pool: a call that is
\* begun on it, and has it to itself, never succeeds, as it reads the reply
\* to an earlier one (the deferred Put, test/thrift/client/client.go:208, asks
\* only whether the connection is open).
LateCallFails ==
    \A c \in late : cpc[c] = "ok" => via[c] \in shared
=============================================================================
