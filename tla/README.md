# grpcvsthrift: TLA+ models, model checking and proofs

The repository measures gRPC against Thrift: the same key-value service, on the same RocksDB
store, behind both, and a load generator for each. What can go wrong in it is not the
key-value logic, which is a call into RocksDB, but the machinery around it: a connection pool
and a health checker written for the Thrift side, a balancer, resolver and retry interceptor
taken over from etcd for the gRPC side, a health service with streams, and a double-buffered
queue that both load generators share. All of it is concurrent, and nothing of it has a test.
This directory models that machinery, the calls that run through it and the servers at their
end, checks the models with TLC and proves the central invariants with TLAPS.

Paths below are relative to the repository; line numbers are those of the commit the models
were written from.

## 1. Inventory

| Component | Source | State | Operations | Meets |
|---|---|---|---|---|
| Thrift pool | `thrift/client/pool/pool.go`, `thrift/client/dial.go` | idle list (mutex), `count` (atomics) | `Get`, `Put`, `CloseErrConn`, `CheckTimeout`/`ClearConn`, `Release` | callers, its own cleaner goroutine, the node that releases it |
| Thrift node | `thrift/client/client.go`, `conn.go` | per server: `state`, check client, `lastStatus`, pool, mutex; exit channel, WaitGroup | `NewServerNode`, `checkNode`, `Ping`, `Release`, `downConn`, `upConn`, `Close`, `ChooseNodeConn` | owns a pool per server; used by the load generator |
| Request queue | `internal/messagequeue/queue.go`, `thriftqueue.go` | two buffers, write side, index, `stopped` (mutex) | `Add`, `Get`, `Close` | load generators: senders Add, consumers Get |
| Health service | `grpc/server/api/health.go` | status map, `shutdown`, one channel per stream (mutex) | `Check`, `Watch`, `SetServingStatus`, `Shutdown`, `Resume` | gRPC server, one goroutine per stream |
| Balancer | `grpc/client/balancer/balancer.go`, `connectivity/`, `picker/` | three maps, recorder's counters, picker | `HandleResolvedAddrs`, `HandleSubConnStateChange`, `Pick` | called by gRPC: addresses from the resolver, reports of SubConns, picks of RPCs |
| Resolver | `grpc/client/balancer/resolver/resolver.go` | registry of groups, per group endpoints and registered connections (two mutexes) | `NewResolverGroup`, `SetEndpoints`, `Build`, `Close` of a group and of a Resolver | gRPC client above, gRPC connections below |
| gRPC client | `grpc/client/client.go`, `config.go` | group, connection, context, `cfg` | `NewGRPCClient`, `SetEndpoints`, `Endpoints`, `Close` | resolver and retry |
| Retry | `grpc/client/retry.go` | per call: attempt, last error, context; per stream: stream in use, buffered sends, `receivedGood` | unary and stream interceptor, `isSafeRetry`, `waitRetryBackoff`, `SendMsg`, `RecvMsg` | wraps every RPC; back-off reads the client's endpoints |
| Load generators | `test/grpc/client`, `test/thrift/client` | two bounded channels, queue, WaitGroup | `genData`, `SingleSend`, `MultiSend`, `Recv`, `consumeMQ`, `Stop` | the clients above |
| Thrift calls | `test/thrift/client` (`Get`, `Put`, `MultiPut`), `thrift/client/conn.go` (`Ping`), `thrift/rpc/rpc.go`, `thrift/server/kv.go` | per call a goroutine, two channels and a timer; per connection a sequence number and the frames on it | call, receive, time out, put back; `Write` and `Read` of every struct; `Process` | pool below, load generator and checker above, Thrift server |
| Servers, store | `grpc/server`, `thrift/server`, `rocksdbstore` | database handle, read-write lock; per stream the batch so far | `Start`, `Get`, `Put`, `PutStream`/`MultiPut`, `Stop`; `Lookup`, `Write`, `BatchWrite`, `Close` | RocksDB, `grpc.Server`, `TSimpleServer` |
| Rest | `internal/generate`, `grpc/rpcpb`, `k_v-remote`, `app.go` | none | random keys, protobuf code, a command line, empty main | |

What is hard in each, and what makes it correct:

* **Pool**: the counter moves by atomics outside the mutex, dials and closes happen with no
  lock held, and Release resets the counter while others use it. Correct: the counter is the
  number of connections, the quota bounds the idle list, a connection has one owner and is
  never lost open, unused ones are closed in the end.
* **Node**: `Ping` works on fields that `Close` clears under a mutex `Ping` does not take.
  Correct: no nil dereference, `Close` ends and stops the checker, a server that fails is
  taken out and comes back.
* **Queue**: `Get` returns a slice of the buffer it swaps out, not a copy. Correct: a FIFO
  queue with batch reads, and a known lifetime for that slice.
* **Health**: the status setter writes to all streams' channels with the mutex held. Correct:
  it never blocks, no stream is left with an old status, Shutdown wins over SetServingStatus.
* **Balancer**: reports arrive late, also of SubConns that were removed. Correct: exact
  unsigned counters, a picker that fits the reports, maps that agree, convergence.
* **Resolver, client**: registration and update overlap; construction fails half-way.
  Correct: connections get the current endpoints, nothing is left behind.
* **Retry**: an attempt may fail after the server has executed it, and a stream after it has
  delivered. Correct: mutable requests run once, the loop neither stops early nor late, it
  backs off once per quorum, and no caller sees two streams as one.
* **Load generators**: goroutines meet at bounded channels, a queue and a WaitGroup while
  `Stop` tells them to leave. Correct: everybody leaves and `Stop` returns.
* **Thrift calls**: a caller that times out puts back a connection on which its goroutine is
  still waiting for a reply. Correct: nobody gets the answer to somebody else's request, and
  requests arrive as they were made.
* **Servers, store**: `Stop` closes the store, which frees the database; reads lock, writes do
  not. `PutStream` takes every error of the stream for its end. Correct: nobody uses a closed
  database, what is acknowledged is stored, `Stop` returns.

`PROJECT.json` lists these hazards one by one at the line where they bite.

## 2. Modules

| Module | Models | Theorems |
|---|---|---|
| `ThriftPool` | the pool; one action per critical section, atomic or socket operation | `ThriftPoolProofs` |
| `ThriftNode` | node, checker and the goroutines of its Pings, `Close`, and users of a chosen Conn | `ThriftNodeProofs` |
| `EntryQueue`, `BatchQueue` | the double buffer, and the abstract batch queue it implements | `EntryQueueProofs` |
| `HealthServer` | status changes, Shutdown/Resume and Watch streams; one action per channel operation | `KVServerProofs` |
| `Balancer` | balancer, recorder and pickers against gRPC's reports | `BalancerProofs` |
| `Resolver` | the registry, the groups and the Resolvers; one action per critical section or notification | `GrpcClientProofs` |
| `GrpcClient` | extends `Resolver`: clients, beside other users of the package | `GrpcClientProofs` |
| `Retry` | one unary call with its retries, back-off and context | `RetryProofs` |
| `StreamRetry` | extends `Retry` by streams: a call is unary, a server stream or a client stream | `RetryProofs` |
| `LoadGenerator` | both load generators, which differ in a few steps (`kind`) | `EntryQueueProofs` |
| `ThriftWire` | the generated structs: what each `Write` puts on the wire and each `Read` makes of it | `ThriftRpcProofs` |
| `ThriftRpc` | calls from end to end over pooled connections: callers, `KVClient`, `KVProcessor`, handlers; extends `ThriftWire` | `ThriftRpcProofs` |
| `KVServer` | both servers (`kind`) and the store: handlers against `Stop`, and `PutStream` | `KVServerProofs` |

Where one proof module serves two components (the queue and the load generators that use it,
the servers and their health service), or one module extends another, the second component's
`Init`, `Next`, `Spec` and so on carry its name (`LoadSpec`, `HealthSpec`, `ClientSpec` in
`GrpcClient`, `CallSpec` in `StreamRetry`). `BalancerSpec` is named in the same way.

`MC*.tla` and `*.cfg` are the instances for TLC. A definition called `Mutant...` is a
plausible bug next to the definition it would replace; it is no part of any specification,
and is there to show that a property notices it.

How state and actions correspond to the code:

* **ThriftPool.** `idle` is the list with ages instead of time stamps, `count` the counter,
  `open` the sockets that are open. `pc`/`cl` say where a caller is in `Get` or `Put` and
  which connection it carries, `cleanPc`/`cleanCl` and `relPc`/`relList` the same for
  `ClearConn` and `Release`. `GetHit`, `GetMiss`, `GetOverMax` are the three ways out of the
  critical section of `Get`, `DialOk`, `DialError`, `GetDialed`, `GetChecked` what follows it;
  `PutTest` and `PutPush` are the unlocked test and the locked push. A socket may die at any
  time (`Disconnect`). `released` is history. The status word is left out: nothing sets it.
* **ThriftNode.** Each unlocked read of `checkClient` or `ThriftPool` is a step of its own, and
  so are the two halves of `Conn.Close` and `Conn.Release` (close, then forget) under the
  mutex. `kpc` is the checker, `gpc` the goroutine of its last `Ping`: after a timeout the
  checker goes on (`PingTimeout`) and the goroutine stays where it is. There is one at most,
  since no Ping follows a timeout. `process` says
  whether the program still runs: `log.Fatalf` and nil dereferences end it. Node.Close is
  called once (a second call closes a closed channel).
* **EntryQueue.** `buf`, `leftInWrite`, `idx`, `stopped` are the fields; a producer's `Add`
  that finds the queue full reads `stopped` after the unlock, hence `pc`. `slice` is the
  slice header that a consumer got; `accepted`, `handed`, `seen`, `later` are history.
* **HealthServer.** While a status change holds the mutex, `notify` has the streams still to
  be told and `cleared` the one whose channel was just drained. `chan` is the channel of
  capacity one, `last` `lastSentStatus`, `got` what the client has received.
* **Balancer.** `addrToSc`, `scToAddr`, `scToSt`, `recorder`, `picker` are the fields; `real`,
  `reports`, `asked` are gRPC's side: the true state, reports under way, Connect calls.
* **Resolver.** `held` is the endpoints that `addResolver` captured before the unlock, `found`
  the group that `Resolver.Close` has looked up. `late` is history: connections whose
  notification came after that of an overlapping `SetEndpoints`.
* **GrpcClient.** `st` is where construction or Close is. A step that calls the resolver package
  is the conjunction of the client's step with the action of `Resolver`. Other users
  (`OtherUsers`) do whatever `Resolver` allows with their own groups and connections; a
  client's id is a UUID, so they do not know it. With no clients this is `Resolver` alone.
* **Retry.** An error is the class the code can tell (`Errors`); `applied` counts attempts the
  server executed. `retryPolicy` and `max` are chosen at the start of the call.
* **StreamRetry.** `RecvMsg` shares the loop of `Retry`: its attempt 0 receives from the stream
  in use, each later one goes through `Reestablish` first. `stream` numbers the streams,
  `request` is how many messages the one in use has been sent, `from` is history.
* **LoadGenerator.** `chan` and `mq` count the requests in the channels and in the queue, `gpc`,
  `wpc`, `cpc` say where `genData`, each sender or receiver and `consumeMQ` are, `helpers`
  counts the goroutines that `MultiSend` starts at a full queue. A call to the server is the
  time between two steps; `StartPanics` is `ChooseNodeConn` without a server. The model
  starts goroutines of all three kinds and takes any `rwRatio`; `main` starts one kind (the
  others are commented out there) and passes 0.
* **ThriftWire.** A struct on the wire is the sequence of its fields with id and type; `ReadField`
  is the loop of every `Read` (the last field with the id and the type counts, others are
  skipped, a missing one keeps its zero). The optional fields, the nil pointers and the lists
  are as generated; bytes and protocol errors are left out.
* **ThriftRpc.** `cpc` is the caller, `gpc` its goroutine, `chan`/`result` what the goroutine
  left for the caller, `via` the connection. `idle` is the pool's list without quota and ages
  (those are `ThriftPool`'s). `out` and `in` are the frames under way, `num` and `seqId` the
  numbers of `TStandardClient`. Once two goroutines use a connection at a time (`shared`), its
  buffers and numbers are subject to data races: `SharedEnd`, `SharedProcess` and
  `SharedBroken` choose among what can come of it. `handled`, `shared`, `late` are history.
* **KVServer.** `pc` is the server's side of a connection, from `reading` through the handler to
  `respond` or `fail`; `rlock` the holders of the store's read lock; `db` the handle: `open`,
  `freed` by `db.Close`, `nil` at the end of `RocksdbStore.Close`. The requests of a batch are
  counted (`sent`, `taken`, `stored`). `StreamEOF`, `StreamRefused` and `StreamBreaks` are the
  three ways out of the receive loop. `crashed` is a nil dereference or the use of freed memory.

## 3. Runs

All runs finish in a few minutes; sizes are distinct states.

| Run | Instance | Size | Shows |
|---|---|---|---|
| `pool` | 2 callers, 3 connections, quota 1, one Release, ages to 2 | 246 k | `CountExact`, `IdleWithinMax`, `BoundedByCallers`, `SingleOwner` (one owner, none lost open); `IdleReaped` |
| `pool_refusal` | 2 callers, one Release | | fails: refusal with no connection left |
| `queue` | see `MCEntryQueue` | 78 k | `Conservation`, `SliceDecay`, `StoppedIsFinal`, refinement of `BatchQueue` |
| `health` | 2 services, 2 streams | 395 k | `ShutdownAllDown`, `NeverBlocks`, `NotStale`; `LatestDelivered` |
| `balancer` | 2 addresses, 3 SubConns | 198 k | `RecorderExact`, `PickerCurrent` (the picker fits the reports, and fails fast exactly when told to), `MapsAgree`, `NotStranded`; `Converges` |
| `grpc_client` | a client; beside it 2 groups that share an id, a connection to it; 2 endpoint lists | 232 k | `CurrentUnlessLate`, `ClosedStaysOnlyInOrphans`, `RegisteredExactlyInUse` (nothing is left of a failed construction either), `ConnCurrent`; `TearsDown` |
| `retry` | unary calls and streams, up to 5 attempts, 0 to 4 endpoints, both policies | 193 k | `AtMostOnceButContext`, `GivesUpLate`, `WaitsEveryQuorum`, `OneStreamDelivers`; `Returns` |
| `thrift_node` | 2 servers, 2 users | 27 k | `PanicOnlyAfterClose`, `CloseWaited`; `CloseReturns` |
| `node_recovery` | 2 servers, no users | | fails: a server whose Ping failed is not dialled again |
| `load` | one goroutine of each kind, channels and queue of one place | 31 k | `HangIsFinal`; `StopReturns` |
| `thrift_rpc` | 3 calls over one pooled connection and the check connection, three mixes of methods | 383 k | `ExchangeFaithful`, `LateCallFails` |
| `servers` | either server, 2 connections, batches up to 2 | 45 k | `DatabaseUsedOpen`, `AckedIsStored`; `StopHangsOnSilence` |

**Bounds, and why they are enough.** Two of everything that competes is what the races need:
two callers with quota one go over it; two streams of one service are told one after the
other; two groups can share an id. One more of what is replaced: a third connection for the
time after a Release, a third SubConn for an address that returns while its old SubConn shuts
down. What the proofs cover holds for all sizes, so the instances only have to be large
enough for the rest. Named bounds: ages stop at `IdleTimeout` (nothing changes beyond it);
`MaxReports` is the number of a SubConn's own state changes under way (a removal is added to
them at any time); `Width` is 16 instead of 2^64, above the number of SubConns as 2^64 is; `MaxRetries` is 5
instead of 100, two rounds of the largest quorum with one to spare; the queue's inputs are
bounded by the number of entries a producer may still offer; `MaxHelpers` is the number of
batch goroutines that have yet to `Get` (at the bound a sender waits for one, which the code
does not; they touch nothing but the queue). Three calls are what a stale reply needs: one
that times out, one that reads its reply, one after that; with one pooled connection they
cannot avoid each other. A batch of two can be cut between its requests. Channels of one place are full
or empty at every point of everybody else, which is all that `Stop` depends on.

**Fairness.** Only what the code guarantees by itself: `ClearConn` is an endless loop around a
finite sleep and time goes on (pool); whoever holds the health mutex goes on, and a stream
that waits in its select is handed what is sent to its channel, hence strong fairness for
receiving; gRPC's watcher goroutine delivers reports (balancer); a started teardown of a
client goes on; timers fire and the invoker returns (retry); Node.Close once called and
checkNode go on (a Ping has a timeout, so nothing is assumed of the goroutine that waits for
the server), and a select whose exit channel is closed takes it in the end although the
ticker may win any number of times (strong fairness; so too in the load generators, where
the other ready channel may win). In the load generators calls to the server return: Thrift's
have a time-out of two seconds, gRPC's have none (`context.Background()`), so for gRPC this is
an assumption about the server and the keep-alive of the connection. A receive of a stream may
wait for ever; gRPC ends it when its context ends. In the servers, handlers and a `Stop` that
has begun go on, and nothing is assumed of clients, who may keep a connection silent or a
stream open: the receive loop of `PutStream` is under no fairness. Otherwise no caller, producer, user or server is
assumed to do anything.

Deadlock is checked except where the system may stop: when all clients are closed, when the
call has returned, when the process has ended or a hung `Stop` is all that is left of it, when
all calls have been made, and when a stopped server has no handler left.

## 4. Proofs

All theorems are for every value of the constants, under the named assumptions of the modules:
sets that are counted are finite, counts are natural numbers (of servers and of a batch positive), nil values
(`NoConn`, `NoGroup`, `NoEps`, `None`, `nil`) are not members of what they stand beside, the
counters of the balancer are wider than the number of SubConns (2^64 in the code), and the
strings of the wire include the empty one and the keys. Each proof is an inductive invariant,
checked step by step, one case per action, and the temporal conclusion by propositional
temporal logic. All specifications proved about are without fairness, so nothing rests on it.

* `ThriftPoolProofs`, invariant `PoolInv`: `TypeCorrect`, `CounterIsExact`,
  `IdleListWithinQuota`, `PoolBoundedByCallers`. `IdleWithinMax` is not inductive: that the
  unlocked test in `Put` suffices rests on `CountExact` (who is past the test is counted), and
  that on the type of `cl` (a caller has a connection exactly where the code has one) and on
  `ReleaseMarked` (a Release under way is on record). `BoundedByCallers` rests on the dial
  happening only with an empty list. Invariant `OwnerInv`: `OneOwner`, for any number of
  Releases. `SingleOwner` is split into `Apart` (no connection in two hands) and `OpenHeld`
  (no open one in none); it needs in addition that `ClearConn` has closed what it uncounts and
  that a Release that has not detached the list holds none.
* `ThriftNodeProofs`, invariant `NodeInv`: `NeverRestored`, `NoPanicBeforeClose`, `CloseWaits`.
  `Places` says where the constructor, the checker, its goroutine, `Close` and the users are
  relative to each other; `Intact` that the unlocked reads find what they need as long as
  nobody has forgotten a check client or a pool (`Undisturbed`: no Close, and the checker is
  not on its way from `Release` or `downConn` to `log.Fatalf`). `NeverRestored` is why lines
  105-111 of `client.go`, and `upConn`, can be left out of the model: `DownIsTheEnd`, a
  conjunct of the invariant, says that a Conn marked Down is never pinged again.
* `ThriftRpcProofs`, invariant `RpcInv`: `OwnAnswer`, `BehindForGood`. First, that every `Read`
  gives back what the `Write` of the same struct has put on the wire (`HealthRead` to
  `PutResultRead`), so that what the processor passes to the handler is the request and what
  the client returns is the handler's response (`Served`). Then: two goroutines meet on a
  connection only after a timeout (`Sharing`), every frame is the request or the answer of one
  call that was sent there (`Frames`), a frame with the number a call waits for is its own
  (`Numbered`, `OwnNumber`), and what was received stays so (`Settled`). For a call that began
  late, a reply with another number is always in front of its own (`Delayed`).
* `EntryQueueProofs`, invariant `QueueInv`: `EntriesConserved`, `SliceStability`,
  `ImplementsBatchQueue`. `Conservation` needs `Filled` (the first `idx` places of the write
  side hold entries); `SliceDecay` needs `SlicePlace` (which buffer a slice lies in, by the
  number of Gets since). The refinement maps the waiting part of the write buffer to the
  abstract queue; each step is a step or a stutter of `BatchQueue`. `NothingAfterStopped`, an
  action property, needs that a producer that was told so finds the queue stopped
  (`ToldStopped`). For the load generators, invariant `LoadInv`: `HungForGood`, another action
  property. It rests on the WaitGroup's counter being exactly those who have yet to call
  `Done` (in `LoadTypeOK`), and on `NoReceiver`: Thrift's program starts no receiver that could
  empty the channel its generator is stuck at.
* `KVServerProofs`, invariant `ServerInv`: `DatabaseOpenInUse`, `AcknowledgedIsStored`. A read
  is protected by the lock (`ReadsLocked`), a Thrift write only by the order of `Stop`: no
  connection is served any more when it comes to the store (`ThriftDrained`,
  `OpenUntilClose`). `AckedIsStored` needs what each stage of a handler has got so far
  (`Progress`). For the health service, invariant `HealthInv`: `ShutdownHolds`,
  `SettersNeverBlock`, `StreamsNeverStale`. `ShutdownAllDown` holds only with the mutex free,
  so the invariant says what is true half-way (`ShutdownProgress`: what is not yet set is in
  `todo`), and `NotStale` likewise (`Announced`: who has not been told is in `notify`).
* `BalancerProofs`, invariant `BalancerInv`: `CountersExact`, `PickerFits`, `MapsConsistent`,
  `NobodyStranded`. The four properties hold together, and need the life of a SubConn as gRPC
  sees it (`Lifecycle`: its reports end with the state it is really in, none but the last is
  Shutdown, and what is idle with nothing to report was asked to connect). That a counter does
  not wrap is arithmetic over the sizes of disjoint sets of SubConns.
* `GrpcClientProofs`, for any clients and any other users of the resolver package beside them.
  Invariant `ResolverInv`: `ResolverTypeCorrect`, `StaleOnlyByOverlap`, `CloseDeregisters`.
  `CurrentUnlessLate` needs the same of connections whose notification is pending
  (`PendingUnlessLate`), and where a connection can be registered (`RegisteredAtHome`,
  `Registry`, `ClosingFromHome`); clients keep it, as their steps in the package are steps of
  `Resolver` (lemma `ClientTakesResolverStep`). Invariant `ClientInv`: `RegistryHasClientsInUse`
  and `ClientConnCurrent`. `ClientState` says for each stage of a client where its group and
  its connection are; a step of one client leaves everyone else's alone (`OthersKept`), and the
  other users never get at a client's group, id or connection (`Apart`), although they walk
  from connection to group to id to another group.
* `RetryProofs`, invariant `RetryInv`: `SecondExecutionNeedsContextError`, `NoEarlySurrender`.
  The loop variable counts the invocations (`LoopCounts`); before the call returns, executed
  attempts are matched by context errors (`AppliedByContext`). Invariant `PaceInv`:
  `BacksOffEveryQuorum`; the attempts made are whole quorums and those since the last wait
  (`Paced`), and the wait comes where `attempt % quorum` is zero. Invariant `StreamInv`:
  `NoSecondStream`. That all messages come from one stream rests on the loop running only
  before the first good message (`LoopBeforeGood`), on `from` naming no stream but the one in
  use (`FromStreamInUse`), and on the request being buffered exactly once (`RequestKept`),
  which a new stream is then sent. `CallTypeCorrect` puts the types of all three together.

Only model-checked: the liveness properties `IdleReaped`, `LatestDelivered`, `Converges`,
`TearsDown`, `Returns`, `CloseReturns`, `StopReturns` and `StopHangsOnSilence`, since the prover
handles neither fairness nor ENABLED. Every other property of a passing run is proved. The
type invariants are conjuncts of the inductive invariants and no run lists them.

## 5. What the models show about the code

Found by runs that fail (details with the quoted lines in `PROJECT.json`):

* `pool_refusal`: a Release that overlaps a dial and a Put leaves the pool's counter too high
  for good; with the quota reached, `Get` refuses although no connection exists.
* `node_recovery`: the comment at `thrift/client/client.go:99` says that after a failed `Ping`
  the next one dials the check client again, and lines 105-111 with `upConn` restore a server
  that is back. But line 103 ends the process (`log.Fatalf`), and there is no next Ping: the
  recovery never happens (`NeverRestored`, proved). A Ping that times out ends the process
  too (line 95), against line 93, which counts on a pool that fills again.

Seen in passing runs and their state graphs:

* The pool opens more connections than `maxConn` when callers find the list empty at the same
  time. It is bounded all the same: by the number of callers (`BoundedByCallers`, proved).
* The unary interceptor repeats a mutable request after a context error of the server,
  against the write-at-most-once rule its own comment states. It is the only way to a second
  execution (`AtMostOnceButContext`, proved).
* A Thrift call that times out leaves a connection in the pool with a reply to come. If the next
  caller takes it at once, two goroutines share it, with all that a data race can do
  (`ExchangeFaithful`, proved, names this exception and no other). If the goroutine has ended before,
  the number of the reply does not fit the next call, which fails and leaves the rest of the
  frame for the one after: no call on that connection ever succeeds again
  (`LateCallFails`, proved), and `Put` keeps it, since its socket is open.
* A handler that fails, for want of the key for instance, makes `TSimpleServer` close the
  connection. The pool takes it back all the same, and the next caller meets the error.
* `PutStream` writes and acknowledges the part of a batch before a message that was over the size
  limit (`grpc/server/kv.go:65-68`); the client counts the batch as sent. This, and a gRPC
  server stopped under the call, are the only ways to an acknowledgement of what is not stored
  (`AckedIsStored`, proved).
* The gRPC server's `Stop` closes the listener and then the store, under the handlers that still
  run, and writes take no lock (`rocksdbstore/store.go:136,140`): they use freed memory or a nil
  handle. Reads after `Stop` meet the nil handle, but never a database being closed. The
  Thrift server's `Stop` waits for all connections first and is safe (`DatabaseUsedOpen`,
  proved), but a client that keeps a silent connection makes it wait for ever; nothing else
  does (`StopHangsOnSilence`). `Stop` before `Start` of the gRPC server dereferences a nil
  listener.
* The stream interceptor never shows a caller two streams as one (`OneStreamDelivers`, proved); a
  failure to re-establish the stream ends the call although the policy would retry it.
* `Node.Close` during a `Ping` can end the process with a nil dereference: `Ping` and its
  goroutine read `checkClient` without the mutex (`conn.go:131,142,156`). Without a Close this
  can happen only between the checker's giving a Conn up and its `log.Fatalf`: the goroutine
  of a Ping that timed out reads the client that `Release` has just set to nil, or a user
  the pool that `downConn` has (`PanicOnlyAfterClose`, proved). The program ends either way,
  but with a panic instead of the message about the server.
* Thrift's `Stop` can hang for ever in two ways: `genData` blocks in a send to a full channel
  that the senders have left (`test/thrift/client/client.go:75,77`), and `consumeMQ` returns
  without `wg.Done` after a failed `MultiPut` (line 110). gRPC's `Stop` always returns: its
  generator selects on `exitchan` in the send too, and its consumer only counts errors
  (`StopReturns`; `HangIsFinal`, proved).
* A Conn that `ChooseNodeConn` returned can have a nil pool when it is used, after a Close or
  a failed Ping in between.
* A connection that registers while `SetEndpoints` runs can keep the old endpoints, although
  `resolver.go:69` says that all registered resolvers are updated immediately. A `GrpcClient`
  never does, since nobody has the client before its dial is over (`ConnCurrent`, proved).
* Two `NewResolverGroup` calls with one id can both succeed, against the error message at
  `resolver.go:126`: the id is looked up and stored in different critical sections. The only
  caller uses fresh UUIDs.
* `NewGRPCClient` never assigns `client.cfg`: `Endpoints()` is empty until the first
  `SetEndpoints` (the comment at `client.go:52` says it lists the registered endpoints), the
  back-off works with n = 0, and the keep-alive settings of the configuration are ignored.
* The slice that `Get` of the queue returns is good until the next Get, and decays from its
  front after that (`SliceDecay`, proved): a sender slower than that sends other requests.

## 6. Not modelled

* `upConn` (unreachable: `NeverRestored`), reporting functions, metrics, log output.
* String helpers of the resolver (`ParseEndpoint`, `ParseTarget`, `Dialer`) and dial options:
  no state, passed on to gRPC.
* gRPC, Thrift, RocksDB themselves: external, modelled by what the code here sees of them.
* `grpc/rpcpb` beyond its stream stubs: messages are encoded by the protobuf library from
  descriptors, and getters change nothing. `thrift/rpc/k_v-remote`: a generated command line
  around the client that `ThriftRpc` models.
* `LookupAppliedIndex`, `NALookup`, snapshots and iterators of the store: nothing calls them.
* Key generation (random strings), configuration records, the empty `main` of `app.go`.
* `NewGRPCClient` with an empty endpoint list panics at `client.go:195`; every configuration in
  the repository has one, and so has the model. `MultiSend` drops the request that finds the
  queue full (`QueueFull` does too); there is nothing to check about it.
* Go's own check of a WaitGroup that is used again while `Wait` returns: a goroutine of the
  load generator that starts after ten seconds is modelled as a late `Add`, not as a panic.

The client disables the stream interceptor (`withMax(0)`); it is modelled for every value of
the option, that one included.

## 7. Plan

Done, in this order, most central first: the pool and its proofs; the queue, its abstract
specification and refinement proof; the health service; the balancer; the resolver and the
client on top of it; the retry interceptor; the node; the load generators; calls over pooled
connections and the wire; the servers and the store; the stream interceptor.

After the models came their proofs, in the same order; by now every invariant, action property
and refinement that a run checks is proved, except liveness. What could be added: that the
quota of `ThriftPool` and the abstraction of it in `ThriftRpc` (an idle list without quota and
ages) are one pool, as a refinement; and the part of liveness that is safety, a step that
stays possible until it is taken, which needs ENABLED.
