--------------------------- MODULE LoadGenerator ---------------------------
(***************************************************************************)
(* test/grpc/client/client.go and test/thrift/client/client.go: the two    *)
(* load generators.  genData fills two bounded channels, SingleSend,       *)
(* MultiSend and Recv goroutines empty them, MultiSend by way of the       *)
(* request queue, which consumeMQ and goroutines started at a full queue   *)
(* send off in batches.  Stop closes exitchan and waits for the WaitGroup. *)
(*                                                                         *)
(* Requests are counted, not told apart; what becomes of a batch after Get *)
(* is EntryQueue's SliceDecay.  One action is one select, one channel, one *)
(* queue or one WaitGroup operation, or one call to the server.            *)
(***************************************************************************)
EXTENDS Integers, FiniteSets

CONSTANTS SingleSenders, MultiSenders, Receivers,  \* the goroutines main starts
          Cap,         \* capacity of the channels
          QueueSize,   \* size of the queue
          MaxHelpers   \* bound: batch goroutines under way

ASSUME LoadAssumption ==
    /\ IsFiniteSet(SingleSenders \cup MultiSenders \cup Receivers)
    /\ (SingleSenders \cup MultiSenders) \cap Receivers = {}
    /\ Cap \in Nat /\ QueueSize \in Nat /\ MaxHelpers \in Nat

Senders == SingleSenders \cup MultiSenders
Workers == Senders \cup Receivers

VARIABLES kind,      \* which of the two programs: "grpc" or "thrift"
          exitchan,  \* closed?
          stop,      \* main: "run", "wait" in Stop, "done" with it, or "panicked"
          wg,        \* the WaitGroup's counter
          chan,      \* sendChan and recvChan: requests in them
          mq,        \* requests in the queue
          gpc, gch,  \* genData: where it is, and the channel it sends to
          wpc,       \* the workers
          cpc,       \* consumeMQ
          helpers    \* batch goroutines that have yet to Get

genVars == <<gpc, gch>>
loadVars == <<kind, exitchan, stop, wg, chan, mq, genVars, wpc, cpc, helpers>>

Chans == {"send", "recv"}

\* Thrift's program has no Recv.
Started(w) == w \in Receivers => kind = "grpc"

Source(w) == IF w \in Receivers THEN "recv" ELSE "send"

\* Those that have called wg.Add and not wg.Done.  The consumer that left
\* after an error is one of them for good.
Registered ==
    Cardinality({w \in Workers : wpc[w] \in {"loop", "add", "call"}})
        + (IF gpc \in {"loop", "send"} THEN 1 ELSE 0)
        + (IF cpc \in {"loop", "call", "left"} THEN 1 ELSE 0)

LoadTypeOK ==
    /\ kind \in {"grpc", "thrift"}
    /\ exitchan \in BOOLEAN
    /\ stop \in {"run", "wait", "done", "panicked"}
    /\ chan \in [Chans -> 0..Cap]
    /\ mq \in 0..QueueSize
    /\ gpc \in {"start", "loop", "send", "stopped"}
    /\ gch \in Chans
    /\ wpc \in [Workers -> {"start", "loop", "add", "call", "stopped"}]
    /\ cpc \in {"start", "loop", "call", "left", "stopped"}
    /\ helpers \in 0..MaxHelpers
    /\ wg = Registered

LoadInit ==
    /\ kind \in {"grpc", "thrift"}
    /\ exitchan = FALSE
    /\ stop = "run"
    /\ wg = 0
    /\ chan = [c \in Chans |-> 0]
    /\ mq = 0
    /\ gpc = "start" /\ gch = "send"
    /\ wpc = [w \in Workers |-> "start"]
    /\ cpc = "start"
    /\ helpers = 0

-----------------------------------------------------------------------------
(* genData                                                                 *)

GenStart ==
    /\ gpc = "start"
    /\ wg' = wg + 1
    /\ gpc' = "loop"
    /\ UNCHANGED <<kind, exitchan, stop, chan, mq, gch, wpc, cpc, helpers>>

\* The default case: a request for one of the channels.  rwRatio is any value;
\* main passes 0, which leaves only sendChan.
GenRequest(c) ==
    /\ gpc = "loop" /\ ~exitchan
    /\ gpc' = "send" /\ gch' = c
    /\ UNCHANGED <<kind, exitchan, stop, wg, chan, mq, wpc, cpc, helpers>>

GenSend ==
    /\ gpc = "send"
    /\ chan[gch] < Cap
    /\ chan' = [chan EXCEPT ![gch] = @ + 1]
    /\ gpc' = "loop"
    /\ UNCHANGED <<kind, exitchan, stop, wg, mq, gch, wpc, cpc, helpers>>

GenDone ==
    /\ wg' = wg - 1
    /\ gpc' = "stopped"
    /\ UNCHANGED <<kind, exitchan, stop, chan, mq, gch, wpc, cpc, helpers>>

GenExit == gpc = "loop" /\ exitchan /\ GenDone

\* Mutant: the send is not in a select with exitchan.
MutantGenSelectExit == FALSE /\ GenDone

\* gRPC's generator leaves the send as well; Thrift's does not.
GenSelectExit == gpc = "send" /\ kind = "grpc" /\ exitchan /\ GenDone

genData ==
    \/ GenStart \/ GenSend \/ GenExit \/ GenSelectExit
    \/ \E c \in Chans : GenRequest(c)

-----------------------------------------------------------------------------
(* SingleSend, MultiSend and Recv                                          *)

WorkerStart(w) ==
    /\ wpc[w] = "start" /\ Started(w)
    /\ wg' = wg + 1
    /\ wpc' = [wpc EXCEPT ![w] = "loop"]
    /\ UNCHANGED <<kind, exitchan, stop, chan, mq, genVars, cpc, helpers>>

\* A request is taken, to be sent at once or to be queued.
WorkerTake(w) ==
    /\ wpc[w] = "loop"
    /\ chan[Source(w)] > 0
    /\ chan' = [chan EXCEPT ![Source(w)] = @ - 1]
    /\ wpc' = [wpc EXCEPT ![w] = IF w \in MultiSenders THEN "add" ELSE "call"]
    /\ UNCHANGED <<kind, exitchan, stop, wg, mq, genVars, cpc, helpers>>

\* The server answers, or the call fails: an error is only counted.
WorkerReturn(w) ==
    /\ wpc[w] = "call"
    /\ wpc' = [wpc EXCEPT ![w] = "loop"]
    /\ UNCHANGED <<kind, exitchan, stop, wg, chan, mq, genVars, cpc, helpers>>

QueueAdd(w) ==
    /\ wpc[w] = "add" /\ mq < QueueSize
    /\ mq' = mq + 1
    /\ wpc' = [wpc EXCEPT ![w] = "loop"]
    /\ UNCHANGED <<kind, exitchan, stop, wg, chan, genVars, cpc, helpers>>

\* The queue is full: the request is dropped, and a goroutine started that
\* sends the queue's requests.
QueueFull(w) ==
    /\ wpc[w] = "add" /\ mq = QueueSize
    /\ helpers < MaxHelpers
    /\ helpers' = helpers + 1
    /\ wpc' = [wpc EXCEPT ![w] = "loop"]
    /\ UNCHANGED <<kind, exitchan, stop, wg, chan, mq, genVars, cpc>>

WorkerExit(w) ==
    /\ wpc[w] = "loop" /\ exitchan
    /\ wg' = wg - 1
    /\ wpc' = [wpc EXCEPT ![w] = "stopped"]
    /\ UNCHANGED <<kind, exitchan, stop, chan, mq, genVars, cpc, helpers>>

Worker(w) ==
    \/ WorkerStart(w) \/ WorkerTake(w) \/ WorkerReturn(w)
    \/ QueueAdd(w) \/ QueueFull(w) \/ WorkerExit(w)

-----------------------------------------------------------------------------
(* The goroutines that send a full queue; nobody waits for them            *)

HelperGet ==
    /\ helpers > 0
    /\ helpers' = helpers - 1
    /\ mq' = 0
    /\ UNCHANGED <<kind, exitchan, stop, wg, chan, genVars, wpc, cpc>>

\* gRPC's opens its stream before it takes the requests.
HelperNoStream ==
    /\ helpers > 0 /\ kind = "grpc"
    /\ helpers' = helpers - 1
    /\ UNCHANGED <<kind, exitchan, stop, wg, chan, mq, genVars, wpc, cpc>>

-----------------------------------------------------------------------------
(* consumeMQ                                                               *)

ConsumerStart ==
    /\ cpc = "start"
    /\ wg' = wg + 1
    /\ cpc' = "loop"
    /\ UNCHANGED <<kind, exitchan, stop, chan, mq, genVars, wpc, helpers>>

\* A tick.  Thrift's consumer sends what is in the queue, if there is anything;
\* gRPC's opens a stream first (if that fails nothing changes) and goes on even
\* with nothing to send.
ConsumerTick ==
    /\ cpc = "loop"
    /\ kind = "thrift" => mq > 0
    /\ mq' = 0
    /\ cpc' = "call"
    /\ UNCHANGED <<kind, exitchan, stop, wg, chan, genVars, wpc, helpers>>

\* The batch is sent; gRPC's consumer only counts the errors.
ConsumerReturn ==
    /\ cpc = "call"
    /\ cpc' = "loop"
    /\ UNCHANGED <<kind, exitchan, stop, wg, chan, mq, genVars, wpc, helpers>>

\* MultiPut fails, and Thrift's consumer returns without wg.Done.
ConsumerLeaves ==
    /\ cpc = "call" /\ kind = "thrift"
    /\ cpc' = "left"
    /\ UNCHANGED <<kind, exitchan, stop, wg, chan, mq, genVars, wpc, helpers>>

ConsumerExit ==
    /\ cpc = "loop" /\ exitchan
    /\ wg' = wg - 1
    /\ cpc' = "stopped"
    /\ UNCHANGED <<kind, exitchan, stop, chan, mq, genVars, wpc, helpers>>

consumeMQ ==
    ConsumerStart \/ ConsumerTick \/ ConsumerReturn \/ ConsumerLeaves \/ ConsumerExit

-----------------------------------------------------------------------------
(* Stop                                                                    *)

StopClose ==
    /\ stop = "run"
    /\ exitchan' = TRUE
    /\ stop' = "wait"
    /\ UNCHANGED <<kind, wg, chan, mq, genVars, wpc, cpc, helpers>>

\* Mutant: Stop waits for a while instead of for everyone.
MutantStopWait ==
    /\ stop = "wait"
    /\ stop' = "done"
    /\ UNCHANGED <<kind, exitchan, wg, chan, mq, genVars, wpc, cpc, helpers>>

StopWait ==
    /\ stop = "wait" /\ wg = 0
    /\ stop' = "done"
    /\ UNCHANGED <<kind, exitchan, wg, chan, mq, genVars, wpc, cpc, helpers>>

-----------------------------------------------------------------------------
\* Thrift's senders and consumer start with ChooseNodeConn.  With no server
\* available they panic, which ends the program.
StartPanics ==
    /\ kind = "thrift" /\ stop # "panicked"
    /\ cpc = "start" \/ \E w \in Senders : wpc[w] = "start"
    /\ stop' = "panicked"
    /\ wg' = 0 /\ helpers' = 0
    /\ gpc' = "stopped" /\ cpc' = "stopped"
    /\ wpc' = [w \in Workers |-> "stopped"]
    /\ UNCHANGED <<kind, exitchan, chan, mq, gch>>

-----------------------------------------------------------------------------
LoadNext ==
    \/ genData \/ consumeMQ
    \/ \E w \in Workers : Worker(w)
    \/ HelperGet \/ HelperNoStream
    \/ StopClose \/ StopWait \/ StartPanics

LoadSpec == LoadInit /\ [][LoadNext]_loadVars

\* Goroutines are scheduled and calls return; a select with a closed exitchan
\* takes it in the end, whatever else is ready.
LoadFairness ==
    /\ WF_loadVars(genData) /\ WF_loadVars(consumeMQ) /\ SF_loadVars(ConsumerExit)
    /\ WF_loadVars(HelperGet) /\ WF_loadVars(StopWait)
    /\ \A w \in Workers : WF_loadVars(Worker(w)) /\ SF_loadVars(WorkerExit(w))

LoadFairSpec == LoadSpec /\ LoadFairness

-----------------------------------------------------------------------------
(* Properties                                                              *)

\* Thrift's generator blocks in a send (thrift client.go:75,77) to a channel
\* that is full and that nobody reads any more.
GeneratorStuck ==
    /\ kind = "thrift" /\ gpc = "send" /\ chan[gch] = Cap
    /\ \A w \in Workers : Source(w) = gch /\ Started(w) => wpc[w] = "stopped"

Hung == GeneratorStuck \/ cpc = "left"

\* Stop returns, always in the gRPC program, and in the Thrift program unless
\* the generator is stuck or the consumer has left without wg.Done
\* (thrift client.go:77,110), or a late goroutine panics.
StopReturns == stop = "wait" ~> stop \in {"done", "panicked"} \/ Hung

\* Neither of the two is ever made good: Stop, once hung, never returns.
HangIsFinal ==
    [][stop # "done" /\ Hung => stop' = "panicked" \/ (stop' # "done" /\ Hung')]_loadVars
=============================================================================
