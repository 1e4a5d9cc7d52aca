---------------------------- MODULE HealthServer ----------------------------
(***************************************************************************)
(* grpc/server/api/health.go: the gRPC health service.  SetServingStatus,  *)
(* Shutdown and Resume change statuses with the mutex held and pass each   *)
(* change to the Watch streams through channels of capacity one.           *)
(*                                                                         *)
(* The streams receive without the mutex, so what runs with the mutex held *)
(* is split at its channel operations.  Registering a stream and removing  *)
(* it are critical sections that no other goroutine can look into, and are *)
(* one action each.                                                        *)
(***************************************************************************)
EXTENDS Integers, FiniteSets

CONSTANTS Services,     \* service names
          Default,      \* the service "", known from the start
          Watchers,     \* Watch streams
          Settable,     \* statuses that SetServingStatus is called with
          None          \* an empty channel, a service not in the map, no status

Known  == {"SERVING", "NOT_SERVING", "SERVICE_UNKNOWN"}
Status == Settable \cup Known

ASSUME HealthAssumption == Default \in Services /\ None \notin Status \cup Watchers

VARIABLES statusMap,    \* service -> status, None if it has no entry
          shutdown,
          updates,      \* the streams whose channel is registered
          chan,         \* stream -> what its update channel holds
          holder,       \* "set" while a status change holds the mutex
          todo, val,    \* ... services Shutdown or Resume still has to set, to val
          notify,       \* ... streams of the current service still to be told
          cleared,      \* ... the stream whose channel was just cleared
          wpc,          \* stream -> where its Watch is
          svc,          \* stream -> the service it watches
          last,         \* stream -> lastSentStatus
          got           \* stream -> what its client received last

mapVars    == <<statusMap, shutdown>>
holderVars == <<holder, todo, val, notify, cleared>>
watchVars  == <<wpc, svc, last, got>>
healthVars == <<mapVars, updates, chan, holderVars, watchVars>>

HealthTypeOK ==
    /\ statusMap \in [Services -> Status \cup {None}]
    /\ shutdown \in BOOLEAN
    /\ updates \in SUBSET Watchers
    /\ chan \in [Watchers -> Status \cup {None}]
    /\ holder \in {"none", "set"}
    /\ todo \in SUBSET Services
    /\ val \in Status
    /\ notify \in SUBSET Watchers
    /\ cleared \in Watchers \cup {None}
    /\ wpc \in [Watchers -> {"off", "select", "send", "end"}]
    /\ svc \in [Watchers -> Services]
    /\ last \in [Watchers -> Status \cup {None}]
    /\ got \in [Watchers -> Status \cup {None}]
    /\ holder = "none" => todo = {} /\ notify = {}
    /\ notify \subseteq updates
    /\ cleared # None => cleared \in notify

HealthInit ==
    /\ statusMap = [s \in Services |-> IF s = Default THEN "SERVING" ELSE None]
    /\ shutdown = FALSE
    /\ updates = {}
    /\ chan = [w \in Watchers |-> None]
    /\ holder = "none"
    /\ todo = {}
    /\ val = "SERVING"
    /\ notify = {}
    /\ cleared = None
    /\ wpc = [w \in Watchers |-> "off"]
    /\ svc = [w \in Watchers |-> Default]
    /\ last = [w \in Watchers |-> None]
    /\ got = [w \in Watchers |-> None]

-----------------------------------------------------------------------------
(* Check and Watch                                                         *)

\* The services with an entry in the map.
Entered == {s \in Services : statusMap[s] # None}

\* What Check answers; None stands for codes.NotFound.
Check(s) == statusMap[s]

\* What a new Watch reports first.
InitialStatus(s) == IF statusMap[s] # None THEN statusMap[s] ELSE "SERVICE_UNKNOWN"

\* Watch makes a channel, fills it with the initial status and registers it.
WatchStart(w, s) ==
    /\ wpc[w] = "off"
    /\ holder = "none"
    /\ chan' = [chan EXCEPT ![w] = InitialStatus(s)]
    /\ updates' = updates \cup {w}
    /\ svc' = [svc EXCEPT ![w] = s]
    /\ last' = [last EXCEPT ![w] = None]
    /\ got' = [got EXCEPT ![w] = None]
    /\ wpc' = [wpc EXCEPT ![w] = "select"]
    /\ UNCHANGED <<mapVars, holderVars>>

\* Mutant: lastSentStatus is assigned before it is compared.
MutantWatchSkip(w) ==
    /\ wpc[w] = "select"
    /\ chan[w] # None
    /\ chan' = [chan EXCEPT ![w] = None]
    /\ last' = [last EXCEPT ![w] = chan[w]]
    /\ UNCHANGED <<mapVars, updates, holderVars, svc, wpc, got>>

\* The stream receives an update; one that repeats the last is skipped.
WatchReceive(w) ==
    /\ wpc[w] = "select"
    /\ chan[w] # None
    /\ chan' = [chan EXCEPT ![w] = None]
    /\ last' = [last EXCEPT ![w] = chan[w]]
    /\ wpc' = [wpc EXCEPT ![w] = IF chan[w] = last[w] THEN "select" ELSE "send"]
    /\ UNCHANGED <<mapVars, updates, holderVars, svc, got>>

\* stream.Send returns.
WatchSendOk(w) ==
    /\ wpc[w] = "send"
    /\ got' = [got EXCEPT ![w] = last[w]]
    /\ wpc' = [wpc EXCEPT ![w] = "select"]
    /\ UNCHANGED <<mapVars, updates, chan, holderVars, svc, last>>

\* stream.Send fails, or the stream's context is done: Watch returns ...
WatchReturn(w) ==
    /\ wpc[w] \in {"select", "send"}
    /\ wpc' = [wpc EXCEPT ![w] = "end"]
    /\ UNCHANGED <<mapVars, updates, chan, holderVars, svc, last, got>>

\* ... through the deferred removal of its channel.
WatchEnd(w) ==
    /\ wpc[w] = "end"
    /\ holder = "none"
    /\ updates' = updates \ {w}
    /\ chan' = [chan EXCEPT ![w] = None]
    /\ wpc' = [wpc EXCEPT ![w] = "off"]
    /\ UNCHANGED <<mapVars, holderVars, svc, last, got>>

Watch(w) ==
    \/ \E s \in Services : WatchStart(w, s)
    \/ WatchReceive(w)
    \/ WatchSendOk(w)
    \/ WatchReturn(w)
    \/ WatchEnd(w)

-----------------------------------------------------------------------------
(* SetServingStatus, Shutdown and Resume                                   *)

\* Mutant: the map is changed and the streams are not told.
MutantSetLocked(s, v) ==
    /\ statusMap' = [statusMap EXCEPT ![s] = v]
    /\ notify' = {}
    /\ val' = v

\* The start of setServingStatusLocked: the map entry, then the range over
\* the channels registered for the service.
setServingStatusLocked(s, v) ==
    /\ statusMap' = [statusMap EXCEPT ![s] = v]
    /\ notify' = {w \in updates : svc[w] = s}
    /\ val' = v

\* Mutant: a server that was shut down still takes statuses.
MutantSetServingStatus(s, v) ==
    /\ holder = "none"
    /\ holder' = "set"
    /\ setServingStatusLocked(s, v)
    /\ UNCHANGED <<shutdown, updates, chan, todo, cleared, watchVars>>

SetServingStatus(s, v) ==
    /\ holder = "none"
    /\ ~shutdown
    /\ holder' = "set"
    /\ setServingStatusLocked(s, v)
    /\ UNCHANGED <<shutdown, updates, chan, todo, cleared, watchVars>>

\* After Shutdown, SetServingStatus has no effect.
SetIgnored ==
    /\ holder = "none"
    /\ shutdown
    /\ UNCHANGED healthVars

\* Shutdown and Resume take the mutex, set the flag, and then set every
\* service of the map, in any order.
SetAll(flag, v) ==
    /\ holder = "none"
    /\ holder' = "set"
    /\ shutdown' = flag
    /\ todo' = Entered
    /\ val' = v
    /\ UNCHANGED <<statusMap, updates, chan, notify, cleared, watchVars>>

Shutdown == SetAll(TRUE, "NOT_SERVING")
Resume   == SetAll(FALSE, "SERVING")

SetNext(s) ==
    /\ holder = "set" /\ notify = {}
    /\ s \in todo
    /\ todo' = todo \ {s}
    /\ setServingStatusLocked(s, val)
    /\ UNCHANGED <<shutdown, updates, chan, holder, cleared, watchVars>>

\* Mutant: an update the stream has not received yet is left in the channel.
MutantClearUpdate(w) ==
    /\ w \in notify /\ cleared = None
    /\ cleared' = w
    /\ UNCHANGED <<mapVars, updates, chan, holder, todo, val, notify, watchVars>>

\* The select with a default: the channel is empty afterwards.
ClearUpdate(w) ==
    /\ w \in notify /\ cleared = None
    /\ chan' = [chan EXCEPT ![w] = None]
    /\ cleared' = w
    /\ UNCHANGED <<mapVars, updates, holder, todo, val, notify, watchVars>>

\* update <- servingStatus, which blocks while the channel is full.
PutUpdate(w) ==
    /\ cleared = w
    /\ chan[w] = None
    /\ chan' = [chan EXCEPT ![w] = val]
    /\ notify' = notify \ {w}
    /\ cleared' = None
    /\ UNCHANGED <<mapVars, updates, holder, todo, val, watchVars>>

Unlock ==
    /\ holder = "set" /\ notify = {} /\ todo = {}
    /\ holder' = "none"
    /\ UNCHANGED <<mapVars, updates, chan, todo, val, notify, cleared, watchVars>>

\* The goroutine that holds the mutex goes on.
Holder ==
    \/ \E s \in Services : SetNext(s)
    \/ \E w \in Watchers : ClearUpdate(w) \/ PutUpdate(w)
    \/ Unlock

HealthNext ==
    \/ \E w \in Watchers : Watch(w)
    \/ \E s \in Services, v \in Settable : SetServingStatus(s, v)
    \/ SetIgnored
    \/ Shutdown
    \/ Resume
    \/ Holder

HealthSpec == HealthInit /\ [][HealthNext]_healthVars

\* The goroutine with the mutex is scheduled, and a client that keeps reading
\* lets Send return.  Receiving is strongly fair: a send to a channel hands the
\* value to the goroutine parked in its select, so a stream that waits is served
\* even if updates follow each other without a pause.
HealthFairSpec ==
    /\ HealthSpec
    /\ WF_healthVars(Holder)
    /\ \A w \in Watchers : SF_healthVars(WatchReceive(w)) /\ WF_healthVars(WatchSendOk(w))

-----------------------------------------------------------------------------
(* Properties                                                              *)

\* While the server is shut down every entry is NOT_SERVING, whatever statuses
\* were set before or are set meanwhile (health.go:16-17).
ShutdownAllDown ==
    shutdown /\ holder = "none" =>
        \A s \in Services : Check(s) \in {"NOT_SERVING", None}

\* The goroutine that holds the mutex never blocks on a stream's channel: the
\* channel it is about to fill is empty (health.go:107-112), however slow the
\* stream is.
NeverBlocks == cleared # None => chan[cleared] = None

\* A registered stream is never left with an old status: the newest status of
\* its service is in its channel, or is the one it took last, unless it is about
\* to be told (health.go:52-56,102-114 against 73-79).
NotStale ==
    \A w \in updates \ notify :
        (IF chan[w] # None THEN chan[w] ELSE last[w]) = InitialStatus(svc[w])

\* A stream whose Watch goes on and whose service keeps its status gets that
\* status in the end, even if updates were dropped on the way.
Watching(w, v) == wpc[w] \in {"select", "send"} /\ InitialStatus(svc[w]) = v

LatestDelivered ==
    \A w \in Watchers : \A v \in Status :
        <>[]Watching(w, v) => <>[](got[w] = v)
=============================================================================
