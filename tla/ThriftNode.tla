----------------------------- MODULE ThriftNode -----------------------------
(***************************************************************************)
(* thrift/client/client.go and conn.go: a Node with one Conn for each      *)
(* server, the checkNode goroutine that pings the servers, Node.Close, and *)
(* callers that choose a Conn and then take a client from its pool.        *)
(*                                                                         *)
(* Conn.Release and Conn.Close hold the Conn's mutex; Ping, and the reads  *)
(* of checkClient and ThriftPool everywhere else, do not.  One action is   *)
(* one such read or write, or one call to the server.  A Ping calls the    *)
(* server in a goroutine of its own, which a timeout does not end.         *)
(* log.Fatalf ends the process, and so does a method call on a nil client  *)
(* or pool.                                                                *)
(*                                                                         *)
(* Left out: lastPing (only reported), and the branch for a Conn that is   *)
(* Down when it is pinged (lines 105-111, with upConn): the process ends   *)
(* before that can happen (theorem NeverRestored of ThriftNodeProofs).     *)
(***************************************************************************)
EXTENDS Integers

CONSTANTS N,       \* number of servers
          Users    \* goroutines that use the node

ASSUME NodeAssumption == N \in Nat \ {0}

Conns == 1..N

VARIABLES state, checkClient, lastStatus, pool,  \* of each Conn; pool is TRUE
                                                 \* while ThriftPool is not nil
          lock,      \* Conn -> who holds its mutex
          exitChan,  \* closed?
          wg,        \* the WaitGroup's counter
          npc, ni,   \* construction and Node.Close: where, and at which Conn
          kpc, ki,   \* checkNode: the same
          gpc,       \* the goroutine of its last Ping: where
          upc, uc,   \* users: the same
          process,   \* "running", "exited" (log.Fatalf) or "panicked"
          lateAdd    \* history: checkNode registered after Close had waited

connVars  == <<state, checkClient, lastStatus, pool, lock>>
closeVars == <<npc, ni>>
checkVars == <<kpc, ki, gpc>>
userVars  == <<upc, uc>>
vars == <<connVars, exitChan, wg, closeVars, checkVars, userVars, process, lateAdd>>

Running == process = "running"

TypeOK ==
    /\ state \in [Conns -> {"Unknown", "Up", "Down"}]
    /\ checkClient \in [Conns -> {"nil", "open", "closed"}]
    /\ lastStatus \in [Conns -> BOOLEAN]
    /\ pool \in [Conns -> BOOLEAN]
    /\ lock \in [Conns -> {"free", "closer", "checker"}]
    /\ exitChan \in BOOLEAN
    /\ wg \in 0..1
    /\ npc \in {"init", "failed", "open", "close", "closing", "done"}
    /\ ni \in 1..(N + 1)
    /\ kpc \in {"off", "start", "select", "ping", "dial", "test", "await",
                "timeout", "releasing", "down", "closing", "fatal", "stopped"}
    /\ ki \in Conns
    /\ gpc \in {"none", "start", "call", "ok", "error"}
    /\ upc \in [Users -> {"out", "chosen"}]
    /\ uc \in [Users -> Conns]
    /\ process \in {"running", "exited", "panicked"}
    /\ lateAdd \in BOOLEAN
    /\ wg = 1 <=> kpc \notin {"off", "start", "stopped"}

Init ==
    /\ state = [c \in Conns |-> "Unknown"]
    /\ checkClient = [c \in Conns |-> "nil"]
    /\ lastStatus = [c \in Conns |-> TRUE]
    /\ pool = [c \in Conns |-> FALSE]
    /\ lock = [c \in Conns |-> "free"]
    /\ exitChan = FALSE
    /\ wg = 0
    /\ npc = "init" /\ ni = 1
    /\ kpc = "off" /\ ki = 1 /\ gpc = "none"
    /\ upc = [u \in Users |-> "out"]
    /\ uc = [u \in Users |-> 1]
    /\ process = "running"
    /\ lateAdd = FALSE

-----------------------------------------------------------------------------
(* NewServerNode: initPerConn, then go checkNode                           *)

\* newConn dials the check client and fills the pool with one client.
NewConn ==
    /\ npc = "init" /\ ni <= N
    /\ checkClient' = [checkClient EXCEPT ![ni] = "open"]
    /\ pool' = [pool EXCEPT ![ni] = TRUE]
    /\ ni' = ni + 1
    /\ UNCHANGED <<state, lastStatus, lock, exitChan, wg, npc, checkVars, userVars,
                   process, lateAdd>>

\* A dial fails: the Conns made so far are left as they are.
NewConnError ==
    /\ npc = "init" /\ ni <= N
    /\ npc' = "failed"
    /\ UNCHANGED <<connVars, exitChan, wg, ni, checkVars, userVars, process, lateAdd>>

NewServerNode ==
    /\ npc = "init" /\ ni = N + 1
    /\ npc' = "open"
    /\ kpc' = "start"
    /\ UNCHANGED <<connVars, exitChan, wg, ni, ki, gpc, userVars, process, lateAdd>>

-----------------------------------------------------------------------------
(* Conn.Close, by Node.Close or by downConn                                *)

\* With the mutex taken: close the check client and release the pool.
ConnCloseClient(who, c) ==
    /\ lock[c] = "free"
    /\ lock' = [lock EXCEPT ![c] = who]
    /\ checkClient' = [checkClient EXCEPT ![c] = IF @ = "open" THEN "closed" ELSE @]
    /\ UNCHANGED <<state, lastStatus, pool>>

\* Then forget both, and unlock.
ConnCloseForget(who, c) ==
    /\ lock[c] = who
    /\ lock' = [lock EXCEPT ![c] = "free"]
    /\ checkClient' = [checkClient EXCEPT ![c] = "nil"]
    /\ pool' = [pool EXCEPT ![c] = FALSE]
    /\ lastStatus' = [lastStatus EXCEPT ![c] = FALSE]
    /\ UNCHANGED state

-----------------------------------------------------------------------------
(* Node.Close                                                              *)

CloseExit ==
    /\ npc = "open"
    /\ exitChan' = TRUE
    /\ npc' = "close" /\ ni' = 1
    /\ UNCHANGED <<connVars, wg, checkVars, userVars, process, lateAdd>>

CloseConn ==
    /\ \/ /\ npc = "close" /\ ni <= N
          /\ ConnCloseClient("closer", ni)
          /\ npc' = "closing" /\ ni' = ni
       \/ /\ npc = "closing"
          /\ ConnCloseForget("closer", ni)
          /\ npc' = "close" /\ ni' = ni + 1
    /\ UNCHANGED <<exitChan, wg, checkVars, userVars, process, lateAdd>>

\* Mutant: Close returns without waiting.
MutantCloseWait ==
    /\ npc = "close" /\ ni = N + 1
    /\ npc' = "done"
    /\ UNCHANGED <<connVars, exitChan, wg, ni, checkVars, userVars, process, lateAdd>>

\* wg.Wait()
CloseWait ==
    /\ npc = "close" /\ ni = N + 1
    /\ wg = 0
    /\ npc' = "done"
    /\ UNCHANGED <<connVars, exitChan, wg, ni, checkVars, userVars, process, lateAdd>>

-----------------------------------------------------------------------------
(* checkNode                                                               *)

CheckStart ==
    /\ kpc = "start"
    /\ wg' = 1
    /\ lateAdd' = (npc = "done")
    /\ kpc' = "select"
    /\ UNCHANGED <<connVars, exitChan, closeVars, ki, gpc, userVars, process>>

\* Mutant: the goroutine returns without wg.Done.
MutantCheckExit ==
    /\ kpc = "select" /\ exitChan
    /\ UNCHANGED vars

CheckExit ==
    /\ kpc = "select" /\ exitChan
    /\ wg' = 0
    /\ kpc' = "stopped"
    /\ UNCHANGED <<connVars, exitChan, closeVars, ki, gpc, userVars, process, lateAdd>>

CheckTick ==
    /\ kpc = "select"
    /\ kpc' = "ping" /\ ki' = 1
    /\ UNCHANGED <<connVars, exitChan, wg, closeVars, gpc, userVars, process, lateAdd>>

\* Ping: without a good check client, drop the old one and dial.
PingRedial ==
    /\ kpc = "ping"
    /\ checkClient[ki] = "nil" \/ ~lastStatus[ki]
    /\ checkClient' = [checkClient EXCEPT ![ki] = "nil"]
    /\ kpc' = "dial"
    /\ UNCHANGED <<state, lastStatus, pool, lock, exitChan, wg, closeVars, ki, gpc, userVars,
                   process, lateAdd>>

PingReuse ==
    /\ kpc = "ping"
    /\ checkClient[ki] # "nil" /\ lastStatus[ki]
    /\ kpc' = "test"
    /\ UNCHANGED <<connVars, exitChan, wg, closeVars, ki, gpc, userVars, process, lateAdd>>

PingDialed ==
    /\ kpc = "dial"
    /\ checkClient' = [checkClient EXCEPT ![ki] = "open"]
    /\ kpc' = "test"
    /\ UNCHANGED <<state, lastStatus, pool, lock, exitChan, wg, closeVars, ki, gpc, userVars,
                   process, lateAdd>>

\* The Ping failed, other than by a timeout: the Conn is marked Down.
PingFailed ==
    /\ lastStatus' = [lastStatus EXCEPT ![ki] = FALSE]
    /\ state' = [state EXCEPT ![ki] = "Down"]
    /\ kpc' = "down"
    /\ gpc' = "none"
    /\ UNCHANGED <<pool, lock, exitChan, wg, closeVars, ki, userVars, process, lateAdd>>

PingDialError ==
    /\ kpc = "dial"
    /\ checkClient' = [checkClient EXCEPT ![ki] = "nil"]
    /\ PingFailed

\* The check client is read again, and may be nil by now.  If it is open, a
\* goroutine is started to call the server, and the select awaits it.
PingTest ==
    /\ kpc = "test"
    /\ \/ /\ checkClient[ki] = "nil"
          /\ process' = "panicked"
          /\ UNCHANGED <<state, lastStatus, pool, lock, exitChan, wg, closeVars, checkVars,
                         userVars, checkClient, lateAdd>>
       \/ checkClient[ki] = "closed" /\ PingFailed /\ UNCHANGED checkClient
       \/ /\ checkClient[ki] = "open"
          /\ kpc' = "await" /\ gpc' = "start"
          /\ UNCHANGED <<connVars, exitChan, wg, closeVars, ki, userVars, process, lateAdd>>

PingError ==
    /\ kpc = "await" /\ gpc = "error"
    /\ PingFailed /\ UNCHANGED checkClient

\* On to the next Conn, or to the next tick.
PingOk ==
    /\ kpc = "await" /\ gpc = "ok"
    /\ state' = [state EXCEPT ![ki] = IF @ = "Unknown" THEN "Up" ELSE @]
    /\ lastStatus' = [lastStatus EXCEPT ![ki] = TRUE]
    /\ gpc' = "none"
    /\ \/ ki < N /\ ki' = ki + 1 /\ kpc' = "ping"
       \/ ki = N /\ ki' = ki /\ kpc' = "select"
    /\ UNCHANGED <<checkClient, pool, lock, exitChan, wg, closeVars, userVars, process, lateAdd>>

\* The select gives up; the goroutine goes on, wherever it is.
PingTimeout ==
    /\ kpc = "await"
    /\ state' = [state EXCEPT ![ki] = IF @ = "Unknown" THEN "Up" ELSE @]
    /\ kpc' = "timeout"
    /\ UNCHANGED <<checkClient, lastStatus, pool, lock, exitChan, wg, closeVars, ki, gpc,
                   userVars, process, lateAdd>>

\* Conn.Release: with the mutex taken, close the check client and release the
\* pool; then forget the client, keep the pool, and unlock.
CheckRelease ==
    /\ \/ kpc = "timeout" /\ ConnCloseClient("checker", ki) /\ kpc' = "releasing"
       \/ /\ kpc = "releasing"
          /\ lock' = [lock EXCEPT ![ki] = "free"]
          /\ checkClient' = [checkClient EXCEPT ![ki] = "nil"]
          /\ lastStatus' = [lastStatus EXCEPT ![ki] = FALSE]
          /\ kpc' = "fatal"
          /\ UNCHANGED <<state, pool>>
    /\ UNCHANGED <<exitChan, wg, closeVars, ki, gpc, userVars, process, lateAdd>>

\* downConn closes the Conn.
DownConn ==
    /\ \/ kpc = "down" /\ ConnCloseClient("checker", ki) /\ kpc' = "closing"
       \/ kpc = "closing" /\ ConnCloseForget("checker", ki) /\ kpc' = "fatal"
    /\ UNCHANGED <<exitChan, wg, closeVars, ki, gpc, userVars, process, lateAdd>>

\* Mutant: the failure is only logged, and the next Conn is next.
MutantFatal ==
    /\ kpc = "fatal"
    /\ \/ ki < N /\ ki' = ki + 1 /\ kpc' = "ping"
       \/ ki = N /\ ki' = ki /\ kpc' = "select"
    /\ UNCHANGED <<connVars, exitChan, wg, closeVars, gpc, userVars, process, lateAdd>>

\* log.Fatalf
Fatal ==
    /\ kpc = "fatal"
    /\ process' = "exited"
    /\ UNCHANGED <<connVars, exitChan, wg, closeVars, checkVars, userVars, lateAdd>>

-----------------------------------------------------------------------------
(* The goroutine of a Ping                                                 *)

\* It reads the Conn's check client once more: whatever that is by now.
PingPanic ==
    /\ gpc = "start" /\ checkClient[ki] = "nil"
    /\ process' = "panicked"
    /\ UNCHANGED <<connVars, exitChan, wg, closeVars, checkVars, userVars, lateAdd>>

PingCall ==
    /\ gpc = "start" /\ checkClient[ki] # "nil"
    /\ gpc' = IF checkClient[ki] = "open" THEN "call" ELSE "error"
    /\ UNCHANGED <<connVars, exitChan, wg, closeVars, kpc, ki, userVars, process, lateAdd>>

\* The answer to the call, with the client read before, into its channel.
PingAnswer ==
    /\ gpc = "call"
    /\ gpc' \in {"ok", "error"}
    /\ UNCHANGED <<connVars, exitChan, wg, closeVars, kpc, ki, userVars, process, lateAdd>>

-----------------------------------------------------------------------------
(* Users                                                                   *)

Enabled == {c \in Conns : state[c] # "Down"}

\* No Conn is left, or the chosen one has no pool any more.
ChooseError(u) ==
    /\ npc \notin {"init", "failed"} /\ upc[u] = "out"
    /\ Enabled = {} \/ \E c \in Enabled : ~pool[c]
    /\ UNCHANGED vars

ChooseNodeConn(u, c) ==
    /\ npc \notin {"init", "failed"} /\ upc[u] = "out"
    /\ c \in Enabled /\ pool[c]
    /\ upc' = [upc EXCEPT ![u] = "chosen"]
    /\ uc' = [uc EXCEPT ![u] = c]
    /\ UNCHANGED <<connVars, exitChan, wg, closeVars, checkVars, process, lateAdd>>

\* conn.ThriftPool.Get(): the pool is read again, and may be nil by now.
UseConn(u) ==
    /\ upc[u] = "chosen"
    /\ process' = IF pool[uc[u]] THEN "running" ELSE "panicked"
    /\ upc' = [upc EXCEPT ![u] = "out"]
    /\ UNCHANGED <<connVars, exitChan, wg, closeVars, checkVars, uc, lateAdd>>

-----------------------------------------------------------------------------
Construct == Running /\ (NewConn \/ NewConnError \/ NewServerNode)

Close == Running /\ (CloseExit \/ CloseConn \/ CloseWait)

Ping ==
    \/ PingRedial \/ PingReuse \/ PingDialed \/ PingDialError \/ PingTest
    \/ PingError \/ PingOk \/ PingTimeout

checkNode == Running /\
    \/ CheckStart \/ CheckExit \/ CheckTick \/ Ping
    \/ CheckRelease \/ DownConn \/ Fatal

Pinger == Running /\ (PingPanic \/ PingCall \/ PingAnswer)

User(u) == Running /\
    \/ ChooseError(u) \/ UseConn(u)
    \/ \E c \in Conns : ChooseNodeConn(u, c)

Next == Construct \/ Close \/ checkNode \/ Pinger \/ \E u \in Users : User(u)

\* Close runs on once called, and so does checkNode: a Ping has a timeout, and
\* a select with two ready channels takes each in the end.  Nothing is assumed
\* of the goroutine that waits for the server.
Fairness ==
    /\ WF_vars(Close /\ npc # "open")
    /\ WF_vars(checkNode)
    /\ SF_vars(Running /\ CheckExit)

Spec == Init /\ [][Next]_vars
FairSpec == Spec /\ Fairness

-----------------------------------------------------------------------------
(* Properties                                                              *)

\* The unlocked reads of Ping, of its goroutine and of the users meet a nil
\* client or pool only when Node.Close was called, or when the checker has
\* given a Conn up and is about to end the process: between Conn.Release and
\* log.Fatalf (lines 94-95), or between downConn and log.Fatalf (102-103).
PanicOnlyAfterClose ==
    process = "panicked" => exitChan \/ kpc = "fatal"

\* When Node.Close has returned, checkNode has stopped, or it has yet to begin
\* (it registers with the WaitGroup itself, line 68).
CloseWaited ==
    npc = "done" => kpc \in {"start", "stopped"} \/ lateAdd

\* Node.Close returns, unless the process ends first: it never waits for a
\* mutex or for checkNode in vain.
CloseReturns == npc = "close" ~> npc = "done" \/ ~Running

\* Line 99 says that after a failed Ping the next one dials the check client
\* again (and lines 105-111 are there to restore the Conn when it succeeds):
\* unless the node is closed first.  The code does not keep it.
FailedPingRedials ==
    \A c \in Conns : state[c] = "Down" ~> exitChan \/ (kpc = "dial" /\ ki = c)
=============================================================================
