-------------------------- MODULE ThriftNodeProofs --------------------------
(***************************************************************************)
(* Proofs about ThriftNode, for any number of servers and users.           *)
(***************************************************************************)
EXTENDS ThriftNode, TLAPS

\* Node.Close is called on a node that exists, and announces itself first.
Closed == npc \in {"close", "closing", "done"}

\* Where the goroutines are, relative to each other.
Places ==
    /\ npc = "closing" => ni <= N
    /\ Closed => exitChan
    /\ kpc = "off" <=> npc \in {"init", "failed"}
    /\ \A u \in Users : upc[u] = "chosen" => kpc # "off"
    /\ gpc # "none" => kpc \in {"await", "timeout", "releasing", "fatal"}
    /\ lateAdd => kpc \notin {"off", "start"}

\* A Conn marked Down is neither pinged nor restored: the goroutine that marked
\* it ends the process (client.go:103), so lines 105-111 and upConn never run.
DownIsTheEnd ==
    \A c \in Conns : state[c] = "Down" /\ Running =>
        kpc \in {"down", "closing", "fatal"} /\ ki = c

\* Nobody has forgotten a Conn's check client or its pool.
Undisturbed == ~exitChan /\ kpc # "fatal"

\* Until then the unlocked reads find what they need.
Intact ==
    Undisturbed =>
        /\ npc = "init" => \A c \in Conns : c < ni => pool[c] = TRUE
        /\ npc = "open" => \A c \in Conns : pool[c] = TRUE
        /\ kpc = "test" \/ gpc = "start" => checkClient[ki] # "nil"

NodeInv ==
    /\ TypeOK
    /\ Places
    /\ DownIsTheEnd
    /\ Intact
    /\ PanicOnlyAfterClose
    /\ CloseWaited

LEMMA NodeInit == Init => NodeInv
<1> SUFFICES ASSUME Init PROVE NodeInv
  OBVIOUS
<1>1. N \in Nat /\ N >= 1 /\ 1 \in Conns
  BY NodeAssumption DEF Conns
<1>2. exitChan \in BOOLEAN /\ lateAdd \in BOOLEAN /\ ~exitChan /\ ~lateAdd
  BY Zenon DEF Init
<1>3. lastStatus \in [Conns -> BOOLEAN] /\ pool \in [Conns -> BOOLEAN]
  BY Zenon DEF Init
<1>4. TypeOK
  BY <1>1, <1>2, <1>3 DEF Init, TypeOK
<1>5. Places
  BY <1>1, <1>2 DEF Init, Places, Closed
<1>6. DownIsTheEnd
  BY DEF Init, DownIsTheEnd
<1>7. Intact
  BY <1>1 DEF Init, Intact, Conns
<1>8. PanicOnlyAfterClose /\ CloseWaited
  BY DEF Init, PanicOnlyAfterClose, CloseWaited
<1> QED
  BY <1>4, <1>5, <1>6, <1>7, <1>8 DEF NodeInv

\* The critical sections of Conn.Close keep the types.
LEMMA ConnCloseTypes ==
    ASSUME TypeOK, NEW who \in {"closer", "checker"}, NEW c \in Conns,
           ConnCloseClient(who, c) \/ ConnCloseForget(who, c)
    PROVE  /\ checkClient' \in [Conns -> {"nil", "open", "closed"}]
           /\ lock' \in [Conns -> {"free", "closer", "checker"}]
           /\ lastStatus' \in [Conns -> BOOLEAN]
           /\ pool' \in [Conns -> BOOLEAN]
           /\ state' = state
<1>1. CASE ConnCloseClient(who, c)
  BY <1>1 DEF ConnCloseClient, TypeOK
<1>2. CASE ConnCloseForget(who, c)
  <2>1. lastStatus' \in [Conns -> BOOLEAN] /\ pool' \in [Conns -> BOOLEAN]
    BY <1>2 DEF ConnCloseForget, TypeOK
  <2> QED
    BY <1>2, <2>1 DEF ConnCloseForget, TypeOK
<1> QED
  BY <1>1, <1>2

LEMMA ConstructStep ==
    ASSUME NodeInv, Construct
    PROVE  NodeInv'
<1> USE DEF NodeInv, connVars, checkVars, userVars, closeVars
<1>1. N \in Nat /\ Running
  BY NodeAssumption DEF Construct
<1>2. CASE NewConn
  <2>1. TypeOK'
    BY <1>1, <1>2 DEF NewConn, TypeOK, Conns
  <2>2. Places'
    BY <1>1, <1>2 DEF NewConn, TypeOK, Places, Closed
  <2>3. Intact'
    BY <1>1, <1>2 DEF NewConn, TypeOK, Places, Intact, Undisturbed, Conns
  <2>4. DownIsTheEnd' /\ PanicOnlyAfterClose' /\ CloseWaited'
    BY <1>1, <1>2 DEF NewConn, DownIsTheEnd, PanicOnlyAfterClose, CloseWaited, Running
  <2> QED
    BY <2>1, <2>2, <2>3, <2>4
<1>3. CASE NewConnError
  <2>1. TypeOK'
    BY <1>1, <1>3 DEF NewConnError, TypeOK
  <2>2. Places'
    BY <1>1, <1>3 DEF NewConnError, TypeOK, Places, Closed
  <2>3. Intact'
    BY <1>1, <1>3 DEF NewConnError, Places, Intact, Undisturbed
  <2>4. DownIsTheEnd' /\ PanicOnlyAfterClose' /\ CloseWaited'
    BY <1>1, <1>3
       DEF NewConnError, DownIsTheEnd, PanicOnlyAfterClose, CloseWaited, Running
  <2> QED
    BY <2>1, <2>2, <2>3, <2>4
<1>4. CASE NewServerNode
  <2>1. TypeOK'
    BY <1>1, <1>4 DEF NewServerNode, TypeOK, Places
  <2>2. Places'
    BY <1>1, <1>4 DEF NewServerNode, TypeOK, Places, Closed, CloseWaited
  <2>3. Intact'
    BY <1>1, <1>4 DEF NewServerNode, TypeOK, Places, Intact, Undisturbed, Conns
  <2>4. DownIsTheEnd' /\ PanicOnlyAfterClose' /\ CloseWaited'
    BY <1>1, <1>4
       DEF NewServerNode, Places, DownIsTheEnd, PanicOnlyAfterClose, CloseWaited, Running
  <2> QED
    BY <2>1, <2>2, <2>3, <2>4
<1> QED
  BY <1>2, <1>3, <1>4 DEF Construct

LEMMA CloseStep ==
    ASSUME NodeInv, Close
    PROVE  NodeInv'
<1> USE DEF NodeInv, connVars, checkVars, userVars, closeVars
<1>1. N \in Nat /\ N >= 1 /\ Running
  BY NodeAssumption DEF Close
<1>2. CASE CloseExit
  <2>1. TypeOK'
    BY <1>1, <1>2 DEF CloseExit, TypeOK, Conns
  <2>2. Places'
    BY <1>1, <1>2 DEF CloseExit, TypeOK, Places, Closed
  <2>3. Intact'
    BY <1>1, <1>2 DEF CloseExit, TypeOK, Places, Intact, Undisturbed
  <2>4. DownIsTheEnd' /\ PanicOnlyAfterClose' /\ CloseWaited'
    BY <1>1, <1>2 DEF CloseExit, TypeOK, Places, DownIsTheEnd, PanicOnlyAfterClose,
                   CloseWaited, Running
  <2> QED
    BY <2>1, <2>2, <2>3, <2>4
<1>3. CASE CloseConn
  <2>1. TypeOK' /\ Places'
    <3>1. CASE npc = "close"
      <4>1. TypeOK'
        <5>1. /\ ConnCloseClient("closer", ni)
              /\ npc' = "closing" /\ ni' = ni /\ ni \in Conns
              /\ UNCHANGED <<exitChan, wg, kpc, ki, gpc, upc, uc, process, lateAdd>>
          BY <1>1, <1>3, <3>1 DEF CloseConn, TypeOK, Conns
        <5> QED
          BY <5>1, ConnCloseTypes DEF TypeOK
      <4>2. Places'
        BY <1>1, <1>3, <3>1 DEF CloseConn, ConnCloseClient, TypeOK, Places, Closed
      <4> QED
        BY <4>1, <4>2
    <3>2. CASE npc = "closing"
      <4>1. ni \in Conns /\ ni + 1 \in 1..(N + 1)
        BY <1>1, <3>2 DEF Places, TypeOK, Conns
      <4>2. TypeOK'
        <5>1. /\ ConnCloseForget("closer", ni)
              /\ npc' = "close" /\ ni' = ni + 1
              /\ UNCHANGED <<exitChan, wg, kpc, ki, gpc, upc, uc, process, lateAdd>>
          BY <1>3, <3>2 DEF CloseConn
        <5> QED
          BY <4>1, <5>1, ConnCloseTypes DEF TypeOK
      <4>3. Places'
        BY <1>1, <1>3, <3>2 DEF CloseConn, ConnCloseForget, TypeOK, Places, Closed
      <4> QED
        BY <4>2, <4>3
    <3> QED
      BY <1>3, <3>1, <3>2 DEF CloseConn
  <2>2. exitChan'
    BY <1>3 DEF CloseConn, Places, Closed
  <2>3. UNCHANGED <<state, kpc, ki, process>> /\ npc' # "done"
    BY <1>3 DEF CloseConn, ConnCloseClient, ConnCloseForget
  <2>4. DownIsTheEnd'
    BY <2>3 DEF DownIsTheEnd, Running
  <2> QED
    BY <2>1, <2>2, <2>3, <2>4 DEF Intact, Undisturbed, PanicOnlyAfterClose, CloseWaited
<1>4. CASE CloseWait
  <2>1. TypeOK'
    BY <1>1, <1>4 DEF CloseWait, TypeOK
  <2>2. Places'
    BY <1>1, <1>4 DEF CloseWait, TypeOK, Places, Closed
  <2>3. Intact'
    BY <1>1, <1>4 DEF CloseWait, TypeOK, Places, Intact, Undisturbed
  <2>4. DownIsTheEnd' /\ PanicOnlyAfterClose' /\ CloseWaited'
    BY <1>1, <1>4 DEF CloseWait, TypeOK, Places, DownIsTheEnd, PanicOnlyAfterClose,
                   CloseWaited, Running
  <2> QED
    BY <2>1, <2>2, <2>3, <2>4
<1> QED
  BY <1>2, <1>3, <1>4 DEF Close

LEMMA UserStep ==
    ASSUME NodeInv, NEW u \in Users, User(u)
    PROVE  NodeInv'
<1> USE DEF NodeInv, connVars, checkVars, userVars, closeVars
<1>1. N \in Nat /\ N >= 1 /\ Running
  BY NodeAssumption DEF User
<1>2. CASE ChooseError(u)
  BY <1>2 DEF ChooseError, vars, TypeOK, Places, Closed, Intact, Undisturbed,
              DownIsTheEnd, PanicOnlyAfterClose, CloseWaited, Running
<1>3. ASSUME NEW c \in Conns, ChooseNodeConn(u, c)
      PROVE  NodeInv'
  <2>1. TypeOK'
    BY <1>1, <1>3 DEF ChooseNodeConn, TypeOK
  <2>2. Places'
    BY <1>1, <1>3 DEF ChooseNodeConn, TypeOK, Places, Closed
  <2>3. Intact'
    BY <1>1, <1>3 DEF ChooseNodeConn, TypeOK, Places, Intact, Undisturbed
  <2>4. DownIsTheEnd' /\ PanicOnlyAfterClose' /\ CloseWaited'
    BY <1>1, <1>3 DEF ChooseNodeConn, TypeOK, Places, DownIsTheEnd, PanicOnlyAfterClose,
                   CloseWaited, Running
  <2> QED
    BY <2>1, <2>2, <2>3, <2>4
<1>4. CASE UseConn(u)
  <2>1. TypeOK'
    BY <1>1, <1>4 DEF UseConn, TypeOK
  <2>2. Places'
    BY <1>1, <1>4 DEF UseConn, TypeOK, Places, Closed
  <2>3. Intact'
    BY <1>1, <1>4 DEF UseConn, TypeOK, Places, Intact, Undisturbed
  <2>4. ~pool[uc[u]] => exitChan \/ kpc = "fatal"
    <3>1. npc = "open" \/ exitChan
      BY <1>4 DEF UseConn, Places, Closed, TypeOK
    <3>2. uc[u] \in Conns
      BY DEF TypeOK
    <3> QED
      BY <3>1, <3>2 DEF Intact, Undisturbed
  <2>5. PanicOnlyAfterClose'
    BY <1>4, <2>4 DEF UseConn, PanicOnlyAfterClose
  <2>6. DownIsTheEnd' /\ CloseWaited'
    BY <1>1, <1>4 DEF UseConn, DownIsTheEnd, CloseWaited, Running
  <2> QED
    BY <2>1, <2>2, <2>3, <2>5, <2>6
<1> QED
  BY <1>2, <1>3, <1>4 DEF User

LEMMA CheckStep ==
    ASSUME NodeInv, Running,
           CheckStart \/ CheckExit \/ CheckTick \/ CheckRelease \/ DownConn \/ Fatal
    PROVE  NodeInv'
<1> USE DEF NodeInv, connVars, checkVars, userVars, closeVars
<1>1. N \in Nat /\ N >= 1 /\ Running
  BY NodeAssumption
<1>2. CASE CheckStart
  <2>1. TypeOK'
    BY <1>1, <1>2 DEF CheckStart, TypeOK, Conns
  <2>2. Places'
    BY <1>1, <1>2 DEF CheckStart, TypeOK, Places, Closed
  <2>3. Intact'
    BY <1>1, <1>2 DEF CheckStart, TypeOK, Places, Intact, Undisturbed
  <2>4. DownIsTheEnd' /\ PanicOnlyAfterClose' /\ CloseWaited'
    BY <1>1, <1>2 DEF CheckStart, TypeOK, Places, DownIsTheEnd, PanicOnlyAfterClose,
                   CloseWaited, Running
  <2> QED
    BY <2>1, <2>2, <2>3, <2>4
<1>3. CASE CheckExit
  <2>1. TypeOK'
    BY <1>1, <1>3 DEF CheckExit, TypeOK, Conns
  <2>2. Places'
    BY <1>1, <1>3 DEF CheckExit, TypeOK, Places, Closed
  <2>3. Intact'
    BY <1>1, <1>3 DEF CheckExit, TypeOK, Places, Intact, Undisturbed
  <2>4. DownIsTheEnd' /\ PanicOnlyAfterClose' /\ CloseWaited'
    BY <1>1, <1>3 DEF CheckExit, TypeOK, Places, DownIsTheEnd, PanicOnlyAfterClose,
                   CloseWaited, Running
  <2> QED
    BY <2>1, <2>2, <2>3, <2>4
<1>4. CASE CheckTick
  <2>1. TypeOK'
    BY <1>1, <1>4 DEF CheckTick, TypeOK, Conns
  <2>2. Places'
    BY <1>1, <1>4 DEF CheckTick, TypeOK, Places, Closed
  <2>3. Intact'
    BY <1>1, <1>4 DEF CheckTick, TypeOK, Places, Intact, Undisturbed
  <2>4. DownIsTheEnd' /\ PanicOnlyAfterClose' /\ CloseWaited'
    BY <1>1, <1>4 DEF CheckTick, TypeOK, Places, DownIsTheEnd, PanicOnlyAfterClose,
                   CloseWaited, Running
  <2> QED
    BY <2>1, <2>2, <2>3, <2>4
<1>5. CASE CheckRelease
  <2>1. TypeOK'
    <3>1. ki \in Conns
      BY DEF TypeOK
    <3>2. CASE kpc = "timeout"
      <4>1. /\ ConnCloseClient("checker", ki) /\ kpc' = "releasing"
            /\ UNCHANGED <<exitChan, wg, npc, ni, ki, gpc, upc, uc, process, lateAdd>>
        BY <1>5, <3>2 DEF CheckRelease
      <4> QED
        BY <3>1, <3>2, <4>1, ConnCloseTypes DEF TypeOK
    <3>3. CASE kpc = "releasing"
      <4>1. /\ lock' = [lock EXCEPT ![ki] = "free"]
            /\ checkClient' = [checkClient EXCEPT ![ki] = "nil"]
            /\ lastStatus' = [lastStatus EXCEPT ![ki] = FALSE]
            /\ kpc' = "fatal"
            /\ UNCHANGED <<state, pool, exitChan, wg, npc, ni, ki, gpc, upc, uc, process,
                           lateAdd>>
        BY <1>5, <3>3 DEF CheckRelease
      <4>2. lastStatus' \in [Conns -> BOOLEAN]
        BY <3>1, <4>1 DEF TypeOK
      <4> QED
        BY <3>1, <3>3, <4>1, <4>2 DEF TypeOK
    <3> QED
      BY <1>5, <3>2, <3>3 DEF CheckRelease
  <2>2. Places'
    BY <1>1, <1>5 DEF CheckRelease, ConnCloseClient, TypeOK, Places, Closed
  <2>3. Intact'
    BY <1>1, <1>5 DEF CheckRelease, ConnCloseClient, TypeOK, Places, Intact, Undisturbed
  <2>4. DownIsTheEnd' /\ PanicOnlyAfterClose' /\ CloseWaited'
    BY <1>1, <1>5 DEF CheckRelease, ConnCloseClient, TypeOK, Places, DownIsTheEnd, PanicOnlyAfterClose,
                   CloseWaited, Running
  <2> QED
    BY <2>1, <2>2, <2>3, <2>4
<1>6. CASE DownConn
  <2>1. TypeOK'
    <3>1. /\ ConnCloseClient("checker", ki) \/ ConnCloseForget("checker", ki)
          /\ kpc \in {"down", "closing"} /\ kpc' \in {"closing", "fatal"}
          /\ UNCHANGED <<exitChan, wg, npc, ni, ki, gpc, upc, uc, process, lateAdd>>
      BY <1>6 DEF DownConn
    <3>2. ki \in Conns
      BY DEF TypeOK
    <3> QED
      BY <3>1, <3>2, ConnCloseTypes DEF TypeOK
  <2>2. Places'
    BY <1>1, <1>6 DEF DownConn, ConnCloseClient, ConnCloseForget, TypeOK, Places, Closed
  <2>3. Intact'
    BY <1>1, <1>6
       DEF DownConn, ConnCloseClient, ConnCloseForget, TypeOK, Places, Intact,
           Undisturbed
  <2>4. DownIsTheEnd' /\ PanicOnlyAfterClose' /\ CloseWaited'
    BY <1>1, <1>6
       DEF DownConn, ConnCloseClient, ConnCloseForget, TypeOK, Places, DownIsTheEnd,
           PanicOnlyAfterClose, CloseWaited, Running
  <2> QED
    BY <2>1, <2>2, <2>3, <2>4
<1>7. CASE Fatal
  <2>1. TypeOK'
    BY <1>1, <1>7 DEF Fatal, TypeOK, Conns
  <2>2. Places'
    BY <1>1, <1>7 DEF Fatal, TypeOK, Places, Closed
  <2>3. Intact'
    BY <1>1, <1>7 DEF Fatal, TypeOK, Places, Intact, Undisturbed
  <2>4. DownIsTheEnd' /\ PanicOnlyAfterClose' /\ CloseWaited'
    BY <1>1, <1>7 DEF Fatal, TypeOK, Places, DownIsTheEnd, PanicOnlyAfterClose,
                   CloseWaited, Running
  <2> QED
    BY <2>1, <2>2, <2>3, <2>4
<1> QED
  BY <1>2, <1>3, <1>4, <1>5, <1>6, <1>7

LEMMA PingStep ==
    ASSUME NodeInv, Running, Ping
    PROVE  NodeInv'
<1> USE DEF NodeInv, connVars, checkVars, userVars, closeVars
<1>1. N \in Nat /\ N >= 1 /\ Running
  BY NodeAssumption
<1>2. CASE PingRedial
  <2>1. TypeOK'
    BY <1>1, <1>2 DEF PingRedial, TypeOK
  <2>2. Places'
    BY <1>1, <1>2 DEF PingRedial, TypeOK, Places, Closed
  <2>3. Intact'
    BY <1>1, <1>2 DEF PingRedial, TypeOK, Places, Intact, Undisturbed
  <2>4. DownIsTheEnd' /\ PanicOnlyAfterClose' /\ CloseWaited'
    BY <1>1, <1>2 DEF PingRedial, TypeOK, Places, DownIsTheEnd, PanicOnlyAfterClose,
                   CloseWaited, Running
  <2> QED
    BY <2>1, <2>2, <2>3, <2>4
<1>3. CASE PingReuse
  <2>1. TypeOK'
    BY <1>1, <1>3 DEF PingReuse, TypeOK
  <2>2. Places'
    BY <1>1, <1>3 DEF PingReuse, TypeOK, Places, Closed
  <2>3. Intact'
    BY <1>1, <1>3 DEF PingReuse, TypeOK, Places, Intact, Undisturbed
  <2>4. DownIsTheEnd' /\ PanicOnlyAfterClose' /\ CloseWaited'
    BY <1>1, <1>3 DEF PingReuse, TypeOK, Places, DownIsTheEnd, PanicOnlyAfterClose,
                   CloseWaited, Running
  <2> QED
    BY <2>1, <2>2, <2>3, <2>4
<1>4. CASE PingDialed
  <2>1. TypeOK'
    BY <1>1, <1>4 DEF PingDialed, TypeOK
  <2>2. Places'
    BY <1>1, <1>4 DEF PingDialed, TypeOK, Places, Closed
  <2>3. Intact'
    BY <1>1, <1>4 DEF PingDialed, TypeOK, Places, Intact, Undisturbed
  <2>4. DownIsTheEnd' /\ PanicOnlyAfterClose' /\ CloseWaited'
    BY <1>1, <1>4 DEF PingDialed, TypeOK, Places, DownIsTheEnd, PanicOnlyAfterClose,
                   CloseWaited, Running
  <2> QED
    BY <2>1, <2>2, <2>3, <2>4
<1>5. CASE PingDialError
  <2>1. TypeOK'
    BY <1>1, <1>5 DEF PingDialError, PingFailed, TypeOK
  <2>2. Places'
    BY <1>1, <1>5 DEF PingDialError, PingFailed, TypeOK, Places, Closed
  <2>3. Intact'
    BY <1>1, <1>5 DEF PingDialError, PingFailed, TypeOK, Places, Intact, Undisturbed
  <2>4. DownIsTheEnd' /\ PanicOnlyAfterClose' /\ CloseWaited'
    BY <1>1, <1>5
       DEF PingDialError, PingFailed, TypeOK, Places, DownIsTheEnd, PanicOnlyAfterClose,
           CloseWaited, Running
  <2> QED
    BY <2>1, <2>2, <2>3, <2>4
<1>6. CASE PingTest
  <2>1. TypeOK'
    BY <1>1, <1>6 DEF PingTest, PingFailed, TypeOK
  <2>2. Places'
    BY <1>1, <1>6 DEF PingTest, PingFailed, TypeOK, Places, Closed
  <2>3. Intact'
    BY <1>1, <1>6 DEF PingTest, PingFailed, TypeOK, Places, Intact, Undisturbed
  <2>4. DownIsTheEnd' /\ CloseWaited'
    BY <1>1, <1>6
       DEF PingTest, PingFailed, TypeOK, Places, DownIsTheEnd, CloseWaited, Running
  <2>5. checkClient[ki] = "nil" => exitChan \/ kpc = "fatal"
    BY <1>6 DEF PingTest, PingFailed, Intact, Undisturbed
  <2>6. PanicOnlyAfterClose'
    BY <1>1, <1>6, <2>5 DEF PingTest, PingFailed, PanicOnlyAfterClose, Running
  <2> QED
    BY <2>1, <2>2, <2>3, <2>4, <2>6
<1>7. CASE PingError
  <2>1. TypeOK'
    BY <1>1, <1>7 DEF PingError, PingFailed, TypeOK
  <2>2. Places'
    BY <1>1, <1>7 DEF PingError, PingFailed, TypeOK, Places, Closed
  <2>3. Intact'
    BY <1>1, <1>7 DEF PingError, PingFailed, TypeOK, Places, Intact, Undisturbed
  <2>4. DownIsTheEnd' /\ PanicOnlyAfterClose' /\ CloseWaited'
    BY <1>1, <1>7
       DEF PingError, PingFailed, TypeOK, Places, DownIsTheEnd, PanicOnlyAfterClose,
           CloseWaited, Running
  <2> QED
    BY <2>1, <2>2, <2>3, <2>4
<1>8. CASE PingOk
  <2>1. TypeOK'
    BY <1>1, <1>8 DEF PingOk, TypeOK, Conns
  <2>2. Places'
    BY <1>1, <1>8 DEF PingOk, TypeOK, Places, Closed
  <2>3. Intact'
    BY <1>1, <1>8 DEF PingOk, TypeOK, Places, Intact, Undisturbed
  <2>4. DownIsTheEnd' /\ PanicOnlyAfterClose' /\ CloseWaited'
    BY <1>1, <1>8 DEF PingOk, TypeOK, Places, DownIsTheEnd, PanicOnlyAfterClose,
                   CloseWaited, Running
  <2> QED
    BY <2>1, <2>2, <2>3, <2>4
<1>9. CASE PingTimeout
  <2>1. TypeOK'
    BY <1>1, <1>9 DEF PingTimeout, TypeOK
  <2>2. Places'
    BY <1>1, <1>9 DEF PingTimeout, TypeOK, Places, Closed
  <2>3. Intact'
    BY <1>1, <1>9 DEF PingTimeout, TypeOK, Places, Intact, Undisturbed
  <2>4. DownIsTheEnd' /\ PanicOnlyAfterClose' /\ CloseWaited'
    BY <1>1, <1>9 DEF PingTimeout, TypeOK, Places, DownIsTheEnd, PanicOnlyAfterClose,
                   CloseWaited, Running
  <2> QED
    BY <2>1, <2>2, <2>3, <2>4
<1> QED
  BY <1>2, <1>3, <1>4, <1>5, <1>6, <1>7, <1>8, <1>9 DEF Ping

LEMMA PingerStep ==
    ASSUME NodeInv, Pinger
    PROVE  NodeInv'
<1> USE DEF NodeInv, connVars, checkVars, userVars, closeVars
<1>1. N \in Nat /\ N >= 1 /\ Running
  BY NodeAssumption DEF Pinger
<1>2. CASE PingPanic
  <2>1. TypeOK'
    BY <1>1, <1>2 DEF PingPanic, TypeOK
  <2>2. Places'
    BY <1>1, <1>2 DEF PingPanic, TypeOK, Places, Closed
  <2>3. Intact'
    BY <1>1, <1>2 DEF PingPanic, TypeOK, Places, Intact, Undisturbed
  <2>4. DownIsTheEnd' /\ CloseWaited'
    BY <1>1, <1>2 DEF PingPanic, TypeOK, Places, DownIsTheEnd, CloseWaited, Running
  <2>5. checkClient[ki] = "nil" => exitChan \/ kpc = "fatal"
    BY <1>2 DEF PingPanic, Intact, Undisturbed
  <2>6. PanicOnlyAfterClose'
    BY <1>1, <1>2, <2>5 DEF PingPanic, PanicOnlyAfterClose, Running
  <2> QED
    BY <2>1, <2>2, <2>3, <2>4, <2>6
<1>3. CASE PingCall
  <2>1. TypeOK'
    BY <1>1, <1>3 DEF PingCall, TypeOK
  <2>2. Places'
    BY <1>1, <1>3 DEF PingCall, TypeOK, Places, Closed
  <2>3. Intact'
    BY <1>1, <1>3 DEF PingCall, TypeOK, Places, Intact, Undisturbed
  <2>4. DownIsTheEnd' /\ PanicOnlyAfterClose' /\ CloseWaited'
    BY <1>1, <1>3 DEF PingCall, TypeOK, Places, DownIsTheEnd, PanicOnlyAfterClose,
                   CloseWaited, Running
  <2> QED
    BY <2>1, <2>2, <2>3, <2>4
<1>4. CASE PingAnswer
  <2>1. TypeOK'
    BY <1>1, <1>4 DEF PingAnswer, TypeOK
  <2>2. Places'
    BY <1>1, <1>4 DEF PingAnswer, TypeOK, Places, Closed
  <2>3. Intact'
    BY <1>1, <1>4 DEF PingAnswer, TypeOK, Places, Intact, Undisturbed
  <2>4. DownIsTheEnd' /\ PanicOnlyAfterClose' /\ CloseWaited'
    BY <1>1, <1>4 DEF PingAnswer, TypeOK, Places, DownIsTheEnd, PanicOnlyAfterClose,
                   CloseWaited, Running
  <2> QED
    BY <2>1, <2>2, <2>3, <2>4
<1> QED
  BY <1>2, <1>3, <1>4 DEF Pinger

LEMMA NodeStep == NodeInv /\ [Next]_vars => NodeInv'
<1> SUFFICES ASSUME NodeInv, [Next]_vars PROVE NodeInv'
  OBVIOUS
<1>1. CASE UNCHANGED vars
  BY <1>1 DEF vars, connVars, closeVars, checkVars, userVars, NodeInv, TypeOK, Places,
              Closed, Intact, Undisturbed, DownIsTheEnd, PanicOnlyAfterClose,
              CloseWaited, Running
<1>2. CASE checkNode
  BY <1>2, CheckStep, PingStep DEF checkNode
<1> QED
  BY <1>1, <1>2, ConstructStep, CloseStep, PingerStep, UserStep DEF Next

-----------------------------------------------------------------------------

(* A Conn that is marked Down is neither pinged nor restored: the process   *)
(* ends first, so the branch that calls upConn is dead.                     *)
THEOREM NeverRestored == Spec => []DownIsTheEnd
<1>1. NodeInv => DownIsTheEnd
  BY DEF NodeInv
<1> QED
  BY <1>1, NodeInit, NodeStep, PTL DEF Spec

(* The unlocked reads of Ping, of its goroutine (which a timeout leaves      *)
(* running) and of the users never meet a nil client or pool before          *)
(* Node.Close is called, but for the moment between the checker's giving a   *)
(* Conn up and its log.Fatalf.                                               *)
THEOREM NoPanicBeforeClose == Spec => []PanicOnlyAfterClose
<1>1. NodeInv => PanicOnlyAfterClose
  BY DEF NodeInv
<1> QED
  BY <1>1, NodeInit, NodeStep, PTL DEF Spec

(* Node.Close returns only when checkNode has stopped, or before it began.  *)
THEOREM CloseWaits == Spec => []CloseWaited
<1>1. NodeInv => CloseWaited
  BY DEF NodeInv
<1> QED
  BY <1>1, NodeInit, NodeStep, PTL DEF Spec
=============================================================================
