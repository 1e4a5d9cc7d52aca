-------------------------- MODULE GrpcClientProofs --------------------------
(***************************************************************************)
(* Proofs about the resolver package and the clients that use it: Resolver *)
(* and GrpcClient, for any ids, groups, connections and endpoints, any     *)
(* number of clients, and any other users beside them.  Without clients,   *)
(* ClientSpec is the specification of the package alone.                   *)
(***************************************************************************)
EXTENDS GrpcClient, TLAPS

-----------------------------------------------------------------------------
(* The resolver package                                                    *)

\* The addresses a slow addResolver still has to send are current, unless a
\* SetEndpoints has overtaken it.
PendingUnlessLate ==
    \A c \in Conns :
        cst[c] = "added" /\ c \notin late => held[c] = endpoints[home[c]]

\* An entry of the registry leads to a group with that id whose creation is
\* complete, and so does what Build found.
Registry ==
    /\ \A i \in Ids : resolverGroups[i] # NoGroup =>
            /\ gid[resolverGroups[i]] = i
            /\ gst[resolverGroups[i]] \in {"live", "closed"}
    /\ \A c \in Conns : home[c] # NoGroup => gst[home[c]] \in {"live", "closed"}

\* A group once out of the registry is never in it again: a Close that found
\* another group, or none, has an orphaned home.
ClosingFromHome ==
    \A c \in Conns :
        cst[c] = "closing" =>
            found[c] = home[c] \/ resolverGroups[gid[home[c]]] # home[c]

ResolverInv ==
    /\ TypeOK
    /\ RegisteredAtHome
    /\ CurrentUnlessLate
    /\ PendingUnlessLate
    /\ Registry
    /\ ClosingFromHome
    /\ ClosedStaysOnlyInOrphans

LEMMA ResolverInit == Init => ResolverInv
<1> SUFFICES ASSUME Init PROVE ResolverInv
  OBVIOUS
<1>1. TypeOK
  BY ResolverAssumption DEF Init, TypeOK
<1>2. \A g \in Groups : resolvers[g] = {}
  BY DEF Init
<1>3. \A c \in Conns : cst[c] = "new" /\ home[c] = NoGroup
  BY DEF Init
<1>4. \A i \in Ids : resolverGroups[i] = NoGroup
  BY DEF Init
<1> QED
  BY <1>1, <1>2, <1>3, <1>4
     DEF ResolverInv, RegisteredAtHome, CurrentUnlessLate, PendingUnlessLate,
         Registry, ClosingFromHome, ClosedStaysOnlyInOrphans

\* The steps of NewResolverGroup, ResolverGroup.Close and SetEndpoints.
LEMMA GroupStepInv ==
    ASSUME ResolverInv, NEW g \in Groups, GroupStep(g)
    PROVE  ResolverInv'
<1> USE DEF groupVars, connVars
<1>0. /\ TypeOK /\ RegisteredAtHome /\ CurrentUnlessLate /\ PendingUnlessLate
      /\ Registry /\ ClosingFromHome /\ ClosedStaysOnlyInOrphans
  BY DEF ResolverInv
<1>1. CASE NewTaken(g)
  BY <1>0, <1>1
     DEF NewTaken, vars, ResolverInv, TypeOK, RegisteredAtHome, CurrentUnlessLate,
         PendingUnlessLate, Registry, ClosingFromHome, ClosedStaysOnlyInOrphans
<1>2. CASE NewFree(g)
  <2>1. TypeOK'
    BY <1>0, <1>2 DEF NewFree, TypeOK
  <2>2. Registry'
    BY <1>0, <1>2 DEF NewFree, TypeOK, Registry
  <2> QED
    BY <1>0, <1>2, <2>1, <2>2
       DEF NewFree, ResolverInv, RegisteredAtHome, CurrentUnlessLate,
           PendingUnlessLate, ClosingFromHome, ClosedStaysOnlyInOrphans
<1>3. CASE NewInsert(g)
  <2>1. TypeOK'
    BY <1>0, <1>3 DEF NewInsert, TypeOK
  <2>2. Registry'
    BY <1>0, <1>3, ResolverAssumption DEF NewInsert, TypeOK, Registry
  <2>3. \A c \in Conns : home[c] # g
    BY <1>0, <1>3, ResolverAssumption DEF NewInsert, TypeOK, Registry
  <2>4. \A h \in Groups : resolverGroups'[gid'[h]] = h =>
            h = g \/ resolverGroups[gid[h]] = h
    BY <1>0, <1>3 DEF NewInsert, TypeOK
  <2>5. ClosingFromHome'
    BY <1>0, <1>3, <2>3, <2>4 DEF NewInsert, ClosingFromHome, TypeOK
  <2>6. ClosedStaysOnlyInOrphans'
    BY <1>0, <1>3, <2>3, <2>4
       DEF NewInsert, ClosedStaysOnlyInOrphans, RegisteredAtHome, TypeOK
  <2> QED
    BY <1>0, <1>3, <2>1, <2>2, <2>5, <2>6
       DEF NewInsert, ResolverInv, RegisteredAtHome, CurrentUnlessLate, PendingUnlessLate
<1>4. CASE CloseGroup(g)
  <2>1. TypeOK'
    BY <1>0, <1>4 DEF CloseGroup, TypeOK
  <2>2. Registry'
    BY <1>0, <1>4 DEF CloseGroup, TypeOK, Registry
  <2>4. \A h \in Groups : resolverGroups'[gid'[h]] = h => resolverGroups[gid[h]] = h
    BY <1>0, <1>4, ResolverAssumption DEF CloseGroup, TypeOK
  <2>5. ClosingFromHome'
    BY <1>0, <1>4, <2>4 DEF CloseGroup, ClosingFromHome, TypeOK
  <2>6. ClosedStaysOnlyInOrphans'
    BY <1>0, <1>4, <2>4 DEF CloseGroup, ClosedStaysOnlyInOrphans, TypeOK
  <2> QED
    BY <1>0, <1>4, <2>1, <2>2, <2>5, <2>6
       DEF CloseGroup, ResolverInv, RegisteredAtHome, CurrentUnlessLate, PendingUnlessLate
<1>5. ASSUME NEW eps \in Eps, SetEndpoints(g, eps)
      PROVE  ResolverInv'
  <2>1. TypeOK'
    BY <1>0, <1>5 DEF SetEndpoints, TypeOK
  <2>2. \A c \in Conns : c \in Notified(g) <=> home[c] = g /\ Listening(c)
    BY <1>0 DEF RegisteredAtHome, Notified, Listening
  <2>3. CurrentUnlessLate'
    BY <1>0, <1>5, <2>2
       DEF SetEndpoints, TypeOK, CurrentUnlessLate, RegisteredAtHome, Listening
  <2>4. PendingUnlessLate'
    BY <1>0, <1>5, <2>2
       DEF SetEndpoints, TypeOK, PendingUnlessLate, RegisteredAtHome, Listening
  <2> QED
    BY <1>0, <1>5, <2>1, <2>3, <2>4
       DEF SetEndpoints, ResolverInv, RegisteredAtHome, Registry, ClosingFromHome,
           ClosedStaysOnlyInOrphans
<1> QED
  BY <1>1, <1>2, <1>3, <1>4, <1>5 DEF GroupStep

\* The steps of Build.
LEMMA BuildInv ==
    ASSUME ResolverInv, NEW c \in Conns, Build(c)
    PROVE  ResolverInv'
<1> USE DEF groupVars
<1>0. /\ TypeOK /\ RegisteredAtHome /\ CurrentUnlessLate /\ PendingUnlessLate
      /\ Registry /\ ClosingFromHome /\ ClosedStaysOnlyInOrphans
  BY DEF ResolverInv
<1>1. ASSUME NEW i \in Ids, BuildMissing(c, i)
      PROVE  ResolverInv'
  BY <1>0, <1>1
     DEF BuildMissing, vars, connVars, ResolverInv, TypeOK, RegisteredAtHome,
         CurrentUnlessLate, PendingUnlessLate, Registry, ClosingFromHome,
         ClosedStaysOnlyInOrphans
<1>2. ASSUME NEW i \in Ids, BuildFind(c, i)
      PROVE  ResolverInv'
  <2>1. TypeOK'
    BY <1>0, <1>2 DEF BuildFind, TypeOK
  <2>2. \A g \in Groups : c \notin resolvers[g]
    BY <1>0, <1>2, ResolverAssumption DEF BuildFind, TypeOK, RegisteredAtHome
  <2>3. Registry'
    BY <1>0, <1>2 DEF BuildFind, TypeOK, Registry
  <2>4. RegisteredAtHome'
    BY <1>0, <1>2, <2>2 DEF BuildFind, TypeOK, RegisteredAtHome
  <2>5. /\ CurrentUnlessLate' /\ PendingUnlessLate' /\ ClosedStaysOnlyInOrphans'
    BY <1>0, <1>2, <2>2
       DEF BuildFind, TypeOK, CurrentUnlessLate, PendingUnlessLate,
           ClosedStaysOnlyInOrphans
  <2>6. ClosingFromHome'
    BY <1>0, <1>2 DEF BuildFind, TypeOK, ClosingFromHome
  <2> QED
    BY <2>1, <2>3, <2>4, <2>5, <2>6 DEF ResolverInv
<1>3. CASE BuildAdd(c)
  <2>1. home[c] \in Groups
    BY <1>0, <1>3 DEF BuildAdd, TypeOK
  <2>2. TypeOK'
    BY <1>0, <1>3, <2>1 DEF BuildAdd, TypeOK
  <2>3. RegisteredAtHome'
    BY <1>0, <1>3, <2>1 DEF BuildAdd, TypeOK, RegisteredAtHome
  <2>4. CurrentUnlessLate' /\ PendingUnlessLate' /\ ClosedStaysOnlyInOrphans'
    BY <1>0, <1>3, <2>1
       DEF BuildAdd, TypeOK, CurrentUnlessLate, PendingUnlessLate,
           ClosedStaysOnlyInOrphans
  <2>5. Registry' /\ ClosingFromHome'
    BY <1>0, <1>3 DEF BuildAdd, TypeOK, Registry, ClosingFromHome
  <2> QED
    BY <2>2, <2>3, <2>4, <2>5 DEF ResolverInv
<1>4. CASE BuildNotify(c)
  <2>1. TypeOK'
    BY <1>0, <1>4 DEF BuildNotify, TypeOK
  <2>2. RegisteredAtHome'
    BY <1>0, <1>4 DEF BuildNotify, TypeOK, RegisteredAtHome
  <2>3. CurrentUnlessLate'
    BY <1>0, <1>4
       DEF BuildNotify, TypeOK, CurrentUnlessLate, PendingUnlessLate, RegisteredAtHome
  <2>4. PendingUnlessLate' /\ ClosedStaysOnlyInOrphans'
    BY <1>0, <1>4
       DEF BuildNotify, TypeOK, PendingUnlessLate, ClosedStaysOnlyInOrphans
  <2>5. Registry' /\ ClosingFromHome'
    BY <1>0, <1>4 DEF BuildNotify, TypeOK, Registry, ClosingFromHome
  <2> QED
    BY <2>1, <2>2, <2>3, <2>4, <2>5 DEF ResolverInv
<1> QED
  BY <1>1, <1>2, <1>3, <1>4 DEF Build

\* The steps of Resolver.Close.
LEMMA CloseInv ==
    ASSUME ResolverInv, NEW c \in Conns, Close(c)
    PROVE  ResolverInv'
<1> USE DEF groupVars
<1>0. /\ TypeOK /\ RegisteredAtHome /\ CurrentUnlessLate /\ PendingUnlessLate
      /\ Registry /\ ClosingFromHome /\ ClosedStaysOnlyInOrphans
  BY DEF ResolverInv
<1>h. /\ home[c] \in Groups
      /\ gid[home[c]] \in Ids
  BY <1>0 DEF TypeOK, Close, CloseGone, CloseFind, CloseRemove
<1>1. CASE CloseGone(c)
  <2>1. TypeOK'
    BY <1>0, <1>1 DEF CloseGone, TypeOK
  <2>2. RegisteredAtHome' /\ CurrentUnlessLate' /\ PendingUnlessLate'
    BY <1>0, <1>1
       DEF CloseGone, TypeOK, RegisteredAtHome, CurrentUnlessLate, PendingUnlessLate
  <2>3. ClosedStaysOnlyInOrphans'
    BY <1>0, <1>1, ResolverAssumption
       DEF CloseGone, TypeOK, ClosedStaysOnlyInOrphans, RegisteredAtHome
  <2>4. Registry' /\ ClosingFromHome'
    BY <1>0, <1>1 DEF CloseGone, TypeOK, Registry, ClosingFromHome
  <2> QED
    BY <2>1, <2>2, <2>3, <2>4 DEF ResolverInv
<1>2. CASE CloseFind(c)
  <2>1. TypeOK'
    BY <1>0, <1>2, <1>h DEF CloseFind, TypeOK
  <2>2. RegisteredAtHome' /\ CurrentUnlessLate' /\ PendingUnlessLate'
    BY <1>0, <1>2
       DEF CloseFind, TypeOK, RegisteredAtHome, CurrentUnlessLate, PendingUnlessLate
  <2>3. ClosedStaysOnlyInOrphans'
    BY <1>0, <1>2 DEF CloseFind, TypeOK, ClosedStaysOnlyInOrphans
  <2>4. Registry' /\ ClosingFromHome'
    BY <1>0, <1>2 DEF CloseFind, TypeOK, Registry, ClosingFromHome
  <2> QED
    BY <2>1, <2>2, <2>3, <2>4 DEF ResolverInv
<1>3. CASE CloseRemove(c)
  <2>1. found[c] \in Groups
    BY <1>0, <1>3 DEF CloseRemove, TypeOK
  <2>2. TypeOK'
    BY <1>0, <1>3, <1>h, <2>1 DEF CloseRemove, Remove, TypeOK
  <2>3. \A g \in Groups : resolvers'[g] \subseteq resolvers[g]
    BY <1>0, <1>3, <2>1 DEF CloseRemove, Remove, TypeOK
  <2>4. \A g \in Groups, d \in Conns : d # c /\ d \in resolvers[g] => d \in resolvers'[g]
    BY <1>0, <1>3, <2>1 DEF CloseRemove, Remove, TypeOK
  <2>5. found[c] = home[c] => c \notin resolvers'[home[c]]
    BY <1>0, <1>3, <1>h DEF CloseRemove, Remove, TypeOK
  <2>6. RegisteredAtHome'
    <3>1. \A d \in Conns \ {c} : cst'[d] = cst[d]
      BY <1>0, <1>3 DEF CloseRemove, TypeOK
    <3>2. cst'[c] = "closed"
      BY <1>0, <1>3 DEF CloseRemove, TypeOK
    <3>3. \A d \in Conns : home'[d] = home[d]
      BY <1>3 DEF CloseRemove
    <3>4. \A d \in Conns : home[d] # NoGroup => home[d] \in Groups
      BY <1>0 DEF TypeOK
    <3>5. \A d \in Conns : cst[d] \in {"added", "open", "closing"} => home[d] \in Groups
      BY <1>0 DEF TypeOK
    <3> QED
      BY <1>0, <2>3, <2>4, <3>1, <3>2, <3>3, <3>5 DEF RegisteredAtHome
  <2>7. CurrentUnlessLate' /\ PendingUnlessLate'
    BY <1>0, <1>3, <2>3
       DEF CloseRemove, TypeOK, CurrentUnlessLate, PendingUnlessLate
  <2>8. ClosedStaysOnlyInOrphans'
    BY <1>0, <1>3, <2>3, <2>5
       DEF CloseRemove, TypeOK, ClosedStaysOnlyInOrphans, RegisteredAtHome,
           ClosingFromHome
  <2>9. Registry' /\ ClosingFromHome'
    BY <1>0, <1>3 DEF CloseRemove, TypeOK, Registry, ClosingFromHome
  <2> QED
    BY <2>2, <2>6, <2>7, <2>8, <2>9 DEF ResolverInv
<1> QED
  BY <1>1, <1>2, <1>3 DEF Close

LEMMA ResolverStep ==
    ASSUME ResolverInv, [Next]_vars
    PROVE  ResolverInv'
<1>1. CASE UNCHANGED vars
  BY <1>1 DEF vars, groupVars, connVars, ResolverInv, TypeOK, RegisteredAtHome,
       CurrentUnlessLate, PendingUnlessLate, Registry, ClosingFromHome,
       ClosedStaysOnlyInOrphans
<1> QED
  BY <1>1, GroupStepInv, BuildInv, CloseInv DEF Next

-----------------------------------------------------------------------------
(* The clients                                                             *)

ClientTypeOK ==
    /\ st \in [Clients -> Stages]
    /\ cfgEps \in [Clients -> Eps \cup {NoEps}]
    /\ cancelled \in SUBSET Clients

\* The other users of the package have nothing of a client's: not its id, not
\* its group, not its connection.
Apart ==
    /\ \A g \in Groups \ Clients : gid[g] \notin Clients /\ resolvers[g] \cap Clients = {}
    /\ \A i \in Ids \ Clients : resolverGroups[i] \notin Clients
    /\ \A d \in Conns \ Clients : home[d] \notin Clients /\ found[d] \notin Clients

\* The stages at which the group of a client is in the registry.
InUse == {"group", "dial", "abort", "teardown", "open", "closing"}

\* How the client's own state, its group and its connection go together.
ClientState(c) ==
    /\ gid[c] = c
    /\ st[c] = "out" => gst[c] = "fresh"
    /\ resolverGroups[c] = IF st[c] \in InUse THEN c ELSE NoGroup
    /\ st[c] \in {"out", "check", "group"} => cst[c] = "new"
    /\ st[c] = "dial" => cst[c] \in {"new", "found", "added", "open"}
    /\ st[c] = "abort" => cst[c] \in {"new", "open", "closing", "closed"}
    /\ st[c] \in {"teardown", "failed"} => cst[c] \in {"new", "closed"}
    /\ st[c] \in {"open", "closing", "closeconn"} => cst[c] = "open"
    /\ st[c] = "closed" => cst[c] = "closed"
    /\ cst[c] # "new" => home[c] = c
    /\ cst[c] = "closing" => found[c] = c
    /\ resolvers[c] =
          IF cst[c] \in {"added", "open", "closing"} \/ st[c] = "closed" THEN {c} ELSE {}
    /\ cst[c] = "added" => held[c] = endpoints[c]
    /\ cst[c] \in {"open", "closing"} => addrs[c] = endpoints[c]
    /\ cfgEps[c] # NoEps => Published(c) /\ cfgEps[c] = endpoints[c]
    /\ st[c] = "teardown" \/ (st[c] = "failed" /\ gst[c] = "closed") => c \in cancelled

ClientInv ==
    /\ ResolverInv
    /\ ClientTypeOK
    /\ Apart
    /\ \A c \in Clients : ClientState(c)

LEMMA ClientStart ==
    ASSUME ClientInit
    PROVE  ClientInv
<1>1. /\ resolverGroups = [i \in Ids |-> NoGroup]
      /\ gst = [g \in Groups |-> "fresh"]
      /\ endpoints = [g \in Groups |-> NoEps]
      /\ resolvers = [g \in Groups |-> {}]
      /\ cst = [c \in Conns |-> "new"]
      /\ home = [c \in Conns |-> NoGroup]
      /\ found = [c \in Conns |-> NoGroup]
      /\ \A c \in Clients : gid[c] = c
      /\ \A g \in Groups \ Clients : gid[g] \notin Clients
      /\ st = [c \in Clients |-> "out"]
      /\ cfgEps = [c \in Clients |-> NoEps]
      /\ cancelled = {}
  BY DEF ClientInit, Init
<1>2. ResolverInv
  BY ResolverInit DEF ClientInit
<1>3. Clients \subseteq Ids \cap Groups \cap Conns /\ NoGroup \notin Clients
  BY ClientAssumption, ResolverAssumption
<1>4. ClientTypeOK
  BY <1>1 DEF ClientTypeOK, Stages
<1>5. Apart
  BY <1>1, <1>3 DEF Apart
<1>6. \A c \in Clients : ClientState(c)
  BY <1>1, <1>3 DEF ClientState, InUse
<1> QED
  BY <1>2, <1>4, <1>5, <1>6 DEF ClientInv

\* What a step of client c leaves alone: everything of everyone else.
OthersKept(c) ==
    /\ \A i \in Ids \ {c} : resolverGroups'[i] = resolverGroups[i]
    /\ \A g \in Groups \ {c} :
            /\ gst'[g] = gst[g] /\ gid'[g] = gid[g]
            /\ endpoints'[g] = endpoints[g] /\ resolvers'[g] = resolvers[g]
    /\ \A d \in Conns \ {c} :
            /\ cst'[d] = cst[d] /\ home'[d] = home[d] /\ found'[d] = found[d]
            /\ held'[d] = held[d] /\ addrs'[d] = addrs[d]
    /\ \A d \in Clients \ {c} : st'[d] = st[d] /\ cfgEps'[d] = cfgEps[d]

LEMMA OneMoves ==
    ASSUME ClientInv, NEW c \in Clients, ResolverInv', ClientTypeOK', ClientState(c)',
           OthersKept(c), cancelled \subseteq cancelled'
    PROVE  ClientInv'
<1>1. ASSUME NEW d \in Clients, d # c PROVE ClientState(d)'
  <2>1. ClientState(d)
    BY DEF ClientInv
  <2>2. d \in Ids /\ d \in Groups /\ d \in Conns
    BY ClientAssumption
  <2> QED
    BY <1>1, <2>1, <2>2 DEF OthersKept, ClientState, Published
<1>2. Apart'
  BY DEF ClientInv, Apart, OthersKept
<1> QED
  BY <1>1, <1>2 DEF ClientInv

\* Whatever is known of every user of the package is known of the clients.
LEMMA ClientTakesResolverStep ==
    ASSUME [ClientNext]_allVars
    PROVE  [Next]_vars
<1> USE DEF GroupStep, Build, Close
<1>1. Clients \subseteq Ids \cap Groups \cap Conns
  BY ClientAssumption
<1>2. CASE UNCHANGED allVars
  BY <1>2 DEF allVars
<1>3. ASSUME NEW c \in Clients, NewGRPCClient(c)
      PROVE  [Next]_vars
  <2>1. CASE NewRefused(c) \/ DialOk(c) \/ DialError(c) \/ Abort(c)
    BY <2>1 DEF NewRefused, DialOk, DialError, Abort
  <2>2. CASE NewGroup(c) \/ AbortGroup(c)
    BY <1>1, <2>2 DEF NewGroup, AbortGroup, Next
  <2>3. CASE \E eps \in Eps : InitEndpoints(c, eps)
    BY <1>1, <2>3 DEF InitEndpoints, Next
  <2>4. CASE DialBuild(c) \/ DialCloseConn(c)
    BY <1>1, <2>4 DEF DialBuild, DialCloseConn, Next
  <2> QED
    BY <1>3, <2>1, <2>2, <2>3, <2>4 DEF NewGRPCClient
<1>4. ASSUME NEW c \in Clients, ClientClose(c)
      PROVE  [Next]_vars
  <2>1. CASE CloseCancel(c)
    BY <2>1 DEF CloseCancel
  <2>2. CASE ClientCloseGroup(c) \/ CloseConn(c)
    BY <1>1, <2>2 DEF ClientCloseGroup, CloseConn, Next
  <2> QED
    BY <1>4, <2>1, <2>2 DEF ClientClose
<1>5. ASSUME NEW c \in Clients, NEW eps \in Eps, ClientSetEndpoints(c, eps)
      PROVE  [Next]_vars
  BY <1>1, <1>5 DEF ClientSetEndpoints, Next
<1>6. CASE OtherUsers
  BY <1>6 DEF OtherUsers, OtherBuild, Next
<1> QED
  BY <1>2, <1>3, <1>4, <1>5, <1>6 DEF ClientNext

LEMMA NewStep ==
    ASSUME ClientInv, ResolverInv', NEW c \in Clients, NewRefused(c) \/ NewGroup(c)
    PROVE  ClientInv'
<1> USE DEF Move, vars, connVars, groupVars, clientVars
<1>1. /\ NoGroup \notin Groups /\ c \in Ids /\ c \in Groups /\ c \in Conns
      /\ TypeOK /\ ClientTypeOK /\ ClientState(c)
      /\ gid[c] = c /\ resolvers[c] \subseteq {c}
      /\ cst[c] # "new" => home[c] = c
      /\ cst[c] = "closing" => found[c] = c
  BY ClientAssumption, ResolverAssumption DEF ClientInv, ResolverInv, ClientState
<1>2. CASE NewRefused(c)
  <2>1. ClientTypeOK'
    BY <1>1, <1>2 DEF NewRefused, ClientTypeOK, TypeOK, Stages
  <2>2. OthersKept(c) /\ cancelled \subseteq cancelled'
    BY <1>1, <1>2 DEF NewRefused, ClientTypeOK, TypeOK, OthersKept
  <2>3. ClientState(c)'
    BY <1>1, <1>2
       DEF NewRefused, ClientTypeOK, TypeOK, ClientState, InUse, Published
  <2> QED
    BY <2>1, <2>2, <2>3, OneMoves
<1>3. CASE NewGroup(c) /\ NewFree(c)
  <2>1. ClientTypeOK'
    BY <1>1, <1>3
       DEF NewGroup, NewFree, NewInsert, ClientTypeOK, TypeOK, Stages
  <2>2. OthersKept(c) /\ cancelled \subseteq cancelled'
    BY <1>1, <1>3
       DEF NewGroup, NewFree, NewInsert, ClientTypeOK, TypeOK, OthersKept
  <2>3. ClientState(c)'
    BY <1>1, <1>3
       DEF NewGroup, NewFree, NewInsert, ClientTypeOK, TypeOK, ClientState,
           InUse, Published
  <2> QED
    BY <2>1, <2>2, <2>3, OneMoves
<1>4. CASE NewGroup(c) /\ NewInsert(c)
  <2>1. ClientTypeOK'
    BY <1>1, <1>4
       DEF NewGroup, NewFree, NewInsert, ClientTypeOK, TypeOK, Stages
  <2>2. OthersKept(c) /\ cancelled \subseteq cancelled'
    BY <1>1, <1>4
       DEF NewGroup, NewFree, NewInsert, ClientTypeOK, TypeOK, OthersKept
  <2>3. ClientState(c)'
    BY <1>1, <1>4
       DEF NewGroup, NewFree, NewInsert, ClientTypeOK, TypeOK, ClientState,
           InUse, Published
  <2> QED
    BY <2>1, <2>2, <2>3, OneMoves
<1> QED
  BY <1>2, <1>3, <1>4 DEF NewGroup

LEMMA DialStep ==
    ASSUME ClientInv, ResolverInv', NEW c \in Clients,
           DialBuild(c) \/ DialOk(c) \/ DialError(c)
    PROVE  ClientInv'
<1> USE DEF Move, vars, connVars, groupVars, clientVars
<1>1. /\ NoGroup \notin Groups /\ c \in Ids /\ c \in Groups /\ c \in Conns
      /\ TypeOK /\ ClientTypeOK /\ ClientState(c)
      /\ gid[c] = c /\ resolvers[c] \subseteq {c}
      /\ cst[c] # "new" => home[c] = c
      /\ cst[c] = "closing" => found[c] = c
  BY ClientAssumption, ResolverAssumption DEF ClientInv, ResolverInv, ClientState
<1>2. CASE DialBuild(c) /\ BuildFind(c, c)
  <2>1. ClientTypeOK'
    BY <1>1, <1>2 DEF DialBuild, BuildFind, ClientTypeOK, TypeOK, Stages
  <2>2. OthersKept(c) /\ cancelled \subseteq cancelled'
    BY <1>1, <1>2 DEF DialBuild, BuildFind, ClientTypeOK, TypeOK, OthersKept
  <2>3. ClientState(c)'
    BY <1>1, <1>2
       DEF DialBuild, BuildFind, ClientTypeOK, TypeOK, ClientState, InUse,
           Published
  <2> QED
    BY <2>1, <2>2, <2>3, OneMoves
<1>3. CASE DialBuild(c) /\ BuildAdd(c)
  <2>1. ClientTypeOK'
    BY <1>1, <1>3 DEF DialBuild, BuildAdd, ClientTypeOK, TypeOK, Stages
  <2>2. OthersKept(c) /\ cancelled \subseteq cancelled'
    BY <1>1, <1>3 DEF DialBuild, BuildAdd, ClientTypeOK, TypeOK, OthersKept
  <2>3. ClientState(c)'
    BY <1>1, <1>3
       DEF DialBuild, BuildAdd, ClientTypeOK, TypeOK, ClientState, InUse,
           Published
  <2> QED
    BY <2>1, <2>2, <2>3, OneMoves
<1>4. CASE DialBuild(c) /\ BuildNotify(c)
  <2>1. ClientTypeOK'
    BY <1>1, <1>4 DEF DialBuild, BuildNotify, ClientTypeOK, TypeOK, Stages
  <2>2. OthersKept(c) /\ cancelled \subseteq cancelled'
    BY <1>1, <1>4 DEF DialBuild, BuildNotify, ClientTypeOK, TypeOK, OthersKept
  <2>3. ClientState(c)'
    BY <1>1, <1>4
       DEF DialBuild, BuildNotify, ClientTypeOK, TypeOK, ClientState, InUse,
           Published
  <2> QED
    BY <2>1, <2>2, <2>3, OneMoves
<1>5. CASE DialOk(c)
  <2>1. ClientTypeOK'
    BY <1>1, <1>5 DEF DialOk, ClientTypeOK, TypeOK, Stages
  <2>2. OthersKept(c) /\ cancelled \subseteq cancelled'
    BY <1>1, <1>5 DEF DialOk, ClientTypeOK, TypeOK, OthersKept
  <2>3. ClientState(c)'
    BY <1>1, <1>5 DEF DialOk, ClientTypeOK, TypeOK, ClientState, InUse, Published
  <2> QED
    BY <2>1, <2>2, <2>3, OneMoves
<1>6. CASE DialError(c)
  <2>1. ClientTypeOK'
    BY <1>1, <1>6 DEF DialError, ClientTypeOK, TypeOK, Stages
  <2>2. OthersKept(c) /\ cancelled \subseteq cancelled'
    BY <1>1, <1>6 DEF DialError, ClientTypeOK, TypeOK, OthersKept
  <2>3. ClientState(c)'
    BY <1>1, <1>6
       DEF DialError, ClientTypeOK, TypeOK, ClientState, InUse, Published
  <2> QED
    BY <2>1, <2>2, <2>3, OneMoves
<1> QED
  BY <1>2, <1>3, <1>4, <1>5, <1>6 DEF DialBuild

LEMMA AbortStep ==
    ASSUME ClientInv, ResolverInv', NEW c \in Clients,
           DialCloseConn(c) \/ Abort(c) \/ AbortGroup(c)
    PROVE  ClientInv'
<1> USE DEF Move, vars, connVars, groupVars, clientVars
<1>1. /\ NoGroup \notin Groups /\ c \in Ids /\ c \in Groups /\ c \in Conns
      /\ TypeOK /\ ClientTypeOK /\ ClientState(c)
      /\ gid[c] = c /\ resolvers[c] \subseteq {c}
      /\ cst[c] # "new" => home[c] = c
      /\ cst[c] = "closing" => found[c] = c
  BY ClientAssumption, ResolverAssumption DEF ClientInv, ResolverInv, ClientState
<1>2. CASE DialCloseConn(c) /\ CloseFind(c)
  <2>1. ClientTypeOK'
    BY <1>1, <1>2 DEF DialCloseConn, CloseFind, ClientTypeOK, TypeOK, Stages
  <2>2. OthersKept(c) /\ cancelled \subseteq cancelled'
    BY <1>1, <1>2 DEF DialCloseConn, CloseFind, ClientTypeOK, TypeOK, OthersKept
  <2>3. ClientState(c)'
    BY <1>1, <1>2
       DEF DialCloseConn, CloseFind, ClientTypeOK, TypeOK, ClientState, InUse,
           Published
  <2> QED
    BY <2>1, <2>2, <2>3, OneMoves
<1>3. CASE DialCloseConn(c) /\ CloseRemove(c)
  <2>1. ClientTypeOK'
    BY <1>1, <1>3
       DEF DialCloseConn, CloseRemove, Remove, ClientTypeOK, TypeOK,
           Stages
  <2>2. OthersKept(c) /\ cancelled \subseteq cancelled'
    BY <1>1, <1>3
       DEF DialCloseConn, CloseRemove, Remove, ClientTypeOK, TypeOK,
           OthersKept
  <2>3. ClientState(c)'
    BY <1>1, <1>3
       DEF DialCloseConn, CloseRemove, Remove, ClientTypeOK, TypeOK,
           ClientState, InUse, Published
  <2> QED
    BY <2>1, <2>2, <2>3, OneMoves
<1>4. CASE Abort(c)
  <2>1. ClientTypeOK'
    BY <1>1, <1>4 DEF Abort, ClientTypeOK, TypeOK, Stages
  <2>2. OthersKept(c) /\ cancelled \subseteq cancelled'
    BY <1>1, <1>4 DEF Abort, ClientTypeOK, TypeOK, OthersKept
  <2>3. ClientState(c)'
    BY <1>1, <1>4 DEF Abort, ClientTypeOK, TypeOK, ClientState, InUse, Published
  <2> QED
    BY <2>1, <2>2, <2>3, OneMoves
<1>5. CASE AbortGroup(c)
  <2>1. ClientTypeOK'
    BY <1>1, <1>5 DEF AbortGroup, CloseGroup, ClientTypeOK, TypeOK, Stages
  <2>2. OthersKept(c) /\ cancelled \subseteq cancelled'
    BY <1>1, <1>5 DEF AbortGroup, CloseGroup, ClientTypeOK, TypeOK, OthersKept
  <2>3. ClientState(c)'
    BY <1>1, <1>5
       DEF AbortGroup, CloseGroup, ClientTypeOK, TypeOK, ClientState, InUse,
           Published
  <2> QED
    BY <2>1, <2>2, <2>3, OneMoves
<1> QED
  BY <1>2, <1>3, <1>4, <1>5 DEF DialCloseConn

LEMMA CloseClientStep ==
    ASSUME ClientInv, ResolverInv', NEW c \in Clients, ClientClose(c)
    PROVE  ClientInv'
<1> USE DEF Move, vars, connVars, groupVars, clientVars
<1>1. /\ NoGroup \notin Groups /\ c \in Ids /\ c \in Groups /\ c \in Conns
      /\ TypeOK /\ ClientTypeOK /\ ClientState(c)
      /\ gid[c] = c /\ resolvers[c] \subseteq {c}
      /\ cst[c] # "new" => home[c] = c
      /\ cst[c] = "closing" => found[c] = c
  BY ClientAssumption, ResolverAssumption DEF ClientInv, ResolverInv, ClientState
<1>2. CASE CloseCancel(c)
  <2>1. ClientTypeOK'
    BY <1>1, <1>2 DEF CloseCancel, ClientTypeOK, TypeOK, Stages
  <2>2. OthersKept(c) /\ cancelled \subseteq cancelled'
    BY <1>1, <1>2 DEF CloseCancel, ClientTypeOK, TypeOK, OthersKept
  <2>3. ClientState(c)'
    BY <1>1, <1>2
       DEF CloseCancel, ClientTypeOK, TypeOK, ClientState, InUse, Published
  <2> QED
    BY <2>1, <2>2, <2>3, OneMoves
<1>3. CASE ClientCloseGroup(c)
  <2>1. ClientTypeOK'
    BY <1>1, <1>3 DEF ClientCloseGroup, CloseGroup, ClientTypeOK, TypeOK, Stages
  <2>2. OthersKept(c) /\ cancelled \subseteq cancelled'
    BY <1>1, <1>3 DEF ClientCloseGroup, CloseGroup, ClientTypeOK, TypeOK, OthersKept
  <2>3. ClientState(c)'
    BY <1>1, <1>3
       DEF ClientCloseGroup, CloseGroup, ClientTypeOK, TypeOK, ClientState, InUse,
           Published
  <2> QED
    BY <2>1, <2>2, <2>3, OneMoves
<1>4. CASE CloseConn(c)
  <2>1. ClientTypeOK'
    BY <1>1, <1>4 DEF CloseConn, CloseGone, ClientTypeOK, TypeOK, Stages
  <2>2. OthersKept(c) /\ cancelled \subseteq cancelled'
    BY <1>1, <1>4 DEF CloseConn, CloseGone, ClientTypeOK, TypeOK, OthersKept
  <2>3. ClientState(c)'
    BY <1>1, <1>4
       DEF CloseConn, CloseGone, ClientTypeOK, TypeOK, ClientState, InUse,
           Published
  <2> QED
    BY <2>1, <2>2, <2>3, OneMoves
<1> QED
  BY <1>2, <1>3, <1>4 DEF ClientClose

LEMMA EndpointsStep ==
    ASSUME ClientInv, ResolverInv', NEW c \in Clients, NEW eps \in Eps,
           InitEndpoints(c, eps) \/ ClientSetEndpoints(c, eps)
    PROVE  ClientInv'
<1> USE DEF Move, vars, connVars, groupVars, clientVars
<1>1. /\ NoGroup \notin Groups /\ c \in Ids /\ c \in Groups /\ c \in Conns
      /\ TypeOK /\ ClientTypeOK /\ ClientState(c)
      /\ gid[c] = c /\ resolvers[c] \subseteq {c}
      /\ cst[c] # "new" => home[c] = c
      /\ cst[c] = "closing" => found[c] = c
  BY ClientAssumption, ResolverAssumption DEF ClientInv, ResolverInv, ClientState
<1>2. CASE InitEndpoints(c, eps)
  <2>1. ClientTypeOK'
    BY <1>1, <1>2
       DEF InitEndpoints, SetEndpoints, Notified, Listening, ClientTypeOK,
           TypeOK, Stages
  <2>2. OthersKept(c) /\ cancelled \subseteq cancelled'
    BY <1>1, <1>2
       DEF InitEndpoints, SetEndpoints, Notified, Listening, ClientTypeOK,
           TypeOK, OthersKept
  <2>3. ClientState(c)'
    BY <1>1, <1>2
       DEF InitEndpoints, SetEndpoints, Notified, Listening, ClientTypeOK,
           TypeOK, ClientState, InUse, Published
  <2> QED
    BY <2>1, <2>2, <2>3, OneMoves
<1>3. CASE ClientSetEndpoints(c, eps)
  <2>1. ClientTypeOK'
    BY <1>1, <1>3
       DEF ClientSetEndpoints, SetEndpoints, Notified, Listening, ClientTypeOK,
           TypeOK, Stages
  <2>2. OthersKept(c) /\ cancelled \subseteq cancelled'
    BY <1>1, <1>3
       DEF ClientSetEndpoints, SetEndpoints, Notified, Listening, ClientTypeOK,
           TypeOK, OthersKept
  <2>3. ClientState(c)'
    BY <1>1, <1>3
       DEF ClientSetEndpoints, SetEndpoints, Notified, Listening, ClientTypeOK,
           TypeOK, ClientState, InUse, Published
  <2> QED
    BY <2>1, <2>2, <2>3, OneMoves
<1> QED
  BY <1>2, <1>3

\* The steps of the package's other users.
LEMMA OthersStep ==
    ASSUME ClientInv, ResolverInv', OtherUsers
    PROVE  ClientInv'
<1> USE DEF vars, connVars, groupVars, clientVars
<1>1. /\ NoGroup \notin Groups /\ Clients \subseteq Ids \cap Groups \cap Conns
      /\ TypeOK /\ ClientTypeOK /\ Apart
      /\ UNCHANGED clientVars
  BY ClientAssumption, ResolverAssumption DEF ClientInv, ResolverInv, OtherUsers
<1> DEFINE Kept ==
      \A c \in Clients :
        /\ resolverGroups'[c] = resolverGroups[c]
        /\ gst'[c] = gst[c] /\ gid'[c] = gid[c]
        /\ endpoints'[c] = endpoints[c] /\ resolvers'[c] = resolvers[c]
        /\ cst'[c] = cst[c] /\ home'[c] = home[c] /\ found'[c] = found[c]
        /\ held'[c] = held[c] /\ addrs'[c] = addrs[c]
<1>2. ASSUME NEW g \in Groups \ Clients, GroupStep(g)
      PROVE  Kept /\ Apart'
  <2>1. gid[g] \in Ids \ Clients /\ resolvers[g] \cap Clients = {}
    BY <1>1 DEF TypeOK, Apart
  <2>2. CASE NewTaken(g)
    BY <1>1, <2>2 DEF NewTaken, Apart
  <2>3. CASE NewFree(g)
    BY <1>1, <2>1, <2>3 DEF NewFree, TypeOK, Apart
  <2>4. CASE NewInsert(g)
    BY <1>1, <2>1, <2>4 DEF NewInsert, TypeOK, Apart
  <2>5. CASE CloseGroup(g)
    BY <1>1, <2>1, <2>5 DEF CloseGroup, TypeOK, Apart
  <2>6. ASSUME NEW eps \in Eps, SetEndpoints(g, eps)
        PROVE  Kept /\ Apart'
    <3>1. \A c \in Clients : c \notin Notified(g)
      BY <2>1 DEF Notified
    <3> QED
      BY <1>1, <2>1, <2>6, <3>1 DEF SetEndpoints, TypeOK, Apart
  <2> QED
    BY <1>2, <2>2, <2>3, <2>4, <2>5, <2>6 DEF GroupStep
<1>3. ASSUME NEW d \in Conns \ Clients, OtherBuild(d)
      PROVE  Kept /\ Apart'
  <2>1. home[d] \notin Clients
    BY <1>1 DEF Apart
  <2>2. ASSUME NEW i \in Ids \ Clients, BuildMissing(d, i)
        PROVE  Kept /\ Apart'
    BY <1>1, <2>2 DEF BuildMissing, Apart
  <2>3. ASSUME NEW i \in Ids \ Clients, BuildFind(d, i)
        PROVE  Kept /\ Apart'
    BY <1>1, <2>3 DEF BuildFind, TypeOK, Apart
  <2>4. CASE BuildAdd(d)
    BY <1>1, <2>1, <2>4 DEF BuildAdd, TypeOK, Apart
  <2>5. CASE BuildNotify(d)
    BY <1>1, <2>5 DEF BuildNotify, TypeOK, Apart
  <2> QED
    BY <1>3, <2>2, <2>3, <2>4, <2>5 DEF OtherBuild
<1>4. ASSUME NEW d \in Conns \ Clients, Close(d)
      PROVE  Kept /\ Apart'
  <2>1. CASE CloseGone(d)
    BY <1>1, <2>1 DEF CloseGone, TypeOK, Apart
  <2>2. CASE CloseFind(d)
    <3>1. home[d] \in Groups \ Clients
      BY <1>1, <2>2 DEF CloseFind, TypeOK, Apart
    <3>2. resolverGroups[gid[home[d]]] \notin Clients
      BY <1>1, <3>1 DEF TypeOK, Apart
    <3> QED
      BY <1>1, <2>2, <3>2 DEF CloseFind, TypeOK, Apart
  <2>3. CASE CloseRemove(d)
    <3>1. found[d] \in Groups \ Clients
      BY <1>1, <2>3 DEF CloseRemove, TypeOK, Apart
    <3> QED
      BY <1>1, <2>3, <3>1 DEF CloseRemove, Remove, TypeOK, Apart
  <2> QED
    BY <1>4, <2>1, <2>2, <2>3 DEF Close
<1>5. Kept /\ Apart'
  BY <1>2, <1>3, <1>4 DEF OtherUsers
<1>6. ASSUME NEW c \in Clients PROVE ClientState(c)'
  <2>1. ClientState(c)
    BY DEF ClientInv
  <2> QED
    BY <1>1, <1>5, <2>1 DEF ClientState, Published
<1> QED
  BY <1>1, <1>5, <1>6 DEF ClientInv, ClientTypeOK

LEMMA ClientStep ==
    ASSUME ClientInv, [ClientNext]_allVars
    PROVE  ClientInv'
<1>0. ResolverInv'
  BY ClientTakesResolverStep, ResolverStep DEF ClientInv
<1>1. CASE UNCHANGED allVars
  BY <1>0, <1>1 DEF allVars, vars, groupVars, connVars, clientVars, ClientInv,
              ClientTypeOK, Apart, ClientState, Published
<1>2. ASSUME NEW c \in Clients, NewGRPCClient(c)
      PROVE  ClientInv'
  BY <1>0, <1>2, NewStep, DialStep, AbortStep, EndpointsStep DEF NewGRPCClient
<1> QED
  BY <1>0, <1>1, <1>2, CloseClientStep, EndpointsStep, OthersStep DEF ClientNext

LEMMA ClientAlways == ClientSpec => []ClientInv
  BY ClientStart, ClientStep, PTL DEF ClientSpec

(* Every variable of the resolver package keeps its type, whoever uses it;  *)
(* a Resolver has a group from Build on, and a group to remove itself from  *)
(* exactly while it closes.                                                 *)
THEOREM ResolverTypeCorrect == ClientSpec => []TypeOK
<1>1. ClientInv => TypeOK
  BY DEF ClientInv, ResolverInv
<1> QED
  BY <1>1, ClientAlways, PTL

(* The only way for a registered connection to miss the group's endpoints   *)
(* is the overlap of its addResolver with a SetEndpoints.                   *)
THEOREM StaleOnlyByOverlap == ClientSpec => []CurrentUnlessLate
<1>1. ClientInv => CurrentUnlessLate
  BY DEF ClientInv, ResolverInv
<1> QED
  BY <1>1, ClientAlways, PTL

(* A closed connection is left only in the lists of groups that are out of  *)
(* the registry, however groups are created, replaced and closed meanwhile. *)
THEOREM CloseDeregisters == ClientSpec => []ClosedStaysOnlyInOrphans
<1>1. ClientInv => ClosedStaysOnlyInOrphans
  BY DEF ClientInv, ResolverInv
<1> QED
  BY <1>1, ClientAlways, PTL

(* However dials fail and clients are closed, the registry of groups has an *)
(* entry for exactly the clients in use, and a failed dial leaves nothing.  *)
THEOREM RegistryHasClientsInUse == ClientSpec => []RegisteredExactlyInUse
<1>1. ClientInv => RegisteredExactlyInUse
  BY DEF ClientInv, ClientState, InUse, RegisteredExactlyInUse
<1> QED
  BY <1>1, ClientAlways, PTL

(* The connection of a client that others can see has the endpoints that    *)
(* were set last: the race in the package does not reach a GrpcClient.      *)
THEOREM ClientConnCurrent == ClientSpec => []ConnCurrent
<1>1. ClientInv => ConnCurrent
  BY DEF ClientInv, ClientState, ConnCurrent, Published
<1> QED
  BY <1>1, ClientAlways, PTL
=============================================================================
