------------------------------ MODULE Resolver ------------------------------
(***************************************************************************)
(* grpc/client/balancer/resolver/resolver.go: the registry of resolver     *)
(* groups (builder) and the groups.  A group hands one list of endpoints   *)
(* to every gRPC connection that was dialled with the group's id.          *)
(*                                                                         *)
(* The builder's mutex and each group's mutex are held for one map or list *)
(* operation at a time, so NewResolverGroup, Build and Resolver.Close are  *)
(* several critical sections each; one action is one of them.  Addresses   *)
(* reach a connection through NewAddress, which SetEndpoints calls with    *)
(* the group's lock held and addResolver without it.                       *)
(*                                                                         *)
(* A NewResolverGroup call is named by the group it would create, and a    *)
(* Resolver by the connection it belongs to.  e.resolvers is a set: only   *)
(* membership matters, and a Resolver is added once.                       *)
(***************************************************************************)
CONSTANTS Ids,       \* ids of groups, the authority part of a target
          Groups,    \* identities of *ResolverGroup
          Conns,     \* gRPC connections, each with its Resolver
          Eps,       \* lists of endpoints
          NoGroup,   \* no group
          NoEps      \* the nil list

ASSUME ResolverAssumption ==
    /\ NoGroup \notin Groups
    /\ NoEps \notin Eps

VARIABLES resolverGroups,  \* builder.resolverGroups: id -> group
          gst,             \* group -> how far its life is
          gid,             \* group -> its id
          endpoints,       \* group -> its endpoints
          resolvers,       \* group -> the connections registered with it
          cst,             \* connection -> how far its Resolver's life is
          home,            \* connection -> the group Build found
          found,           \* connection -> the group Resolver.Close found
          held,            \* connection -> addrs, captured by addResolver
          addrs,           \* connection -> the addresses it got last
          late             \* history: connections that an addResolver, slower
                           \* than a SetEndpoints, may leave behind

groupVars == <<resolverGroups, gst, gid, endpoints>>
connVars  == <<cst, home, found, held, addrs, late>>
vars == <<groupVars, resolvers, connVars>>

TypeOK ==
    /\ resolverGroups \in [Ids -> Groups \cup {NoGroup}]
    /\ gst \in [Groups -> {"fresh", "checked", "live", "closed"}]
    /\ gid \in [Groups -> Ids]
    /\ endpoints \in [Groups -> Eps \cup {NoEps}]
    /\ resolvers \in [Groups -> SUBSET Conns]
    /\ cst \in [Conns -> {"new", "found", "added", "open", "closing", "closed"}]
    /\ home \in [Conns -> Groups \cup {NoGroup}]
    /\ found \in [Conns -> Groups \cup {NoGroup}]
    /\ held \in [Conns -> Eps \cup {NoEps}]
    /\ addrs \in [Conns -> Eps \cup {NoEps}]
    /\ late \in SUBSET Conns
    /\ \A c \in Conns : home[c] = NoGroup <=> cst[c] = "new"
    /\ \A c \in Conns : found[c] # NoGroup <=> cst[c] = "closing"

Init ==
    /\ resolverGroups = [i \in Ids |-> NoGroup]
    /\ gst = [g \in Groups |-> "fresh"]
    /\ gid \in [Groups -> Ids]
    /\ endpoints = [g \in Groups |-> NoEps]
    /\ resolvers = [g \in Groups |-> {}]
    /\ cst = [c \in Conns |-> "new"]
    /\ home = [c \in Conns |-> NoGroup]
    /\ found = [c \in Conns |-> NoGroup]
    /\ held = [c \in Conns |-> NoEps]
    /\ addrs = [c \in Conns |-> NoEps]
    /\ late = {}

-----------------------------------------------------------------------------
(* NewResolverGroup and ResolverGroup.Close                                *)

\* The id is taken: an error.
NewTaken(g) ==
    /\ gst[g] = "fresh"
    /\ resolverGroups[gid[g]] # NoGroup
    /\ UNCHANGED vars

NewFree(g) ==
    /\ gst[g] = "fresh"
    /\ resolverGroups[gid[g]] = NoGroup
    /\ gst' = [gst EXCEPT ![g] = "checked"]
    /\ UNCHANGED <<resolverGroups, gid, endpoints, resolvers, connVars>>

\* The write lock is a second critical section; the id is not looked up again.
NewInsert(g) ==
    /\ gst[g] = "checked"
    /\ gst' = [gst EXCEPT ![g] = "live"]
    /\ resolverGroups' = [resolverGroups EXCEPT ![gid[g]] = g]
    /\ UNCHANGED <<gid, endpoints, resolvers, connVars>>

\* builder.close deletes by id; it may be called again.
CloseGroup(g) ==
    /\ gst[g] \in {"live", "closed"}
    /\ gst' = [gst EXCEPT ![g] = "closed"]
    /\ resolverGroups' = [resolverGroups EXCEPT ![gid[g]] = NoGroup]
    /\ UNCHANGED <<gid, endpoints, resolvers, connVars>>

-----------------------------------------------------------------------------
(* SetEndpoints                                                            *)

\* grpc drops what a closed connection is sent.
Listening(c) == cst[c] \in {"added", "open", "closing"}

\* The connections NewAddress reaches.
Notified(g) == {c \in resolvers[g] : Listening(c)}

\* Mutant: the addresses are built from the old endpoints.
MutantSetEndpoints(g, eps) ==
    /\ gst[g] \in {"live", "closed"}
    /\ endpoints' = [endpoints EXCEPT ![g] = eps]
    /\ addrs' = [c \in Conns |-> IF c \in Notified(g) THEN endpoints[g] ELSE addrs[c]]
    /\ late' = (late \ Notified(g)) \cup {c \in resolvers[g] : cst[c] = "added"}
    /\ UNCHANGED <<resolverGroups, gst, gid, resolvers, cst, home, found, held>>

SetEndpoints(g, eps) ==
    /\ gst[g] \in {"live", "closed"}
    /\ endpoints' = [endpoints EXCEPT ![g] = eps]
    /\ addrs' = [c \in Conns |-> IF c \in Notified(g) THEN eps ELSE addrs[c]]
    /\ late' = (late \ Notified(g)) \cup {c \in resolvers[g] : cst[c] = "added"}
    /\ UNCHANGED <<resolverGroups, gst, gid, resolvers, cst, home, found, held>>

-----------------------------------------------------------------------------
(* Build and Resolver.Close                                                *)

\* No group has the id (none ever has the empty id): Build returns an error.
BuildMissing(c, i) ==
    /\ cst[c] = "new"
    /\ resolverGroups[i] = NoGroup
    /\ UNCHANGED vars

BuildFind(c, i) ==
    /\ cst[c] = "new"
    /\ resolverGroups[i] # NoGroup
    /\ home' = [home EXCEPT ![c] = resolverGroups[i]]
    /\ cst' = [cst EXCEPT ![c] = "found"]
    /\ UNCHANGED <<groupVars, resolvers, found, held, addrs, late>>

\* addResolver, with the lock held: read the endpoints and register.
BuildAdd(c) ==
    /\ cst[c] = "found"
    /\ held' = [held EXCEPT ![c] = endpoints[home[c]]]
    /\ resolvers' = [resolvers EXCEPT ![home[c]] = @ \cup {c}]
    /\ cst' = [cst EXCEPT ![c] = "added"]
    /\ UNCHANGED <<groupVars, home, found, addrs, late>>

\* addResolver, after the unlock.
BuildNotify(c) ==
    /\ cst[c] = "added"
    /\ addrs' = [addrs EXCEPT ![c] = held[c]]
    /\ cst' = [cst EXCEPT ![c] = "open"]
    /\ UNCHANGED <<groupVars, resolvers, home, found, held, late>>

\* Close looks the group up by id: it may be gone, or be another group.
CloseGone(c) ==
    /\ cst[c] = "open"
    /\ resolverGroups[gid[home[c]]] = NoGroup
    /\ cst' = [cst EXCEPT ![c] = "closed"]
    /\ UNCHANGED <<groupVars, resolvers, home, found, held, addrs, late>>

CloseFind(c) ==
    /\ cst[c] = "open"
    /\ resolverGroups[gid[home[c]]] # NoGroup
    /\ found' = [found EXCEPT ![c] = resolverGroups[gid[home[c]]]]
    /\ cst' = [cst EXCEPT ![c] = "closing"]
    /\ UNCHANGED <<groupVars, resolvers, home, held, addrs, late>>

\* Mutant: the shortened list is not stored.
MutantRemoveNothing(g, c) == resolvers[g]

\* The list without c; nothing happens if the group does not have it.
Remove(g, c) == resolvers[g] \ {c}

\* removeResolver
CloseRemove(c) ==
    /\ cst[c] = "closing"
    /\ resolvers' = [resolvers EXCEPT ![found[c]] = Remove(found[c], c)]
    /\ found' = [found EXCEPT ![c] = NoGroup]
    /\ cst' = [cst EXCEPT ![c] = "closed"]
    /\ UNCHANGED <<groupVars, home, held, addrs, late>>

-----------------------------------------------------------------------------
GroupStep(g) ==
    \/ NewTaken(g) \/ NewFree(g) \/ NewInsert(g) \/ CloseGroup(g)
    \/ \E eps \in Eps : SetEndpoints(g, eps)

Build(c) ==
    \/ \E i \in Ids : BuildMissing(c, i) \/ BuildFind(c, i)
    \/ BuildAdd(c) \/ BuildNotify(c)

Close(c) == CloseGone(c) \/ CloseFind(c) \/ CloseRemove(c)

Next ==
    \/ \E g \in Groups : GroupStep(g)
    \/ \E c \in Conns : Build(c) \/ Close(c)

Spec == Init /\ [][Next]_vars

-----------------------------------------------------------------------------
(* Properties                                                              *)

\* A connection that is registered and whose Build has returned has the
\* group's current endpoints, unless the NewAddress of its addResolver
\* (line 54, after the unlock) came after that of a SetEndpoints it had
\* overlapped, and no SetEndpoints has run since.
CurrentUnlessLate ==
    \A g \in Groups : \A c \in resolvers[g] :
        cst[c] \in {"open", "closing"} /\ c \notin late => addrs[c] = endpoints[g]

\* A closed connection stays in the list of a group (and goes on being sent
\* addresses by it) only if that group has left the registry: Resolver.Close
\* finds its group by id and does nothing once the id is gone or reused.
ClosedStaysOnlyInOrphans ==
    \A g \in Groups : \A c \in resolvers[g] :
        cst[c] = "closed" => resolverGroups[gid[g]] # g

\* A connection is in the list of at most one group, the one Build found, for
\* as long as that group can be told of it.
RegisteredAtHome ==
    \A c \in Conns :
        /\ \A g \in Groups : c \in resolvers[g] => home[c] = g
        /\ cst[c] \in {"added", "open", "closing"} => c \in resolvers[home[c]]
=============================================================================
