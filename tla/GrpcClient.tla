----------------------------- MODULE GrpcClient -----------------------------
(***************************************************************************)
(* grpc/client/client.go: the life of a GrpcClient, composed with the      *)
(* resolver package it works through (module Resolver).  A step of a       *)
(* client that calls the package is one of that module's critical          *)
(* sections, taken at a certain stage of NewGRPCClient, SetEndpoints or    *)
(* Close, conjoined with what it does to the client; the package's other   *)
(* users go on beside the clients, as module Resolver lets them.           *)
(*                                                                         *)
(* A client owns one group, with an id of its own (a UUID, taken to be     *)
(* known to nobody else: the error at lines 190-193 cannot occur), and one *)
(* connection, so all three are named by the client.  grpc.DialContext is  *)
(* external: it calls Build, may fail before or after that, and closes the *)
(* connection it gives up.                                                 *)
(***************************************************************************)
EXTENDS Resolver

CONSTANT Clients

ASSUME ClientAssumption == Clients \subseteq Ids \cap Groups \cap Conns

VARIABLES st,         \* client -> how far its life is
          cfgEps,     \* client -> c.cfg.Endpoints
          cancelled   \* the clients whose context is cancelled

clientVars == <<st, cfgEps, cancelled>>
allVars == <<vars, clientVars>>

\* In NewGRPCClient: "out", "check" and "group" (in and after
\* NewResolverGroup), "dial", "abort" and "teardown" (the dial failed: its
\* connection, then the group, go), "failed".  Outside of it: "open",
\* "closing" and "closeconn" (in Close), "closed".
Stages == {"out", "check", "group", "dial", "abort", "teardown", "failed",
           "open", "closing", "closeconn", "closed"}

ClientInit ==
    /\ Init
    /\ \A c \in Clients : gid[c] = c
    /\ \A g \in Groups \ Clients : gid[g] \notin Clients
    /\ st = [c \in Clients |-> "out"]
    /\ cfgEps = [c \in Clients |-> NoEps]
    /\ cancelled = {}

Move(c, from, to) ==
    /\ st[c] = from
    /\ st' = [st EXCEPT ![c] = to]

-----------------------------------------------------------------------------
(* NewGRPCClient                                                           *)

\* The receive limit is below the send limit: nothing was made yet.
NewRefused(c) ==
    /\ Move(c, "out", "failed")
    /\ UNCHANGED <<vars, cfgEps, cancelled>>

NewGroup(c) ==
    /\ \/ NewFree(c)   /\ Move(c, "out", "check")
       \/ NewInsert(c) /\ Move(c, "check", "group")
    /\ UNCHANGED <<cfgEps, cancelled>>

\* The group gets the configured endpoints; client.cfg is not assigned.
InitEndpoints(c, eps) ==
    /\ SetEndpoints(c, eps)
    /\ Move(c, "group", "dial")
    /\ UNCHANGED <<cfgEps, cancelled>>

\* DialContext builds the resolver of the target dialWithBalancer made.
DialBuild(c) ==
    /\ st[c] = "dial"
    /\ BuildFind(c, c) \/ BuildAdd(c) \/ BuildNotify(c)
    /\ UNCHANGED clientVars

DialOk(c) ==
    /\ cst[c] = "open"
    /\ Move(c, "dial", "open")
    /\ UNCHANGED <<vars, cfgEps, cancelled>>

\* DialContext fails, with or without a resolver built, and closes what it made.
DialError(c) ==
    /\ cst[c] \in {"new", "open"}
    /\ Move(c, "dial", "abort")
    /\ UNCHANGED <<vars, cfgEps, cancelled>>

DialCloseConn(c) ==
    /\ st[c] = "abort"
    /\ CloseFind(c) \/ CloseRemove(c)
    /\ UNCHANGED clientVars

\* DialContext returns its error: client.cancel()
Abort(c) ==
    /\ cst[c] \in {"new", "closed"}
    /\ Move(c, "abort", "teardown")
    /\ cancelled' = cancelled \cup {c}
    /\ UNCHANGED <<vars, cfgEps>>

\* Mutant: the error path leaves the group registered.
MutantAbortGroup(c) ==
    /\ Move(c, "teardown", "failed")
    /\ UNCHANGED <<vars, cfgEps, cancelled>>

\* client.resolverGroup.Close(), and NewGRPCClient returns the error.
AbortGroup(c) ==
    /\ CloseGroup(c)
    /\ Move(c, "teardown", "failed")
    /\ UNCHANGED <<cfgEps, cancelled>>

-----------------------------------------------------------------------------
(* SetEndpoints and Close, by whoever has the client                       *)

Published(c) == st[c] \in {"open", "closing", "closeconn", "closed"}

\* Mutant: the endpoints are only noted.
MutantClientSetEndpoints(c, eps) ==
    /\ Published(c)
    /\ cfgEps' = [cfgEps EXCEPT ![c] = eps]
    /\ endpoints' = [endpoints EXCEPT ![c] = eps]
    /\ UNCHANGED <<resolverGroups, gst, gid, resolvers, cst, home, found, held, addrs, late,
                   st, cancelled>>

\* One critical section of c.mu.
ClientSetEndpoints(c, eps) ==
    /\ Published(c)
    /\ SetEndpoints(c, eps)
    /\ cfgEps' = [cfgEps EXCEPT ![c] = eps]
    /\ UNCHANGED <<st, cancelled>>

CloseCancel(c) ==
    /\ Move(c, "open", "closing")
    /\ cancelled' = cancelled \cup {c}
    /\ UNCHANGED <<vars, cfgEps>>

ClientCloseGroup(c) ==
    /\ CloseGroup(c)
    /\ Move(c, "closing", "closeconn")
    /\ UNCHANGED <<cfgEps, cancelled>>

\* Mutant: Conn.Close waits for a group to deregister from.
MutantCloseConn(c) ==
    /\ CloseFind(c)
    /\ Move(c, "closeconn", "closed")
    /\ UNCHANGED <<cfgEps, cancelled>>

\* Conn.Close closes the Resolver, whose group is gone by now.
CloseConn(c) ==
    /\ CloseGone(c)
    /\ Move(c, "closeconn", "closed")
    /\ UNCHANGED <<cfgEps, cancelled>>

-----------------------------------------------------------------------------
NewGRPCClient(c) ==
    \/ NewRefused(c) \/ NewGroup(c)
    \/ \E eps \in Eps : InitEndpoints(c, eps)
    \/ DialBuild(c) \/ DialOk(c)
    \/ DialError(c) \/ DialCloseConn(c) \/ Abort(c) \/ AbortGroup(c)

ClientClose(c) == CloseCancel(c) \/ ClientCloseGroup(c) \/ CloseConn(c)

\* The package's other users: their groups, and connections to their ids.
OtherBuild(c) ==
    \/ \E i \in Ids \ Clients : BuildMissing(c, i) \/ BuildFind(c, i)
    \/ BuildAdd(c) \/ BuildNotify(c)

OtherUsers ==
    /\ \/ \E g \in Groups \ Clients : GroupStep(g)
       \/ \E c \in Conns \ Clients : OtherBuild(c) \/ Close(c)
    /\ UNCHANGED clientVars

ClientNext ==
    \/ \E c \in Clients :
          \/ NewGRPCClient(c) \/ ClientClose(c)
          \/ \E eps \in Eps : ClientSetEndpoints(c, eps)
    \/ OtherUsers

\* NewGRPCClient and Close run on to their end once called.
ClientFairness == \A c \in Clients :
    /\ WF_allVars(NewGRPCClient(c) /\ st[c] # "out")
    /\ WF_allVars(ClientCloseGroup(c) \/ CloseConn(c))

ClientSpec == ClientInit /\ [][ClientNext]_allVars
ClientFairSpec == ClientSpec /\ ClientFairness

-----------------------------------------------------------------------------
(* Properties                                                              *)

\* A client in use has an entry in the registry of groups, and one that
\* failed (lines 201-202) or was closed (line 44) leaves none behind: entries
\* do not pile up over the life of the program.  And the order of the error
\* path is right: a failed dial has deregistered its Resolver before the group
\* leaves the registry, which Resolver.Close needs, and its context is cancelled.
RegisteredExactlyInUse ==
    \A c \in Clients :
        /\ resolverGroups[c] =
              IF st[c] \in {"group", "dial", "abort", "teardown", "open", "closing"}
              THEN c ELSE NoGroup
        /\ st[c] = "failed" => /\ resolvers[c] = {}
                               /\ gst[c] = "closed" => c \in cancelled

\* The connection of a client always has the endpoints of the client's group.
\* The race of addResolver and SetEndpoints in the resolver package does not
\* happen to a GrpcClient: nobody has the client before the dial is over.
ConnCurrent ==
    \A c \in Clients :
        /\ Published(c) /\ st[c] # "closed" => addrs[c] = endpoints[c]
        /\ cfgEps[c] # NoEps => cfgEps[c] = endpoints[c]

\* A client that began to close, or whose dial failed, is torn down in the end.
TearsDown ==
    \A c \in Clients :
        st[c] \in {"abort", "closing"} ~> st[c] \in {"failed", "closed"}
=============================================================================
