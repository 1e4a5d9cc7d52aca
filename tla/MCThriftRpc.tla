---------------------------- MODULE MCThriftRpc ----------------------------
(* Three calls over one pooled connection: one of each kind on the same     *)
(* key, two of one kind, whose arguments may be mixed up, and two Pings.    *)
EXTENDS ThriftRpc

CONSTANTS c1, c2, c3

MCCalls == {c1, c2, c3}

GetCall == [name |-> "Get", req |-> [Key |-> "a", Serializable |-> TRUE]]
PutCall(v) == [name |-> "Put", req |-> [Key |-> "a", Value |-> v]]
MultiPutCall ==
    [name |-> "MultiPut", req |-> <<[Key |-> "a", Value |-> "y"], [Key |-> "b", Value |-> "x"],
                                    [Key |-> "a", Value |-> "z"]>>]
PingCall == [name |-> "Ping", req |-> <<>>]

Workload(r1, r2, r3) == [c \in MCCalls |-> CASE c = c1 -> r1 [] c = c2 -> r2 [] c = c3 -> r3]

MCWorkloads ==
    {Workload(PutCall("x"), GetCall, MultiPutCall),
     Workload(PutCall("x"), PutCall("y"), GetCall),
     Workload(PutCall("x"), PingCall, PingCall)}
=============================================================================
