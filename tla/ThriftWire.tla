---------------------------- MODULE ThriftWire -----------------------------
(***************************************************************************)
(* thrift/rpc/rpc.go: the generated structs and how they are written to    *)
(* and read from a protocol.                                               *)
(*                                                                         *)
(* A struct on the wire is the sequence of its fields, each with its id,   *)
(* its type and a value that is itself a struct on the wire for STRUCT and *)
(* a sequence of them for LIST.  A struct in memory is a record, nil for   *)
(* the nil pointer; a nil slice is the empty sequence.  The bytes of the   *)
(* protocol, and its errors, are left out.                                 *)
(***************************************************************************)
EXTENDS Integers, Sequences, FiniteSetsExt

CONSTANTS nil,      \* the nil pointer
          Strings   \* the strings that occur

Health         == [OK: BOOLEAN, Errors: Strings]
GetRequest     == [Key: Strings, Serializable: BOOLEAN]
PutRequest     == [Key: Strings, Value: Strings]
KeyValue       == [Key: Strings, Value: Strings]
ResponseHeader == [ClusterID: Int, NodeID: Int, ConsumeTime: Int, NodeIP: Strings]
GetResponse    == [Header: ResponseHeader, Kvs: Seq(KeyValue)]
PutResponse    == [Header: ResponseHeader]
KVArgs         == [Req: GetRequest] \cup [Req: PutRequest] \cup [Reqs: Seq(PutRequest)]

\* The nil pointer is no struct, and the zero string one that occurs.
ASSUME WireAssumption ==
    /\ "" \in Strings
    /\ nil \notin Health \cup GetRequest \cup PutRequest \cup KeyValue \cup ResponseHeader
                     \cup GetResponse \cup PutResponse \cup KVArgs

-----------------------------------------------------------------------------
(* What every Write and Read does                                          *)

Field(id, type, val) == [id |-> id, type |-> type, val |-> val]

\* Write of a nil pointer writes a struct without fields.
StructOf(p, fields) == IF p = nil THEN <<>> ELSE fields

WriteList(Write(_), list) == [i \in DOMAIN list |-> Write(list[i])]

ReadList(Read(_), w) == [i \in DOMAIN w |-> Read(w[i])]

Scalar(v) == v

\* The loop over the fields: the last one with this id and this type counts,
\* every other field is skipped, and without one the field keeps its zero.
ReadField(w, id, type, zero, Read(_)) ==
    LET at == {i \in DOMAIN w : w[i].id = id /\ w[i].type = type}
    IN  IF at = {} THEN zero ELSE Read(w[Max(at)].val)

-----------------------------------------------------------------------------
(* The structs of the service                                              *)

WriteHealth(p) == StructOf(p, <<Field(1, "BOOL", p.OK), Field(2, "STRING", p.Errors)>>)

ReadHealth(w) == [OK     |-> ReadField(w, 1, "BOOL", FALSE, Scalar),
                  Errors |-> ReadField(w, 2, "STRING", "", Scalar)]

WriteGetRequest(p) ==
    StructOf(p, <<Field(1, "STRING", p.Key), Field(2, "BOOL", p.Serializable)>>)

ReadGetRequest(w) == [Key          |-> ReadField(w, 1, "STRING", "", Scalar),
                      Serializable |-> ReadField(w, 2, "BOOL", FALSE, Scalar)]

WriteKeyValue(p) == StructOf(p, <<Field(1, "STRING", p.Key), Field(2, "STRING", p.Value)>>)

ReadKeyValue(w) == [Key   |-> ReadField(w, 1, "STRING", "", Scalar),
                    Value |-> ReadField(w, 2, "STRING", "", Scalar)]

WritePutRequest(p) ==
    StructOf(p, <<Field(1, "STRING", p.Key), Field(2, "STRING", p.Value)>>)

ReadPutRequest(w) == [Key   |-> ReadField(w, 1, "STRING", "", Scalar),
                      Value |-> ReadField(w, 2, "STRING", "", Scalar)]

WriteResponseHeader(p) ==
    StructOf(p, <<Field(1, "I64", p.ClusterID), Field(2, "I64", p.NodeID),
                  Field(3, "I64", p.ConsumeTime), Field(4, "STRING", p.NodeIP)>>)

ReadResponseHeader(w) == [ClusterID   |-> ReadField(w, 1, "I64", 0, Scalar),
                          NodeID      |-> ReadField(w, 2, "I64", 0, Scalar),
                          ConsumeTime |-> ReadField(w, 3, "I64", 0, Scalar),
                          NodeIP      |-> ReadField(w, 4, "STRING", "", Scalar)]

WriteGetResponse(p) ==
    StructOf(p, <<Field(1, "STRUCT", WriteResponseHeader(p.Header)),
                  Field(2, "LIST", WriteList(WriteKeyValue, p.Kvs))>>)

ReadKvs(w) == ReadList(ReadKeyValue, w)

ReadGetResponse(w) == [Header |-> ReadField(w, 1, "STRUCT", nil, ReadResponseHeader),
                       Kvs    |-> ReadField(w, 2, "LIST", <<>>, ReadKvs)]

WritePutResponse(p) == StructOf(p, <<Field(1, "STRUCT", WriteResponseHeader(p.Header))>>)

ReadPutResponse(w) == [Header |-> ReadField(w, 1, "STRUCT", nil, ReadResponseHeader)]

-----------------------------------------------------------------------------
(* Arguments and results of the calls.  A result without a success has no  *)
(* field at all (omitempty), and GetSuccess gives nil for it.              *)

WriteKVPingArgs(p) == StructOf(p, <<>>)

ReadKVPingArgs(w) == <<>>

WriteKVGetArgs(p) == StructOf(p, <<Field(1, "STRUCT", WriteGetRequest(p.Req))>>)

ReadKVGetArgs(w) == [Req |-> ReadField(w, 1, "STRUCT", nil, ReadGetRequest)]

WriteKVPutArgs(p) == StructOf(p, <<Field(1, "STRUCT", WritePutRequest(p.Req))>>)

ReadKVPutArgs(w) == [Req |-> ReadField(w, 1, "STRUCT", nil, ReadPutRequest)]

WriteKVMultiPutArgs(p) ==
    StructOf(p, <<Field(1, "LIST", WriteList(WritePutRequest, p.Reqs))>>)

\* Mutant: the loop ends one element early.
MutantReadReqs(w) == ReadList(ReadPutRequest, SubSeq(w, 1, Len(w) - 1))

ReadReqs(w) == ReadList(ReadPutRequest, w)

ReadKVMultiPutArgs(w) == [Reqs |-> ReadField(w, 1, "LIST", <<>>, ReadReqs)]

\* writeField0 of the four results
IfSet(success, Write(_)) ==
    IF success = nil THEN <<>> ELSE <<Field(0, "STRUCT", Write(success))>>

WriteKVPingResult(p) == IfSet(p.Success, WriteHealth)

ReadKVPingResult(w) == [Success |-> ReadField(w, 0, "STRUCT", nil, ReadHealth)]

WriteKVGetResult(p) == IfSet(p.Success, WriteGetResponse)

ReadKVGetResult(w) == [Success |-> ReadField(w, 0, "STRUCT", nil, ReadGetResponse)]

WriteKVPutResult(p) == IfSet(p.Success, WritePutResponse)

ReadKVPutResult(w) == [Success |-> ReadField(w, 0, "STRUCT", nil, ReadPutResponse)]

WriteKVMultiPutResult(p) == IfSet(p.Success, WritePutResponse)

ReadKVMultiPutResult(w) == [Success |-> ReadField(w, 0, "STRUCT", nil, ReadPutResponse)]
=============================================================================
