-------------------------- MODULE ThriftRpcProofs ---------------------------
(***************************************************************************)
(* Proofs about ThriftWire and ThriftRpc, for any calls, any requests and  *)
(* any number of connections.                                              *)
(***************************************************************************)
EXTENDS ThriftRpc, WellFoundedInduction, TLAPS

-----------------------------------------------------------------------------
(* What is written is read back                                            *)

\* The places of a field in a struct on the wire.
At(w, id, type) == {i \in DOMAIN w : w[i].id = id /\ w[i].type = type}

LEMMA MaxOne == ASSUME NEW i \in Int PROVE Max({i}) = i
  BY DEF Max

LEMMA SeqIsFunction ==
    ASSUME NEW S, NEW s \in Seq(S)
    PROVE  s = [i \in DOMAIN s |-> s[i]]
  OBVIOUS

\* How each struct is written, and that it is read back.
LEMMA NotNil ==
    /\ nil \notin Health /\ nil \notin GetRequest /\ nil \notin PutRequest
    /\ nil \notin KeyValue /\ nil \notin ResponseHeader /\ nil \notin GetResponse
    /\ nil \notin PutResponse /\ nil \notin KVArgs
  BY WireAssumption, Zenon

LEMMA HealthRead ==
    ASSUME NEW p \in Health
    PROVE  ReadHealth(WriteHealth(p)) = p
<1> DEFINE w == <<Field(1, "BOOL", p.OK), Field(2, "STRING", p.Errors)>>
<1>1. WriteHealth(p) = w
  BY NotNil, Zenon DEF WriteHealth, StructOf
<1>2. /\ At(w, 1, "BOOL") = {1} /\ w[1].val = p.OK
      /\ At(w, 2, "STRING") = {2} /\ w[2].val = p.Errors
  BY DEF At, Field
<1>3. Max({1}) = 1 /\ Max({2}) = 2
  BY MaxOne
<1> HIDE DEF w
<1>4. /\ ReadField(w, 1, "BOOL", FALSE, Scalar) = p.OK
      /\ ReadField(w, 2, "STRING", "", Scalar) = p.Errors
  BY <1>2, <1>3, Zenon DEF ReadField, At, Scalar
<1>5. ReadHealth(w) = [OK |-> p.OK, Errors |-> p.Errors]
  BY <1>4, Zenon DEF ReadHealth
<1>6. p = [OK |-> p.OK, Errors |-> p.Errors]
  BY DEF Health
<1> QED
  BY <1>1, <1>5, <1>6, Zenon

LEMMA GetRequestRead ==
    ASSUME NEW p \in GetRequest
    PROVE  ReadGetRequest(WriteGetRequest(p)) = p
<1> DEFINE w == <<Field(1, "STRING", p.Key), Field(2, "BOOL", p.Serializable)>>
<1>1. WriteGetRequest(p) = w
  BY NotNil, Zenon DEF WriteGetRequest, StructOf
<1>2. /\ At(w, 1, "STRING") = {1} /\ w[1].val = p.Key
      /\ At(w, 2, "BOOL") = {2} /\ w[2].val = p.Serializable
  BY DEF At, Field
<1>3. Max({1}) = 1 /\ Max({2}) = 2
  BY MaxOne
<1> HIDE DEF w
<1>4. /\ ReadField(w, 1, "STRING", "", Scalar) = p.Key
      /\ ReadField(w, 2, "BOOL", FALSE, Scalar) = p.Serializable
  BY <1>2, <1>3, Zenon DEF ReadField, At, Scalar
<1>5. ReadGetRequest(w) = [Key |-> p.Key, Serializable |-> p.Serializable]
  BY <1>4, Zenon DEF ReadGetRequest
<1>6. p = [Key |-> p.Key, Serializable |-> p.Serializable]
  BY DEF GetRequest
<1> QED
  BY <1>1, <1>5, <1>6, Zenon

LEMMA PutRequestRead ==
    ASSUME NEW p \in PutRequest
    PROVE  ReadPutRequest(WritePutRequest(p)) = p
<1> DEFINE w == <<Field(1, "STRING", p.Key), Field(2, "STRING", p.Value)>>
<1>1. WritePutRequest(p) = w
  BY NotNil, Zenon DEF WritePutRequest, StructOf
<1>2. /\ At(w, 1, "STRING") = {1} /\ w[1].val = p.Key
      /\ At(w, 2, "STRING") = {2} /\ w[2].val = p.Value
  BY DEF At, Field
<1>3. Max({1}) = 1 /\ Max({2}) = 2
  BY MaxOne
<1> HIDE DEF w
<1>4. /\ ReadField(w, 1, "STRING", "", Scalar) = p.Key
      /\ ReadField(w, 2, "STRING", "", Scalar) = p.Value
  BY <1>2, <1>3, Zenon DEF ReadField, At, Scalar
<1>5. ReadPutRequest(w) = [Key |-> p.Key, Value |-> p.Value]
  BY <1>4, Zenon DEF ReadPutRequest
<1>6. p = [Key |-> p.Key, Value |-> p.Value]
  BY DEF PutRequest
<1> QED
  BY <1>1, <1>5, <1>6, Zenon

LEMMA KeyValueRead ==
    ASSUME NEW p \in KeyValue
    PROVE  ReadKeyValue(WriteKeyValue(p)) = p
  BY PutRequestRead, Zenon
  DEF KeyValue, PutRequest, ReadKeyValue, WriteKeyValue, ReadPutRequest, WritePutRequest

LEMMA HeaderRead ==
    ASSUME NEW p \in ResponseHeader
    PROVE  ReadResponseHeader(WriteResponseHeader(p)) = p
<1> DEFINE w == <<Field(1, "I64", p.ClusterID), Field(2, "I64", p.NodeID),
                  Field(3, "I64", p.ConsumeTime), Field(4, "STRING", p.NodeIP)>>
<1>1. WriteResponseHeader(p) = w
  BY NotNil, Zenon DEF WriteResponseHeader, StructOf
<1>2. /\ At(w, 1, "I64") = {1} /\ w[1].val = p.ClusterID
      /\ At(w, 2, "I64") = {2} /\ w[2].val = p.NodeID
      /\ At(w, 3, "I64") = {3} /\ w[3].val = p.ConsumeTime
      /\ At(w, 4, "STRING") = {4} /\ w[4].val = p.NodeIP
  BY DEF At, Field
<1>3. Max({1}) = 1 /\ Max({2}) = 2 /\ Max({3}) = 3 /\ Max({4}) = 4
  BY MaxOne
<1> HIDE DEF w
<1>4. /\ ReadField(w, 1, "I64", 0, Scalar) = p.ClusterID
      /\ ReadField(w, 2, "I64", 0, Scalar) = p.NodeID
      /\ ReadField(w, 3, "I64", 0, Scalar) = p.ConsumeTime
      /\ ReadField(w, 4, "STRING", "", Scalar) = p.NodeIP
  BY <1>2, <1>3, Zenon DEF ReadField, At, Scalar
<1>5. ReadResponseHeader(w) = [ClusterID |-> p.ClusterID, NodeID |-> p.NodeID,
                               ConsumeTime |-> p.ConsumeTime, NodeIP |-> p.NodeIP]
  BY <1>4, Zenon DEF ReadResponseHeader
<1>6. p = [ClusterID |-> p.ClusterID, NodeID |-> p.NodeID,
           ConsumeTime |-> p.ConsumeTime, NodeIP |-> p.NodeIP]
  BY DEF ResponseHeader
<1> QED
  BY <1>1, <1>5, <1>6, Zenon

LEMMA GetResponseRead ==
    ASSUME NEW p \in GetResponse
    PROVE  ReadGetResponse(WriteGetResponse(p)) = p
<1> DEFINE h == WriteResponseHeader(p.Header)
           l == WriteList(WriteKeyValue, p.Kvs)
           w == <<Field(1, "STRUCT", h), Field(2, "LIST", l)>>
<1>1. WriteGetResponse(p) = w
  BY NotNil, Zenon DEF WriteGetResponse, StructOf
<1>2. /\ At(w, 1, "STRUCT") = {1} /\ w[1].val = h
      /\ At(w, 2, "LIST") = {2} /\ w[2].val = l
  BY DEF At, Field
<1>3. Max({1}) = 1 /\ Max({2}) = 2
  BY MaxOne
<1>4. p.Header \in ResponseHeader /\ p.Kvs \in Seq(KeyValue)
  BY DEF GetResponse
<1>5. ReadResponseHeader(h) = p.Header
  BY <1>4, HeaderRead
<1>6. ReadKvs(l) = p.Kvs
  <2>1. \A i \in DOMAIN p.Kvs : ReadKeyValue(WriteKeyValue(p.Kvs[i])) = p.Kvs[i]
    BY <1>4, KeyValueRead
  <2>2. l = [i \in DOMAIN p.Kvs |-> WriteKeyValue(p.Kvs[i])]
    BY DEF WriteList
  <2>3. ReadKvs(l) = [i \in DOMAIN p.Kvs |-> ReadKeyValue(WriteKeyValue(p.Kvs[i]))]
    BY <2>2 DEF ReadKvs, ReadList
  <2>4. ReadKvs(l) = [i \in DOMAIN p.Kvs |-> p.Kvs[i]]
    BY <2>1, <2>3, Zenon
  <2>5. p.Kvs = [i \in DOMAIN p.Kvs |-> p.Kvs[i]]
    BY <1>4, SeqIsFunction
  <2> QED
    BY <2>4, <2>5, Zenon
<1> HIDE DEF w, h, l
<1>7. /\ ReadField(w, 1, "STRUCT", nil, ReadResponseHeader) = p.Header
      /\ ReadField(w, 2, "LIST", <<>>, ReadKvs) = p.Kvs
  BY <1>2, <1>3, <1>5, <1>6, Zenon DEF ReadField, At
<1>8. ReadGetResponse(w) = [Header |-> p.Header, Kvs |-> p.Kvs]
  BY <1>7, Zenon DEF ReadGetResponse
<1>9. p = [Header |-> p.Header, Kvs |-> p.Kvs]
  BY DEF GetResponse
<1> QED
  BY <1>1, <1>8, <1>9, Zenon

LEMMA PutResponseRead ==
    ASSUME NEW p \in PutResponse
    PROVE  ReadPutResponse(WritePutResponse(p)) = p
<1> DEFINE h == WriteResponseHeader(p.Header)
           w == <<Field(1, "STRUCT", h)>>
<1>1. WritePutResponse(p) = w
  BY NotNil, Zenon DEF WritePutResponse, StructOf
<1>2. At(w, 1, "STRUCT") = {1} /\ w[1].val = h
  BY DEF At, Field
<1>3. Max({1}) = 1
  BY MaxOne
<1>4. ReadResponseHeader(h) = p.Header
  BY HeaderRead DEF PutResponse
<1> HIDE DEF w, h
<1>5. ReadField(w, 1, "STRUCT", nil, ReadResponseHeader) = p.Header
  BY <1>2, <1>3, <1>4, Zenon DEF ReadField, At
<1>6. ReadPutResponse(w) = [Header |-> p.Header]
  BY <1>5, Zenon DEF ReadPutResponse
<1>7. p = [Header |-> p.Header]
  BY DEF PutResponse
<1> QED
  BY <1>1, <1>6, <1>7, Zenon

LEMMA SeqMonotone ==
    ASSUME NEW S, NEW T, S \subseteq T, NEW s \in Seq(S)
    PROVE  s \in Seq(T)
  OBVIOUS

LEMMA ReqsRead ==
    ASSUME NEW l \in Seq(PutRequest)
    PROVE  ReadReqs(WriteList(WritePutRequest, l)) = l
<1>1. \A i \in DOMAIN l : ReadPutRequest(WritePutRequest(l[i])) = l[i]
  BY PutRequestRead
<1>2. WriteList(WritePutRequest, l) = [i \in DOMAIN l |-> WritePutRequest(l[i])]
  BY DEF WriteList
<1>3. ReadReqs(WriteList(WritePutRequest, l))
         = [i \in DOMAIN l |-> ReadPutRequest(WritePutRequest(l[i]))]
  BY <1>2 DEF ReadReqs, ReadList
<1>4. ReadReqs(WriteList(WritePutRequest, l)) = [i \in DOMAIN l |-> l[i]]
  BY <1>1, <1>3, Zenon
<1> QED
  BY <1>4, SeqIsFunction

\* The arguments of the three calls that have some.
LEMMA GetArgsRead ==
    ASSUME NEW r \in GetRequest
    PROVE  ReadKVGetArgs(WriteKVGetArgs([Req |-> r])).Req = r
<1> DEFINE b == WriteGetRequest(r)
           w == <<Field(1, "STRUCT", b)>>
<1>1. [Req |-> r] # nil /\ [Req |-> r].Req = r
  BY NotNil DEF KVArgs
<1>2. WriteKVGetArgs([Req |-> r]) = w
  BY <1>1, Zenon DEF WriteKVGetArgs, StructOf
<1>3. At(w, 1, "STRUCT") = {1} /\ w[1].val = b
  BY DEF At, Field
<1>4. Max({1}) = 1 /\ ReadGetRequest(b) = r
  BY MaxOne, GetRequestRead
<1> HIDE DEF w, b
<1>5. ReadField(w, 1, "STRUCT", nil, ReadGetRequest) = r
  BY <1>3, <1>4, Zenon DEF ReadField, At
<1> QED
  BY <1>2, <1>5 DEF ReadKVGetArgs

LEMMA PutArgsRead ==
    ASSUME NEW r \in PutRequest
    PROVE  ReadKVPutArgs(WriteKVPutArgs([Req |-> r])).Req = r
<1> DEFINE b == WritePutRequest(r)
           w == <<Field(1, "STRUCT", b)>>
<1>1. [Req |-> r] # nil /\ [Req |-> r].Req = r
  BY NotNil DEF KVArgs
<1>2. WriteKVPutArgs([Req |-> r]) = w
  BY <1>1, Zenon DEF WriteKVPutArgs, StructOf
<1>3. At(w, 1, "STRUCT") = {1} /\ w[1].val = b
  BY DEF At, Field
<1>4. Max({1}) = 1 /\ ReadPutRequest(b) = r
  BY MaxOne, PutRequestRead
<1> HIDE DEF w, b
<1>5. ReadField(w, 1, "STRUCT", nil, ReadPutRequest) = r
  BY <1>3, <1>4, Zenon DEF ReadField, At
<1> QED
  BY <1>2, <1>5 DEF ReadKVPutArgs

LEMMA MultiPutArgsRead ==
    ASSUME NEW l \in Seq(PutRequest)
    PROVE  ReadKVMultiPutArgs(WriteKVMultiPutArgs([Reqs |-> l])).Reqs = l
<1> DEFINE b == WriteList(WritePutRequest, l)
           w == <<Field(1, "LIST", b)>>
<1>1. [Reqs |-> l] # nil /\ [Reqs |-> l].Reqs = l
  BY NotNil DEF KVArgs
<1>2. WriteKVMultiPutArgs([Reqs |-> l]) = w
  BY <1>1, Zenon DEF WriteKVMultiPutArgs, StructOf
<1>3. At(w, 1, "LIST") = {1} /\ w[1].val = b
  BY DEF At, Field
<1>4. Max({1}) = 1 /\ ReadReqs(b) = l
  BY MaxOne, ReqsRead
<1> HIDE DEF w, b
<1>5. ReadField(w, 1, "LIST", <<>>, ReadReqs) = l
  BY <1>3, <1>4, Zenon DEF ReadField, At
<1> QED
  BY <1>2, <1>5 DEF ReadKVMultiPutArgs

\* The results.
LEMMA ResultField ==
    ASSUME NEW b
    PROVE  /\ At(<<Field(0, "STRUCT", b)>>, 0, "STRUCT") = {1}
           /\ <<Field(0, "STRUCT", b)>>[1].val = b
           /\ Max({1}) = 1
  BY MaxOne DEF At, Field

LEMMA PingResultRead ==
    ASSUME NEW p \in Health
    PROVE  ReadKVPingResult(WriteKVPingResult([Success |-> p])).Success = p
<1> DEFINE b == WriteHealth(p)
           w == <<Field(0, "STRUCT", b)>>
<1>1. WriteKVPingResult([Success |-> p]) = w
  BY NotNil DEF WriteKVPingResult, IfSet
<1>2. ReadHealth(b) = p
  BY HealthRead
<1>3. At(w, 0, "STRUCT") = {1} /\ w[1].val = b /\ Max({1}) = 1
  BY ResultField
<1> HIDE DEF w, b
<1>4. ReadField(w, 0, "STRUCT", nil, ReadHealth) = p
  BY <1>2, <1>3, Zenon DEF ReadField, At
<1> QED
  BY <1>1, <1>4 DEF ReadKVPingResult

LEMMA GetResultRead ==
    ASSUME NEW p \in GetResponse
    PROVE  ReadKVGetResult(WriteKVGetResult([Success |-> p])).Success = p
<1> DEFINE b == WriteGetResponse(p)
           w == <<Field(0, "STRUCT", b)>>
<1>1. WriteKVGetResult([Success |-> p]) = w
  BY NotNil DEF WriteKVGetResult, IfSet
<1>2. ReadGetResponse(b) = p
  BY GetResponseRead
<1>3. At(w, 0, "STRUCT") = {1} /\ w[1].val = b /\ Max({1}) = 1
  BY ResultField
<1> HIDE DEF w, b
<1>4. ReadField(w, 0, "STRUCT", nil, ReadGetResponse) = p
  BY <1>2, <1>3, Zenon DEF ReadField, At
<1> QED
  BY <1>1, <1>4 DEF ReadKVGetResult

LEMMA PutResultRead ==
    ASSUME NEW p \in PutResponse
    PROVE  /\ ReadKVPutResult(WriteKVPutResult([Success |-> p])).Success = p
           /\ ReadKVMultiPutResult(WriteKVMultiPutResult([Success |-> p])).Success = p
<1> DEFINE b == WritePutResponse(p)
           w == <<Field(0, "STRUCT", b)>>
<1>1. /\ WriteKVPutResult([Success |-> p]) = w
      /\ WriteKVMultiPutResult([Success |-> p]) = w
  BY NotNil DEF WriteKVPutResult, WriteKVMultiPutResult, IfSet
<1>2. ReadPutResponse(b) = p
  BY PutResponseRead
<1>3. At(w, 0, "STRUCT") = {1} /\ w[1].val = b /\ Max({1}) = 1
  BY ResultField
<1> HIDE DEF w, b
<1>4. ReadField(w, 0, "STRUCT", nil, ReadPutResponse) = p
  BY <1>2, <1>3, Zenon DEF ReadField, At
<1> QED
  BY <1>1, <1>4 DEF ReadKVPutResult, ReadKVMultiPutResult

-----------------------------------------------------------------------------
(* What the server makes of a request                                      *)

LEMMA ElementOf == ASSUME NEW S, NEW s \in Seq(S), NEW j \in DOMAIN s PROVE s[j] \in S
  OBVIOUS

LEMMA GetResponseIs ==
    ASSUME NEW h \in ResponseHeader, NEW l \in Seq(KeyValue)
    PROVE  [Header |-> h, Kvs |-> l] \in GetResponse
  BY DEF GetResponse

LEMMA MaxIn ==
    ASSUME NEW n \in Nat, NEW S \in SUBSET (1..n), S # {}
    PROVE  Max(S) \in S
<1> DEFINE T == {n - i : i \in S}
<1>1. T \subseteq Nat /\ T # {}
  <2>1. \A i \in S : n - i \in Nat
    OBVIOUS
  <2>2. PICK i \in S : TRUE
    OBVIOUS
  <2>3. n - i \in T
    OBVIOUS
  <2> QED
    BY <2>1, <2>3
<1>2. PICK x \in T : \A y \in T : ~(<<y, x>> \in OpToRel(<, Nat))
  BY <1>1, NatLessThanWellFounded, WFMin
<1>3. \A y \in T : ~(y < x)
  BY <1>1, <1>2 DEF OpToRel
<1>4. PICK i \in S : x = n - i
  OBVIOUS
<1>5. \A j \in S : i >= j
  BY <1>3, <1>4
<1> QED
  BY <1>4, <1>5 DEF Max

LEMMA Served ==
    ASSUME NEW r \in Requests, NEW m, m.name = r.name, m.body = ArgsOf(r),
           db \in [Keys -> Strings]
    PROVE  /\ ProcessorOf(m).req = r.req
           /\ ProcessorOf(m).db \in [Keys -> Strings]
           /\ ProcessorOf(m).resp # nil =>
                 SuccessOf(m.name, ProcessorOf(m).body) = ProcessorOf(m).resp
<1> USE DEF ProcessorOf, SuccessOf, ArgsOf, Processed, Handler
<1>0. Keys \subseteq Strings /\ Header \in ResponseHeader
  <2>1. Keys \subseteq Strings
    BY RpcAssumption, Zenon
  <2>2. Header \in ResponseHeader
    BY RpcAssumption DEF Header, ResponseHeader
  <2> QED
    BY <2>1, <2>2
<1>1. CASE r.name = "Ping"
  <2>1. r.req = <<>>
    BY <1>1 DEF Requests
  <2>2. ProcessorOf(m) = kVProcessorPing(m.body)
    BY <1>1
  <2>3. Ping.resp \in Health /\ Ping.db = db
    <3>1. Ping.resp = [OK |-> TRUE, Errors |-> ""] /\ Ping.db = db
      BY DEF Ping
    <3>2. [OK |-> TRUE, Errors |-> ""] \in Health
      BY WireAssumption, Zenon DEF Health
    <3> QED
      BY <3>1, <3>2, Zenon
  <2>4. ReadKVPingResult(WriteKVPingResult([Success |-> Ping.resp])).Success = Ping.resp
    BY <2>3, PingResultRead
  <2> QED
    BY <1>1, <2>1, <2>2, <2>3, <2>4 DEF kVProcessorPing, ReadKVPingArgs
<1>2. CASE r.name = "Get"
  <2>1. r.req \in [Key: Keys, Serializable: BOOLEAN]
    BY <1>2 DEF Requests
  <2>2. r.req \in GetRequest
    BY <1>0, <2>1 DEF GetRequest
  <2>3. m.body = WriteKVGetArgs([Req |-> r.req])
    BY <1>2
  <2>4. ReadKVGetArgs(m.body).Req = r.req
    BY <2>2, <2>3, GetArgsRead
  <2>5. ProcessorOf(m) = kVProcessorGet(m.body)
    BY <1>2
  <2>6. Get(r.req).db = db
    BY DEF Get
  <2>7. Get(r.req).resp = nil \/ Get(r.req).resp \in GetResponse
    <3> DEFINE kv == [Key |-> r.req.Key, Value |-> db[r.req.Key]]
    <3>1. kv \in KeyValue
      BY <1>0, <2>1 DEF KeyValue
    <3>2. Get(r.req).resp = nil \/ Get(r.req).resp = [Header |-> Header, Kvs |-> <<kv>>]
      BY DEF Get
    <3> HIDE DEF kv
    <3>3. <<kv>> \in Seq(KeyValue)
      BY <3>1
    <3> QED
      BY <1>0, <3>2, <3>3, GetResponseIs
  <2>8. Get(r.req).resp # nil =>
           ReadKVGetResult(WriteKVGetResult([Success |-> Get(r.req).resp])).Success
              = Get(r.req).resp
    BY <2>7, GetResultRead
  <2>9. ProcessorOf(m) = Processed(r.req, Get(r.req),
                                   WriteKVGetResult([Success |-> Get(r.req).resp]))
    BY <2>4, <2>5 DEF kVProcessorGet
  <2> QED
    BY <1>2, <2>6, <2>8, <2>9
<1>3. CASE r.name = "Put"
  <2>1. r.req \in [Key: Keys, Value: Strings]
    BY <1>3 DEF Requests
  <2>2. r.req \in PutRequest
    BY <1>0, <2>1 DEF PutRequest
  <2>3. m.body = WriteKVPutArgs([Req |-> r.req])
    BY <1>3
  <2>4. ReadKVPutArgs(m.body).Req = r.req
    BY <2>2, <2>3, PutArgsRead
  <2>5. ProcessorOf(m) = kVProcessorPut(m.body)
    BY <1>3
  <2>6. Put(r.req).db \in [Keys -> Strings] /\ Put(r.req).resp \in PutResponse
    BY <1>0, <2>1 DEF Put, PutResponse
  <2>7. ReadKVPutResult(WriteKVPutResult([Success |-> Put(r.req).resp])).Success
           = Put(r.req).resp
    BY <2>6, PutResultRead
  <2>8. ProcessorOf(m) = Processed(r.req, Put(r.req),
                                   WriteKVPutResult([Success |-> Put(r.req).resp]))
    BY <2>4, <2>5 DEF kVProcessorPut
  <2> QED
    BY <1>3, <2>6, <2>7, <2>8
<1>4. CASE r.name = "MultiPut"
  <2>1. r.req \in Seq([Key: Keys, Value: Strings])
    BY <1>4 DEF Requests
  <2>2. r.req \in Seq(PutRequest)
    <3>1. [Key: Keys, Value: Strings] \subseteq PutRequest
      BY <1>0 DEF PutRequest
    <3> QED
      BY <2>1, <3>1, SeqMonotone
  <2>3. m.body = WriteKVMultiPutArgs([Reqs |-> r.req])
    BY <1>4
  <2>4. ReadKVMultiPutArgs(m.body).Reqs = r.req
    BY <2>2, <2>3, MultiPutArgsRead
  <2>5. ProcessorOf(m) = kVProcessorMultiPut(m.body)
    BY <1>4
  <2>6. MultiPut(r.req).resp \in PutResponse
    BY <1>0 DEF MultiPut, PutResponse
  <2>7. MultiPut(r.req).db \in [Keys -> Strings]
    <3> DEFINE at(k) == {i \in DOMAIN r.req : r.req[i].Key = k}
    <3>1. ASSUME NEW k \in Keys, at(k) # {} PROVE r.req[Max(at(k))].Value \in Strings
      <4>1. Len(r.req) \in Nat /\ at(k) \subseteq 1..Len(r.req)
        BY <2>1
      <4>2. Max(at(k)) \in at(k)
        BY <3>1, <4>1, MaxIn
      <4> QED
        <5>1. PICK j \in DOMAIN r.req : j = Max(at(k))
          BY <4>2
        <5>2. r.req[j] \in [Key: Keys, Value: Strings]
          BY <2>1, ElementOf
        <5>3. r.req[j].Value \in Strings
          BY <5>2
        <5> QED
          BY <5>1, <5>3, Zenon
    <3>2. MultiPut(r.req).db =
             [k \in Keys |-> IF at(k) = {} THEN db[k] ELSE r.req[Max(at(k))].Value]
      BY DEF MultiPut
    <3> QED
      BY <3>1, <3>2
  <2>8. ReadKVMultiPutResult(WriteKVMultiPutResult([Success |-> MultiPut(r.req).resp])).Success
           = MultiPut(r.req).resp
    BY <2>6, PutResultRead
  <2>9. ProcessorOf(m) = Processed(r.req, MultiPut(r.req),
                             WriteKVMultiPutResult([Success |-> MultiPut(r.req).resp]))
    BY <2>4, <2>5 DEF kVProcessorMultiPut
  <2> QED
    BY <1>4, <2>6, <2>7, <2>8, <2>9
<1> QED
  BY <1>1, <1>2, <1>3, <1>4 DEF Requests

-----------------------------------------------------------------------------
(* The invariant                                                           *)

RpcTypeOK ==
    /\ request \in [Calls -> Requests]
    /\ cpc \in [Calls -> {"start", "wait", "ok", "error", "timeout"}]
    /\ gpc \in [Calls -> {"none", "send", "recv", "end"}]
    /\ via \in [Calls -> AllConns \cup {nil}]
    /\ chan \in [Calls -> {"empty", "ok", "error"}]
    /\ num \in [Calls -> Nat]
    /\ result = [c \in Calls |-> result[c]] /\ handled = [c \in Calls |-> handled[c]]
    /\ dialled \in SUBSET AllConns /\ CheckConn \in dialled
    /\ idle \in Seq(Conns)
    /\ seqId \in [AllConns -> Nat]
    /\ db \in [Keys -> Strings]
    /\ shared \in SUBSET AllConns
    /\ late \in SUBSET Calls

\* Where the caller and its goroutine are, relative to each other.
Phases ==
    \A c \in Calls :
        /\ cpc[c] = "start" => gpc[c] = "none"
        /\ cpc[c] = "ok" => chan[c] = "ok"
        /\ gpc[c] = "none" => cpc[c] \in {"start", "error"} /\ c \notin late
        /\ gpc[c] # "none" => via[c] \in dialled
        /\ gpc[c] \in {"send", "recv"} => cpc[c] \in {"wait", "timeout"}
        /\ gpc[c] # "end" => chan[c] = "empty"
        /\ gpc[c] # "none" /\ via[c] = CheckConn => request[c].name = "Ping"

\* A connection is idle or some caller's, and only once.
Holding ==
    /\ \A i \in DOMAIN idle : idle[i] \in dialled
    /\ \A i, j \in DOMAIN idle : idle[i] = idle[j] => i = j
    /\ \A i \in DOMAIN idle, c \in Calls : cpc[c] = "wait" => via[c] # idle[i]
    /\ \A c, d \in Calls : cpc[c] = "wait" /\ cpc[d] = "wait" /\ via[c] = via[d] => c = d

\* Two goroutines meet on a connection only after a timeout.
Sharing ==
    /\ \A k \in shared :
          /\ out[k] = <<>> /\ in[k] = <<>>
          /\ \E d \in Calls : via[d] = k /\ cpc[d] = "timeout"
    /\ \A c, d \in Calls :
          /\ via[c] = via[d] /\ via[c] \notin shared
          /\ gpc[c] \in {"send", "recv"} /\ gpc[d] \in {"send", "recv"}
          => c = d

\* Who waits for a reply has the latest number of its connection.
Numbered ==
    \A c \in Calls : gpc[c] = "recv" /\ via[c] \notin shared =>
        num[c] = seqId[via[c]] /\ num[c] > 0

\* The message m on connection k is of a call that has been sent there.
Sent(k, m) ==
    /\ m.from \in Calls /\ via[m.from] = k /\ gpc[m.from] \in {"recv", "end"}
    /\ m.seq \in Nat /\ 0 < m.seq /\ m.seq <= seqId[k]
    /\ m.name = request[m.from].name

Asked(k, m) == Sent(k, m) /\ m.body = ArgsOf(request[m.from])

Answered(k, m) ==
    \/ m = Broken
    \/ /\ Sent(k, m)
       /\ m.type = "REPLY" =>
             handled[m.from] = [req |-> request[m.from].req, resp |-> SuccessOf(m.name, m.body)]

Frames ==
    \A k \in AllConns :
        /\ \A i \in DOMAIN out[k] : Asked(k, out[k][i])
        /\ \A i \in DOMAIN in[k] : Answered(k, in[k][i])
        /\ \A i, j \in DOMAIN out[k] : out[k][i].from = out[k][j].from => i = j
        /\ \A i \in DOMAIN out[k], j \in DOMAIN in[k] : out[k][i].from # in[k][j].from

\* A message with the number that c waits for is c's own.
OwnNumber ==
    \A k \in AllConns, c \in Calls : gpc[c] = "recv" /\ via[c] = k =>
        /\ \A i \in DOMAIN out[k] : out[k][i].seq = num[c] => out[k][i].from = c
        /\ \A i \in DOMAIN in[k] : in[k][i].seq = num[c] => in[k][i].from = c

\* Before the reply to a call that began late there is an earlier one.
Delayed ==
    \A c \in late : via[c] \notin shared =>
        /\ chan[c] # "ok"
        /\ gpc[c] = "send" => in[via[c]] # <<>> \/ out[via[c]] # <<>>
        /\ gpc[c] = "recv" =>
              \/ in[via[c]] # <<>> /\ in[via[c]][1].seq # num[c]
              \/ in[via[c]] = <<>> /\ out[via[c]] # <<>> /\ out[via[c]][1].seq # num[c]

\* A response that was received is the one the handler gave, for good.
Settled ==
    \A c \in Calls : chan[c] = "ok" /\ via[c] \notin shared =>
        /\ handled[c] = [req |-> request[c].req, resp |-> result[c]]
        /\ \A i \in DOMAIN out[via[c]] : out[via[c]][i].from # c

\* The frames are sequences, whatever is in them.
Framed ==
    \E M : in \in [AllConns -> Seq(M)] /\ out \in [AllConns -> Seq(M)]

RpcInv ==
    /\ RpcTypeOK /\ Framed
    /\ Phases /\ Holding /\ Sharing /\ Numbered
    /\ Frames /\ OwnNumber
    /\ Delayed /\ Settled


LEMMA MessageParts ==
    \A t, n, s, b, f :
        /\ Message(t, n, s, b, f).type = t /\ Message(t, n, s, b, f).name = n
        /\ Message(t, n, s, b, f).seq = s /\ Message(t, n, s, b, f).body = b
        /\ Message(t, n, s, b, f).from = f
  BY DEF Message

LEMMA BrokenParts == Broken.seq = 0 /\ Broken.from = nil /\ Broken.from \notin Calls
<1>1. Broken.seq = 0 /\ Broken.from = nil
  BY Zenon DEF Broken, Message
<1> QED
  BY <1>1, RpcAssumption, Zenon

LEMMA RpcInit == Init => RpcInv
<1> SUFFICES ASSUME Init PROVE RpcInv
  OBVIOUS
<1>1. /\ request \in Workloads
      /\ cpc = [c \in Calls |-> "start"] /\ gpc = [c \in Calls |-> "none"]
      /\ via = [c \in Calls |-> nil] /\ chan = [c \in Calls |-> "empty"]
      /\ result = [c \in Calls |-> nil] /\ num = [c \in Calls |-> 0]
      /\ handled = [c \in Calls |-> nil]
      /\ dialled = {CheckConn} /\ idle = <<>> /\ shared = {} /\ late = {}
      /\ seqId = [k \in AllConns |-> 0]
      /\ out = [k \in AllConns |-> <<>>] /\ in = [k \in AllConns |-> <<>>]
  BY Zenon DEF Init
<1>2. RpcTypeOK
  <2>1. request \in [Calls -> Requests]
    BY <1>1, RpcAssumption
  <2>2. db \in [Keys -> Strings]
    BY WireAssumption, Zenon DEF Init
  <2>3. dialled \in SUBSET AllConns
    BY <1>1 DEF AllConns
  <2>4. result = [c \in Calls |-> result[c]] /\ handled = [c \in Calls |-> handled[c]]
    BY <1>1
  <2> QED
    BY <1>1, <2>1, <2>2, <2>3, <2>4 DEF RpcTypeOK
<1>3. Framed
  <2>1. in \in [AllConns -> Seq({})] /\ out \in [AllConns -> Seq({})]
    BY <1>1
  <2> QED
    BY <2>1 DEF Framed
<1>4. Phases /\ Holding /\ Sharing /\ Numbered
  BY <1>1 DEF Phases, Holding, Sharing, Numbered
<1>5. Frames /\ OwnNumber /\ Delayed /\ Settled
  BY <1>1 DEF Frames, OwnNumber, Delayed, Settled
<1> QED
  BY <1>2, <1>3, <1>4, <1>5 DEF RpcInv

-----------------------------------------------------------------------------
(* What the steps have in common                                           *)

\* A message goes on meaning what it did as long as its call keeps its
\* connection, was sent, and the numbers grow.
LEMMA SentKept ==
    ASSUME NEW k, NEW m, Sent(k, m), request' = request, via'[m.from] = via[m.from],
           gpc'[m.from] \in {"recv", "end"},
           seqId[k] \in Nat, seqId'[k] \in Nat, seqId[k] <= seqId'[k]
    PROVE  Sent(k, m)'
  BY DEF Sent

LEMMA FramesNext ==
    ASSUME NEW k \in AllConns,
           \A i \in DOMAIN out'[k] : \A m : m = out'[k][i] => Asked(k, m)',
           \A i \in DOMAIN in'[k] : \A m : m = in'[k][i] => Answered(k, m)'
    PROVE  /\ \A i \in DOMAIN out'[k] : Asked(k, out[k][i])'
           /\ \A i \in DOMAIN in'[k] : Answered(k, in[k][i])'
  BY DEF Asked, Answered, Sent

\* Frames that stay or are all lost, of calls that keep what the frames say of
\* them.
LEMMA FramesKept ==
    ASSUME RpcInv, request' = request, RpcTypeOK',
           \A k \in AllConns : \/ in'[k] = in[k] /\ out'[k] = out[k]
                               \/ in'[k] = <<>> /\ out'[k] = <<>>,
           \A k \in AllConns : seqId[k] <= seqId'[k],
           \A d \in Calls : gpc[d] \in {"recv", "end"} =>
              /\ via'[d] = via[d] /\ gpc'[d] \in {"recv", "end"}
              /\ handled'[d] = handled[d] \/ via[d] \in shared
    PROVE  Frames'
<1>1. Frames /\ Sharing
  BY DEF RpcInv
<1> SUFFICES ASSUME NEW k \in AllConns
             PROVE  /\ \A i \in DOMAIN out'[k] : Asked(k, out[k][i])'
                    /\ \A i \in DOMAIN in'[k] : Answered(k, in[k][i])'
                    /\ \A i, j \in DOMAIN out'[k] : out'[k][i].from = out'[k][j].from => i = j
                    /\ \A i \in DOMAIN out'[k], j \in DOMAIN in'[k] :
                          out'[k][i].from # in'[k][j].from
  BY DEF Frames
<1>2. ASSUME NEW i \in DOMAIN out[k], NEW m, m = out[k][i]
      PROVE  Asked(k, m)'
  <2>1. Asked(k, m)
    BY <1>1, <1>2 DEF Frames
  <2>2. Sent(k, m)'
    BY <2>1, SentKept DEF Asked, Sent, RpcInv, RpcTypeOK
  <2> QED
    BY <2>1, <2>2 DEF Asked
<1>3. ASSUME NEW i \in DOMAIN in[k], NEW m, m = in[k][i]
      PROVE  Answered(k, m)'
  <2>1. Answered(k, m) /\ k \notin shared
    BY <1>1, <1>3 DEF Frames, Sharing
  <2>2. CASE m = Broken
    BY <2>2 DEF Answered
  <2>3. CASE m # Broken
    <3>1. Sent(k, m)
      BY <2>1, <2>3 DEF Answered
    <3>2. Sent(k, m)'
      BY <3>1, SentKept DEF Sent, RpcInv, RpcTypeOK
    <3>3. handled'[m.from] = handled[m.from]
      BY <2>1, <3>1 DEF Sent
    <3> QED
      BY <2>1, <2>3, <3>2, <3>3 DEF Answered
  <2> QED
    BY <2>2, <2>3
<1>4. CASE in'[k] = in[k] /\ out'[k] = out[k]
  BY <1>1, <1>2, <1>3, <1>4, FramesNext DEF Frames
<1>5. CASE in'[k] = <<>> /\ out'[k] = <<>>
  BY <1>5
<1> QED
  BY <1>4, <1>5

-----------------------------------------------------------------------------
(* The goroutine ends                                                      *)

LEMMA EndFacts ==
    ASSUME RpcInv, NEW c \in Calls, NEW what \in {"ok", "error"}, NEW resp,
           End(c, what, resp), UNCHANGED <<seqId, up>>
    PROVE  /\ UNCHANGED <<request, cpc, via, dialled, idle, db, handled, shared, late, seqId>>
           /\ RpcTypeOK'
           /\ \A d \in Calls : gpc'[d] = IF d = c THEN "end" ELSE gpc[d]
           /\ \A d \in Calls : num'[d] = IF d = c THEN 0 ELSE num[d]
           /\ \A d \in Calls : d # c => chan'[d] = chan[d] /\ result'[d] = result[d]
           /\ IF cpc[c] = "wait" THEN chan'[c] = what /\ result'[c] = resp
                                 ELSE chan'[c] = chan[c] /\ result'[c] = result[c]
<1>1. RpcTypeOK
  BY DEF RpcInv
<1>2. UNCHANGED <<request, cpc, via, dialled, idle, db, handled, shared, late, seqId>>
  BY DEF End, poolVars, histVars
<1>3. /\ gpc' = [gpc EXCEPT ![c] = "end"] /\ num' = [num EXCEPT ![c] = 0]
      /\ IF cpc[c] = "wait" THEN /\ chan' = [chan EXCEPT ![c] = what]
                                 /\ result' = [result EXCEPT ![c] = resp]
                            ELSE chan' = chan /\ result' = result
  BY DEF End
<1>4. /\ gpc' \in [Calls -> {"none", "send", "recv", "end"}] /\ num' \in [Calls -> Nat]
      /\ chan' \in [Calls -> {"empty", "ok", "error"}]
  BY <1>1, <1>3 DEF RpcTypeOK
<1>5. result' = [d \in Calls |-> result'[d]]
  BY <1>1, <1>3 DEF RpcTypeOK
<1>6. RpcTypeOK'
  BY <1>1, <1>2, <1>4, <1>5 DEF RpcTypeOK
<1>7. \A d \in Calls : gpc'[d] = IF d = c THEN "end" ELSE gpc[d]
  BY <1>1, <1>3 DEF RpcTypeOK
<1>8. \A d \in Calls : num'[d] = IF d = c THEN 0 ELSE num[d]
  BY <1>1, <1>3 DEF RpcTypeOK
<1>9. \A d \in Calls : d # c => chan'[d] = chan[d] /\ result'[d] = result[d]
  BY <1>1, <1>3 DEF RpcTypeOK
<1>10. IF cpc[c] = "wait" THEN chan'[c] = what /\ result'[c] = resp
                          ELSE chan'[c] = chan[c] /\ result'[c] = result[c]
  BY <1>1, <1>3 DEF RpcTypeOK
<1> QED
  BY <1>2, <1>6, <1>7, <1>8, <1>9, <1>10

\* What does not depend on the frames.
LEMMA EndCallers ==
    ASSUME RpcInv, NEW c \in Calls, NEW what \in {"ok", "error"}, NEW resp,
           gpc[c] \in {"send", "recv"}, End(c, what, resp), UNCHANGED <<seqId, up>>
    PROVE  Phases' /\ Holding' /\ Numbered'
<1>1. RpcTypeOK /\ Phases /\ Holding /\ Numbered
  BY DEF RpcInv
<1>2. UNCHANGED <<request, cpc, via, dialled, idle, shared, late, seqId>>
  BY EndFacts
<1>3. \A d \in Calls : gpc'[d] = IF d = c THEN "end" ELSE gpc[d]
  BY EndFacts
<1>4. \A d \in Calls : d # c => chan'[d] = chan[d] /\ num'[d] = num[d]
  BY EndFacts
<1>5. cpc[c] \in {"wait", "timeout"} /\ via[c] \in dialled
  BY <1>1 DEF Phases
<1>6. Phases'
  BY <1>1, <1>2, <1>3, <1>4, <1>5 DEF Phases
<1>7. Holding'
  BY <1>1, <1>2 DEF Holding
<1>8. Numbered'
  BY <1>1, <1>2, <1>3, <1>4 DEF Numbered
<1> QED
  BY <1>6, <1>7, <1>8

\* Without a frame being read.
LEMMA EndStep ==
    ASSUME RpcInv, NEW c \in Calls, NEW what \in {"ok", "error"}, NEW resp,
           gpc[c] \in {"send", "recv"}, End(c, what, resp), UNCHANGED wireVars,
           what = "ok" => via[c] \in shared
    PROVE  RpcInv'
<1> USE DEF wireVars
<1>1. /\ RpcTypeOK /\ Framed /\ Phases /\ Sharing /\ Numbered /\ Frames /\ OwnNumber
      /\ Delayed /\ Settled
  BY DEF RpcInv
<1>2. UNCHANGED <<request, cpc, via, dialled, idle, db, handled, shared, late, seqId, out, in>>
  BY EndFacts
<1>3. \A d \in Calls : gpc'[d] = IF d = c THEN "end" ELSE gpc[d]
  BY EndFacts
<1>4. \A d \in Calls : d # c => chan'[d] = chan[d] /\ num'[d] = num[d] /\ result'[d] = result[d]
  BY EndFacts
<1>5. chan'[c] = "ok" => via[c] \in shared
  <2>1. chan[c] = "empty"
    BY <1>1 DEF Phases
  <2> QED
    BY <2>1, EndFacts
<1>6. RpcTypeOK' /\ Phases' /\ Holding' /\ Numbered'
  BY EndFacts, EndCallers
<1>7. Framed' /\ Sharing'
  BY <1>1, <1>2, <1>3 DEF Framed, Sharing
<1>8. Frames'
  <2>1. \A k \in AllConns : seqId[k] <= seqId'[k]
    BY <1>1, <1>2 DEF RpcTypeOK
  <2> QED
    BY <1>2, <1>3, <1>6, <2>1, FramesKept
<1>9. OwnNumber'
  BY <1>1, <1>2, <1>3, <1>4 DEF OwnNumber
<1>10. Delayed' /\ Settled'
  <2>1. Delayed'
    <3> SUFFICES ASSUME NEW d \in late, via[d] \notin shared
                 PROVE  /\ chan'[d] # "ok"
                        /\ gpc'[d] = "send" => in[via[d]] # <<>> \/ out[via[d]] # <<>>
                        /\ gpc'[d] = "recv" =>
                              \/ in[via[d]] # <<>> /\ in[via[d]][1].seq # num'[d]
                              \/ in[via[d]] = <<>> /\ out[via[d]] # <<>>
                                                   /\ out[via[d]][1].seq # num'[d]
      BY <1>2 DEF Delayed
    <3>1. d \in Calls
      BY <1>1 DEF RpcTypeOK
    <3>2. CASE d = c
      BY <1>3, <1>5, <3>1, <3>2
    <3>3. CASE d # c
      BY <1>1, <1>3, <1>4, <3>1, <3>3 DEF Delayed
    <3> QED
      BY <3>2, <3>3
  <2>2. Settled'
    BY <1>1, <1>2, <1>4, <1>5 DEF Settled
  <2> QED
    BY <2>1, <2>2
<1> QED
  BY <1>6, <1>7, <1>8, <1>9, <1>10 DEF RpcInv

-----------------------------------------------------------------------------
(* The call returns                                                        *)

LEMMA ReturnStep ==
    ASSUME RpcInv, NEW c \in Calls, NEW how \in {"ok", "error", "timeout"}, Return(c, how),
           how = "timeout" \/ how = chan[c]
    PROVE  RpcInv'
<1> USE DEF wireVars, histVars
<1>1. /\ RpcTypeOK /\ Framed /\ Phases /\ Holding /\ Sharing /\ Numbered /\ Frames
      /\ OwnNumber /\ Delayed /\ Settled
  BY DEF RpcInv
<1>2. UNCHANGED <<request, gpc, via, chan, result, num, dialled, seqId, out, in, db, handled,
                  shared, late>>
  BY DEF Return
<1>3. /\ cpc[c] = "wait" /\ cpc' \in [Calls -> {"start", "wait", "ok", "error", "timeout"}]
      /\ \A d \in Calls : cpc'[d] = IF d = c THEN how ELSE cpc[d]
  BY <1>1 DEF Return, RpcTypeOK
<1>4. via[c] \in dialled /\ via[c] \in AllConns /\ gpc[c] # "none"
  BY <1>1, <1>3 DEF Phases, RpcTypeOK
<1>5. idle' = idle \/ (via[c] \in Conns /\ idle' = Append(idle, via[c]))
  BY <1>4 DEF Return, AllConns
<1>6. idle \in Seq(Conns)
  BY <1>1 DEF RpcTypeOK
<1>7. idle' \in Seq(Conns)
  BY <1>5, <1>6
<1>8. RpcTypeOK'
  BY <1>1, <1>2, <1>3, <1>7 DEF RpcTypeOK
<1>9. Phases'
  BY <1>1, <1>2, <1>3 DEF Phases
<1>10. Holding'
  <2>1. CASE idle' = idle
    BY <1>1, <1>2, <1>3, <2>1 DEF Holding
  <2>2. CASE via[c] \in Conns /\ idle' = Append(idle, via[c])
    <3>1. /\ DOMAIN idle' = 1..(Len(idle) + 1) /\ DOMAIN idle = 1..Len(idle)
          /\ Len(idle) \in Nat
          /\ \A i \in DOMAIN idle : idle'[i] = idle[i]
          /\ idle'[Len(idle) + 1] = via[c]
      BY <1>6, <2>2
    <3>2. \A i \in DOMAIN idle' : i \in DOMAIN idle \/ i = Len(idle) + 1
      BY <3>1
    <3>3. \A i \in DOMAIN idle : idle[i] # via[c]
      BY <1>1, <1>3 DEF Holding
    <3>4. \A i \in DOMAIN idle' : idle'[i] \in dialled'
      BY <1>1, <1>2, <1>4, <3>1, <3>2 DEF Holding
    <3>5. \A i, j \in DOMAIN idle' : idle'[i] = idle'[j] => i = j
      BY <1>1, <3>1, <3>2, <3>3 DEF Holding
    <3>6. \A i \in DOMAIN idle', d \in Calls : cpc'[d] = "wait" => via'[d] # idle'[i]
      BY <1>1, <1>2, <1>3, <3>1, <3>2 DEF Holding
    <3>7. \A d, e \in Calls : cpc'[d] = "wait" /\ cpc'[e] = "wait" /\ via'[d] = via'[e] => d = e
      BY <1>1, <1>2, <1>3 DEF Holding
    <3> QED
      BY <3>4, <3>5, <3>6, <3>7 DEF Holding
  <2> QED
    BY <1>5, <2>1, <2>2
<1>11. Framed' /\ Numbered' /\ OwnNumber' /\ Delayed' /\ Settled'
  BY <1>1, <1>2 DEF Framed, Numbered, OwnNumber, Delayed, Settled
<1>12. Sharing'
  <2>1. \A d \in Calls : cpc[d] = "timeout" => cpc'[d] = "timeout"
    BY <1>3
  <2> QED
    BY <1>1, <1>2, <2>1 DEF Sharing
<1>13. Frames'
  <2>1. \A k \in AllConns : seqId[k] <= seqId'[k]
    BY <1>1, <1>2 DEF RpcTypeOK
  <2> QED
    BY <1>2, <1>8, <2>1, FramesKept
<1> QED
  BY <1>8, <1>9, <1>10, <1>11, <1>12, <1>13 DEF RpcInv

\* Get of the pool fails.
LEMMA RefusedStep == ASSUME RpcInv, NEW c \in Calls, CallRefused(c) PROVE RpcInv'
<1> USE DEF wireVars, histVars, poolVars
<1>1. /\ RpcTypeOK /\ Framed /\ Phases /\ Holding /\ Sharing /\ Numbered /\ Frames
      /\ OwnNumber /\ Delayed /\ Settled
  BY DEF RpcInv
<1>2. UNCHANGED <<request, gpc, via, chan, result, num, dialled, idle, seqId, out, in, db,
                  handled, shared, late>>
  BY DEF CallRefused
<1>3. /\ cpc[c] = "start" /\ cpc' \in [Calls -> {"start", "wait", "ok", "error", "timeout"}]
      /\ \A d \in Calls : cpc'[d] = IF d = c THEN "error" ELSE cpc[d]
  BY <1>1 DEF CallRefused, RpcTypeOK
<1>4. RpcTypeOK'
  BY <1>1, <1>2, <1>3 DEF RpcTypeOK
<1>5. Phases' /\ Holding'
  BY <1>1, <1>2, <1>3 DEF Phases, Holding
<1>6. Framed' /\ Numbered' /\ OwnNumber' /\ Delayed' /\ Settled'
  BY <1>1, <1>2 DEF Framed, Numbered, OwnNumber, Delayed, Settled
<1>7. Sharing'
  <2>1. \A d \in Calls : cpc[d] = "timeout" => cpc'[d] = "timeout"
    BY <1>3
  <2> QED
    BY <1>1, <1>2, <2>1 DEF Sharing
<1>8. Frames'
  <2>1. \A k \in AllConns : seqId[k] <= seqId'[k]
    BY <1>1, <1>2 DEF RpcTypeOK
  <2> QED
    BY <1>2, <1>4, <2>1, FramesKept
<1> QED
  BY <1>4, <1>5, <1>6, <1>7, <1>8 DEF RpcInv

-----------------------------------------------------------------------------
(* A shared connection                                                     *)

LEMMA SharedStep ==
    ASSUME RpcInv, NEW k \in AllConns, SharedProcess(k) \/ SharedBroken(k)
    PROVE  RpcInv'
<1> USE DEF wireVars, histVars, poolVars, callVars
<1>1. /\ RpcTypeOK /\ Framed /\ Phases /\ Holding /\ Sharing /\ Numbered /\ Frames
      /\ OwnNumber /\ Delayed /\ Settled
  BY DEF RpcInv
<1>2. /\ k \in shared
      /\ UNCHANGED <<request, cpc, gpc, via, chan, result, num, dialled, idle, seqId, out, in,
                     shared, late>>
  BY DEF SharedProcess, SharedBroken
<1>3. /\ db' \in [Keys -> Strings] /\ handled' = [c \in Calls |-> handled'[c]]
      /\ \A c \in Calls : handled'[c] = handled[c] \/ via[c] \in shared
  <2>1. CASE SharedBroken(k)
    BY <1>1, <2>1 DEF SharedBroken, RpcTypeOK
  <2>2. CASE SharedProcess(k)
    <3>1. PICK c \in Calls, d \in Calls :
             LET p == ProcessorOf(Message("CALL", request[c].name, 0, ArgsOf(request[d]), c))
             IN  /\ via[c] = k /\ via[d] = k /\ request[c].name = request[d].name
                 /\ p.resp # nil
                 /\ db' = p.db
                 /\ handled' = [handled EXCEPT ![c] = [req |-> p.req, resp |-> p.resp]]
      BY <2>2, Zenon DEF SharedProcess
    <3> DEFINE m == Message("CALL", request[c].name, 0, ArgsOf(request[d]), c)
    <3>2. m.name = request[d].name /\ m.body = ArgsOf(request[d])
      BY <3>1, MessageParts
    <3>3. request[d] \in Requests /\ db \in [Keys -> Strings]
      BY <1>1 DEF RpcTypeOK
    <3> HIDE DEF m
    <3>4. ProcessorOf(m).db \in [Keys -> Strings]
      BY <3>2, <3>3, Served
    <3>5. db' = ProcessorOf(m).db
      BY <3>1, Zenon DEF m
    <3>6. PICK h : handled' = [handled EXCEPT ![c] = h]
      BY <3>1, Zenon
    <3>7. handled = [e \in Calls |-> handled[e]]
      BY <1>1 DEF RpcTypeOK
    <3> QED
      BY <1>2, <3>1, <3>4, <3>5, <3>6, <3>7
  <2> QED
    BY <2>1, <2>2
<1>4. RpcTypeOK'
  BY <1>1, <1>2, <1>3 DEF RpcTypeOK
<1>5. Phases' /\ Holding' /\ Framed' /\ Numbered' /\ OwnNumber' /\ Delayed' /\ Sharing'
  BY <1>1, <1>2 DEF Phases, Holding, Framed, Numbered, OwnNumber, Delayed, Sharing
<1>6. Settled'
  BY <1>1, <1>2, <1>3 DEF Settled
<1>7. Frames'
  <2>1. \A j \in AllConns : seqId[j] <= seqId'[j]
    BY <1>1, <1>2 DEF RpcTypeOK
  <2> QED
    BY <1>2, <1>3, <1>4, <2>1, FramesKept
<1> QED
  BY <1>4, <1>5, <1>6, <1>7 DEF RpcInv

-----------------------------------------------------------------------------
(* A call begins                                                           *)

LEMMA BeginStep ==
    ASSUME RpcInv, NEW c \in Calls, NEW k \in AllConns, Go(c, k),
           k \in dialled', dialled \subseteq dialled', dialled' \subseteq AllConns,
           idle' \in Seq(Conns),
           \A i \in DOMAIN idle' : idle'[i] # k /\ \E j \in DOMAIN idle : idle[j] = idle'[i],
           \A i, j \in DOMAIN idle' : idle'[i] = idle'[j] => i = j,
           \A d \in Calls : cpc[d] = "wait" => via[d] # k,
           k = CheckConn => request[c].name = "Ping"
    PROVE  RpcInv'
<1>1. /\ RpcTypeOK /\ Framed /\ Phases /\ Holding /\ Sharing /\ Numbered /\ Frames
      /\ OwnNumber /\ Delayed /\ Settled
  BY DEF RpcInv
<1>2. UNCHANGED <<request, chan, result, num, seqId, db, handled>>
  BY DEF Go
<1>3. /\ cpc' \in [Calls -> {"start", "wait", "ok", "error", "timeout"}]
      /\ gpc' \in [Calls -> {"none", "send", "recv", "end"}]
      /\ via' \in [Calls -> AllConns \cup {nil}]
      /\ cpc'[c] = "wait" /\ gpc'[c] = "send" /\ via'[c] = k
      /\ \A d \in Calls : d # c => cpc'[d] = cpc[d] /\ gpc'[d] = gpc[d] /\ via'[d] = via[d]
  BY <1>1 DEF Go, RpcTypeOK
<1>4. cpc[c] = "start" /\ gpc[c] = "none" /\ c \notin late /\ chan[c] = "empty"
  BY <1>1 DEF Go, Phases
<1>5. PICK M : in \in [AllConns -> Seq(M)] /\ out \in [AllConns -> Seq(M)]
  BY <1>1 DEF Framed
<1>6. \/ Using(k) = {} /\ UNCHANGED <<shared, out, in>>
      \/ /\ Using(k) # {} /\ shared' = shared \cup {k}
         /\ out' = [out EXCEPT ![k] = <<>>] /\ in' = [in EXCEPT ![k] = <<>>]
  BY DEF Go
<1>7. in' \in [AllConns -> Seq(M)] /\ out' \in [AllConns -> Seq(M)]
  <2>1. <<>> \in Seq(M)
    OBVIOUS
  <2> QED
    BY <1>5, <1>6, <2>1
<1>8. /\ shared \subseteq shared' /\ shared' \subseteq AllConns
      /\ \A j \in AllConns : \/ in'[j] = in[j] /\ out'[j] = out[j]
                             \/ j = k /\ k \in shared' /\ in'[j] = <<>> /\ out'[j] = <<>>
  BY <1>1, <1>5, <1>6 DEF RpcTypeOK
<1>9. late' \subseteq late \cup {c} /\ (c \in late' => in[k] # <<>> \/ out[k] # <<>>)
  <2>1. late' = IF out[k] \o in[k] = <<>> THEN late ELSE late \cup {c}
    BY DEF Go
  <2>2. in[k] = <<>> /\ out[k] = <<>> => out[k] \o in[k] = <<>>
    BY <1>5
  <2> QED
    BY <1>4, <2>1, <2>2
<1>10. RpcTypeOK'
  BY <1>1, <1>2, <1>3, <1>8, <1>9 DEF RpcTypeOK
<1>11. Framed'
  BY <1>7 DEF Framed
<1>12. Phases'
  <2> SUFFICES ASSUME NEW d \in Calls
               PROVE  /\ cpc'[d] = "start" => gpc'[d] = "none"
                      /\ cpc'[d] = "ok" => chan'[d] = "ok"
                      /\ gpc'[d] = "none" => cpc'[d] \in {"start", "error"} /\ d \notin late'
                      /\ gpc'[d] # "none" => via'[d] \in dialled'
                      /\ gpc'[d] \in {"send", "recv"} => cpc'[d] \in {"wait", "timeout"}
                      /\ gpc'[d] # "end" => chan'[d] = "empty"
                      /\ gpc'[d] # "none" /\ via'[d] = CheckConn => request'[d].name = "Ping"
    BY DEF Phases
  <2>1. CASE d = c
    BY <1>2, <1>3, <1>4, <2>1
  <2>2. CASE d # c
    BY <1>1, <1>2, <1>3, <1>9, <2>2 DEF Phases
  <2> QED
    BY <2>1, <2>2
<1>13. Holding'
  <2>1. \A i \in DOMAIN idle' : idle'[i] \in dialled'
    BY <1>1 DEF Holding
  <2>2. \A i \in DOMAIN idle', d \in Calls : cpc'[d] = "wait" => via'[d] # idle'[i]
    BY <1>1, <1>3 DEF Holding
  <2>3. \A d, e \in Calls : cpc'[d] = "wait" /\ cpc'[e] = "wait" /\ via'[d] = via'[e] => d = e
    BY <1>1, <1>3 DEF Holding
  <2> QED
    BY <2>1, <2>2, <2>3 DEF Holding
<1>14. Sharing'
  <2>1. ASSUME NEW j \in shared'
        PROVE  /\ out'[j] = <<>> /\ in'[j] = <<>>
               /\ \E d \in Calls : via'[d] = j /\ cpc'[d] = "timeout"
    <3>1. CASE j \in shared
      <4>1. j \in AllConns /\ out[j] = <<>> /\ in[j] = <<>>
        BY <1>1, <3>1 DEF Sharing, RpcTypeOK
      <4>2. out'[j] = <<>> /\ in'[j] = <<>>
        BY <1>8, <4>1
      <4>3. PICK d \in Calls : via[d] = j /\ cpc[d] = "timeout"
        BY <1>1, <3>1 DEF Sharing
      <4>4. d # c
        BY <1>4, <4>3
      <4> QED
        BY <1>3, <4>2, <4>3, <4>4
    <3>2. CASE j \notin shared
      <4>1. j = k /\ Using(k) # {} /\ out'[j] = <<>> /\ in'[j] = <<>>
        BY <1>5, <1>6, <2>1, <3>2
      <4>2. PICK d \in Calls : via[d] = k /\ gpc[d] \in {"send", "recv"}
        BY <4>1 DEF Using
      <4>3. cpc[d] = "timeout" /\ d # c
        BY <1>1, <1>4, <4>2 DEF Phases
      <4> QED
        BY <1>3, <4>1, <4>2, <4>3
    <3> QED
      BY <3>1, <3>2
  <2>2. ASSUME NEW d \in Calls, NEW e \in Calls, via'[d] = via'[e], via'[d] \notin shared',
               gpc'[d] \in {"send", "recv"}, gpc'[e] \in {"send", "recv"}
        PROVE  d = e
    <3>1. CASE via'[d] = k
      <4>1. Using(k) = {}
        BY <1>6, <2>2, <3>1
      <4>2. \A f \in Calls : via[f] = k => gpc[f] \notin {"send", "recv"}
        BY <4>1 DEF Using
      <4> QED
        BY <1>3, <2>2, <3>1, <4>2
    <3>2. CASE via'[d] # k
      BY <1>1, <1>3, <1>8, <2>2, <3>2 DEF Sharing
    <3> QED
      BY <3>1, <3>2
  <2> QED
    BY <2>1, <2>2 DEF Sharing
<1>15. Numbered'
  BY <1>1, <1>2, <1>3, <1>8 DEF Numbered
<1>16. Frames'
  <2>1. \A j \in AllConns : seqId[j] <= seqId'[j]
    BY <1>1, <1>2 DEF RpcTypeOK
  <2>2. \A j \in AllConns : \/ in'[j] = in[j] /\ out'[j] = out[j]
                            \/ in'[j] = <<>> /\ out'[j] = <<>>
    BY <1>8
  <2>3. \A d \in Calls : gpc[d] \in {"recv", "end"} =>
           via'[d] = via[d] /\ gpc'[d] \in {"recv", "end"} /\ handled'[d] = handled[d]
    BY <1>2, <1>3, <1>4
  <2> QED
    BY <1>2, <1>10, <2>1, <2>2, <2>3, FramesKept
<1>17. OwnNumber'
  <2> SUFFICES ASSUME NEW j \in AllConns, NEW d \in Calls, gpc'[d] = "recv", via'[d] = j
               PROVE  /\ \A i \in DOMAIN out'[j] : out'[j][i].seq = num'[d] => out'[j][i].from = d
                      /\ \A i \in DOMAIN in'[j] : in'[j][i].seq = num'[d] => in'[j][i].from = d
    BY DEF OwnNumber
  <2>1. d # c /\ gpc[d] = "recv" /\ via[d] = j /\ num'[d] = num[d]
    BY <1>2, <1>3
  <2>2. CASE in'[j] = in[j] /\ out'[j] = out[j]
    BY <1>1, <2>1, <2>2 DEF OwnNumber
  <2>3. CASE in'[j] = <<>> /\ out'[j] = <<>>
    BY <2>3
  <2> QED
    BY <1>8, <2>2, <2>3
<1>18. Delayed'
  <2> SUFFICES ASSUME NEW d \in late', via'[d] \notin shared'
               PROVE  /\ chan'[d] # "ok"
                      /\ gpc'[d] = "send" => in'[via'[d]] # <<>> \/ out'[via'[d]] # <<>>
                      /\ gpc'[d] = "recv" =>
                            \/ in'[via'[d]] # <<>> /\ in'[via'[d]][1].seq # num'[d]
                            \/ in'[via'[d]] = <<>> /\ out'[via'[d]] # <<>>
                                                   /\ out'[via'[d]][1].seq # num'[d]
    BY DEF Delayed
  <2>1. CASE d = c
    BY <1>2, <1>3, <1>4, <1>8, <1>9, <2>1
  <2>2. CASE d # c
    <3>1. d \in late /\ d \in Calls /\ via'[d] = via[d] /\ gpc'[d] = gpc[d] /\ via[d] \notin shared
      BY <1>1, <1>3, <1>8, <1>9, <2>2 DEF RpcTypeOK
    <3>2. via[d] \in AllConns
      <4>1. gpc[d] # "none"
        BY <1>1, <3>1 DEF Phases
      <4> QED
        BY <1>1, <3>1, <4>1 DEF Phases, RpcTypeOK
    <3>3. in'[via[d]] = in[via[d]] /\ out'[via[d]] = out[via[d]]
      BY <1>8, <3>1, <3>2
    <3> QED
      BY <1>1, <1>2, <3>1, <3>3 DEF Delayed
  <2> QED
    BY <2>1, <2>2
<1>19. Settled'
  <2> SUFFICES ASSUME NEW d \in Calls, chan'[d] = "ok", via'[d] \notin shared'
               PROVE  /\ handled'[d] = [req |-> request'[d].req, resp |-> result'[d]]
                      /\ \A i \in DOMAIN out'[via'[d]] : out'[via'[d]][i].from # d
    BY DEF Settled
  <2>1. d # c /\ chan[d] = "ok" /\ via'[d] = via[d] /\ via[d] \notin shared /\ gpc[d] = "end"
    BY <1>1, <1>2, <1>3, <1>4, <1>8 DEF Phases
  <2>2. via[d] \in AllConns
    BY <1>1, <2>1 DEF Phases, RpcTypeOK
  <2>3. out'[via[d]] = out[via[d]]
    BY <1>8, <2>1, <2>2
  <2> QED
    BY <1>1, <1>2, <2>1, <2>3 DEF Settled
<1> QED
  BY <1>10, <1>11, <1>12, <1>13, <1>14, <1>15, <1>16, <1>17, <1>18, <1>19 DEF RpcInv

-----------------------------------------------------------------------------
(* The request is sent                                                     *)

\* A set that has the frames and one more message.
LEMMA FramedWith ==
    ASSUME Framed, NEW m
    PROVE  \E M : m \in M /\ in \in [AllConns -> Seq(M)] /\ out \in [AllConns -> Seq(M)]
<1>1. PICK M : in \in [AllConns -> Seq(M)] /\ out \in [AllConns -> Seq(M)]
  BY DEF Framed
<1>2. \A s \in Seq(M) : s \in Seq(M \cup {m})
  BY SeqMonotone
<1>3. /\ m \in M \cup {m}
      /\ in \in [AllConns -> Seq(M \cup {m})] /\ out \in [AllConns -> Seq(M \cup {m})]
  BY <1>1, <1>2
<1> QED
  BY <1>3

\* Of a call that has not been sent there is no message, and none is numbered
\* higher than the connection.
LEMMA FrameBounds ==
    ASSUME RpcInv, NEW k \in AllConns
    PROVE  /\ \A i \in DOMAIN out[k] :
                 /\ out[k][i].from \in Calls /\ gpc[out[k][i].from] \in {"recv", "end"}
                 /\ out[k][i].seq \in Nat /\ out[k][i].seq <= seqId[k]
           /\ \A i \in DOMAIN in[k] :
                 /\ in[k][i].from \in Calls => gpc[in[k][i].from] \in {"recv", "end"}
                 /\ in[k][i].seq \in Nat /\ in[k][i].seq <= seqId[k]
<1>1. Frames /\ seqId[k] \in Nat
  BY DEF RpcInv, RpcTypeOK
<1>2. \A i \in DOMAIN out[k] : Sent(k, out[k][i])
  BY <1>1 DEF Frames, Asked
<1>3. \A i \in DOMAIN in[k] : in[k][i] = Broken \/ Sent(k, in[k][i])
  BY <1>1 DEF Frames, Answered
<1>4. \A i \in DOMAIN in[k] :
         /\ in[k][i].from \in Calls => gpc[in[k][i].from] \in {"recv", "end"}
         /\ in[k][i].seq \in Nat /\ in[k][i].seq <= seqId[k]
  BY <1>1, <1>3, BrokenParts DEF Sent
<1> QED
  BY <1>2, <1>4 DEF Sent

\* A message is appended whose call has none there, or the first one removed.
LEMMA AppendParts ==
    ASSUME NEW S, NEW s \in Seq(S), NEW x \in S
    PROVE  /\ Append(s, x) \in Seq(S) /\ Append(s, x) # <<>>
           /\ \A i \in DOMAIN s : i \in DOMAIN Append(s, x) /\ Append(s, x)[i] = s[i]
           /\ \A i \in DOMAIN Append(s, x) : i \in DOMAIN s \/ Append(s, x)[i] = x
           /\ s # <<>> => 1 \in DOMAIN s /\ Append(s, x)[1] = s[1]
<1>1. /\ DOMAIN s = 1..Len(s) /\ Len(s) \in Nat /\ DOMAIN Append(s, x) = 1..(Len(s) + 1)
      /\ \A i \in DOMAIN s : Append(s, x)[i] = s[i]
      /\ Append(s, x)[Len(s) + 1] = x /\ Len(Append(s, x)) = Len(s) + 1
  OBVIOUS
<1>2. Append(s, x) \in Seq(S)
  OBVIOUS
<1>3. Append(s, x) # <<>>
  BY <1>1
<1>4. s # <<>> => 1 \in DOMAIN s
  OBVIOUS
<1>5. \A i \in DOMAIN Append(s, x) : i \in DOMAIN s \/ Append(s, x)[i] = x
  BY <1>1
<1>6. \A i \in DOMAIN s : i \in DOMAIN Append(s, x)
  BY <1>1
<1> QED
  BY <1>1, <1>2, <1>3, <1>4, <1>5, <1>6

LEMMA AppendFrom ==
    ASSUME NEW S, NEW s \in Seq(S), NEW x \in S, NEW t, t = Append(s, x),
           \A i \in DOMAIN s : s[i].from # x.from,
           \A i, j \in DOMAIN s : s[i].from = s[j].from => i = j
    PROVE  \A i, j \in DOMAIN t : t[i].from = t[j].from => i = j
<1>1. /\ DOMAIN s = 1..Len(s) /\ Len(s) \in Nat /\ DOMAIN t = 1..(Len(s) + 1)
      /\ \A i \in DOMAIN s : t[i] = s[i]
      /\ t[Len(s) + 1] = x
  OBVIOUS
<1>2. \A i \in DOMAIN t : i \in DOMAIN s \/ i = Len(s) + 1
  BY <1>1
<1> QED
  BY <1>1, <1>2

LEMMA TailParts ==
    ASSUME NEW S, NEW s \in Seq(S), s # <<>>
    PROVE  /\ Tail(s) \in Seq(S) /\ 1 \in DOMAIN s /\ Head(s) = s[1] /\ s[1] \in S
           /\ \A i \in DOMAIN Tail(s) :
                 i + 1 \in DOMAIN s /\ i \in Nat /\ i > 0 /\ Tail(s)[i] = s[i + 1]
  OBVIOUS

LEMMA SendStep == ASSUME RpcInv, NEW c \in Calls, SendRequest(c) PROVE RpcInv'
<1> USE DEF poolVars, histVars
<1> SUFFICES ASSUME NEW k, k = via[c], NEW msg,
                    msg = Message("CALL", request[c].name, seqId[k] + 1, ArgsOf(request[c]), c)
             PROVE  RpcInv'
  OBVIOUS
<1>1. /\ RpcTypeOK /\ Framed /\ Phases /\ Holding /\ Sharing /\ Numbered /\ Frames
      /\ OwnNumber /\ Delayed /\ Settled
  BY DEF RpcInv
<1>2. /\ gpc[c] = "send" /\ k \notin shared
      /\ gpc' = [gpc EXCEPT ![c] = "recv"] /\ num' = [num EXCEPT ![c] = seqId[k] + 1]
      /\ seqId' = [seqId EXCEPT ![k] = seqId[k] + 1]
      /\ out' = [out EXCEPT ![k] = Append(out[k], msg)]
      /\ UNCHANGED <<request, cpc, via, chan, result, dialled, idle, in, db, handled, shared,
                     late>>
  BY DEF SendRequest
<1>3. k \in AllConns /\ seqId[k] \in Nat /\ request[c] \in Requests
  BY <1>1, <1>2 DEF Phases, RpcTypeOK
<1>4. /\ msg.name = request[c].name /\ msg.seq = seqId[k] + 1
      /\ msg.body = ArgsOf(request[c]) /\ msg.from = c
  BY MessageParts
<1>5. PICK M : msg \in M /\ in \in [AllConns -> Seq(M)] /\ out \in [AllConns -> Seq(M)]
  BY <1>1, FramedWith
<1>6. /\ \A d \in Calls : gpc'[d] = IF d = c THEN "recv" ELSE gpc[d]
      /\ \A d \in Calls : num'[d] = IF d = c THEN seqId[k] + 1 ELSE num[d]
      /\ \A j \in AllConns : seqId'[j] = IF j = k THEN seqId[k] + 1 ELSE seqId[j]
      /\ gpc' \in [Calls -> {"none", "send", "recv", "end"}] /\ num' \in [Calls -> Nat]
      /\ seqId' \in [AllConns -> Nat]
  BY <1>1, <1>2, <1>3 DEF RpcTypeOK
<1>7. /\ out[k] \in Seq(M) /\ msg \in M /\ out'[k] = Append(out[k], msg)
      /\ out' \in [AllConns -> Seq(M)]
      /\ \A j \in AllConns : j # k => out'[j] = out[j]
      /\ \A i \in DOMAIN out[k] : out'[k][i] = out[k][i]
      /\ \A i \in DOMAIN out'[k] : i \in DOMAIN out[k] \/ out'[k][i] = msg
      /\ out'[k] # <<>>
      /\ out[k] # <<>> => 1 \in DOMAIN out[k] /\ out'[k][1] = out[k][1]
  <2>1. out[k] \in Seq(M) /\ msg \in M
    BY <1>3, <1>5
  <2>2. out'[k] = Append(out[k], msg) /\ \A j \in AllConns : j # k => out'[j] = out[j]
    BY <1>2, <1>3, <1>5
  <2>3. out' \in [AllConns -> Seq(M)]
    <3>1. Append(out[k], msg) \in Seq(M)
      BY <2>1, AppendParts
    <3> HIDE DEF AllConns
    <3> QED
      BY <1>2, <1>5, <3>1
  <2> QED
    BY <2>1, <2>2, <2>3, AppendParts
<1>9. \A d \in Calls : via[d] = k /\ gpc[d] \in {"send", "recv"} => d = c
  BY <1>1, <1>2 DEF Sharing
<1>10. RpcTypeOK'
  BY <1>1, <1>2, <1>6 DEF RpcTypeOK
<1>11. Framed'
  BY <1>2, <1>5, <1>7 DEF Framed
<1>12. Phases' /\ Holding'
  BY <1>1, <1>2, <1>6 DEF Phases, Holding
<1>13. Sharing'
  <2>1. \A j \in shared : j \in AllConns /\ j # k
    BY <1>1, <1>2 DEF RpcTypeOK
  <2> QED
    BY <1>1, <1>2, <1>6, <1>7, <2>1 DEF Sharing
<1>14. Numbered'
  BY <1>1, <1>2, <1>3, <1>6, <1>9 DEF Numbered, Phases, RpcTypeOK
<1>15. Frames'
  <2> SUFFICES ASSUME NEW j \in AllConns
               PROVE  /\ \A i \in DOMAIN out'[j] : Asked(j, out[j][i])'
                      /\ \A i \in DOMAIN in'[j] : Answered(j, in[j][i])'
                      /\ \A i, l \in DOMAIN out'[j] : out'[j][i].from = out'[j][l].from => i = l
                      /\ \A i \in DOMAIN out'[j], l \in DOMAIN in'[j] :
                            out'[j][i].from # in'[j][l].from
    BY DEF Frames
  <2>1. \A d \in Calls : gpc[d] \in {"recv", "end"} => gpc'[d] \in {"recv", "end"}
    BY <1>6
  <2>2. seqId[j] \in Nat /\ seqId'[j] \in Nat /\ seqId[j] <= seqId'[j]
    <3>1. seqId[j] \in Nat
      BY <1>1 DEF RpcTypeOK
    <3>2. seqId'[j] = IF j = k THEN seqId[k] + 1 ELSE seqId[j]
      BY <1>6
    <3> QED
      BY <3>1, <3>2
  <2>3. ASSUME NEW m, Sent(j, m) PROVE Sent(j, m)'
    BY <1>2, <2>1, <2>2, <2>3, SentKept DEF Sent
  <2>4. ASSUME NEW i \in DOMAIN out[j], NEW m, m = out[j][i] PROVE Asked(j, m)'
    BY <1>1, <1>2, <2>3, <2>4 DEF Frames, Asked
  <2>5. ASSUME NEW i \in DOMAIN in[j], NEW m, m = in[j][i] PROVE Answered(j, m)'
    BY <1>1, <1>2, <2>3, <2>5 DEF Frames, Answered
  <2>6. CASE j # k
    BY <1>1, <1>2, <1>7, <2>4, <2>5, <2>6, FramesNext DEF Frames
  <2>7. CASE j = k
    <3>1. ASSUME NEW m, m = msg PROVE Asked(k, m)'
      BY <1>2, <1>3, <1>4, <1>6, <3>1 DEF Asked, Sent
    <3>2. \A i \in DOMAIN out'[k] : \A m : m = out'[k][i] => Asked(k, m)'
      BY <1>7, <2>4, <2>7, <3>1
    <3>3. \A i \in DOMAIN in'[k] : \A m : m = in'[k][i] => Answered(k, m)'
      BY <1>2, <2>5, <2>7
    <3>4. /\ \A i \in DOMAIN out[k] : out[k][i].from # c
          /\ \A i \in DOMAIN in[k] : in[k][i].from # c
      BY <1>2, <1>3, FrameBounds
    <3>5. \A i, l \in DOMAIN out'[k] : out'[k][i].from = out'[k][l].from => i = l
      <4>1. \A i, l \in DOMAIN out[k] : out[k][i].from = out[k][l].from => i = l
        BY <1>1, <1>3 DEF Frames
      <4>2. \A i \in DOMAIN out[k] : out[k][i].from # msg.from
        BY <1>4, <3>4
      <4>3. out[k] \in Seq(M) /\ msg \in M /\ out'[k] = Append(out[k], msg)
        BY <1>7
      <4> QED
        BY <4>1, <4>2, <4>3, AppendFrom
    <3>6. ASSUME NEW i \in DOMAIN out'[k], NEW l \in DOMAIN in[k]
          PROVE  out'[k][i].from # in[k][l].from
      <4>1. CASE i \in DOMAIN out[k]
        <5>1. out[k][i].from # in[k][l].from
          BY <1>1, <1>3, <4>1 DEF Frames
        <5> QED
          BY <1>7, <4>1, <5>1
      <4>2. CASE out'[k][i] = msg
        BY <1>4, <3>4, <4>2
      <4> QED
        BY <1>7, <4>1, <4>2
    <3> QED
      <4>1. /\ \A i \in DOMAIN out'[k] : Asked(k, out[k][i])'
            /\ \A i \in DOMAIN in'[k] : Answered(k, in[k][i])'
        BY <1>3, <3>2, <3>3, FramesNext
      <4>2. \A i \in DOMAIN out'[k], l \in DOMAIN in'[k] : out'[k][i].from # in'[k][l].from
        BY <1>2, <3>6
      <4> QED
        BY <2>7, <3>5, <4>1, <4>2, Zenon
  <2> QED
    BY <2>6, <2>7
<1>16. OwnNumber'
  <2> SUFFICES ASSUME NEW j \in AllConns, NEW d \in Calls, gpc'[d] = "recv", via[d] = j
               PROVE  /\ \A i \in DOMAIN out'[j] : out'[j][i].seq = num'[d] => out'[j][i].from = d
                      /\ \A i \in DOMAIN in[j] : in[j][i].seq = num'[d] => in[j][i].from = d
    BY <1>2 DEF OwnNumber
  <2>1. CASE d = c
    <3>1. j = k /\ num'[d] = seqId[k] + 1
      BY <1>6, <2>1
    <3>2. /\ \A i \in DOMAIN out[k] : out[k][i].seq # num'[d]
          /\ \A i \in DOMAIN in[k] : in[k][i].seq # num'[d]
      BY <1>3, <3>1, FrameBounds
    <3>3. \A i \in DOMAIN out'[k] : out'[k][i].seq = num'[d] => out'[k][i].from = d
      <4>1. /\ \A i \in DOMAIN out[k] : out'[k][i] = out[k][i]
            /\ \A i \in DOMAIN out'[k] : i \in DOMAIN out[k] \/ out'[k][i] = msg
        BY <1>7
      <4> QED
        BY <1>4, <2>1, <3>2, <4>1
    <3> QED
      BY <3>1, <3>2, <3>3
  <2>2. CASE d # c
    <3>1. j # k /\ gpc[d] = "recv" /\ num'[d] = num[d]
      BY <1>6, <1>9, <2>2
    <3> QED
      BY <1>1, <1>7, <3>1 DEF OwnNumber
  <2> QED
    BY <2>1, <2>2
<1>17. Delayed'
  <2> SUFFICES ASSUME NEW d \in late, via[d] \notin shared
               PROVE  /\ chan[d] # "ok"
                      /\ gpc'[d] = "send" => in[via[d]] # <<>> \/ out'[via[d]] # <<>>
                      /\ gpc'[d] = "recv" =>
                            \/ in[via[d]] # <<>> /\ in[via[d]][1].seq # num'[d]
                            \/ in[via[d]] = <<>> /\ out'[via[d]] # <<>>
                                                 /\ out'[via[d]][1].seq # num'[d]
    BY <1>2 DEF Delayed
  <2>1. d \in Calls /\ chan[d] # "ok"
    BY <1>1 DEF RpcTypeOK, Delayed
  <2>2. CASE d = c
    <3>1. num'[d] = seqId[k] + 1 /\ gpc'[d] = "recv" /\ via[d] = k
      BY <1>6, <2>1, <2>2
    <3>2. /\ \A i \in DOMAIN out[k] : out[k][i].seq # num'[d]
          /\ \A i \in DOMAIN in[k] : in[k][i].seq # num'[d]
      BY <1>3, <3>1, FrameBounds
    <3>3. in[k] # <<>> \/ out[k] # <<>>
      BY <1>1, <1>2, <2>2, <3>1 DEF Delayed
    <3>4. in[k] # <<>> => 1 \in DOMAIN in[k]
      BY <1>3, <1>5
    <3> QED
      BY <1>7, <2>1, <3>1, <3>2, <3>3, <3>4
  <2>3. CASE d # c /\ gpc[d] \in {"send", "recv"}
    <3>1. via[d] # k /\ gpc'[d] = gpc[d] /\ num'[d] = num[d] /\ via[d] \in AllConns
      BY <1>1, <1>6, <1>9, <2>1, <2>3 DEF Phases, RpcTypeOK
    <3>2. out'[via[d]] = out[via[d]]
      BY <1>7, <3>1
    <3> QED
      BY <1>1, <3>1, <3>2 DEF Delayed
  <2>4. CASE d # c /\ gpc[d] \notin {"send", "recv"}
    BY <1>6, <2>1, <2>4
  <2> QED
    BY <2>2, <2>3, <2>4
<1>18. Settled'
  <2> SUFFICES ASSUME NEW d \in Calls, chan[d] = "ok", via[d] \notin shared
               PROVE  /\ handled[d] = [req |-> request[d].req, resp |-> result[d]]
                      /\ \A i \in DOMAIN out'[via[d]] : out'[via[d]][i].from # d
    BY <1>2 DEF Settled
  <2>1. gpc[d] = "end" /\ d # c /\ via[d] \in AllConns
    BY <1>1, <1>2 DEF Phases, RpcTypeOK
  <2>2. /\ handled[d] = [req |-> request[d].req, resp |-> result[d]]
        /\ \A i \in DOMAIN out[via[d]] : out[via[d]][i].from # d
    BY <1>1 DEF Settled
  <2>3. CASE via[d] = k
    <3>1. \A i \in DOMAIN out'[k] : out'[k][i].from # d
      BY <1>4, <1>7, <2>1, <2>2, <2>3
    <3> QED
      BY <2>2, <2>3, <3>1, Zenon
  <2>4. CASE via[d] # k
    <3>1. out'[via[d]] = out[via[d]]
      BY <1>7, <2>1, <2>4
    <3> QED
      BY <2>2, <3>1, Zenon
  <2> QED
    BY <2>3, <2>4
<1> QED
  BY <1>10, <1>11, <1>12, <1>13, <1>14, <1>15, <1>16, <1>17, <1>18 DEF RpcInv

-----------------------------------------------------------------------------
(* A frame is read                                                         *)

\* The goroutine of c ends; of the frames on its connection some are left.
LEMMA ReadStep ==
    ASSUME RpcInv, NEW c \in Calls, NEW what \in {"ok", "error"}, NEW resp, NEW k, k = via[c],
           gpc[c] = "recv", k \notin shared, End(c, what, resp), UNCHANGED <<seqId, out, up>>,
           Framed', \A j \in AllConns : j # k => in'[j] = in[j],
           \A i \in DOMAIN in'[k] : \/ in'[k][i] = Broken
                                    \/ \E j \in DOMAIN in[k] : in'[k][i] = in[k][j],
           what = "ok" => /\ c \notin late
                          /\ handled[c] = [req |-> request[c].req, resp |-> resp]
                          /\ \A i \in DOMAIN out[k] : out[k][i].from # c
    PROVE  RpcInv'
<1>1. /\ RpcTypeOK /\ Phases /\ Sharing /\ Frames /\ OwnNumber /\ Delayed /\ Settled
  BY DEF RpcInv
<1>2. UNCHANGED <<request, cpc, via, dialled, idle, db, handled, shared, late, seqId, out>>
  BY EndFacts
<1>3. \A d \in Calls : gpc'[d] = IF d = c THEN "end" ELSE gpc[d]
  BY EndFacts
<1>4. \A d \in Calls : d # c => chan'[d] = chan[d] /\ num'[d] = num[d] /\ result'[d] = result[d]
  BY EndFacts
<1>5. chan'[c] = "ok" => what = "ok" /\ result'[c] = resp
  <2>1. chan[c] = "empty"
    BY <1>1 DEF Phases
  <2> QED
    BY <2>1, EndFacts
<1>6. RpcTypeOK' /\ Phases' /\ Holding' /\ Numbered'
  BY EndFacts, EndCallers
<1>7. k \in AllConns
  BY <1>1 DEF Phases, RpcTypeOK
<1>8. \A j \in AllConns : j # k => in'[j] = in[j]
  OBVIOUS
<1>9. \A d \in Calls : via[d] = k => gpc'[d] \notin {"send", "recv"}
  BY <1>1, <1>3 DEF Sharing
<1>11. Sharing'
  <2>1. \A j \in shared : j \in AllConns /\ j # k
    BY <1>1 DEF RpcTypeOK
  <2>2. ASSUME NEW j \in shared
        PROVE  /\ out[j] = <<>> /\ in'[j] = <<>>
               /\ \E d \in Calls : via[d] = j /\ cpc[d] = "timeout"
    <3>1. /\ out[j] = <<>> /\ in[j] = <<>>
          /\ \E d \in Calls : via[d] = j /\ cpc[d] = "timeout"
      BY <1>1 DEF Sharing
    <3> QED
      BY <1>8, <2>1, <3>1
  <2>3. \A d, e \in Calls :
           /\ via[d] = via[e] /\ via[d] \notin shared
           /\ gpc'[d] \in {"send", "recv"} /\ gpc'[e] \in {"send", "recv"}
           => d = e
    BY <1>1, <1>3 DEF Sharing
  <2> QED
    BY <1>2, <2>2, <2>3 DEF Sharing
<1>12. Frames'
  <2> SUFFICES ASSUME NEW j \in AllConns
               PROVE  /\ \A i \in DOMAIN out'[j] : Asked(j, out[j][i])'
                      /\ \A i \in DOMAIN in'[j] : Answered(j, in[j][i])'
                      /\ \A i, l \in DOMAIN out'[j] : out'[j][i].from = out'[j][l].from => i = l
                      /\ \A i \in DOMAIN out'[j], l \in DOMAIN in'[j] :
                            out'[j][i].from # in'[j][l].from
    BY DEF Frames
  <2>1. \A d \in Calls : gpc[d] \in {"recv", "end"} => gpc'[d] \in {"recv", "end"}
    BY <1>3
  <2>2. seqId[j] \in Nat /\ seqId'[j] = seqId[j]
    BY <1>1, <1>2 DEF RpcTypeOK
  <2>3. ASSUME NEW m, Sent(j, m) PROVE Sent(j, m)'
    BY <1>2, <2>1, <2>2, <2>3 DEF Sent
  <2>4. ASSUME NEW i \in DOMAIN out[j], NEW m, m = out[j][i] PROVE Asked(j, m)'
    BY <1>1, <1>2, <2>3, <2>4 DEF Frames, Asked
  <2>5. ASSUME NEW i \in DOMAIN in[j], NEW m, m = in[j][i] PROVE Answered(j, m)'
    BY <1>1, <1>2, <2>3, <2>5 DEF Frames, Answered
  <2>6. /\ \A i, l \in DOMAIN out[j] : out[j][i].from = out[j][l].from => i = l
        /\ \A i \in DOMAIN out[j], l \in DOMAIN in[j] : out[j][i].from # in[j][l].from
        /\ \A i \in DOMAIN out[j] : out[j][i].from \in Calls
    BY <1>1, FrameBounds DEF Frames
  <2>7. \A i \in DOMAIN in'[j] : in'[j][i] = Broken \/ \E l \in DOMAIN in[j] : in'[j][i] = in[j][l]
    <3>1. CASE j = k
      BY <1>8, <3>1
    <3>2. CASE j # k
      BY <1>8, <3>2
    <3> QED
      BY <3>1, <3>2
  <2>8. \A m : m = Broken => Answered(j, m)'
    BY DEF Answered
  <2>9. \A i \in DOMAIN in'[j] : \A m : m = in'[j][i] => Answered(j, m)'
    BY <2>5, <2>7, <2>8
  <2>10. \A i \in DOMAIN out'[j] : \A m : m = out'[j][i] => Asked(j, m)'
    BY <1>2, <2>4
  <2>11. ASSUME NEW i \in DOMAIN out[j], NEW l \in DOMAIN in'[j]
         PROVE  out[j][i].from # in'[j][l].from
    <3>1. CASE in'[j][l] = Broken
      BY <2>6, <3>1, BrokenParts
    <3>2. CASE \E n \in DOMAIN in[j] : in'[j][l] = in[j][n]
      BY <2>6, <3>2
    <3> QED
      BY <2>7, <3>1, <3>2
  <2>12. /\ \A i \in DOMAIN out'[j] : Asked(j, out[j][i])'
         /\ \A i \in DOMAIN in'[j] : Answered(j, in[j][i])'
    BY <2>9, <2>10, FramesNext
  <2> QED
    BY <1>2, <2>6, <2>11, <2>12
<1>13. OwnNumber'
  <2> SUFFICES ASSUME NEW j \in AllConns, NEW d \in Calls, gpc'[d] = "recv", via[d] = j
               PROVE  /\ \A i \in DOMAIN out[j] : out[j][i].seq = num'[d] => out[j][i].from = d
                      /\ \A i \in DOMAIN in'[j] : in'[j][i].seq = num'[d] => in'[j][i].from = d
    BY <1>2 DEF OwnNumber
  <2>1. j # k /\ d # c /\ gpc[d] = "recv"
    BY <1>3, <1>9
  <2>2. in'[j] = in[j] /\ num'[d] = num[d]
    BY <1>4, <1>8, <2>1
  <2> QED
    BY <1>1, <2>1, <2>2 DEF OwnNumber
<1>14. Delayed'
  <2> SUFFICES ASSUME NEW d \in late, via[d] \notin shared
               PROVE  /\ chan'[d] # "ok"
                      /\ gpc'[d] = "send" => in'[via[d]] # <<>> \/ out[via[d]] # <<>>
                      /\ gpc'[d] = "recv" =>
                            \/ in'[via[d]] # <<>> /\ in'[via[d]][1].seq # num'[d]
                            \/ in'[via[d]] = <<>> /\ out[via[d]] # <<>>
                                                  /\ out[via[d]][1].seq # num'[d]
    BY <1>2 DEF Delayed
  <2>1. d \in Calls
    BY <1>1 DEF RpcTypeOK
  <2>2. chan'[d] # "ok"
    <3>1. CASE d = c
      BY <1>5, <3>1
    <3>2. CASE d # c
      BY <1>1, <1>4, <2>1, <3>2 DEF Delayed
    <3> QED
      BY <3>1, <3>2
  <2>3. CASE gpc'[d] \in {"send", "recv"}
    <3>1. d # c /\ via[d] # k /\ gpc'[d] = gpc[d] /\ gpc[d] # "none"
      BY <1>3, <1>9, <2>1, <2>3
    <3>2. via[d] \in AllConns
      BY <1>1, <2>1, <3>1 DEF Phases, RpcTypeOK
    <3>3. in'[via[d]] = in[via[d]] /\ num'[d] = num[d]
      BY <1>4, <1>8, <2>1, <3>1, <3>2
    <3> QED
      BY <1>1, <2>2, <3>1, <3>3 DEF Delayed
  <2>4. CASE gpc'[d] \notin {"send", "recv"}
    BY <2>2, <2>4
  <2> QED
    BY <2>3, <2>4
<1>15. Settled'
  <2> SUFFICES ASSUME NEW d \in Calls, chan'[d] = "ok", via'[d] \notin shared'
               PROVE  /\ handled'[d] = [req |-> request'[d].req, resp |-> result'[d]]
                      /\ \A i \in DOMAIN out'[via'[d]] : out'[via'[d]][i].from # d
    BY DEF Settled
  <2> SUFFICES /\ handled[d] = [req |-> request[d].req, resp |-> result'[d]]
               /\ \A i \in DOMAIN out[via[d]] : out[via[d]][i].from # d
    BY <1>2
  <2>1. CASE d = c
    <3>1. what = "ok" /\ result'[d] = resp /\ via[d] = k
      BY <1>5, <2>1
    <3> QED
      BY <2>1, <3>1
  <2>2. CASE d # c
    <3>1. chan[d] = "ok" /\ result'[d] = result[d]
      BY <1>4, <2>2
    <3> QED
      BY <1>1, <1>2, <3>1 DEF Settled
  <2> QED
    BY <2>1, <2>2
<1> QED
  BY <1>6, <1>11, <1>12, <1>13, <1>14, <1>15 DEF RpcInv

LEMMA RecvStep == ASSUME RpcInv, NEW c \in Calls, Recv(c) PROVE RpcInv'
<1> SUFFICES ASSUME NEW k, k = via[c], NEW m, m = Head(in[k]) PROVE RpcInv'
  OBVIOUS
<1>1. /\ RpcTypeOK /\ Framed /\ Phases /\ Numbered /\ Frames /\ OwnNumber /\ Delayed
  BY DEF RpcInv
<1>2. gpc[c] = "recv" /\ in[k] # <<>> /\ k \notin shared /\ UNCHANGED <<seqId, out, up>>
  BY DEF Recv
<1>3. k \in AllConns
  BY <1>1, <1>2 DEF Phases, RpcTypeOK
<1>4. PICK M : Broken \in M /\ in \in [AllConns -> Seq(M)] /\ out \in [AllConns -> Seq(M)]
  BY <1>1, FramedWith
<1>5. in[k] \in Seq(M) /\ out[k] \in Seq(M)
  BY <1>3, <1>4
<1>6. /\ 1 \in DOMAIN in[k] /\ m = in[k][1] /\ Tail(in[k]) \in Seq(M)
      /\ \A i \in DOMAIN Tail(in[k]) : \E j \in DOMAIN in[k] : Tail(in[k])[i] = in[k][j]
  BY <1>2, <1>5, TailParts
<1>7. ASSUME NEW what \in {"ok", "error"}, NEW resp, End(c, what, resp),
             NEW t \in Seq(M), in' = [in EXCEPT ![k] = t],
             \A i \in DOMAIN t : t[i] = Broken \/ \E j \in DOMAIN in[k] : t[i] = in[k][j],
             what = "ok" => /\ c \notin late
                            /\ handled[c] = [req |-> request[c].req, resp |-> resp]
                            /\ \A i \in DOMAIN out[k] : out[k][i].from # c
      PROVE  RpcInv'
  <2>1. UNCHANGED <<seqId, out, up>>
    BY <1>2
  <2>2. gpc[c] = "recv" /\ k \notin shared
    BY <1>2
  <2>3. in' \in [AllConns -> Seq(M)] /\ out' \in [AllConns -> Seq(M)]
    BY <1>2, <1>4, <1>7
  <2>4. Framed'
    BY <2>3 DEF Framed
  <2>5. in'[k] = t /\ \A j \in AllConns : j # k => in'[j] = in[j]
    BY <1>3, <1>4, <1>7
  <2>6. \A i \in DOMAIN in'[k] : \/ in'[k][i] = Broken
                                 \/ \E j \in DOMAIN in[k] : in'[k][i] = in[k][j]
    BY <1>7, <2>5
  <2>7. End(c, what, resp)
    BY <1>7
  <2>8. what = "ok" => /\ c \notin late
                       /\ handled[c] = [req |-> request[c].req, resp |-> resp]
                       /\ \A i \in DOMAIN out[k] : out[k][i].from # c
    BY <1>7
  <2>9. \A j \in AllConns : j # k => in'[j] = in[j]
    BY <2>5
  <2> QED
    BY <2>1, <2>2, <2>4, <2>6, <2>7, <2>8, <2>9, ReadStep
<1>8. CASE /\ IsReply(c, m) /\ m.type = "REPLY"
           /\ End(c, "ok", SuccessOf(m.name, m.body))
           /\ in' = [in EXCEPT ![k] = Tail(in[k])]
  <2>1. m.seq = num[c] /\ num[c] > 0
    BY <1>1, <1>2, <1>8 DEF IsReply, Numbered
  <2>2. m.from = c /\ m # Broken
    <3>1. m.from = c
      BY <1>1, <1>2, <1>3, <1>6, <2>1 DEF OwnNumber
    <3> QED
      BY <3>1, BrokenParts
  <2>3. Answered(k, m) /\ \A i \in DOMAIN out[k] : out[k][i].from # m.from
    BY <1>1, <1>3, <1>6 DEF Frames
  <2>4. handled[c] = [req |-> request[c].req, resp |-> SuccessOf(m.name, m.body)]
    BY <1>8, <2>2, <2>3 DEF Answered
  <2>5. c \notin late
    BY <1>1, <1>2, <1>6, <2>1 DEF Delayed
  <2>6. \A i \in DOMAIN out[k] : out[k][i].from # c
    BY <2>2, <2>3
  <2> QED
    BY <1>6, <1>7, <1>8, <2>4, <2>5, <2>6
<1>9. CASE End(c, "error", nil) /\ in' = [in EXCEPT ![k] = Tail(in[k])]
  BY <1>6, <1>7, <1>9
<1>10. CASE End(c, "error", nil) /\ in' = [in EXCEPT ![k] = <<Broken>> \o Tail(in[k])]
  <2> DEFINE t == <<Broken>> \o Tail(in[k])
  <2>1. t \in Seq(M)
    BY <1>4, <1>6
  <2>2. \A i \in DOMAIN t : t[i] = Broken \/ \E j \in DOMAIN in[k] : t[i] = in[k][j]
    <3>1. /\ DOMAIN t = 1..(Len(Tail(in[k])) + 1) /\ Len(Tail(in[k])) \in Nat
          /\ DOMAIN Tail(in[k]) = 1..Len(Tail(in[k]))
      BY <1>4, <1>6
    <3>2. ASSUME NEW i \in DOMAIN t, i # 1
          PROVE  i - 1 \in DOMAIN Tail(in[k]) /\ t[i] = Tail(in[k])[i - 1]
      BY <1>4, <1>6, <3>1, <3>2
    <3>3. t[1] = Broken
      BY <1>4, <1>6
    <3> QED
      BY <1>6, <3>2, <3>3
  <2>3. in' = [in EXCEPT ![k] = t]
    BY <1>10
  <2> HIDE DEF t
  <2> QED
    BY <1>7, <1>10, <2>1, <2>2, <2>3
<1> QED
  BY <1>8, <1>9, <1>10 DEF Recv

-----------------------------------------------------------------------------
(* The server answers                                                      *)

LEMMA ServeStep ==
    ASSUME RpcInv, NEW k \in AllConns, NEW m, NEW r, out[k] # <<>>, m = Head(out[k]), Reply(k, r),
           r.from = m.from, r.seq = m.seq, r.name = m.name,
           db' \in [Keys -> Strings], handled' = [d \in Calls |-> handled'[d]],
           \A d \in Calls : d # m.from => handled'[d] = handled[d],
           r.type = "REPLY" =>
              handled'[m.from] = [req |-> request[m.from].req, resp |-> SuccessOf(r.name, r.body)]
    PROVE  RpcInv'
<1> USE DEF callVars, poolVars
<1>1. /\ RpcTypeOK /\ Framed /\ Phases /\ Holding /\ Sharing /\ Numbered /\ Frames
      /\ OwnNumber /\ Delayed /\ Settled
  BY DEF RpcInv
<1>2. /\ out' = [out EXCEPT ![k] = Tail(out[k])] /\ in' = [in EXCEPT ![k] = Append(in[k], r)]
      /\ UNCHANGED <<request, cpc, gpc, via, chan, result, num, dialled, idle, seqId, shared,
                     late>>
  BY DEF Reply
<1>3. k \notin shared
  BY <1>1 DEF Sharing
<1>4. PICK M : r \in M /\ in \in [AllConns -> Seq(M)] /\ out \in [AllConns -> Seq(M)]
  BY <1>1, FramedWith
<1>5. in[k] \in Seq(M) /\ out[k] \in Seq(M)
  BY <1>4
<1>6. /\ out'[k] = Tail(out[k]) /\ in'[k] = Append(in[k], r)
      /\ \A j \in AllConns : j # k => out'[j] = out[j] /\ in'[j] = in[j]
  BY <1>2, <1>4
<1>7. /\ 1 \in DOMAIN out[k] /\ m = out[k][1] /\ Tail(out[k]) \in Seq(M)
      /\ \A i \in DOMAIN out'[k] :
            i + 1 \in DOMAIN out[k] /\ i \in Nat /\ i > 0 /\ out'[k][i] = out[k][i + 1]
  BY <1>5, <1>6, TailParts
<1>8. /\ in'[k] # <<>> /\ Append(in[k], r) \in Seq(M)
      /\ \A i \in DOMAIN in[k] : in'[k][i] = in[k][i]
      /\ \A i \in DOMAIN in'[k] : i \in DOMAIN in[k] \/ in'[k][i] = r
      /\ in[k] # <<>> => in'[k][1] = in[k][1]
  BY <1>4, <1>5, <1>6, AppendParts
<1>9. in[k] = <<>> => in'[k][1] = r
  BY <1>6
<1>10. RpcTypeOK'
  BY <1>1, <1>2 DEF RpcTypeOK
<1>11. Framed'
  <2>1. in' \in [AllConns -> Seq(M)]
    BY <1>2, <1>4, <1>8
  <2>2. out' \in [AllConns -> Seq(M)]
    BY <1>2, <1>4, <1>7
  <2> QED
    BY <2>1, <2>2 DEF Framed
<1>12. Phases' /\ Holding' /\ Numbered'
  BY <1>1, <1>2 DEF Phases, Holding, Numbered
<1>13. Sharing'
  <2>1. \A j \in shared : j \in AllConns /\ j # k
    BY <1>1, <1>3 DEF RpcTypeOK
  <2>2. \A j \in shared : out'[j] = <<>> /\ in'[j] = <<>>
    BY <1>1, <1>6, <2>1 DEF Sharing
  <2> QED
    BY <1>1, <1>2, <2>2 DEF Sharing
<1>14. /\ Asked(k, m)
       /\ \A i, l \in DOMAIN out[k] : out[k][i].from = out[k][l].from => i = l
       /\ \A i \in DOMAIN out[k], l \in DOMAIN in[k] : out[k][i].from # in[k][l].from
  BY <1>1, <1>7 DEF Frames
<1>15. m.from \in Calls /\ via[m.from] = k
  BY <1>14 DEF Asked, Sent
<1>16. \A i \in DOMAIN out'[k] : out'[k][i].from # m.from
  BY <1>7, <1>14
<1>17. \A i \in DOMAIN in[k] : in[k][i].from # m.from
  BY <1>7, <1>14
<1>18. Frames'
  <2> SUFFICES ASSUME NEW j \in AllConns
               PROVE  /\ \A i \in DOMAIN out'[j] : Asked(j, out[j][i])'
                      /\ \A i \in DOMAIN in'[j] : Answered(j, in[j][i])'
                      /\ \A i, l \in DOMAIN out'[j] : out'[j][i].from = out'[j][l].from => i = l
                      /\ \A i \in DOMAIN out'[j], l \in DOMAIN in'[j] :
                            out'[j][i].from # in'[j][l].from
    BY DEF Frames
  <2>1. ASSUME NEW n, Sent(j, n) PROVE Sent(j, n)'
    BY <1>2, <2>1 DEF Sent
  <2>2. ASSUME NEW i \in DOMAIN out[j], NEW n, n = out[j][i] PROVE Asked(j, n)'
    BY <1>1, <1>2, <2>1, <2>2 DEF Frames, Asked
  <2>3. ASSUME NEW i \in DOMAIN in[j], NEW n, n = in[j][i] PROVE Answered(j, n)'
    <3>1. Answered(j, n)
      BY <1>1, <2>3 DEF Frames
    <3>2. CASE n = Broken
      BY <3>2 DEF Answered
    <3>3. CASE n # Broken
      <4>1. Sent(j, n) /\ n.from # m.from
        <5>1. Sent(j, n)
          BY <3>1, <3>3 DEF Answered
        <5>2. CASE j = k
          BY <1>17, <2>3, <5>1, <5>2
        <5>3. CASE j # k
          BY <1>15, <5>1, <5>3 DEF Sent
        <5> QED
          BY <5>1, <5>2, <5>3
      <4>2. handled'[n.from] = handled[n.from]
        BY <4>1 DEF Sent
      <4> QED
        BY <1>2, <2>1, <3>1, <3>3, <4>1, <4>2 DEF Answered
    <3> QED
      BY <3>2, <3>3
  <2>4. CASE j # k
    <3>1. out'[j] = out[j] /\ in'[j] = in[j]
      BY <1>6, <2>4
    <3>2. /\ \A i \in DOMAIN out'[j] : \A n : n = out'[j][i] => Asked(j, n)'
          /\ \A i \in DOMAIN in'[j] : \A n : n = in'[j][i] => Answered(j, n)'
      BY <2>2, <2>3, <3>1
    <3>3. /\ \A i \in DOMAIN out'[j] : Asked(j, out[j][i])'
          /\ \A i \in DOMAIN in'[j] : Answered(j, in[j][i])'
      BY <3>2, FramesNext
    <3> QED
      BY <1>1, <3>1, <3>3 DEF Frames
  <2>5. CASE j = k
    <3>1. ASSUME NEW n, n = r PROVE Answered(k, n)'
      <4>1. Sent(k, n)'
        BY <1>2, <1>14, <3>1 DEF Asked, Sent
      <4>2. n.type = "REPLY" => handled'[n.from] =
                [req |-> request'[n.from].req, resp |-> SuccessOf(n.name, n.body)]
        BY <1>2, <3>1
      <4> QED
        BY <4>1, <4>2 DEF Answered
    <3>2. \A i \in DOMAIN out'[k] : \A n : n = out'[k][i] => Asked(k, n)'
      BY <1>7, <2>2, <2>5
    <3>3. \A i \in DOMAIN in'[k] : \A n : n = in'[k][i] => Answered(k, n)'
      BY <1>8, <2>3, <2>5, <3>1
    <3>4. /\ \A i \in DOMAIN out'[k] : Asked(k, out[k][i])'
          /\ \A i \in DOMAIN in'[k] : Answered(k, in[k][i])'
      BY <3>2, <3>3, FramesNext
    <3>5. ASSUME NEW i \in DOMAIN out'[k], NEW l \in DOMAIN out'[k],
                 out'[k][i].from = out'[k][l].from
          PROVE  i = l
      <4>1. i + 1 = l + 1 /\ i \in Nat /\ l \in Nat
        BY <1>7, <1>14, <3>5
      <4> QED
        BY <4>1
    <3>6. ASSUME NEW i \in DOMAIN out'[k], NEW l \in DOMAIN in'[k]
          PROVE  out'[k][i].from # in'[k][l].from
      <4>1. CASE l \in DOMAIN in[k]
        <5>1. i + 1 \in DOMAIN out[k] /\ out'[k][i] = out[k][i + 1] /\ in'[k][l] = in[k][l]
          BY <1>7, <1>8, <4>1
        <5> QED
          BY <1>14, <4>1, <5>1
      <4>2. CASE in'[k][l] = r
        BY <1>16, <4>2
      <4> QED
        BY <1>8, <4>1, <4>2
    <3> QED
      BY <2>5, <3>4, <3>5, <3>6
  <2> QED
    BY <2>4, <2>5
<1>19. OwnNumber'
  <2> SUFFICES ASSUME NEW j \in AllConns, NEW d \in Calls, gpc[d] = "recv", via[d] = j
               PROVE  /\ \A i \in DOMAIN out'[j] : out'[j][i].seq = num[d] => out'[j][i].from = d
                      /\ \A i \in DOMAIN in'[j] : in'[j][i].seq = num[d] => in'[j][i].from = d
    BY <1>2 DEF OwnNumber
  <2>1. /\ \A i \in DOMAIN out[j] : out[j][i].seq = num[d] => out[j][i].from = d
        /\ \A i \in DOMAIN in[j] : in[j][i].seq = num[d] => in[j][i].from = d
    BY <1>1 DEF OwnNumber
  <2>2. CASE j = k
    <3>1. \A i \in DOMAIN out'[k] : out'[k][i].seq = num[d] => out'[k][i].from = d
      BY <1>7, <2>1, <2>2
    <3>2. r.seq = num[d] => r.from = d
      BY <1>7, <2>1, <2>2
    <3>3. \A i \in DOMAIN in'[k] : in'[k][i].seq = num[d] => in'[k][i].from = d
      BY <1>8, <2>1, <2>2, <3>2
    <3> QED
      BY <2>2, <3>1, <3>3
  <2>3. CASE j # k
    <3>1. out'[j] = out[j] /\ in'[j] = in[j]
      BY <1>6, <2>3
    <3> QED
      BY <2>1, <3>1
  <2> QED
    BY <2>2, <2>3
<1>20. Delayed'
  <2> SUFFICES ASSUME NEW d \in late, via[d] \notin shared
               PROVE  /\ chan[d] # "ok"
                      /\ gpc[d] = "send" => in'[via[d]] # <<>> \/ out'[via[d]] # <<>>
                      /\ gpc[d] = "recv" =>
                            \/ in'[via[d]] # <<>> /\ in'[via[d]][1].seq # num[d]
                            \/ in'[via[d]] = <<>> /\ out'[via[d]] # <<>>
                                                  /\ out'[via[d]][1].seq # num[d]
    BY <1>2 DEF Delayed
  <2>1. /\ chan[d] # "ok"
        /\ gpc[d] = "send" => in[via[d]] # <<>> \/ out[via[d]] # <<>>
        /\ gpc[d] = "recv" =>
              \/ in[via[d]] # <<>> /\ in[via[d]][1].seq # num[d]
              \/ in[via[d]] = <<>> /\ out[via[d]] # <<>> /\ out[via[d]][1].seq # num[d]
    BY <1>1 DEF Delayed
  <2>2. via[d] \in AllConns
    <3>1. d \in Calls
      BY <1>1 DEF RpcTypeOK
    <3>2. gpc[d] # "none"
      BY <1>1, <3>1 DEF Phases
    <3> QED
      BY <1>1, <3>1, <3>2 DEF Phases, RpcTypeOK
  <2>3. CASE via[d] = k
    <3>1. gpc[d] = "recv" => in'[k][1].seq # num[d]
      BY <1>7, <1>8, <1>9, <2>1, <2>3
    <3> QED
      BY <1>8, <2>1, <2>3, <3>1
  <2>4. CASE via[d] # k
    <3>1. out'[via[d]] = out[via[d]] /\ in'[via[d]] = in[via[d]]
      BY <1>6, <2>2, <2>4
    <3> QED
      BY <2>1, <3>1
  <2> QED
    BY <2>3, <2>4
<1>21. Settled'
  <2> SUFFICES ASSUME NEW d \in Calls, chan'[d] = "ok", via'[d] \notin shared'
               PROVE  /\ handled'[d] = [req |-> request'[d].req, resp |-> result'[d]]
                      /\ \A i \in DOMAIN out'[via'[d]] : out'[via'[d]][i].from # d
    BY DEF Settled
  <2>1. /\ chan[d] = "ok"
        /\ handled[d] = [req |-> request[d].req, resp |-> result[d]]
        /\ \A i \in DOMAIN out[via[d]] : out[via[d]][i].from # d
    BY <1>1, <1>2 DEF Settled
  <2>2. via[d] \in AllConns
    BY <1>1, <2>1 DEF Phases, RpcTypeOK
  <2>3. d # m.from /\ \A i \in DOMAIN out'[via[d]] : out'[via[d]][i].from # d
    <3>1. CASE via[d] = k
      <4>1. d # m.from
        BY <1>7, <2>1, <3>1
      <4>2. \A i \in DOMAIN out'[k] : out'[k][i].from # d
        BY <1>7, <2>1, <3>1
      <4> QED
        BY <3>1, <4>1, <4>2
    <3>2. CASE via[d] # k
      <4>1. out'[via[d]] = out[via[d]]
        BY <1>6, <2>2, <3>2
      <4> QED
        BY <1>15, <2>1, <3>2, <4>1
    <3> QED
      BY <3>1, <3>2
  <2>4. handled'[d] = handled[d]
    BY <2>3
  <2> QED
    BY <1>2, <2>1, <2>3, <2>4
<1> QED
  BY <1>10, <1>11, <1>12, <1>13, <1>18, <1>19, <1>20, <1>21 DEF RpcInv

LEMMA ProcessStep ==
    ASSUME RpcInv, NEW k \in AllConns, Process(k) \/ ProcessFails(k)
    PROVE  RpcInv'
<1> SUFFICES ASSUME NEW m, m = Head(out[k]) PROVE RpcInv'
  OBVIOUS
<1>1. RpcTypeOK /\ Framed /\ Frames
  BY DEF RpcInv
<1>2. out[k] # <<>>
  BY Zenon DEF Process, ProcessFails
<1>3. Asked(k, m)
  <2>1. PICK M : out \in [AllConns -> Seq(M)]
    BY <1>1 DEF Framed
  <2>2. 1 \in DOMAIN out[k] /\ m = out[k][1]
    BY <1>2, <2>1, TailParts
  <2> QED
    BY <1>1, <2>2 DEF Frames
<1>4. m.from \in Calls /\ m.name = request[m.from].name /\ m.body = ArgsOf(request[m.from])
  BY <1>3 DEF Asked, Sent
<1>5. request[m.from] \in Requests /\ db \in [Keys -> Strings]
  BY <1>1, <1>4 DEF RpcTypeOK
<1>6. handled = [d \in Calls |-> handled[d]]
  BY <1>1 DEF RpcTypeOK
<1>7. CASE Process(k)
  <2>1. PICK p : p = ProcessorOf(m)
    OBVIOUS
  <2>2. PICK r : r = Message("REPLY", m.name, m.seq, p.body, m.from)
    OBVIOUS
  <2>3. /\ p.resp # nil /\ Reply(k, r) /\ db' = p.db
        /\ handled' = [handled EXCEPT ![m.from] = [req |-> p.req, resp |-> p.resp]]
    BY <1>7, <2>1, <2>2, Zenon DEF Process
  <2>4. /\ r.type = "REPLY" /\ r.name = m.name /\ r.seq = m.seq /\ r.body = p.body
        /\ r.from = m.from
    BY <2>2, MessageParts
  <2>5. /\ p.req = request[m.from].req /\ p.db \in [Keys -> Strings]
        /\ SuccessOf(m.name, p.body) = p.resp
    BY <1>4, <1>5, <2>1, <2>3, Served
  <2>6. handled' = [d \in Calls |-> handled'[d]]
    BY <1>4, <1>6, <2>3
  <2>7. \A d \in Calls : d # m.from => handled'[d] = handled[d]
    BY <1>4, <1>6, <2>3
  <2>8. handled'[m.from] = [req |-> request[m.from].req, resp |-> SuccessOf(r.name, r.body)]
    <3>1. handled'[m.from] = [req |-> p.req, resp |-> p.resp]
      BY <1>4, <1>6, <2>3
    <3> QED
      BY <2>4, <2>5, <3>1
  <2>9. db' \in [Keys -> Strings] /\ Reply(k, r)
    BY <2>3, <2>5
  <2> QED
    BY <1>2, <2>4, <2>6, <2>7, <2>8, <2>9, ServeStep
<1>8. CASE ProcessFails(k)
  <2>1. PICK r : r = Message("EXCEPTION", m.name, m.seq, <<>>, m.from)
    OBVIOUS
  <2>2. Reply(k, r) /\ db' = db /\ handled' = handled
    BY <1>8, <2>1, Zenon DEF ProcessFails
  <2>3. r.type # "REPLY" /\ r.name = m.name /\ r.seq = m.seq /\ r.from = m.from
    BY <2>1, MessageParts
  <2>4. db' \in [Keys -> Strings] /\ handled' = [d \in Calls |-> handled'[d]]
    BY <1>5, <1>6, <2>2
  <2>5. \A d \in Calls : d # m.from => handled'[d] = handled[d]
    BY <2>2
  <2> QED
    BY <1>2, <2>2, <2>3, <2>4, <2>5, ServeStep
<1> QED
  BY <1>7, <1>8

-----------------------------------------------------------------------------
(* The steps together                                                      *)

\* Whoever waits has a connection that was dialled.
LEMMA WaitsVia ==
    ASSUME RpcInv, NEW d \in Calls, cpc[d] = "wait"
    PROVE  /\ via[d] \in dialled
           /\ via[d] = CheckConn => request[d].name = "Ping"
<1>1. Phases
  BY DEF RpcInv
<1>2. gpc[d] # "none"
  BY <1>1 DEF Phases
<1> QED
  BY <1>1, <1>2 DEF Phases

LEMMA CallerStep == ASSUME RpcInv, NEW c \in Calls, Caller(c) PROVE RpcInv'
<1>1. RpcTypeOK /\ Phases /\ Holding
  BY DEF RpcInv
<1>2. /\ idle \in Seq(Conns) /\ dialled \subseteq AllConns
      /\ chan[c] \in {"empty", "ok", "error"} /\ CheckConn \notin Conns
  <2>1. CheckConn \notin Conns
    BY RpcAssumption, Zenon
  <2> QED
    BY <1>1, <2>1 DEF RpcTypeOK
<1>3. CASE CallIdle(c)
  <2>1. PICK k : k = Head(idle)
    OBVIOUS
  <2>2. idle # <<>> /\ Go(c, k) /\ idle' = Tail(idle) /\ dialled' = dialled
    BY <1>3, <2>1 DEF CallIdle
  <2>3. /\ 1 \in DOMAIN idle /\ k = idle[1] /\ k \in Conns /\ Tail(idle) \in Seq(Conns)
        /\ \A i \in DOMAIN Tail(idle) :
              i + 1 \in DOMAIN idle /\ i \in Nat /\ i > 0 /\ Tail(idle)[i] = idle[i + 1]
    BY <1>2, <2>1, <2>2, TailParts
  <2>4. k \in AllConns /\ k # CheckConn /\ k \in dialled
    BY <1>1, <1>2, <2>3 DEF AllConns, Holding
  <2>5. ASSUME NEW i \in DOMAIN idle'
        PROVE  idle'[i] # k /\ \E j \in DOMAIN idle : idle[j] = idle'[i]
    <3>1. /\ i + 1 \in DOMAIN idle /\ i \in Nat /\ i > 0 /\ idle'[i] = idle[i + 1]
      BY <2>2, <2>3
    <3>2. idle[i + 1] # idle[1]
      BY <1>1, <2>3, <3>1 DEF Holding
    <3> QED
      BY <2>3, <3>1, <3>2
  <2>6. ASSUME NEW i \in DOMAIN idle', NEW j \in DOMAIN idle', idle'[i] = idle'[j]
        PROVE  i = j
    <3>1. /\ i + 1 \in DOMAIN idle /\ i \in Nat /\ idle'[i] = idle[i + 1]
          /\ j + 1 \in DOMAIN idle /\ j \in Nat /\ idle'[j] = idle[j + 1]
      BY <2>2, <2>3
    <3>2. i + 1 = j + 1
      BY <1>1, <2>6, <3>1 DEF Holding
    <3> QED
      BY <3>1, <3>2
  <2>7. \A d \in Calls : cpc[d] = "wait" => via[d] # k
    BY <1>1, <2>3 DEF Holding
  <2>8. idle' \in Seq(Conns)
    BY <2>2, <2>3
  <2> QED
    BY <1>2, <2>2, <2>4, <2>5, <2>6, <2>7, <2>8, BeginStep
<1>4. ASSUME NEW k \in Conns, CallDial(c, k) PROVE RpcInv'
  <2>1. idle = <<>> /\ k \notin dialled /\ Go(c, k) /\ dialled' = dialled \cup {k} /\ idle' = idle
    BY <1>4 DEF CallDial
  <2>2. k \in AllConns /\ k # CheckConn
    BY <1>2 DEF AllConns
  <2>3. \A d \in Calls : cpc[d] = "wait" => via[d] # k
    BY <2>1, WaitsVia
  <2>4. DOMAIN idle' = {} /\ idle' \in Seq(Conns)
    BY <2>1
  <2>5. k \in dialled' /\ dialled \subseteq dialled' /\ dialled' \subseteq AllConns
    BY <1>2, <2>1, <2>2
  <2> QED
    BY <2>1, <2>2, <2>3, <2>4, <2>5, BeginStep
<1>5. CASE CallPing(c)
  <2>1. /\ request[c].name = "Ping" /\ Go(c, CheckConn) /\ idle' = idle /\ dialled' = dialled
        /\ \A d \in Calls : request[d].name = "Ping" => cpc[d] # "wait"
    BY <1>5 DEF CallPing, poolVars
  <2>2. \A d \in Calls : cpc[d] = "wait" => via[d] # CheckConn
    BY <2>1, WaitsVia
  <2>3. CheckConn \in AllConns /\ CheckConn \in dialled
    BY <1>1 DEF AllConns, RpcTypeOK
  <2>4. \A i \in DOMAIN idle : idle[i] # CheckConn
    BY <1>2, ElementOf
  <2>5. \A i, j \in DOMAIN idle : idle[i] = idle[j] => i = j
    BY <1>1 DEF Holding
  <2> QED
    BY <1>2, <2>1, <2>2, <2>3, <2>4, <2>5, BeginStep
<1>6. CASE Receive(c)
  <2>1. chan[c] # "empty" /\ Return(c, chan[c])
    BY <1>6 DEF Receive
  <2>2. PICK how : how = chan[c]
    OBVIOUS
  <2>3. how \in {"ok", "error", "timeout"} /\ Return(c, how)
    BY <1>2, <2>1, <2>2
  <2> QED
    BY <2>2, <2>3, ReturnStep
<1>7. CASE Timeout(c)
  <2>1. Return(c, "timeout")
    BY <1>7 DEF Timeout
  <2>2. PICK how : how = "timeout"
    OBVIOUS
  <2> QED
    BY <2>1, <2>2, ReturnStep
<1> QED
  BY <1>3, <1>4, <1>5, <1>6, <1>7, RefusedStep DEF Caller

LEMMA GoroutineStep == ASSUME RpcInv, NEW c \in Calls, Goroutine(c) PROVE RpcInv'
<1>1. ASSUME NEW what \in {"ok", "error"}, NEW resp, gpc[c] \in {"send", "recv"},
             End(c, what, resp), UNCHANGED wireVars, what = "ok" => via[c] \in shared
      PROVE  RpcInv'
  BY <1>1, EndStep
<1>2. CASE SendFails(c)
  BY <1>1, <1>2 DEF SendFails
<1>3. CASE RecvFails(c)
  BY <1>1, <1>3 DEF RecvFails
<1>4. CASE SharedEnd(c)
  <2>1. gpc[c] \in {"send", "recv"} /\ via[c] \in shared /\ UNCHANGED wireVars
    BY <1>4 DEF SharedEnd
  <2>2. CASE End(c, "error", nil)
    BY <1>1, <2>1, <2>2
  <2>3. CASE \E d \in Calls : End(c, "ok", IF handled[d] = nil THEN nil ELSE handled[d].resp)
    <3>1. PICK d \in Calls : End(c, "ok", IF handled[d] = nil THEN nil ELSE handled[d].resp)
      BY <2>3
    <3>2. PICK resp : resp = IF handled[d] = nil THEN nil ELSE handled[d].resp
      OBVIOUS
    <3> QED
      BY <1>1, <2>1, <3>1, <3>2
  <2> QED
    BY <1>4, <2>2, <2>3 DEF SharedEnd
<1> QED
  BY <1>2, <1>3, <1>4, SendStep, RecvStep DEF Goroutine

LEMMA RpcStep == RpcInv /\ [Next]_vars => RpcInv'
<1> SUFFICES ASSUME RpcInv, [Next]_vars PROVE RpcInv'
  OBVIOUS
<1>1. CASE Next
  <2>1. ASSUME NEW c \in Calls, Caller(c) \/ Goroutine(c) PROVE RpcInv'
    BY <2>1, CallerStep, GoroutineStep
  <2>2. ASSUME NEW k \in AllConns, Server(k) PROVE RpcInv'
    BY <2>2, ProcessStep, SharedStep DEF Server
  <2> QED
    BY <1>1, <2>1, <2>2 DEF Next
<1>2. CASE UNCHANGED vars
  <2> USE DEF vars, callVars, poolVars, wireVars, histVars
  <2>1. UNCHANGED <<request, cpc, gpc, via, chan, result, num, dialled, idle, seqId, out, in, up,
                    db, exited, handled, shared, late>>
    BY <1>2
  <2>2. /\ RpcTypeOK /\ Framed /\ Phases /\ Holding /\ Sharing /\ Numbered /\ Frames
        /\ OwnNumber /\ Delayed /\ Settled
    BY DEF RpcInv
  <2>3. RpcTypeOK' /\ Phases' /\ Holding' /\ Framed'
    BY <2>1, <2>2 DEF RpcTypeOK, Phases, Holding, Framed
  <2>4. Numbered' /\ OwnNumber' /\ Delayed' /\ Sharing' /\ Settled'
    BY <2>1, <2>2 DEF Numbered, OwnNumber, Delayed, Sharing, Settled
  <2>5. Frames'
    <3>1. \A j \in AllConns : seqId[j] <= seqId'[j]
      BY <2>1, <2>2 DEF RpcTypeOK
    <3> QED
      BY <2>1, <2>3, <3>1, FramesKept
  <2> QED
    BY <2>3, <2>4, <2>5 DEF RpcInv
<1> QED
  BY <1>1, <1>2

LEMMA RpcAlways == Spec => []RpcInv
  BY RpcInit, RpcStep, PTL DEF Spec

-----------------------------------------------------------------------------
(* The theorems                                                            *)

\* Whatever calls time out and whatever replies they leave behind, a caller of
\* Get, Put, MultiPut (test/thrift/client/client.go:202-296) or Ping
\* (thrift/client/conn.go:129) that gets a response gets the one the handler gave
\* to its own request, read back from the wire as it was sent; only after two
\* goroutines were on its connection at a time, for which some call must have
\* timed out, may it get another.
THEOREM OwnAnswer == Spec => []ExchangeFaithful
<1>1. RpcInv => ExchangeFaithful
  <2> SUFFICES ASSUME RpcInv, NEW c \in Calls, cpc[c] = "ok"
               PROVE  \/ handled[c] = [req |-> request[c].req, resp |-> result[c]]
                      \/ /\ via[c] \in shared
                         /\ \E d \in Calls : via[d] = via[c] /\ cpc[d] = "timeout"
    BY DEF ExchangeFaithful
  <2>1. Phases /\ Sharing /\ Settled
    BY DEF RpcInv
  <2>2. chan[c] = "ok"
    BY <2>1 DEF Phases
  <2>3. CASE via[c] \in shared
    BY <2>1, <2>3 DEF Sharing
  <2>4. CASE via[c] \notin shared
    BY <2>1, <2>2, <2>4 DEF Settled
  <2> QED
    BY <2>3, <2>4
<1> QED
  BY <1>1, RpcAlways, PTL

\* A call begun on a connection that the reply to an earlier call is still to
\* come on, and was put back into the pool all the same (the deferred Put,
\* test/thrift/client/client.go:208), never succeeds while it has the connection
\* to itself: the numbers of the replies stay behind those of the calls.
THEOREM BehindForGood == Spec => []LateCallFails
<1>1. RpcInv => LateCallFails
  <2> SUFFICES ASSUME RpcInv, NEW c \in late, cpc[c] = "ok" PROVE via[c] \in shared
    BY DEF LateCallFails
  <2>1. RpcTypeOK /\ Phases /\ Delayed
    BY DEF RpcInv
  <2>2. chan[c] = "ok"
    BY <2>1 DEF Phases, RpcTypeOK
  <2> QED
    BY <2>1, <2>2 DEF Delayed
<1> QED
  BY <1>1, RpcAlways, PTL
=============================================================================
