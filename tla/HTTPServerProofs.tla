-------------------------- MODULE HTTPServerProofs --------------------------
(***************************************************************************)
(* What HTTPServer promises whatever the clients send and however the two  *)
(* sides are configured: the types, that only a success changes the store, *)
(* that with a key only signed metrics come in through the JSON routes,    *)
(* that readers get what is stored, and for which configurations the       *)
(* agent's reports are stored.                                             *)
(***************************************************************************)
EXTENDS HTTPServer, MetricsProofs, EncodingProofs, SequenceTheorems, TLAPS

\* What a request may come to: six outcomes, of all routes and middlewares.
ListStored(r, items) ==
  /\ r.route = "updates"
  /\ Answer(r, items, ListStatus(items), Nil)
  /\ stor' = IF ListStatus(items) = "OK" THEN UpdateMetrics(stor, Plain(items)) ELSE stor

ItemStored(r, item) ==
  /\ r.route = "update"
  /\ Answer(r, <<item>>, ItemStatus(item), Nil)
  /\ stor' = IF ItemStatus(item) = "OK" THEN UpdateMetric(stor, item.m) ELSE stor

UrlStored(r) ==
  /\ r.route = "urlUpdate" /\ Valid(r.url)
  /\ Answer(r, <<>>, "OK", Nil)
  /\ stor' = UpdateMetric(stor, r.url)

ItemRead(r, item) ==
  /\ r.route = "value" /\ Known(item.m)
  /\ Answer(r, <<>>, "OK",
            [m |-> Stored(item.m),
             hash |-> IF dep.serverKey = Nil THEN item.hash
                      ELSE HashOf(Stored(item.m), dep.serverKey)])
  /\ UNCHANGED stor

UrlRead(r) ==
  /\ r.route = "urlValue" /\ Known(r.url)
  /\ Answer(r, <<>>, "OK", [m |-> Stored(r.url), hash |-> Nil])
  /\ UNCHANGED stor

\* Every action of a request has one of them.
LEMMA Outcomes ==
  ASSUME NEW r \in Requested, Serve(r)
  PROVE  \/ \E status \in Statuses : Refuse(r, status)
         \/ \E items \in Seq(Item) : ListStored(r, items)
         \/ \E item \in Item : ItemStored(r, item)
         \/ UrlStored(r)
         \/ \E item \in Item : ItemRead(r, item)
         \/ UrlRead(r)
<1>1. CASE \/ MiddlewareTrustedSubnet(r) \/ MiddlewareEncryptBodyData(r)
           \/ MiddlewareDecompressGzip(r) \/ GetAll(r) \/ FixedAnswer(r)
  BY <1>1 DEF MiddlewareTrustedSubnet, MiddlewareEncryptBodyData, MiddlewareDecompressGzip,
              GetAll, FixedAnswer, Statuses
<1>2. CASE PostUpdates(r)
  BY <1>2 DEF PostUpdates, Routed, ListStored, Statuses
<1>3. CASE PostUpdate(r)
  BY <1>3 DEF PostUpdate, Routed, ItemStored, Statuses
<1>4. CASE PostUpdateV1(r)
  BY <1>4 DEF PostUpdateV1, Routed, UrlStored, Valid, Statuses
<1>5. CASE PostValue(r)
  BY <1>5 DEF PostValue, Routed, ItemRead, Statuses
<1>6. CASE GetValueV1(r)
  BY <1>6 DEF GetValueV1, Routed, UrlRead, Statuses
<1> QED BY <1>1, <1>2, <1>3, <1>4, <1>5, <1>6 DEF Serve

-----------------------------------------------------------------------------
(* Requests and checks *)

\* What the properties need to know of a request.
LEMMA RequestedType ==
  ASSUME NEW r \in Requested
  PROVE  /\ r.from \in {"agent", "single", "other"}
         /\ r.sample \in Seq(Metric)
         /\ r.route \in Routes
         /\ r.route \in {"urlUpdate", "urlValue"} => r.url \in Metric
<1>1. CASE r \in Reports
  BY <1>1, SamplesAssumption DEF Reports, Report, AgentRequest, Routes
<1>2. CASE r \in Singles
  <2>1. PICK ms \in Samples : \E i \in DOMAIN ms : r = Single(ms[i])
    BY <1>2 DEF Singles
  <2>2. PICK i \in DOMAIN ms : r = Single(ms[i])
    BY <2>1
  <2>3. ms[i] \in Metric
    BY SamplesAssumption
  <2> QED BY <2>2, <2>3 DEF Single, AgentRequest, Routes
<1>3. CASE r \in Foreign
  <2>1. /\ r.from = "other" /\ r.sample = <<>> /\ r.route \in Routes
        /\ r.route \in {"urlUpdate", "urlValue"} => r.url \in Metric
    BY <1>3, ForeignAssumption, Zenon
  <2>2. <<>> \in Seq(Metric)
    OBVIOUS
  <2> QED BY <2>1, <2>2
<1> QED BY <1>1, <1>2, <1>3 DEF Requested

\* A loop that has found no fault has looked at every element.
LEMMA NoFault ==
  ASSUME NEW n \in Nat, NEW statuses, DOMAIN statuses = 1..n, FirstFault(statuses) = "OK"
  PROVE  \A i \in 1..n : statuses[i] = "OK"
<1> DEFINE faults == {i \in DOMAIN statuses : statuses[i] # "OK"}
<1>1. SUFFICES ASSUME faults # {} PROVE FALSE
  OBVIOUS
<1>2. faults \in SUBSET Nat
  OBVIOUS
<1>3. \E i \in faults : \A j \in faults : i <= j
  BY <1>1, <1>2, LeastNat
<1> DEFINE first == CHOOSE i \in faults : \A j \in faults : i <= j
<1>4. first \in faults
  BY <1>3
<1>5. FirstFault(statuses) = statuses[first]
  BY <1>1 DEF FirstFault
<1> QED BY <1>4, <1>5

\* The hash check of a list lets it pass only if it lets every metric pass.
LEMMA HashesChecked ==
  ASSUME NEW items \in Seq(Item), dep.serverKey # Nil, HashStatus(items) = "OK"
  PROVE  \A i \in DOMAIN items : items[i].hash = HashOf(items[i].m, dep.serverKey)
<1> DEFINE statuses == [i \in DOMAIN items |-> CheckHash(items[i])]
<1>1. FirstFault(statuses) = "OK"
  BY DEF HashStatus
<1>2. Len(items) \in Nat /\ DOMAIN items = 1..Len(items)
  OBVIOUS
<1>3. \A i \in 1..Len(items) : statuses[i] = "OK"
  <2> HIDE DEF statuses
  <2>1. DOMAIN statuses = 1..Len(items)
    BY <1>2 DEF statuses
  <2> QED BY <1>1, <1>2, <2>1, NoFault
<1>4. \A i \in DOMAIN items : CheckHash(items[i]) = "OK"
  BY <1>2, <1>3
<1> QED BY <1>4 DEF CheckHash

\* A list that is stored is valid.
LEMMA ListChecked ==
  ASSUME NEW items \in Seq(Item), ListStatus(items) = "OK"
  PROVE  /\ HashStatus(items) = "OK"
         /\ Plain(items) \in Seq(Metric)
         /\ \A i \in DOMAIN Plain(items) : Valid(Plain(items)[i])
<1> DEFINE statuses == [i \in DOMAIN items |-> StoreCheck(items[i].m)]
<1>1. HashStatus(items) = "OK" /\ FirstFault(statuses) = "OK"
  BY DEF ListStatus
<1>2. Len(items) \in Nat /\ DOMAIN items = 1..Len(items)
  OBVIOUS
<1>3. \A i \in 1..Len(items) : statuses[i] = "OK"
  <2> HIDE DEF statuses
  <2>1. DOMAIN statuses = 1..Len(items)
    BY <1>2 DEF statuses
  <2> QED BY <1>1, <1>2, <2>1, NoFault
<1>4. \A i \in DOMAIN items : StoreCheck(items[i].m) = "OK"
  BY <1>2, <1>3
<1>5. \A i \in DOMAIN items : items[i].m \in Metric
  <2>1. \A i \in DOMAIN items : items[i] \in Item
    BY <1>2
  <2> QED BY <2>1 DEF Item
<1>6. Plain(items) \in Seq(Metric)
  <2>1. Plain(items) \in [1..Len(items) -> Metric]
    BY <1>2, <1>5, Zenon DEF Plain
  <2>2. Plain(items) \in UNION {[1..n -> Metric] : n \in Nat}
    BY <1>2, <2>1
  <2> QED BY <2>2, SeqDef
<1> QED BY <1>1, <1>4, <1>6 DEF Plain, StoreCheck, Valid

LEMMA EmptyUpdate ==
  ASSUME NEW s \in Stores
  PROVE  UpdateMetrics(s, <<>>) = s
<1>1. s.gauge \in Maps(GaugeVals) /\ s.counter \in Maps(Int64)
  BY DEF Stores
<1>2. \A t : DOMAIN Gathered(<<>>, t) = {}
  BY DEF Gathered, Positions
<1>3. Put(s.gauge, Gathered(<<>>, "gauge")) = s.gauge
  BY <1>1, <1>2, MapsDef DEF Put
<1>4. Add(s.counter, Gathered(<<>>, "counter")) = s.counter
  <2>1. \A id \in DOMAIN s.counter : Wrap(s.counter[id] + 0) = s.counter[id]
    <3>1. \A id \in DOMAIN s.counter : s.counter[id] \in Int64
      BY <1>1, MapsDef
    <3>2. \A n \in Int64 : n + 0 = n /\ Wrap(n) = n
      BY WrapInRange, HalfRangeAssumption DEF Int64
    <3> QED BY <3>1, <3>2
  <2> QED BY <1>1, <1>2, <2>1, MapsDef DEF Add, Lookup
<1>5. MergeGaugesOf(s, <<>>) = s
  BY <1>3 DEF MergeGaugesOf, Stores
<1>6. MergeCountersOf(s, <<>>) = s
  BY <1>4 DEF MergeCountersOf, Stores
<1> QED BY <1>5, <1>6 DEF UpdateMetrics

\* So is a single metric.
LEMMA ItemChecked ==
  ASSUME NEW item \in Item, ItemStatus(item) = "OK"
  PROVE  Valid(item.m) /\ HashStatus(<<item>>) = "OK"
BY DEF ItemStatus, StoreCheck, Valid

\* Checks answer with a status.
LEMMA CheckTypes ==
  /\ \A items \in Seq(Item) : ListStatus(items) \in Statuses
  /\ \A item \in Item : ItemStatus(item) \in Statuses
<1>1. ASSUME NEW n \in Nat, NEW statuses, DOMAIN statuses = 1..n,
             \A i \in 1..n : statuses[i] \in Statuses
      PROVE  FirstFault(statuses) \in Statuses
  <2> DEFINE faults == {i \in DOMAIN statuses : statuses[i] # "OK"}
             first == CHOOSE i \in faults : \A j \in faults : i <= j
  <2>1. CASE faults = {}
    BY <2>1 DEF FirstFault, Statuses
  <2>2. CASE faults # {}
    <3>1. \E i \in faults : \A j \in faults : i <= j
      <4>1. faults \in SUBSET Nat
        BY <1>1
      <4> QED BY <2>2, <4>1, LeastNat
    <3>2. first \in faults
      BY <3>1
    <3>3. FirstFault(statuses) = statuses[first]
      BY <2>2 DEF FirstFault
    <3> QED BY <1>1, <3>2, <3>3
  <2> QED BY <2>1, <2>2
<1>2. \A item : CheckHash(item) \in Statuses
  BY DEF CheckHash, Statuses
<1>3. \A m : StoreCheck(m) \in Statuses
  BY DEF StoreCheck, Statuses
<1>4. ASSUME NEW items \in Seq(Item)
      PROVE  HashStatus(items) \in Statuses /\ ListStatus(items) \in Statuses
  <2> DEFINE hashes == [i \in DOMAIN items |-> CheckHash(items[i])]
             checks == [i \in DOMAIN items |-> StoreCheck(items[i].m)]
  <2>1. Len(items) \in Nat /\ DOMAIN items = 1..Len(items)
    BY <1>4
  <2>2. DOMAIN hashes = 1..Len(items) /\ \A i \in 1..Len(items) : hashes[i] \in Statuses
    BY <2>1, <1>2
  <2>3. DOMAIN checks = 1..Len(items) /\ \A i \in 1..Len(items) : checks[i] \in Statuses
    BY <2>1, <1>3
  <2> HIDE DEF hashes, checks
  <2>4. FirstFault(hashes) \in Statuses /\ FirstFault(checks) \in Statuses
    BY <1>1, <2>1, <2>2, <2>3
  <2>5. HashStatus(items) \in Statuses
    BY <2>4 DEF HashStatus, hashes, Statuses
  <2> QED BY <2>4, <2>5 DEF ListStatus, checks
<1>5. ASSUME NEW item \in Item
      PROVE  ItemStatus(item) \in Statuses
  <2>1. <<item>> \in Seq(Item)
    BY <1>5
  <2> QED BY <1>3, <1>4, <2>1 DEF ItemStatus, Statuses
<1> QED BY <1>4, <1>5

-----------------------------------------------------------------------------
(* Types *)

\* What is read from a store of the right type is a metric with a value.
LEMMA StoredType ==
  ASSUME stor \in Stores, NEW m \in Metric, Known(m)
  PROVE  Stored(m) \in Metric /\ Valid(Stored(m)) /\ Known(Stored(m))
<1>1. stor.gauge \in Maps(GaugeVals) /\ stor.counter \in Maps(Int64)
  BY DEF Stores
<1>2. CASE m.mtype = "gauge"
  <2>1. stor.gauge[m.id] \in GaugeVals
    BY <1>1, <1>2, MapsDef DEF Known, Map
  <2> QED BY <1>2, <2>1, NilAssumption DEF Stored, Known, Map, Metric, Valid
<1>3. CASE m.mtype = "counter"
  <2>1. stor.counter[m.id] \in Int64
    BY <1>1, <1>3, MapsDef DEF Known, Map
  <2>2. stor.counter[m.id] # Nil
    BY <2>1, NilAssumption, HalfRangeAssumption DEF Int64
  <2> QED BY <1>3, <2>1, <2>2 DEF Stored, Known, Map, Metric, Valid
<1> QED BY <1>2, <1>3 DEF Known, Metric

\* The hash of a valid metric.
LEMMA HashType ==
  ASSUME NEW m \in Metric, Valid(m), NEW key \in HashKeys
  PROVE  HashOf(m, key) \in Hash
BY DigitsAssumption DEF HashOf, Hash, Metric, Valid

\* Each outcome leaves every variable in its set.
LEMMA TypeStep == TypeOK /\ [Next]_vars => TypeOK'
<1> SUFFICES ASSUME TypeOK, [Next]_vars PROVE TypeOK'
  OBVIOUS
<1> USE DEF TypeOK
<1>1. ASSUME NEW r \in Requested, Serve(r)
      PROVE  TypeOK'
  <2>0. /\ r.from \in {"agent", "single", "other"} /\ r.sample \in Seq(Metric)
        /\ r.route \in Routes
        /\ r.route \in {"urlUpdate", "urlValue"} => r.url \in Metric
    BY RequestedType
  <2>1. ASSUME NEW items \in Seq(Item), NEW status \in Statuses, NEW got \in Item \cup {Nil},
               Answer(r, items, status, got), stor' \in Stores
        PROVE  TypeOK'
    BY <2>0, <2>1 DEF Answer
  <2>2. CASE \E status \in Statuses : Refuse(r, status)
    <3>1. <<>> \in Seq(Item)
      OBVIOUS
    <3> QED BY <2>1, <2>2, <3>1 DEF Refuse
  <2>3. CASE \E items \in Seq(Item) : ListStored(r, items)
    <3>1. PICK items \in Seq(Item) : ListStored(r, items)
      BY <2>3
    <3>2. stor' \in Stores
      BY <3>1, ListChecked, UpdateMetricsType DEF ListStored
    <3> QED BY <2>1, <3>1, <3>2, CheckTypes DEF ListStored
  <2>4. CASE \E item \in Item : ItemStored(r, item)
    <3>1. PICK item \in Item : ItemStored(r, item)
      BY <2>4
    <3>2. item.m \in Metric
      BY DEF Item
    <3>3. stor' \in Stores
      BY <3>1, <3>2, ItemChecked, UpdateMetricType DEF ItemStored
    <3>4. <<item>> \in Seq(Item)
      OBVIOUS
    <3> QED BY <2>1, <3>1, <3>3, <3>4, CheckTypes DEF ItemStored
  <2>5. CASE UrlStored(r)
    <3>1. stor' \in Stores
      BY <2>0, <2>5, UpdateMetricType DEF UrlStored
    <3>2. <<>> \in Seq(Item) /\ "OK" \in Statuses
      BY DEF Statuses
    <3> QED BY <2>1, <2>5, <3>1, <3>2 DEF UrlStored
  <2>6. CASE \E item \in Item : ItemRead(r, item)
    <3>1. PICK item \in Item : ItemRead(r, item)
      BY <2>6
    <3>2. item.m \in Metric /\ item.hash \in Hash \cup {Nil}
      BY DEF Item
    <3>3. Stored(item.m) \in Metric /\ Valid(Stored(item.m))
      BY <3>1, <3>2, StoredType DEF ItemRead
    <3>4. dep.serverKey \in HashKeys \cup {Nil}
      BY DeploymentsAssumption
    <3>5. dep.serverKey # Nil => HashOf(Stored(item.m), dep.serverKey) \in Hash
      BY <3>3, <3>4, HashType
    <3>6. [m |-> Stored(item.m),
           hash |-> IF dep.serverKey = Nil THEN item.hash
                    ELSE HashOf(Stored(item.m), dep.serverKey)] \in Item
      BY <3>2, <3>3, <3>5 DEF Item
    <3>7. <<>> \in Seq(Item) /\ "OK" \in Statuses
      BY DEF Statuses
    <3> QED BY <2>1, <3>1, <3>6, <3>7 DEF ItemRead
  <2>7. CASE UrlRead(r)
    <3>1. Stored(r.url) \in Metric
      BY <2>0, <2>7, StoredType DEF UrlRead
    <3>2. [m |-> Stored(r.url), hash |-> Nil] \in Item
      BY <3>1 DEF Item
    <3>3. <<>> \in Seq(Item) /\ "OK" \in Statuses
      BY DEF Statuses
    <3> QED BY <2>1, <2>7, <3>2, <3>3 DEF UrlRead
  <2> QED BY <1>1, <2>2, <2>3, <2>4, <2>5, <2>6, <2>7, Outcomes
<1>2. ASSUME NEW ms \in Samples, GiveUp(ms)
      PROVE  TypeOK'
  BY <1>2, SamplesAssumption DEF GiveUp, Routes, Statuses
<1>3. CASE UNCHANGED vars
  BY <1>3 DEF vars
<1> QED BY <1>1, <1>2, <1>3 DEF Next

\* Every variable keeps its type, for all requests of other clients: the handlers and
\* the store let no nil pointer, no unknown type and no number out of range in.
THEOREM HTTPTypes == Spec => []TypeOK
<1>1. Init => TypeOK
  BY EmptyStoreType DEF Init, TypeOK, Routes, Statuses
<1> QED BY <1>1, TypeStep, PTL DEF Spec

-----------------------------------------------------------------------------
(* Safety *)

\* OnlySuccessChanges: an answer other than 200, a panic in the middle of a list
\* included, leaves the store as it was (StorageWrapper, Storage.UpdateMetrics).
THEOREM SuccessChanges == Spec => []OnlySuccessChanges
<1>1. Init => OnlySuccessChanges
  BY DEF Init, OnlySuccessChanges
<1>2. OnlySuccessChanges /\ [Next]_vars => OnlySuccessChanges'
  <2> SUFFICES ASSUME OnlySuccessChanges, [Next]_vars PROVE OnlySuccessChanges'
    OBVIOUS
  <2>1. ASSUME NEW r \in Requested, Serve(r)
        PROVE  OnlySuccessChanges'
    BY <2>1, Outcomes DEF Refuse, ListStored, ItemStored, UrlStored, ItemRead, UrlRead,
                          Answer, OnlySuccessChanges
  <2>2. ASSUME NEW ms \in Samples, GiveUp(ms)
        PROVE  OnlySuccessChanges'
    BY <2>2 DEF GiveUp, OnlySuccessChanges
  <2>3. CASE UNCHANGED vars
    BY <2>3 DEF vars, OnlySuccessChanges
  <2> QED BY <2>1, <2>2, <2>3 DEF Next
<1> QED BY <1>1, <1>2, PTL DEF Spec

\* SignedOnly: with a KEY every metric that a JSON route stores carries the hash that
\* CheckHash computes, for lists of any length.
THEOREM OnlySigned == Spec => []SignedOnly
<1>1. Init => SignedOnly
  BY DEF Init, SignedOnly
<1>2. TypeOK /\ SignedOnly /\ [Next]_vars => SignedOnly'
  <2> SUFFICES ASSUME TypeOK, SignedOnly, [Next]_vars PROVE SignedOnly'
    OBVIOUS
  <2>1. ASSUME NEW r \in Requested, Serve(r)
        PROVE  SignedOnly'
    <3>1. CASE \E items \in Seq(Item) : ListStored(r, items)
      <4>1. PICK items \in Seq(Item) : ListStored(r, items)
        BY <3>1
      <4>2. dep' = dep /\ last'.items = items /\ before' = stor
        BY <4>1 DEF ListStored, Answer
      <4>3. CASE ListStatus(items) = "OK" /\ dep.serverKey # Nil /\ items # <<>>
        BY <4>2, <4>3, ListChecked, HashesChecked DEF SignedOnly
      <4>4. CASE items = <<>>
        <5>1. UpdateMetrics(stor, Plain(items)) = stor
          BY <4>4, EmptyUpdate DEF Plain, TypeOK
        <5> QED BY <4>1, <4>2, <5>1 DEF ListStored, SignedOnly
      <4>5. CASE ListStatus(items) # "OK" \/ dep.serverKey = Nil
        BY <4>1, <4>2, <4>5 DEF ListStored, SignedOnly
      <4> QED BY <4>3, <4>4, <4>5
    <3>2. CASE \E item \in Item : ItemStored(r, item)
      <4>1. PICK item \in Item : ItemStored(r, item)
        BY <3>2
      <4>2. dep' = dep /\ last'.items = <<item>> /\ before' = stor
        BY <4>1 DEF ItemStored, Answer
      <4>3. CASE ItemStatus(item) = "OK" /\ dep.serverKey # Nil
        <5>1. <<item>> \in Seq(Item) /\ <<item>> # <<>>
          OBVIOUS
        <5>2. HashStatus(<<item>>) = "OK"
          BY <4>3, ItemChecked
        <5>3. \A i \in DOMAIN <<item>> :
                <<item>>[i].hash = HashOf(<<item>>[i].m, dep.serverKey)
          BY <4>3, <5>1, <5>2, HashesChecked
        <5> QED BY <4>2, <5>1, <5>3 DEF SignedOnly
      <4>4. CASE ItemStatus(item) # "OK" \/ dep.serverKey = Nil
        BY <4>1, <4>2, <4>4 DEF ItemStored, SignedOnly
      <4> QED BY <4>3, <4>4
    <3>3. CASE \/ \E status \in Statuses : Refuse(r, status)
               \/ UrlStored(r)
               \/ \E item \in Item : ItemRead(r, item)
               \/ UrlRead(r)
      BY <3>3 DEF Refuse, UrlStored, ItemRead, UrlRead, Answer, SignedOnly
    <3> QED BY <2>1, <3>1, <3>2, <3>3, Outcomes
  <2>2. ASSUME NEW ms \in Samples, GiveUp(ms)
        PROVE  SignedOnly'
    BY <2>2 DEF GiveUp, SignedOnly
  <2>3. CASE UNCHANGED vars
    BY <2>3 DEF vars, SignedOnly
  <2> QED BY <2>1, <2>2, <2>3 DEF Next
<1> QED BY <1>1, <1>2, HTTPTypes, PTL DEF Spec

\* AnswersVerify: a reader gets what is stored, and the hash of POST /value/ is the
\* hash of that (StorageWrapper.GetMetric, GetMetricV1).
THEOREM ReadsVerify == Spec => []AnswersVerify
<1>1. Init => AnswersVerify
  BY DEF Init, AnswersVerify
<1>2. TypeOK /\ AnswersVerify /\ [Next]_vars => AnswersVerify'
  <2> SUFFICES ASSUME TypeOK, AnswersVerify, [Next]_vars PROVE AnswersVerify'
    OBVIOUS
  <2>1. ASSUME NEW r \in Requested, Serve(r)
        PROVE  AnswersVerify'
    <3>1. ASSUME NEW m \in Metric, Known(m), UNCHANGED stor
          PROVE  /\ Known(Stored(m))' /\ (Stored(m) = Stored(Stored(m)))'
                 /\ Stored(m)' = Stored(m)
      BY <3>1 DEF Known, Stored, Map, Metric
    <3>2. CASE \E item \in Item : ItemRead(r, item)
      <4>1. PICK item \in Item : ItemRead(r, item)
        BY <3>2
      <4>2. item.m \in Metric
        BY DEF Item
      <4> QED BY <3>1, <4>1, <4>2 DEF ItemRead, Answer, AnswersVerify
    <3>3. CASE UrlRead(r)
      <4>1. r.url \in Metric
        BY <3>3, RequestedType DEF UrlRead
      <4> QED BY <3>1, <3>3, <4>1 DEF UrlRead, Answer, AnswersVerify
    <3>4. CASE \/ \E status \in Statuses : Refuse(r, status)
               \/ \E items \in Seq(Item) : ListStored(r, items)
               \/ \E item \in Item : ItemStored(r, item)
               \/ UrlStored(r)
      BY <3>4 DEF Refuse, ListStored, ItemStored, UrlStored, Answer, AnswersVerify
    <3> QED BY <2>1, <3>2, <3>3, <3>4, Outcomes
  <2>2. ASSUME NEW ms \in Samples, GiveUp(ms)
        PROVE  AnswersVerify'
    BY <2>2 DEF GiveUp, AnswersVerify
  <2>3. CASE UNCHANGED vars
    BY <2>3 DEF vars, AnswersVerify, Known, Stored, Map
  <2> QED BY <2>1, <2>2, <2>3 DEF Next
<1> QED BY <1>1, <1>2, HTTPTypes, PTL DEF Spec

-----------------------------------------------------------------------------
(* A report, from the agent to the store *)

\* What the agent's keys are.
LEMMA Keys ==
  ASSUME dep \in Deployments
  PROVE  /\ dep.agentKey \in HashKeys \cup {Nil} /\ dep.serverKey \in HashKeys \cup {Nil}
         /\ dep.agentRSA \in RSAKeys \cup {Nil} /\ dep.serverRSA \in RSAKeys \cup {Nil}
         /\ dep.subnet \in Networks \cup Addresses \cup {Nil}
BY DeploymentsAssumption

\* The list the agent writes has the metrics of the sample, in its order.
LEMMA SignedList ==
  ASSUME NEW ms \in Seq(Metric), \A i \in DOMAIN ms : Valid(ms[i]),
         NEW key \in HashKeys \cup {Nil}
  PROVE  /\ ForEach(ms, key) \in Seq(Item)
         /\ Len(ForEach(ms, key)) = Len(ms)
         /\ \A i \in DOMAIN ms :
              ForEach(ms, key)[i] =
                [m |-> ms[i], hash |-> IF key = Nil THEN Nil ELSE HashOf(ms[i], key)]
         /\ Plain(ForEach(ms, key)) = ms
<1> DEFINE items == ForEach(ms, key)
           n == Len(ms)
           Item1(m) == [m |-> m, hash |-> IF key = Nil THEN Nil ELSE HashOf(m, key)]
<1>1. n \in Nat /\ DOMAIN ms = 1..n /\ \A i \in 1..n : ms[i] \in Metric
  BY LenProperties
<1>2. items = [i \in 1..n |-> Item1(ms[i])]
  BY <1>1 DEF ForEach
<1>3. \A i \in 1..n : Item1(ms[i]) \in Item
  <2> SUFFICES ASSUME NEW i \in 1..n PROVE Item1(ms[i]) \in Item
    OBVIOUS
  <2>1. ms[i] \in Metric /\ Valid(ms[i])
    BY <1>1
  <2>2. key # Nil => HashOf(ms[i], key) \in Hash
    BY <2>1, HashType
  <2> QED BY <2>1, <2>2 DEF Item
<1>4. \A i \in 1..n : Item1(ms[i]).m = ms[i]
  OBVIOUS
<1> HIDE DEF items, n, Item1
<1>5. items \in [1..n -> Item] /\ DOMAIN items = 1..n
  BY <1>2, <1>3
<1>6. items \in Seq(Item)
  BY <1>1, <1>5, SeqDef
<1>7. Len(items) = n
  <2>1. Len(items) \in Nat /\ DOMAIN items = 1..Len(items)
    BY <1>6, LenProperties
  <2> QED BY <2>1, <1>1, <1>5, SameEnds
<1>8. Plain(items) = ms
  <2>1. Plain(items) = [i \in 1..n |-> ms[i]]
    BY <1>2, <1>4, <1>5 DEF Plain
  <2>2. ms = [i \in 1..n |-> ms[i]]
    <3>1. ms \in [1..n -> Metric]
      BY LenProperties DEF n
    <3> QED BY <3>1
  <2> QED BY <2>1, <2>2
<1>9. \A i \in DOMAIN ms : items[i] = Item1(ms[i])
  BY <1>1, <1>2
<1> QED BY <1>6, <1>7, <1>8, <1>9 DEF items, n, Item1

\* A loop whose every round is in order ends in order.
LEMMA FaultFree ==
  ASSUME NEW statuses, \A i \in DOMAIN statuses : statuses[i] = "OK"
  PROVE  FirstFault(statuses) = "OK"
BY DEF FirstFault

\* The server accepts the agent's hashes if it checks none, or checks with the same key.
LEMMA HashesAgree ==
  ASSUME dep \in Deployments, NEW ms \in Seq(Metric), ms # <<>>,
         \A i \in DOMAIN ms : Valid(ms[i])
  PROVE  HashStatus(ForEach(ms, dep.agentKey)) = "OK"
           <=> dep.serverKey \in {Nil, dep.agentKey}
<1> DEFINE items == ForEach(ms, dep.agentKey)
           statuses == [i \in DOMAIN items |-> CheckHash(items[i])]
           n == Len(ms)
<1>1. dep.agentKey \in HashKeys \cup {Nil} /\ dep.serverKey \in HashKeys \cup {Nil}
  BY Keys
<1>2. n \in Nat \ {0} /\ DOMAIN ms = 1..n
  BY EmptySeq, LenProperties
<1>3. /\ items \in Seq(Item) /\ Len(items) = n
      /\ \A i \in DOMAIN ms :
           items[i] = [m |-> ms[i], hash |-> IF dep.agentKey = Nil THEN Nil
                                             ELSE HashOf(ms[i], dep.agentKey)]
  BY <1>1, SignedList
<1> HIDE DEF items
<1>4. DOMAIN items = 1..n
  BY <1>3, LenProperties
<1> HIDE DEF n
<1>5. \A i \in 1..n : /\ items[i].m = ms[i] /\ Valid(items[i].m)
                      /\ items[i].hash = IF dep.agentKey = Nil THEN Nil
                                         ELSE HashOf(ms[i], dep.agentKey)
  BY <1>2, <1>3
<1>6. CASE dep.serverKey = Nil
  BY <1>6 DEF HashStatus
<1>7. CASE dep.serverKey # Nil /\ dep.serverKey = dep.agentKey
  <2>1. \A i \in 1..n : CheckHash(items[i]) = "OK"
    <3>1. \A i \in 1..n : items[i].hash = HashOf(items[i].m, dep.serverKey)
      BY <1>5, <1>7
    <3>2. \A i \in 1..n : items[i].hash # Nil
      <4>1. \A i \in 1..n : items[i] \in Item
        BY <1>3, ElementOfSeq
      <4>2. Nil \notin Hash
        BY NilIsNoHash
      <4>3. \A i \in 1..n : ms[i] \in Metric
        BY <1>2, ElementOfSeq DEF n
      <4>4. \A i \in 1..n : HashOf(ms[i], dep.serverKey) \in Hash
        BY <1>1, <1>2, <1>7, <4>3, HashType
      <4> QED BY <1>5, <1>7, <4>2, <4>4
    <3> QED BY <1>5, <3>1, <3>2 DEF CheckHash
  <2>2. \A i \in DOMAIN statuses : statuses[i] = "OK"
    BY <1>4, <2>1
  <2>3. FirstFault(statuses) = "OK"
    <3> HIDE DEF statuses
    <3> QED BY <2>2, FaultFree
  <2> QED BY <1>7, <2>3 DEF HashStatus, items
<1>8. CASE dep.serverKey # Nil /\ dep.serverKey # dep.agentKey
  <2>1. items[1].hash # HashOf(items[1].m, dep.serverKey)
    <3>1. 1 \in 1..n /\ items[1].m = ms[1] /\ Valid(ms[1])
      BY <1>2, <1>5
    <3>2. CASE dep.agentKey = Nil
      <4>1. ms[1] \in Metric
        BY <3>1, ElementOfSeq DEF n
      <4>2. HashOf(ms[1], dep.serverKey) \in Hash
        BY <1>1, <1>8, <3>1, <4>1, HashType
      <4> QED BY <1>5, <3>1, <3>2, <4>2, NilIsNoHash
    <3>3. CASE dep.agentKey # Nil
      <4>1. items[1].hash = HashOf(ms[1], dep.agentKey)
        BY <1>5, <3>1, <3>3
      <4>2. HashOf(ms[1], dep.agentKey) # HashOf(ms[1], dep.serverKey)
        BY <1>8 DEF HashOf
      <4> QED BY <3>1, <4>1, <4>2
    <3> QED BY <3>2, <3>3
  <2>2. 1 \in DOMAIN items
    BY <1>2, <1>4
  <2>3. HashStatus(items) = "OK" => items[1].hash = HashOf(items[1].m, dep.serverKey)
    BY <1>3, <1>8, <2>2, HashesChecked
  <2>4. HashStatus(items) # "OK"
    BY <2>1, <2>3
  <2> QED BY <1>8, <2>4 DEF items
<1> QED BY <1>6, <1>7, <1>8 DEF items

\* A good sample fails in no check of the store, so the hashes decide about it.
LEMMA ReportChecked ==
  ASSUME dep \in Deployments, NEW ms \in Seq(Metric), ms # <<>>,
         \A i \in DOMAIN ms : Valid(ms[i])
  PROVE  ListStatus(ForEach(ms, dep.agentKey)) = "OK"
           <=> dep.serverKey \in {Nil, dep.agentKey}
<1> DEFINE items == ForEach(ms, dep.agentKey)
           statuses == [i \in DOMAIN items |-> StoreCheck(items[i].m)]
<1>1. dep.agentKey \in HashKeys \cup {Nil}
  BY Keys
<1>0. /\ items \in Seq(Item) /\ Len(items) = Len(ms)
      /\ \A i \in DOMAIN ms :
           items[i] = [m |-> ms[i], hash |-> IF dep.agentKey = Nil THEN Nil
                                             ELSE HashOf(ms[i], dep.agentKey)]
  BY <1>1, SignedList
<1> HIDE DEF items
<1>2. /\ items \in Seq(Item) /\ Len(items) = Len(ms)
      /\ \A i \in DOMAIN ms : items[i].m = ms[i]
  <2>1. ASSUME NEW i \in DOMAIN ms PROVE items[i].m = ms[i]
    <3>1. items[i] = [m |-> ms[i], hash |-> IF dep.agentKey = Nil THEN Nil
                                            ELSE HashOf(ms[i], dep.agentKey)]
      BY <1>0
    <3> QED BY <3>1
  <2> QED BY <1>0, <2>1
<1>3. DOMAIN items = 1..Len(items) /\ DOMAIN ms = 1..Len(ms)
  BY <1>2, LenProperties
<1>4. \A i \in DOMAIN items : StoreCheck(items[i].m) = "OK"
  BY <1>2, <1>3 DEF StoreCheck, Valid
<1>5. \A i \in DOMAIN statuses : statuses[i] = "OK"
  BY <1>4
<1>6. FirstFault(statuses) = "OK"
  <2> HIDE DEF statuses
  <2> QED BY <1>5, FaultFree
<1>7. ListStatus(items) = IF HashStatus(items) # "OK" THEN HashStatus(items) ELSE "OK"
  BY <1>6 DEF ListStatus
<1> QED BY <1>7, HashesAgree DEF items

\* The texts of the agent are not blocks of RSA.
LEMMA ClearBody ==
  ASSUME dep \in Deployments, NEW t \in Seq(Clear), t # <<>>, t[1][1] # "rsa",
         NEW r, r.body = t, r.gz = FALSE
  PROVE  Body(r) = IF dep.serverRSA = Nil THEN t ELSE Failed
<1>1. CASE dep.serverRSA = Nil
  BY <1>1 DEF Body, Decrypted
<1>2. CASE dep.serverRSA # Nil
  <2>1. dep.serverRSA \in RSAKeys
    BY <1>2, Keys
  <2>2. Chunks(t, ServerBlock)[1][1] = t[1]
    BY BlocksAssumption, FirstChunk
  <2>3. RSADecrypt(t, dep.serverRSA) = Failed
    BY <2>1, <2>2, Undecipherable
  <2> QED BY <1>2, <2>3 DEF Body, Decrypted
<1> QED BY <1>1, <1>2

\* A text the agent encrypts, at the server: as it was, nothing, or an error.
LEMMA SecretBody ==
  ASSUME dep \in Deployments, NEW t \in Seq(Clear), t # <<>>, dep.agentRSA # Nil,
         NEW r, r.body = RSAEncrypt(t, dep.agentRSA), r.gz = TRUE
  PROVE  Body(r) =
           IF /\ dep.agentRSA = dep.serverRSA /\ KeySize[dep.agentRSA] > Overhead
              /\ Decodable(dep.agentRSA, Len(t))
           THEN Gunzip(t) ELSE Failed
<1> DEFINE a == dep.agentRSA
           b == dep.serverRSA
           body == RSAEncrypt(t, a)
<1>1. a \in RSAKeys /\ b \in RSAKeys \cup {Nil} /\ Nil \notin RSAKeys
  BY Keys, KeysAssumption
<1>2. Failed \notin Seq(Clear) /\ Failed \notin Seq(Cipher(Clear))
  BY FailedAssumption
<1>3. KeySize[a] \in Nat /\ Overhead \in Nat
  BY <1>1, KeySizeAssumption, BlocksAssumption
<1>4. CASE b = Nil
  <2>1. body = <<>> \/ body[1][1] # "gzip"
    <3>1. CASE KeySize[a] <= Overhead
      BY <1>1, <1>2, <3>1, Ciphertext
    <3>2. CASE KeySize[a] > Overhead
      <4>1. body[1] = <<"rsa", <<a, Cut(t, a)[1]>>, 1>>
        BY <1>1, <1>2, <3>2, Ciphertext
      <4>2. body[1][1] = "rsa"
        BY <4>1
      <4> QED BY <4>2
    <3> QED BY <1>3, <3>1, <3>2
  <2>2. Gunzip(body) = Failed
    BY <2>1, NotGzip
  <2>3. Body(r) = Failed
    BY <1>4, <2>2 DEF Body, Decrypted
  <2> QED BY <1>1, <1>4, <2>3
<1>5. CASE b # Nil
  <2>1. RSADecrypt(body, b) =
          IF KeySize[a] <= Overhead THEN <<>>
          ELSE IF a = b /\ Decodable(a, Len(t)) THEN t ELSE Failed
    BY <1>1, <1>2, <1>5, RoundTrip
  <2>2. Decrypted(r) = RSADecrypt(body, b)
    BY <1>5 DEF Decrypted
  <2>3. CASE KeySize[a] <= Overhead
    <3>1. Gunzip(<<>>) = Failed
      BY NotGzip
    <3>2. Body(r) = Failed
      BY <2>1, <2>2, <2>3, <3>1 DEF Body
    <3> QED BY <1>3, <2>3, <3>2
  <2>4. CASE KeySize[a] > Overhead
    <3>1. CASE a = b /\ Decodable(a, Len(t))
      <4>1. Decrypted(r) = t
        BY <1>3, <2>1, <2>2, <2>4, <3>1
      <4>2. t # Failed
        BY <1>2
      <4> QED BY <2>4, <3>1, <4>1, <4>2 DEF Body
    <3>2. CASE ~(a = b /\ Decodable(a, Len(t)))
      <4>1. Decrypted(r) = Failed
        BY <1>3, <2>1, <2>2, <2>4, <3>2
      <4> QED BY <3>2, <4>1 DEF Body
    <3> QED BY <3>1, <3>2
  <2> QED BY <1>3, <2>3, <2>4
<1> QED BY <1>4, <1>5

\* The encryption of the agent makes no error: it cuts what its key has room for.
LEMMA NoError ==
  ASSUME dep \in Deployments, NEW t \in Seq(Clear), t # <<>>, dep.agentRSA # Nil
  PROVE  RSAEncrypt(t, dep.agentRSA) # Failed
<1> DEFINE a == dep.agentRSA
<1>1. a \in RSAKeys /\ Failed \notin Seq(Cipher(Clear)) /\ <<>> \in Seq(Cipher(Clear))
  BY Keys, FailedAssumption, EmptySeq
<1>2. KeySize[a] \in Nat /\ Overhead \in Nat
  BY <1>1, KeySizeAssumption, BlocksAssumption
<1>3. CASE KeySize[a] <= Overhead
  BY <1>1, <1>3, Ciphertext
<1>4. CASE KeySize[a] > Overhead
  BY <1>1, <1>4, Ciphertext
<1> QED BY <1>2, <1>3, <1>4

\* The list of a report reaches the handler whole, or not at all.
LEMMA ReportArrives ==
  ASSUME dep \in Deployments, NEW ms \in Seq(Metric), ms # <<>>,
         \A i \in DOMAIN ms : Valid(ms[i])
  PROVE  LET text == ArrayText(ForEach(ms, dep.agentKey))
             readable == /\ dep.agentRSA = dep.serverRSA
                         /\ dep.agentRSA # Nil => /\ KeySize[dep.agentRSA] > Overhead
                                                 /\ Decodable(dep.agentRSA, Len(ms) + 1)
         IN /\ ReportBody(ms) # Failed
            /\ Body(Report(ms)) = IF readable THEN text ELSE Failed
            /\ text # Failed /\ DecodeArray(text) = ForEach(ms, dep.agentKey)
<1> DEFINE items == ForEach(ms, dep.agentKey)
           text == ArrayText(items)
           a == dep.agentRSA
           r == Report(ms)
<1>1. dep.agentKey \in HashKeys \cup {Nil} /\ a \in RSAKeys \cup {Nil}
  BY Keys
<1>2. items \in Seq(Item) /\ Len(items) = Len(ms)
  BY <1>1, SignedList
<1> HIDE DEF items
<1>3. /\ text \in Seq({"array"} \X Seq(Item) \X Nat) /\ text # <<>>
      /\ text[1][1] = "array" /\ Len(text) = Len(ms) + 1 /\ DecodeArray(text) = items
  BY <1>2, ArrayOpens
<1> HIDE DEF text
<1>4. text \in Seq(JSONCell) /\ text \in Seq(Clear)
  <2>1. {"array"} \X Seq(Item) \X Nat \subseteq JSONCell /\ JSONCell \subseteq Clear
    BY DEF JSONCell, Clear
  <2> QED BY <1>3, <2>1, SeqMonotonic
<1>5. text # Failed
  BY <1>4, FailedAssumption
<1>6. r.body = ReportBody(ms) /\ (r.gz = (a # Nil))
  BY DEF Report, AgentRequest
<1>7. ReportBody(ms) = IF a = Nil THEN text ELSE RSAEncrypt(Gzip(text), a)
  BY DEF ReportBody, text, items
<1> HIDE DEF r, a
<1>8. CASE a = Nil
  <2>1. r.body = text /\ r.gz = FALSE
    BY <1>6, <1>7, <1>8
  <2>2. Body(r) = IF dep.serverRSA = Nil THEN text ELSE Failed
    BY <1>3, <1>4, <2>1, ClearBody
  <2>3. Body(r) = IF a = dep.serverRSA THEN text ELSE Failed
    BY <1>8, <2>2
  <2> QED BY <1>3, <1>5, <1>7, <1>8, <2>3 DEF items, text, r, a
<1>9. CASE a # Nil
  <2> DEFINE z == Gzip(text)
  <2>1. z \in Seq(Zipped(JSONCell)) /\ z # <<>> /\ Len(z) = Len(text) /\ Gunzip(z) = text
    BY <1>3, <1>4, GzipOpens
  <2>2. z \in Seq(Clear)
    BY <2>1, SeqMonotonic DEF Clear
  <2>3. r.body = RSAEncrypt(z, a) /\ r.gz = TRUE
    BY <1>6, <1>7, <1>9
  <2> HIDE DEF z
  <2>4. Body(r) =
          IF a = dep.serverRSA /\ KeySize[a] > Overhead /\ Decodable(a, Len(z))
          THEN Gunzip(z) ELSE Failed
    BY <1>9, <2>1, <2>2, <2>3, SecretBody DEF a
  <2>5. RSAEncrypt(z, a) # Failed
    BY <1>9, <2>1, <2>2, NoError DEF a
  <2>6. ReportBody(ms) # Failed
    BY <1>7, <1>9, <2>5 DEF z
  <2>7. Body(r) =
          IF a = dep.serverRSA /\ KeySize[a] > Overhead /\ Decodable(a, Len(ms) + 1)
          THEN text ELSE Failed
    BY <1>3, <2>1, <2>4
  <2> QED BY <1>3, <1>5, <1>9, <2>6, <2>7 DEF items, text, r, a
<1> QED BY <1>8, <1>9

\* A metric that is sent alone is readable without RSA only: nothing was compressed.
LEMMA SingleArrives ==
  ASSUME dep \in Deployments, NEW m \in Metric, Valid(m)
  PROVE  LET item == ForEach(<<m>>, dep.agentKey)[1]
             readable == dep.agentRSA = Nil /\ dep.serverRSA = Nil
         IN /\ ~readable => Body(Single(m)) = Failed
            /\ readable => /\ Body(Single(m)) # Failed
                           /\ DecodeObject(Body(Single(m))) =
                                IF Marshals(<<m>>) THEN item ELSE Failed
<1> DEFINE item == ForEach(<<m>>, dep.agentKey)[1]
           text == IF Marshals(<<m>>) THEN ObjectText(item) ELSE Cells("notJSON", m, 1)
           r == Single(m)
<1>1. dep.agentKey \in HashKeys \cup {Nil}
  BY Keys
<1>2. item \in Item
  <2>1. <<m>> \in Seq(Metric) /\ Len(<<m>>) = 1 /\ \A i \in DOMAIN <<m>> : Valid(<<m>>[i])
    OBVIOUS
  <2> DEFINE items == ForEach(<<m>>, dep.agentKey)
  <2>2. items \in Seq(Item) /\ Len(items) = 1
    BY <1>1, <2>1, SignedList
  <2> HIDE DEF items
  <2>3. items[1] \in Item
    BY <2>2, ElementOfSeq
  <2> QED BY <2>3 DEF items
<1> HIDE DEF item
<1>3. /\ text \in Seq(Clear) /\ text # <<>>
      /\ text[1][1] \in {"object", "notJSON"}
      /\ DecodeObject(text) = IF Marshals(<<m>>) THEN item ELSE Failed
  <2>1. CASE Marshals(<<m>>)
    <3>1. /\ ObjectText(item) \in Seq({"object"} \X Item \X Nat)
          /\ ObjectText(item) # <<>> /\ ObjectText(item)[1][1] = "object"
          /\ DecodeObject(ObjectText(item)) = item
      BY <1>2, ObjectOpens
    <3>2. {"object"} \X Item \X Nat \subseteq Clear
      BY DEF Clear, JSONCell
    <3>3. ObjectText(item) \in Seq(Clear)
      BY <3>1, <3>2, SeqMonotonic
    <3> QED BY <2>1, <3>1, <3>3
  <2>2. CASE ~Marshals(<<m>>)
    <3> DEFINE n == 1
               t == Cells("notJSON", m, n)
    <3>1. n \in Nat \ {0} /\ \A i \in 1..n : <<"notJSON", m, i>> \in Clear
      BY DEF Clear, JSONCell
    <3> HIDE DEF n
    <3>2. t \in Seq(Clear) /\ t # <<>> /\ t[1] = <<"notJSON", m, 1>>
      BY <3>1, WholeCells
    <3> HIDE DEF t
    <3>3. t[1][1] = "notJSON"
      BY <3>2
    <3>4. DecodeObject(t) = Failed
      BY <3>3, OtherKind DEF DecodeObject
    <3>5. text = t
      BY <2>2 DEF t, n
    <3> HIDE DEF text
    <3> QED BY <2>2, <3>2, <3>3, <3>4, <3>5
  <2> QED BY <2>1, <2>2
<1>4. r.body = SingleBody(m) /\ (r.gz = (dep.agentRSA # Nil))
  BY DEF Single, AgentRequest
<1>5. SingleBody(m) =
        LET secret == RSAEncrypt(text, dep.agentRSA)
        IN IF dep.agentRSA = Nil THEN text ELSE IF secret = Failed THEN <<>> ELSE secret
  BY DEF SingleBody, item
<1> HIDE DEF r, text
<1>6. CASE dep.agentRSA = Nil
  <2>1. r.body = text /\ r.gz = FALSE
    BY <1>4, <1>5, <1>6
  <2>2. Body(r) = IF dep.serverRSA = Nil THEN text ELSE Failed
    BY <1>3, <2>1, ClearBody
  <2>3. text # Failed
    BY <1>3, FailedAssumption
  <2> QED BY <1>3, <1>6, <2>2, <2>3 DEF r, item
<1>7. CASE dep.agentRSA # Nil
  <2>1. RSAEncrypt(text, dep.agentRSA) # Failed
    BY <1>3, <1>7, NoError
  <2>2. r.body = RSAEncrypt(text, dep.agentRSA) /\ r.gz = TRUE
    BY <1>4, <1>5, <1>7, <2>1
  <2>3. Gunzip(text) = Failed
    <3>1. text[1][1] # "gzip"
      BY <1>3
    <3> QED BY <3>1, NotGzip
  <2>4. Body(r) = Failed
    BY <1>3, <1>7, <2>2, <2>3, SecretBody
  <2> QED BY <1>7, <2>4 DEF r
<1> QED BY <1>6, <1>7

\* The answer to a request names it, and it is a success only behind the middlewares.
LEMMA Served ==
  ASSUME NEW r, Serve(r)
  PROVE  /\ last'.from = r.from /\ last'.sample = r.sample
         /\ before' = stor /\ dep' = dep
         /\ last'.status = "OK" => Trusted(r) /\ Body(r) # Failed
         /\ Trusted(r) /\ Body(r) # Failed /\ r.route = "updates" => PostUpdates(r)
         /\ Trusted(r) /\ Body(r) # Failed /\ r.route = "update" => PostUpdate(r)
<1>1. CASE \/ MiddlewareTrustedSubnet(r) \/ MiddlewareEncryptBodyData(r)
           \/ MiddlewareDecompressGzip(r)
  BY <1>1 DEF MiddlewareTrustedSubnet, MiddlewareEncryptBodyData, MiddlewareDecompressGzip,
              Refuse, Answer, Body
<1>2. CASE PostUpdates(r)
  BY <1>2 DEF PostUpdates, Routed, Refuse, Answer
<1>3. CASE PostUpdate(r)
  BY <1>3 DEF PostUpdate, Routed, Refuse, Answer
<1>4. CASE PostUpdateV1(r)
  BY <1>4 DEF PostUpdateV1, Routed, Refuse, Answer
<1>5. CASE PostValue(r)
  BY <1>5 DEF PostValue, Routed, Refuse, Answer
<1>6. CASE GetValueV1(r)
  BY <1>6 DEF GetValueV1, Routed, Refuse, Answer
<1>7. CASE GetAll(r) \/ FixedAnswer(r)
  BY <1>7 DEF GetAll, FixedAnswer, Routed, Refuse, Answer
<1> QED BY <1>1, <1>2, <1>3, <1>4, <1>5, <1>6, <1>7 DEF Serve

\* The agent states no address, so any subnet refuses it.
LEMMA NoAddress ==
  ASSUME dep \in Deployments, NEW r, r.ip = Nil
  PROVE  Trusted(r) <=> dep.subnet = Nil
BY SubnetAssumption DEF Trusted

\* A report that is sent.
LEMMA ReportServed ==
  ASSUME dep \in Deployments, NEW ms \in Samples, Sent(ms), Serve(Report(ms))
  PROVE  /\ last'.status = "OK" <=> Compatible(dep, Len(ms) + 1) /\ Marshals(ms)
         /\ last'.status = "OK" => stor' = UpdateMetrics(stor, ms)
<1> DEFINE r == Report(ms)
           items == ForEach(ms, dep.agentKey)
           text == ArrayText(items)
           readable == /\ dep.agentRSA = dep.serverRSA
                       /\ dep.agentRSA # Nil => /\ KeySize[dep.agentRSA] > Overhead
                                               /\ Decodable(dep.agentRSA, Len(ms) + 1)
<1>1. ms \in Seq(Metric) /\ ms # <<>> /\ \A i \in DOMAIN ms : Valid(ms[i])
  BY SamplesAssumption
<1>2. /\ Body(r) = IF readable THEN text ELSE Failed
      /\ text # Failed /\ DecodeArray(text) = items
  BY <1>1, ReportArrives
<1>3. items \in Seq(Item) /\ Plain(items) = ms
  BY <1>1, Keys, SignedList
<1>4. ListStatus(items) = "OK" <=> dep.serverKey \in {Nil, dep.agentKey}
  BY <1>1, ReportChecked
<1>5. r.ip = Nil /\ r.route = "updates"
  BY DEF Report, AgentRequest
<1>6. Trusted(r) <=> dep.subnet = Nil
  BY <1>5, NoAddress
<1>7. /\ last'.status = "OK" => Trusted(r) /\ Body(r) # Failed
      /\ Trusted(r) /\ Body(r) # Failed => PostUpdates(r)
  BY <1>5, Served
<1>8. Compatible(dep, Len(ms) + 1) <=>
        dep.subnet = Nil /\ dep.serverKey \in {Nil, dep.agentKey} /\ readable
  BY DEF Compatible
<1>9. Marshals(ms)
  BY DEF Sent
<1> HIDE DEF r, items, text, readable
<1>10. CASE Trusted(r) /\ readable
  <2>1. PostUpdates(r) /\ DecodeArray(Body(r)) = items
    BY <1>2, <1>7, <1>10
  <2>2. /\ last'.status = ListStatus(items)
        /\ stor' = IF ListStatus(items) = "OK" THEN UpdateMetrics(stor, Plain(items)) ELSE stor
    BY <2>1, <1>3 DEF PostUpdates, Answer
  <2> QED BY <2>2, <1>3, <1>4, <1>6, <1>8, <1>9, <1>10
<1>11. CASE ~(Trusted(r) /\ readable)
  BY <1>2, <1>6, <1>7, <1>8, <1>11
<1> QED BY <1>10, <1>11

\* A metric that is sent alone.
LEMMA SingleServed ==
  ASSUME dep \in Deployments, NEW m \in Metric, Valid(m), Serve(Single(m))
  PROVE  /\ last'.status = "OK" <=>
              Compatible(dep, 1) /\ dep.agentRSA = Nil /\ Marshals(<<m>>)
         /\ last'.status = "OK" => stor' = UpdateMetric(stor, m)
<1> DEFINE r == Single(m)
           items == ForEach(<<m>>, dep.agentKey)
           item == items[1]
           readable == dep.agentRSA = Nil /\ dep.serverRSA = Nil
<1>1. /\ <<m>> \in Seq(Metric) /\ <<m>> # <<>> /\ Len(<<m>>) = 1
      /\ \A i \in DOMAIN <<m>> : Valid(<<m>>[i])
  OBVIOUS
<1>2. /\ ~readable => Body(r) = Failed
      /\ readable => /\ Body(r) # Failed
                     /\ DecodeObject(Body(r)) = IF Marshals(<<m>>) THEN item ELSE Failed
  BY SingleArrives
<1>3. items = <<item>> /\ item \in Item /\ item.m = m
  <2>1. items \in Seq(Item) /\ Len(items) = 1 /\ Plain(items) = <<m>>
    BY <1>1, Keys, SignedList
  <2> HIDE DEF items
  <2>2. item \in Item /\ items = <<item>>
    BY <2>1, ElementOfSeq
  <2>3. item.m = m
    <3>1. DOMAIN items = 1..1
      BY <2>1, LenProperties
    <3>2. Plain(items)[1] = items[1].m
      BY <3>1 DEF Plain
    <3> QED BY <2>1, <3>2
  <2> QED BY <2>2, <2>3
<1>4. HashStatus(items) = "OK" <=> dep.serverKey \in {Nil, dep.agentKey}
  BY <1>1, HashesAgree
<1> HIDE DEF items
<1>5. ItemStatus(item) = "OK" <=> dep.serverKey \in {Nil, dep.agentKey}
  BY <1>3, <1>4 DEF ItemStatus, StoreCheck, Valid
<1>6. r.ip = Nil /\ r.route = "update"
  BY DEF Single, AgentRequest
<1>7. Trusted(r) <=> dep.subnet = Nil
  BY <1>6, NoAddress
<1>8. /\ last'.status = "OK" => Trusted(r) /\ Body(r) # Failed
      /\ Trusted(r) /\ Body(r) # Failed => PostUpdate(r)
  BY <1>6, Served
<1>9. Compatible(dep, 1) /\ dep.agentRSA = Nil <=>
        dep.subnet = Nil /\ dep.serverKey \in {Nil, dep.agentKey} /\ readable
  BY DEF Compatible
<1> HIDE DEF r, item, readable
<1>10. CASE Trusted(r) /\ readable /\ Marshals(<<m>>)
  <2>1. PostUpdate(r) /\ DecodeObject(Body(r)) = item
    BY <1>2, <1>8, <1>10
  <2>2. /\ last'.status = ItemStatus(item)
        /\ stor' = IF ItemStatus(item) = "OK" THEN UpdateMetric(stor, item.m) ELSE stor
    BY <2>1, <1>3 DEF PostUpdate, Answer
  <2> QED BY <2>2, <1>3, <1>5, <1>7, <1>9, <1>10
<1>11. CASE Trusted(r) /\ readable /\ ~Marshals(<<m>>)
  <2>1. PostUpdate(r) /\ DecodeObject(Body(r)) \notin Item
    BY <1>2, <1>8, <1>11, FailedAssumption
  <2>2. last'.status = "BadRequest"
    BY <2>1 DEF PostUpdate, Refuse, Answer
  <2> QED BY <2>2, <1>11
<1>12. CASE ~(Trusted(r) /\ readable)
  BY <1>2, <1>7, <1>8, <1>9, <1>12
<1> QED BY <1>10, <1>11, <1>12

\* ReportDelivered: for every deployment, sample and key size a report is stored,
\* completely and once, exactly when agent and server are configured compatibly, and
\* what SendMetricsOneByOne sends exactly when there is no RSA either.
THEOREM Delivered == Spec => []ReportDelivered
<1>1. Init => ReportDelivered
  BY DEF Init, ReportDelivered
<1>2. TypeOK /\ ReportDelivered /\ [Next]_vars => ReportDelivered'
  <2> SUFFICES ASSUME TypeOK, ReportDelivered, [Next]_vars PROVE ReportDelivered'
    OBVIOUS
  <2>0. dep \in Deployments
    BY DEF TypeOK
  <2>1. ASSUME NEW r \in Requested, Serve(r)
        PROVE  ReportDelivered'
    <3>1. /\ last'.from = r.from /\ last'.sample = r.sample
          /\ before' = stor /\ dep' = dep
      BY <2>1, Served
    <3>2. CASE r \in Reports
      <4>1. PICK ms \in Samples : Sent(ms) /\ r = Report(ms)
        BY <3>2 DEF Reports
      <4>2. r.from = "agent" /\ r.sample = ms
        BY <4>1 DEF Report, AgentRequest
      <4>3. /\ last'.status = "OK" <=> Compatible(dep, Len(ms) + 1) /\ Marshals(ms)
            /\ last'.status = "OK" => stor' = UpdateMetrics(stor, ms)
        BY <2>0, <2>1, <4>1, ReportServed
      <4> QED BY <3>1, <4>2, <4>3 DEF ReportDelivered
    <3>3. CASE r \in Singles
      <4>1. PICK ms \in Samples : \E i \in DOMAIN ms : r = Single(ms[i])
        BY <3>3 DEF Singles
      <4>2. PICK i \in DOMAIN ms : r = Single(ms[i])
        BY <4>1
      <4>3. ms[i] \in Metric /\ Valid(ms[i])
        BY SamplesAssumption
      <4> DEFINE m == ms[i]
      <4>4. r.from = "single" /\ r.sample = <<m>>
        BY <4>2 DEF Single, AgentRequest
      <4> HIDE DEF m
      <4>5. /\ last'.status = "OK" <=>
                 Compatible(dep, 1) /\ dep.agentRSA = Nil /\ Marshals(<<m>>)
            /\ last'.status = "OK" => stor' = UpdateMetric(stor, m)
        BY <2>0, <2>1, <4>2, <4>3, SingleServed DEF m
      <4> QED BY <3>1, <4>4, <4>5 DEF ReportDelivered
    <3>4. CASE r \in Foreign
      <4>1. r.from = "other"
        BY <3>4, ForeignAssumption
      <4> QED BY <3>1, <4>1 DEF ReportDelivered
    <3> QED BY <3>2, <3>3, <3>4 DEF Requested
  <2>2. ASSUME NEW ms \in Samples, GiveUp(ms)
        PROVE  ReportDelivered'
    <3>1. ReportBody(ms) # Failed
      <4>1. ms \in Seq(Metric) /\ ms # <<>> /\ \A i \in DOMAIN ms : Valid(ms[i])
        BY SamplesAssumption
      <4> QED BY <2>0, <4>1, ReportArrives
    <3>2. ~Marshals(ms)
      BY <2>2, <3>1 DEF GiveUp, Sent
    <3>3. /\ last'.from = "agent" /\ last'.sample = ms /\ last'.status = "NotSent"
      BY <2>2 DEF GiveUp
    <3> QED BY <3>2, <3>3 DEF ReportDelivered
  <2>3. CASE UNCHANGED vars
    BY <2>3 DEF vars, ReportDelivered, Compatible
  <2> QED BY <2>1, <2>2, <2>3 DEF Next
<1> QED BY <1>1, <1>2, HTTPTypes, PTL DEF Spec
=============================================================================
