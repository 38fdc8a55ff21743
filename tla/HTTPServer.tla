----------------------------- MODULE HTTPServer -----------------------------
(***************************************************************************)
(* A request of the agent, or of another client, through the HTTP server:  *)
(* the middlewares in the order InitHTTPServer installs them, the routes,  *)
(* the handlers with their hash checks, and the store.  A request runs in  *)
(* a goroutine of its own and shares with the others nothing but the       *)
(* store, whose methods BackupStore shows to be atomic for who looks at    *)
(* it; hence a request is one step here.                                   *)
(***************************************************************************)
EXTENDS Metrics, Encoding

CONSTANTS
  HashKeys,     \* the values of KEY that are not empty
  Digits,       \* what %f, with its six decimals, leaves of a gauge
  Networks,     \* the values of TRUSTED_SUBNET that are a CIDR network
  Addresses,    \* IP addresses, as X-Real-IP or as TRUSTED_SUBNET
  Member,       \* which address is in which network
  Deployments,  \* how an agent and a server are configured
  Samples,      \* what the agent may report
  Foreign       \* the requests of other clients

-----------------------------------------------------------------------------
Routes == {"update", "updates", "value", "urlUpdate", "urlValue", "all",
           "updateOther", "missedName"}

ASSUME KeysAssumption == Nil \notin HashKeys \cup RSAKeys
ASSUME DigitsAssumption == Digits \in [GaugeVals -> GaugeVals]
ASSUME SubnetAssumption ==
  /\ Nil \notin Networks \cup Addresses
  /\ Networks \cap Addresses = {}
  /\ Member \subseteq Addresses \X Networks
ASSUME DeploymentsAssumption ==
  Deployments \subseteq [agentKey : HashKeys \cup {Nil}, agentRSA : RSAKeys \cup {Nil},
                         serverKey : HashKeys \cup {Nil}, serverRSA : RSAKeys \cup {Nil},
                         subnet : Networks \cup Addresses \cup {Nil}]
\* A sample has every field of RuntimeMetrics, with its pointer set, and names no metric
\* twice.
ASSUME SamplesAssumption ==
  /\ Samples \subseteq Seq(Metric) \ {<<>>}
  /\ \A ms \in Samples : \A i, j \in DOMAIN ms : Valid(ms[i]) /\ (ms[i].id = ms[j].id => i = j)

\* A URL has a metric only on the two routes that read one from it.
ASSUME ForeignAssumption ==
  \A r \in Foreign :
    /\ r.from = "other" /\ r.sample = <<>> /\ r.route \in Routes
    /\ IF r.route \in {"urlUpdate", "urlValue"} THEN r.url \in Metric ELSE r.url = Nil

VARIABLES
  dep,     \* the deployment; neither process re-reads its configuration
  stor,    \* the server's store
  before,  \* history: the store before the last request
  last     \* history: the last request and its answer

vars == <<dep, stor, before, last>>

Statuses == {"OK", "BadRequest", "Forbidden", "NotFound", "InternalServerError",
             "NotImplemented", "Aborted", "NotSent"}

\* A metric on the wire carries a hash or not.
HashOf(m, key) ==
  <<m.id, m.mtype, IF m.mtype = "gauge" THEN Digits[m.val] ELSE m.val, key>>

Hash == (IDs \X {"gauge"} \X GaugeVals \X HashKeys)
          \cup (IDs \X {"counter"} \X Int64 \X HashKeys)

ASSUME NilIsNoHash == Nil \notin Hash

Item == [m : Metric, hash : Hash \cup {Nil}]

\* The cells of what is written as JSON, compressed or not; an error is none of the
\* metrics that are read, and none of the texts that are written.
JSONCell ==
  ({"array"} \X Seq(Item) \X Nat) \cup ({"object"} \X Item \X Nat)
    \cup ({"notJSON"} \X Metric \X Nat)

Clear == JSONCell \cup Zipped(JSONCell)

ASSUME FailedAssumption ==
  Failed \notin Item \cup Seq(Clear) \cup Seq(Cipher(Clear))

Plain(items) == [i \in DOMAIN items |-> items[i].m]

Init ==
  /\ dep \in Deployments
  /\ stor = EmptyStore /\ before = EmptyStore
  /\ last = [from |-> "nobody", sample |-> <<>>, route |-> "all", items |-> <<>>,
             status |-> "NotSent", got |-> Nil]

-----------------------------------------------------------------------------
(* The agent's client *)

\* RuntimeMetrics.ForEach: every field of the sample, signed if there is a key
ForEach(ms, key) ==
  [i \in DOMAIN ms |-> [m |-> ms[i], hash |-> IF key = Nil THEN Nil ELSE HashOf(ms[i], key)]]

\* The agent sets no X-Real-IP.
AgentRequest(from, sample, route, body) ==
  [from |-> from, sample |-> sample, route |-> route, ip |-> Nil,
   gz |-> dep.agentRSA # Nil, body |-> body, url |-> Nil]

\* json.Marshal accepts the list.
Marshals(ms) == \A i \in DOMAIN ms : ms[i].mtype = "gauge" => ms[i].val \notin NonFinite

\* HTTPClient.SendMetrics
ReportBody(ms) ==
  LET text == ArrayText(ForEach(ms, dep.agentKey))
  IN IF dep.agentRSA = Nil THEN text ELSE RSAEncrypt(Gzip(text), dep.agentRSA)

Report(ms) == AgentRequest("agent", ms, "updates", ReportBody(ms))

\* HTTPClient.SendMetricsOneByOne: here nothing is compressed, whatever the header
\* says, a number that is not finite gives what is not JSON, and an error of the
\* encryption is dropped.  StartSending has the call of it commented out.
SingleBody(m) ==
  LET text == IF Marshals(<<m>>) THEN ObjectText(ForEach(<<m>>, dep.agentKey)[1])
              ELSE Cells("notJSON", m, 1)
      secret == RSAEncrypt(text, dep.agentRSA)
  IN IF dep.agentRSA = Nil THEN text ELSE IF secret = Failed THEN <<>> ELSE secret

Single(m) == AgentRequest("single", <<m>>, "update", SingleBody(m))

\* A list that is not marshalled is not sent.
Sent(ms) == Marshals(ms) /\ ReportBody(ms) # Failed

Reports == {Report(ms) : ms \in {s \in Samples : Sent(s)}}

Singles == UNION {{Single(ms[i]) : i \in DOMAIN ms} : ms \in Samples}

Requested == Reports \cup Singles \cup Foreign

-----------------------------------------------------------------------------
(* Middlewares *)

\* A request without an address, or with one outside the network, is refused.
Trusted(r) == dep.subnet = Nil \/ <<r.ip, dep.subnet>> \in Member

\* TRUSTED_SUBNET without a mask does not parse, its error is dropped, and Contains
\* is called on a nil network.
SubnetPanics(r) == dep.subnet \in Addresses /\ r.ip \in Addresses

Decrypted(r) ==
  IF dep.serverRSA = Nil THEN r.body ELSE RSADecrypt(r.body, dep.serverRSA)

\* The body the handlers read.
Body(r) == IF r.gz /\ Decrypted(r) # Failed THEN Gunzip(Decrypted(r)) ELSE Decrypted(r)

Answer(r, items, status, got) ==
  /\ last' = [from |-> r.from, sample |-> r.sample, route |-> r.route, items |-> items,
              status |-> status, got |-> got]
  /\ before' = stor
  /\ UNCHANGED dep

Refuse(r, status) == Answer(r, <<>>, status, Nil) /\ UNCHANGED stor

MiddlewareTrustedSubnet(r) ==
  /\ ~Trusted(r)
  /\ Refuse(r, IF SubnetPanics(r) THEN "Aborted" ELSE "Forbidden")

MiddlewareEncryptBodyData(r) ==
  /\ Trusted(r) /\ Decrypted(r) = Failed
  /\ Refuse(r, "BadRequest")

MiddlewareDecompressGzip(r) ==
  /\ Trusted(r) /\ Decrypted(r) # Failed /\ Body(r) = Failed
  /\ Refuse(r, "BadRequest")

Routed(r, route) == r.route = route /\ Trusted(r) /\ Body(r) # Failed

-----------------------------------------------------------------------------
(* Hash checks *)

\* Metric.CheckHash and what the handlers make of it: a value that is missing or a
\* type that is unknown has no hash, and a missing hash is dereferenced.
CheckHash(item) ==
  IF ~Valid(item.m) THEN "BadRequest"
  ELSE IF item.hash = Nil THEN "Aborted"
  ELSE IF item.hash = HashOf(item.m, dep.serverKey) THEN "OK" ELSE "BadRequest"

\* Storage.UpdateMetric and the gathering loop of Storage.UpdateMetrics.
StoreCheck(m) ==
  IF m.mtype = "other" THEN "InternalServerError"
  ELSE IF m.val = Nil THEN "Aborted" ELSE "OK"

\* A loop that returns at the first element that is not in order.
FirstFault(statuses) ==
  LET faults == {i \in DOMAIN statuses : statuses[i] # "OK"}
  IN IF faults = {} THEN "OK"
     ELSE statuses[CHOOSE i \in faults : \A j \in faults : i <= j]

\* A mutant: the loop ends after its first round.
HashStatusOfFirst(items) ==
  IF dep.serverKey = Nil \/ items = <<>> THEN "OK" ELSE CheckHash(items[1])

HashStatus(items) ==
  IF dep.serverKey = Nil THEN "OK"
  ELSE FirstFault([i \in DOMAIN items |-> CheckHash(items[i])])

ListStatus(items) ==
  IF HashStatus(items) # "OK" THEN HashStatus(items)
  ELSE FirstFault([i \in DOMAIN items |-> StoreCheck(items[i].m)])

ItemStatus(item) ==
  IF HashStatus(<<item>>) # "OK" THEN HashStatus(<<item>>)
  ELSE IF item.m.mtype = "other" THEN "BadRequest" ELSE StoreCheck(item.m)

-----------------------------------------------------------------------------
(* Handlers: JSON of any other shape than the one a handler reads is an error *)

\* POST /updates/, a mutant: metrics are stored while they are checked.
PostUpdatesAsTheyCome(r) ==
  LET items == DecodeArray(Body(r))
      good == {n \in 0..Len(items) : ListStatus(SubSeq(items, 1, n)) = "OK"}
      most == CHOOSE n \in good : \A k \in good : k <= n
  IN
  /\ Routed(r, "updates")
  /\ IF items \notin Seq(Item) THEN Refuse(r, "BadRequest")
     ELSE /\ Answer(r, items, ListStatus(items), Nil)
          /\ stor' = UpdateMetrics(stor, Plain(SubSeq(items, 1, most)))

\* POST /updates/: StorageWrapper.UpdateMetrics
PostUpdates(r) ==
  LET items == DecodeArray(Body(r)) IN
  /\ Routed(r, "updates")
  /\ IF items \notin Seq(Item) THEN Refuse(r, "BadRequest")
     ELSE /\ Answer(r, items, ListStatus(items), Nil)
          /\ stor' = IF ListStatus(items) = "OK"
                     THEN UpdateMetrics(stor, Plain(items)) ELSE stor

\* POST /update/: StorageWrapper.UpdateMetric
PostUpdate(r) ==
  LET item == DecodeObject(Body(r)) IN
  /\ Routed(r, "update")
  /\ IF item \notin Item THEN Refuse(r, "BadRequest")
     ELSE /\ Answer(r, <<item>>, ItemStatus(item), Nil)
          /\ stor' = IF ItemStatus(item) = "OK" THEN UpdateMetric(stor, item.m) ELSE stor

\* POST /update/{mType}/{id}/{metricValue}, a mutant: the error of ParseFloat is lost.
PostUpdateV1Unparsed(r) ==
  /\ Routed(r, "urlUpdate")
  /\ IF r.url.mtype = "other" THEN Refuse(r, "NotImplemented")
     ELSE Answer(r, <<>>, "OK", Nil) /\ stor' = UpdateMetric(stor, r.url)

\* POST /update/{mType}/{id}/{metricValue}: UpdateMetricV1.  The value of the URL is
\* Nil when it does not parse as a number; there is no hash to check.
PostUpdateV1(r) ==
  /\ Routed(r, "urlUpdate")
  /\ IF r.url.mtype = "other" THEN Refuse(r, "NotImplemented")
     ELSE IF r.url.val = Nil THEN Refuse(r, "BadRequest")
     ELSE Answer(r, <<>>, "OK", Nil) /\ stor' = UpdateMetric(stor, r.url)

\* Storage.GetMetric
Map(mtype) == IF mtype = "gauge" THEN stor.gauge ELSE stor.counter

Known(m) == m.mtype # "other" /\ m.id \in DOMAIN Map(m.mtype)

Stored(m) == [m EXCEPT !.val = Map(m.mtype)[m.id]]

\* POST /value/, a mutant: the answer is signed before its value is known.
PostValueSignedFirst(r) ==
  LET item == DecodeObject(Body(r)) IN
  /\ Routed(r, "value")
  /\ IF item \notin Item THEN Refuse(r, "BadRequest")
     ELSE IF ~Known(item.m) THEN Refuse(r, "NotFound")
     ELSE /\ Answer(r, <<>>, "OK",
                    [m |-> Stored(item.m),
                     hash |-> IF dep.serverKey = Nil \/ item.m.val = Nil THEN item.hash
                              ELSE HashOf(item.m, dep.serverKey)])
          /\ UNCHANGED stor

\* POST /value/: StorageWrapper.GetMetric fills in the metric of the request.
PostValue(r) ==
  LET item == DecodeObject(Body(r)) IN
  /\ Routed(r, "value")
  /\ IF item \notin Item THEN Refuse(r, "BadRequest")
     ELSE IF ~Known(item.m) THEN Refuse(r, "NotFound")
     ELSE /\ Answer(r, <<>>, "OK",
                    [m |-> Stored(item.m),
                     hash |-> IF dep.serverKey = Nil THEN item.hash
                              ELSE HashOf(Stored(item.m), dep.serverKey)])
          /\ UNCHANGED stor

\* GET /value/{mType}/{id}: GetMetricV1
GetValueV1(r) ==
  /\ Routed(r, "urlValue")
  /\ IF r.url.mtype = "other" THEN Refuse(r, "BadRequest")
     ELSE IF ~Known(r.url) THEN Refuse(r, "NotFound")
     ELSE /\ Answer(r, <<>>, "OK", [m |-> Stored(r.url), hash |-> Nil])
          /\ UNCHANGED stor

\* GET /: GetAllMetrics
GetAll(r) ==
  /\ Routed(r, "all")
  /\ Refuse(r, "OK")

\* POST /update/* and the two routes of a missing name
FixedAnswer(r) ==
  \/ Routed(r, "updateOther") /\ Refuse(r, "NotImplemented")
  \/ Routed(r, "missedName") /\ Refuse(r, "NotFound")

\* SendMetrics gives up before it has sent anything.
GiveUp(ms) ==
  /\ ~Sent(ms)
  /\ last' = [from |-> "agent", sample |-> ms, route |-> "updates", items |-> <<>>,
              status |-> "NotSent", got |-> Nil]
  /\ before' = stor
  /\ UNCHANGED <<dep, stor>>

Serve(r) ==
  \/ MiddlewareTrustedSubnet(r) \/ MiddlewareEncryptBodyData(r) \/ MiddlewareDecompressGzip(r)
  \/ PostUpdates(r) \/ PostUpdate(r) \/ PostUpdateV1(r)
  \/ PostValue(r) \/ GetValueV1(r) \/ GetAll(r) \/ FixedAnswer(r)

Next == (\E r \in Requested : Serve(r)) \/ (\E ms \in Samples : GiveUp(ms))

Spec == Init /\ [][Next]_vars

-----------------------------------------------------------------------------
(* Properties *)

\* Every variable has its type; in particular the store stays one of finite maps of
\* numbers, whatever a client sends (StorageWrapper's handlers).
TypeOK ==
  /\ dep \in Deployments
  /\ stor \in Stores /\ before \in Stores
  /\ last \in [from : {"nobody", "agent", "single", "other"}, sample : Seq(Metric),
               route : Routes, items : Seq(Item), status : Statuses,
               got : Item \cup {Nil}]

\* The deployments in which a report of n cells is understood: no subnet, since the
\* agent does not state its address, the keys of both sides agree, and the RSA key has
\* the one size RSADecrypt is written for, or a smaller one and a report of one block.
Compatible(d, n) ==
  /\ d.subnet = Nil
  /\ d.serverKey \in {Nil, d.agentKey}
  /\ d.agentRSA = d.serverRSA
  /\ d.agentRSA # Nil => KeySize[d.agentRSA] > Overhead /\ Decodable(d.agentRSA, n)

\* A report of finite values (SendMetrics) is stored, completely and once, exactly when the agent and
\* the server are configured compatibly; SendMetricsOneByOne announces a compression
\* it does not do, and so is understood only without RSA.
ReportDelivered ==
  LET delivered == last.status = "OK" IN
  /\ last.from = "agent" =>
       /\ delivered <=> Compatible(dep, Len(last.sample) + 1) /\ Marshals(last.sample)
       /\ delivered => stor = UpdateMetrics(before, last.sample)
  /\ last.from = "single" =>
       /\ delivered <=> Compatible(dep, 1) /\ dep.agentRSA = Nil /\ Marshals(last.sample)
       /\ delivered => stor = UpdateMetric(before, last.sample[1])

\* A request that is not answered with 200 has changed nothing, not even when it
\* failed, or panicked, in the middle of its list; a reading request never does.
OnlySuccessChanges ==
  stor # before => last.status = "OK" /\ last.route \in {"update", "updates", "urlUpdate"}

\* With a KEY, what the JSON routes store was signed with it, every metric of it: the
\* old URL route is the only one that takes metrics without a hash.
SignedOnly ==
  dep.serverKey # Nil /\ stor # before /\ last.route # "urlUpdate" =>
    /\ last.items # <<>>
    /\ \A i \in DOMAIN last.items :
         last.items[i].hash = HashOf(last.items[i].m, dep.serverKey)

\* What a reader gets is what the store holds, and POST /value/ signs just that.
AnswersVerify ==
  last.got # Nil =>
    /\ Known(last.got.m) /\ last.got.m = Stored(last.got.m)
    /\ dep.serverKey # Nil /\ last.route = "value" =>
         last.got.hash = HashOf(last.got.m, dep.serverKey)
=============================================================================
