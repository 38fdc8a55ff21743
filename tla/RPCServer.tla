------------------------------ MODULE RPCServer ------------------------------
(***************************************************************************)
(* The gRPC side of the program (RPCServer.go, RPCClient.go, the stubs and *)
(* the conversions of proto/): the agent's reporter calls the server,      *)
(* whose handlers run in goroutines of their own.  Two things are unlike   *)
(* HTTP: a call ends with the agent's context, and nothing recovers a      *)
(* panic of a handler, which ends the process.  The store is in memory; a  *)
(* call of it is atomic for who looks at it (BackupStore), and so is a     *)
(* handler here.                                                           *)
(***************************************************************************)
EXTENDS Metrics

CONSTANTS
  Sample(_),    \* the metrics ForEach goes through in the n-th report
  AgentGauges,  \* the names of its gauges, the same in every sample
  Foreign,      \* the calls of other clients
  Networks,     \* the values of TRUSTED_SUBNET that are a CIDR network
  Addresses,    \* IP addresses, as X-Real-IP or as TRUSTED_SUBNET
  Member,       \* which address is in which network
  NaNs,         \* the float64 values that are not equal to themselves
  MaxReports    \* bound on the reports, for TLC only

-----------------------------------------------------------------------------
(* Messages.  What has been decoded has no nil inside: only the metric of a    *)
(* call and the spec of a metric may be missing.                               *)

PbMetric ==
  [id : IDs, spec : {"gauge"}, val : GaugeVals]
    \cup [id : IDs, spec : {"counter"}, val : Int64]
    \cup [id : IDs, spec : {"none"}, val : {Nil}]

Methods == {"AddMetric", "GetMetric", "AddMetrics", "GetMetrics", "Ping"}

\* ms holds the metrics sent (none in an AddMetric without metric), key what
\* GetMetric asks for, ip the first X-Real-IP of the metadata if it is an address.
Call ==
  [method : Methods, ms : Seq(PbMetric),
   key : [id : IDs, mtype : {"gauge", "counter", "other"}] \cup {Nil},
   ip : Addresses \cup {Nil}]

ASSUME MaxReportsAssumption == MaxReports \in Nat
ASSUME SampleAssumption ==
  \A n \in 1..MaxReports :
    /\ Sample(n) \in Seq(Metric)
    /\ \A i \in DOMAIN Sample(n) : Valid(Sample(n)[i])
    /\ \A i, j \in DOMAIN Sample(n) : Sample(n)[i].id = Sample(n)[j].id => i = j
    /\ DOMAIN Gathered(Sample(n), "gauge") = AgentGauges
\* Other clients have gauges of their own; GetMetric asks for something, and only
\* AddMetric and AddMetrics carry metrics, AddMetric one at most.
ASSUME ForeignAssumption ==
  /\ Foreign \subseteq Call
  /\ \A c \in Foreign :
       /\ c.method = "AddMetric" => Len(c.ms) <= 1
       /\ c.method = "GetMetric" => c.key # Nil
       /\ \A i \in DOMAIN c.ms : c.ms[i].spec = "gauge" => c.ms[i].id \notin AgentGauges
ASSUME SubnetAssumption ==
  /\ Nil \notin Networks \cup Addresses
  /\ Networks \cap Addresses = {}
  /\ Member \subseteq Addresses \X Networks
ASSUME NaNsAssumption == NaNs \subseteq NonFinite

VARIABLES
  subnet,     \* TRUSTED_SUBNET, Nil if it is empty
  up,         \* the server is running
  crashed,    \* ... or a panic has ended it
  stor,       \* its store
  reporter,   \* where the agent's reporting goroutine is
  cancelled,  \* the agent's context is done
  queue,      \* the calls the report still has to make
  wire        \* the agent's calls that the server may have received

\* History variables.
VARIABLES
  number,     \* the reports so far
  shown,      \* the report last stored in this life of the server, 0 if none
  late,       \* the agent has gone on while a call of it was on its way
  last        \* the call the server handled last, and its answer

agentVars == <<reporter, cancelled, queue, number, late>>
vars == <<subnet, up, crashed, stor, wire, shown, last, agentVars>>

NoAnswer == [method |-> "Ping", status |-> "none", got |-> {}]

Init ==
  /\ subnet \in Networks \cup Addresses \cup {Nil}
  /\ up = TRUE /\ crashed = FALSE /\ stor = EmptyStore
  /\ reporter = "select" /\ cancelled = FALSE /\ queue = <<>> /\ wire = {}
  /\ number = 0 /\ shown = 0 /\ late = FALSE /\ last = NoAnswer

-----------------------------------------------------------------------------
(* Conversions *)

\* A mutant: the type is gauge unless there is a counter.
GetRequestMetricGuessing(pm) ==
  [id |-> pm.id, mtype |-> IF pm.spec = "counter" THEN "counter" ELSE "gauge", val |-> pm.val]

\* Without a spec the type stays empty.
GetRequestMetric(pm) ==
  [id |-> pm.id, mtype |-> IF pm.spec = "none" THEN "other" ELSE pm.spec, val |-> pm.val]

\* A mutant: the test of GetProtoMetric is copied.
GetProtoStorageMetricZero(m) ==
  [id |-> m.id, spec |-> m.mtype, val |-> IF m.mtype = "counter" THEN 0 ELSE m.val]

GetProtoStorageMetric(m) == [id |-> m.id, spec |-> m.mtype, val |-> m.val]

\* The test for nil is the wrong way round for counters: one that has a value is
\* sent as 0.  (One that has none would be dereferenced; a sample has none of these.)
GetProtoMetric(m) ==
  [id |-> m.id, spec |-> m.mtype, val |-> IF m.mtype = "counter" THEN 0 ELSE m.val]

\* Metric.Equal: without a spec, or with NaN, a metric does not equal itself.
Equal(a, b) ==
  /\ a.id = b.id /\ a.spec # "none"
  /\ a.spec = b.spec /\ a.val = b.val
  /\ a.val \notin NaNs

-----------------------------------------------------------------------------
(* The handlers: the status of the answer, the store afterwards, what it carries *)

Answer(status, s, got) == [status |-> status, stor |-> s, got |-> got]
Fails(status) == Answer(status, stor, {})

\* The store refuses a metric without type and would panic at one without value;
\* UpdateMetrics gathers the whole list before it stores anything.
Update(ms, after) ==
  IF \E i \in DOMAIN ms : ms[i].mtype = "other" THEN Fails("InternalServerError")
  ELSE IF \E i \in DOMAIN ms : ~Valid(ms[i]) THEN Fails("panic")
  ELSE Answer("OK", after, {})

RequestMetrics(c) == [i \in DOMAIN c.ms |-> GetRequestMetric(c.ms[i])]

AddMetric(c) ==
  IF c.ms = <<>> THEN Fails("BadRequest")
  ELSE Update(RequestMetrics(c), UpdateMetric(stor, GetRequestMetric(c.ms[1])))

\* A mutant: metric by metric, up to the first that is refused.
AddMetricsOneByOne(c) ==
  LET good == {n \in 0..Len(c.ms) : \A i \in 1..n : c.ms[i].spec # "none"}
      most == CHOOSE n \in good : \A k \in good : k <= n
  IN Answer(IF most = Len(c.ms) THEN "OK" ELSE "InternalServerError",
            UpdateMetrics(stor, SubSeq(RequestMetrics(c), 1, most)), {})

AddMetrics(c) == Update(RequestMetrics(c), UpdateMetrics(stor, RequestMetrics(c)))

\* The metrics in the two maps.
Entries(map, mtype) == {[id |-> id, mtype |-> mtype, val |-> map[id]] : id \in DOMAIN map}
Stored == Entries(stor.gauge, "gauge") \cup Entries(stor.counter, "counter")

\* A metric that is not there is an error of the server.
GetMetric(c) ==
  LET found == {m \in Stored : m.id = c.key.id /\ m.mtype = c.key.mtype} IN
  IF c.key.mtype = "other" THEN Fails("NotFound")
  ELSE IF found = {} THEN Fails("InternalServerError")
  ELSE Answer("OK", stor, {GetProtoStorageMetric(m) : m \in found})

GetMetrics == Answer("OK", stor, {GetProtoStorageMetric(m) : m \in Stored})

\* The memory store answers every ping.
Ping == Answer("OK", stor, {})

\* Metrics_ServiceDesc and the five stubs behind it
Dispatch(c) ==
  CASE c.method = "AddMetric" -> AddMetric(c)
    [] c.method = "AddMetrics" -> AddMetrics(c)
    [] c.method = "GetMetric" -> GetMetric(c)
    [] c.method = "GetMetrics" -> GetMetrics
    [] c.method = "Ping" -> Ping

\* A TRUSTED_SUBNET without a mask does not parse, its error is dropped, and Contains
\* is called on a nil network, which panics.
TrustedSubnetServerInterceptor(c) ==
  IF subnet = Nil \/ <<c.ip, subnet>> \in Member THEN Dispatch(c)
  ELSE IF subnet \in Addresses /\ c.ip # Nil THEN Fails("panic")
  ELSE Fails("ErrTrust")

-----------------------------------------------------------------------------
(* The server *)

\* What is in memory, and the calls on their way, end with the process.
Down == up' = FALSE /\ stor' = EmptyStore /\ wire' = {} /\ shown' = 0 /\ last' = NoAnswer

Handle(c, nr, others) ==
  LET a == TrustedSubnetServerInterceptor(c) IN
  /\ up
  /\ IF a.status = "panic" THEN Down /\ crashed' = TRUE
     ELSE /\ stor' = a.stor /\ wire' = others
          /\ shown' = IF a.status = "OK" /\ nr # 0 THEN nr ELSE shown
          /\ last' = [method |-> c.method, status |-> a.status, got |-> a.got]
          /\ UNCHANGED <<up, crashed>>
  /\ UNCHANGED <<subnet, agentVars>>

HandleReport(d) == d \in wire /\ Handle(d.call, d.nr, wire \ {d})

HandleForeign(c) == Handle(c, 0, wire)

\* Start installs no signal handler: a signal ends the process on the spot.
Kill == up /\ Down /\ UNCHANGED <<subnet, crashed, agentVars>>

\* There is no backup file here.
Boot ==
  /\ ~up
  /\ up' = TRUE /\ crashed' = FALSE
  /\ UNCHANGED <<subnet, stor, wire, shown, last, agentVars>>

-----------------------------------------------------------------------------
(* The agent's reporter *)

ReportCall(method, ms) ==
  [method |-> method, ms |-> [i \in DOMAIN ms |-> GetProtoMetric(ms[i])], key |-> Nil, ip |-> Nil]

\* RPCClient.SendMetricsOneByOne, whose call in StartSending is commented out; here
\* also the mutant that calls it.
SendMetricsOneByOne(ms) == [i \in DOMAIN ms |-> ReportCall("AddMetric", <<ms[i]>>)]

\* RPCClient.SendMetrics
SendMetrics(ms) == <<ReportCall("AddMetrics", ms)>>

\* A tick: the client goes through the sample.
Report ==
  /\ reporter = "select" /\ number < MaxReports
  /\ number' = number + 1
  /\ queue' = SendMetrics(Sample(number + 1))
  /\ reporter' = "send"
  /\ UNCHANGED <<subnet, up, crashed, stor, cancelled, wire, shown, late, last>>

\* The call is over, with or without an answer; the client looks at neither.
Over ==
  /\ queue' = Tail(queue)
  /\ reporter' = IF Len(queue) = 1 THEN "select" ELSE "send"

\* A mutant: the call is made in a goroutine of its own.
InvokeAsync ==
  /\ reporter = "send" /\ up /\ ~cancelled
  /\ wire' = wire \cup {[nr |-> number, call |-> Head(queue)]}
  /\ Over
  /\ UNCHANGED <<subnet, up, crashed, stor, cancelled, number, shown, late, last>>

\* ClientConn.Invoke
Invoke ==
  /\ reporter = "send" /\ up /\ ~cancelled
  /\ wire' = wire \cup {[nr |-> number, call |-> Head(queue)]}
  /\ reporter' = "wait"
  /\ UNCHANGED <<subnet, up, crashed, stor, cancelled, queue, number, shown, late, last>>

\* Without a connection, or with a context that is done, it fails at once.
InvokeFails ==
  /\ reporter = "send" /\ (~up \/ cancelled)
  /\ Over
  /\ UNCHANGED <<subnet, up, crashed, stor, cancelled, wire, number, shown, late, last>>

Mine == {d \in wire : d.nr = number /\ d.call = Head(queue)}

\* The answer arrives, or the news that the server has gone.
Return ==
  /\ reporter = "wait" /\ Mine = {}
  /\ Over
  /\ UNCHANGED <<subnet, up, crashed, stor, cancelled, wire, number, shown, late, last>>

\* The client stops waiting; the server may have the call already and handle it later.
Abandon ==
  /\ reporter = "wait"
  /\ wire' \in {wire, wire \ Mine}
  /\ late' = (late \/ wire' \cap Mine # {})
  /\ Over
  /\ UNCHANGED <<subnet, up, crashed, stor, cancelled, number, shown, last>>

ConnectionBreaks == up /\ Abandon

\* A mutant: the call has a context of its own.
CtxDoneIgnored == cancelled /\ ~up /\ Abandon

CtxDone == cancelled /\ Abandon

Cancel ==
  /\ ~cancelled /\ cancelled' = TRUE
  /\ UNCHANGED <<subnet, up, crashed, stor, reporter, queue, wire, number, shown, late, last>>

\* A mutant: the context is also looked at between two calls.
ReportStopBetweenCalls ==
  /\ reporter \in {"select", "send"} /\ cancelled
  /\ reporter' = "done"
  /\ UNCHANGED <<subnet, up, crashed, stor, cancelled, queue, wire, number, shown, late, last>>

ReportStop ==
  /\ reporter = "select" /\ cancelled
  /\ reporter' = "done"
  /\ UNCHANGED <<subnet, up, crashed, stor, cancelled, queue, wire, number, shown, late, last>>

ReporterStep == Report \/ Invoke \/ InvokeFails \/ Return \/ CtxDone \/ ReportStop

Next ==
  \/ ReporterStep \/ ConnectionBreaks \/ Cancel
  \/ \E d \in wire : HandleReport(d)
  \/ \E c \in Foreign : HandleForeign(c)
  \/ Kill \/ Boot

Spec == Init /\ [][Next]_vars

\* The agent's scheduler and gRPC's promise to end a call with its context; nothing
\* is asked of the server.
FairSpec == Spec /\ WF_vars(ReporterStep) /\ SF_vars(ReportStop) /\ WF_vars(CtxDone)

-----------------------------------------------------------------------------
(* Properties *)

\* Every variable has its type, and the reporter has calls to make exactly when it is
\* sending or waiting (SendMetrics is a function of the loop, not a goroutine).
TypeOK ==
  /\ subnet \in Networks \cup Addresses \cup {Nil}
  /\ up \in BOOLEAN /\ crashed \in BOOLEAN /\ stor \in Stores
  /\ reporter \in {"select", "send", "wait", "done"} /\ cancelled \in BOOLEAN
  /\ queue \in Seq(Call) /\ (queue = <<>> <=> reporter \in {"select", "done"})
  /\ wire \subseteq [nr : Nat, call : Call]
  /\ number \in Nat /\ shown \in Nat /\ late \in BOOLEAN
  /\ last \in [method : Methods, got : SUBSET PbMetric,
               status : {"none", "OK", "BadRequest", "NotFound", "InternalServerError", "ErrTrust"}]

\* The inductive invariant.  A report is one call with the whole sample; as long as
\* the agent has given up none that arrived even so, at most the call it waits for
\* is on its way.
Inv ==
  /\ number <= MaxReports /\ shown <= number
  /\ queue # <<>> => number # 0 /\ queue = SendMetrics(Sample(number))
  /\ \A d \in wire : d.nr \in 1..number /\ SendMetrics(Sample(d.nr)) = <<d.call>>
  /\ ~late => \A d \in wire : d.nr = number /\ reporter = "wait"

AgentPart(s) == [id \in DOMAIN s.gauge \cap AgentGauges |-> s.gauge[id]]

\* The agent's gauges in the store are those of one sample, that of the report stored
\* last, whatever calls fail, overlap or are lost: never half of one and half of another.
OneSample == AgentPart(stor) = IF shown = 0 THEN EmptyMap ELSE Gathered(Sample(shown), "gauge")

\* Within one life of the server an older sample replaces a newer one only if the
\* agent gave up a call, by a broken connection or its context, that arrived even so.
NewestSample == [][up' /\ ~late => shown' >= shown]_vars

\* Only an update that is answered without an error changes the store of a running
\* server; a list that is refused has left nothing of it (AddMetrics).
OnlySuccessChanges ==
  [][up' /\ stor' # stor => last'.status = "OK" /\ last'.method \in {"AddMetric", "AddMetrics"}]_vars

\* No call ends the process, except for the interceptor's nil network: nothing
\* recovers a handler here.
NoCallKills == crashed => subnet \in Addresses

\* A reader gets metrics of the store only, and from GetMetrics all of them, Equal to
\* what went in, NaN aside (RPCImpl_test.go:121-133 compares them so).
ReadsAreStored ==
  LET held == {[id |-> m.id, spec |-> m.mtype, val |-> m.val] : m \in Stored} IN
  last.status = "OK" =>
    /\ last.got \subseteq held
    /\ last.method = "GetMetrics" =>
         \A h \in held : h.val \notin NaNs => \E g \in last.got : Equal(g, h)

\* After a signal the reporter comes to its end, even when the server never answers:
\* the calls follow the context (RPCClient.ctx), unlike those of the HTTP client.
Stops == cancelled ~> reporter = "done"
=============================================================================

