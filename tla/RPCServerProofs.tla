--------------------------- MODULE RPCServerProofs ---------------------------
(***************************************************************************)
(* What the gRPC side promises for every network, every sample and any     *)
(* calls of other clients: types, that no call ends the process, that the  *)
(* agent's gauges are those of one sample, and that samples do not go back.*)
(***************************************************************************)
EXTENDS RPCServer, MetricsProofs

\* A report is one call, whose conversion gives the gauges of the sample back.
LEMMA ReportCallType ==
  ASSUME NEW n \in 1..MaxReports
  PROVE  LET c == ReportCall("AddMetrics", Sample(n)) IN
           /\ c \in Call
           /\ SendMetrics(Sample(n)) = <<c>>
           /\ c.method = "AddMetrics"
           /\ DOMAIN c.ms = DOMAIN Sample(n)
           /\ \A i \in DOMAIN c.ms : c.ms[i].spec # "none"
           /\ Gathered(RequestMetrics(c), "gauge") = Gathered(Sample(n), "gauge")
<1> DEFINE S == Sample(n)
           c == ReportCall("AddMetrics", S)
<1>1. S \in Seq(Metric) /\ \A i \in DOMAIN S : S[i] \in Metric /\ Valid(S[i])
  BY SampleAssumption
<1>2. 0 \in Int64
  BY HalfRangeAssumption DEF Int64
<1>3. \A i \in DOMAIN S : GetProtoMetric(S[i]) \in PbMetric /\ GetProtoMetric(S[i]).spec # "none"
  BY <1>1, <1>2 DEF GetProtoMetric, PbMetric, Metric, Valid
<1>4. c.ms \in Seq(PbMetric) /\ DOMAIN c.ms = DOMAIN S /\ \A i \in DOMAIN S : c.ms[i] = GetProtoMetric(S[i])
  <2> DEFINE f == [i \in DOMAIN S |-> GetProtoMetric(S[i])]
  <2>1. DOMAIN S = 1..Len(S) /\ Len(S) \in Nat
    BY <1>1
  <2>2. f \in [1..Len(S) -> PbMetric]
    BY <1>3, <2>1
  <2>3. f \in Seq(PbMetric)
    BY <2>1, <2>2
  <2> QED BY <2>3 DEF ReportCall
<1>5. c \in Call /\ c.method = "AddMetrics"
  BY <1>4 DEF Call, ReportCall, Methods
<1>6. DOMAIN RequestMetrics(c) = DOMAIN S
  BY <1>4 DEF RequestMetrics
<1>7. \A i \in DOMAIN S : /\ RequestMetrics(c)[i].id = S[i].id
                          /\ RequestMetrics(c)[i].mtype = S[i].mtype
                          /\ S[i].mtype = "gauge" => RequestMetrics(c)[i].val = S[i].val
  <2> TAKE i \in DOMAIN S
  <2>1. RequestMetrics(c)[i] = GetRequestMetric(GetProtoMetric(S[i]))
    BY <1>4 DEF RequestMetrics
  <2> QED BY <2>1, <1>1 DEF GetRequestMetric, GetProtoMetric, Metric, Valid
<1>8. Positions(RequestMetrics(c), "gauge") = Positions(S, "gauge")
  BY <1>6, <1>7 DEF Positions
<1>9. \A i \in Positions(S, "gauge") : RequestMetrics(c)[i].id = S[i].id /\ RequestMetrics(c)[i].val = S[i].val
  BY <1>7 DEF Positions
<1>10. \A id : LastPosition(RequestMetrics(c), "gauge", id) = LastPosition(S, "gauge", id)
  BY <1>8, <1>9 DEF LastPosition
<1>11. \A k \in Positions(S, "gauge") : LastPosition(S, "gauge", S[k].id) \in Positions(S, "gauge")
  BY <1>1, LastPositionExists
<1>12. Gathered(RequestMetrics(c), "gauge") = Gathered(S, "gauge")
  BY <1>8, <1>9, <1>10, <1>11 DEF Gathered
<1> QED BY <1>3, <1>4, <1>5, <1>12 DEF SendMetrics

\* What has been decoded converts to metrics that the store refuses by an error at most.
LEMMA RequestMetricsType ==
  ASSUME NEW c \in Call
  PROVE  /\ RequestMetrics(c) \in Seq(Metric)
         /\ DOMAIN RequestMetrics(c) = DOMAIN c.ms
         /\ \A i \in DOMAIN c.ms :
              /\ RequestMetrics(c)[i] = GetRequestMetric(c.ms[i])
              /\ RequestMetrics(c)[i].mtype = "other" \/ Valid(RequestMetrics(c)[i])
<1>1. c.ms \in Seq(PbMetric)
  BY DEF Call
<1>2. DOMAIN c.ms = 1..Len(c.ms) /\ Len(c.ms) \in Nat /\ \A i \in DOMAIN c.ms : c.ms[i] \in PbMetric
  BY <1>1
<1>3. ASSUME NEW pm \in PbMetric
      PROVE  /\ GetRequestMetric(pm) \in Metric
             /\ GetRequestMetric(pm).mtype = "other" \/ Valid(GetRequestMetric(pm))
  <2>1. \A v \in GaugeVals \cup Int64 : v # Nil
    BY NilAssumption, HalfRangeAssumption DEF Int64
  <2> QED BY <2>1 DEF GetRequestMetric, PbMetric, Metric, Valid
<1>4. RequestMetrics(c) \in [1..Len(c.ms) -> Metric]
  BY <1>2, <1>3 DEF RequestMetrics
<1>5. RequestMetrics(c) \in Seq(Metric)
  BY <1>2, <1>4
<1> QED BY <1>2, <1>3, <1>5 DEF RequestMetrics

LEMMA StoredType ==
  ASSUME stor \in Stores
  PROVE  \A m \in Stored : GetProtoStorageMetric(m) \in PbMetric
<1>1. \A id \in DOMAIN stor.gauge : id \in IDs /\ stor.gauge[id] \in GaugeVals
  BY MapsDef DEF Stores
<1>2. \A id \in DOMAIN stor.counter : id \in IDs /\ stor.counter[id] \in Int64
  BY MapsDef DEF Stores
<1> QED BY <1>1, <1>2 DEF Stored, Entries, GetProtoStorageMetric, PbMetric

\* A call is refused, ends the process, reads, or is stored.
Refused(c, a) ==
  /\ a.status \in {"BadRequest", "NotFound", "InternalServerError", "ErrTrust"}
  /\ a.stor = stor /\ a.got = {}
Panics(c, a) == a.status = "panic" /\ subnet \in Addresses
Held == {[id |-> m.id, spec |-> m.mtype, val |-> m.val] : m \in Stored}
Reads(c, a) ==
  /\ a.status = "OK" /\ a.stor = stor /\ a.got \in SUBSET PbMetric
  /\ a.got \subseteq Held /\ (c.method = "GetMetrics" => a.got = Held)
Stores1(c, a) ==
  /\ c.method \in {"AddMetric", "AddMetrics"} /\ a.status = "OK" /\ a.got = {}
  /\ \A i \in DOMAIN c.ms : c.ms[i].spec # "none"
  /\ \/ a.stor = UpdateMetrics(stor, RequestMetrics(c))
     \/ c.ms # <<>> /\ a.stor = UpdateMetric(stor, RequestMetrics(c)[1])

LEMMA UpdateOutcome ==
  ASSUME NEW c \in Call, NEW after
  PROVE  \/ Update(RequestMetrics(c), after) = Fails("InternalServerError")
         \/ /\ Update(RequestMetrics(c), after) = Answer("OK", after, {})
            /\ \A i \in DOMAIN c.ms : c.ms[i].spec # "none" /\ Valid(RequestMetrics(c)[i])
<1> DEFINE R == RequestMetrics(c)
<1>1. /\ DOMAIN R = DOMAIN c.ms
      /\ \A i \in DOMAIN c.ms : /\ R[i] = GetRequestMetric(c.ms[i])
                                /\ (R[i].mtype = "other" \/ Valid(R[i]))
  BY RequestMetricsType
<1>2. ASSUME NEW i \in DOMAIN c.ms, c.ms[i].spec = "none"
      PROVE  R[i].mtype = "other"
  <2>1. R[i] = GetRequestMetric(c.ms[i])
    BY <1>2 DEF RequestMetrics
  <2>2. GetRequestMetric(c.ms[i]).mtype = "other"
    BY <1>2 DEF GetRequestMetric
  <2> QED BY <2>1, <2>2
<1> QED BY <1>1, <1>2 DEF Update

LEMMA Outcome ==
  ASSUME stor \in Stores, NEW c \in Call, c.method = "AddMetric" => Len(c.ms) <= 1,
         NEW a, a = TrustedSubnetServerInterceptor(c)
  PROVE  Refused(c, a) \/ Panics(c, a) \/ Reads(c, a) \/ Stores1(c, a)
<1> DEFINE R == RequestMetrics(c)
<1>1. /\ R \in Seq(Metric) /\ DOMAIN R = DOMAIN c.ms
      /\ \A i \in DOMAIN c.ms : R[i] = GetRequestMetric(c.ms[i])
  BY RequestMetricsType
<1>2. c.ms \in Seq(PbMetric) /\ c.method \in Methods
  BY DEF Call
<1>3. SUFFICES ASSUME NEW d, d = Dispatch(c)
               PROVE  Refused(c, d) \/ Reads(c, d) \/ Stores1(c, d)
  <2>1. \/ a = Dispatch(c) \/ a = Fails("ErrTrust")
        \/ subnet \in Addresses /\ a = Fails("panic")
    BY DEF TrustedSubnetServerInterceptor
  <2> QED BY <1>3, <2>1 DEF Fails, Answer, Refused, Panics
<1>4. ASSUME NEW after, d = Update(R, after)
      PROVE  \/ Refused(c, d)
             \/ /\ d.status = "OK" /\ d.got = {} /\ d.stor = after
                /\ \A i \in DOMAIN c.ms : c.ms[i].spec # "none"
  BY <1>4, UpdateOutcome DEF Fails, Answer, Refused
<1>5. CASE c.method = "AddMetric"
  <2>1. CASE c.ms = <<>>
    BY <1>3, <1>5, <2>1 DEF Dispatch, AddMetric, Fails, Answer, Refused
  <2>2. CASE c.ms # <<>>
    <3>1. 1 \in DOMAIN c.ms
      BY <1>2, <2>2
    <3>2. d = Update(R, UpdateMetric(stor, R[1]))
      BY <1>1, <1>3, <1>5, <2>2, <3>1 DEF Dispatch, AddMetric
    <3> QED BY <1>4, <1>5, <2>2, <3>2 DEF Stores1
  <2> QED BY <2>1, <2>2
<1>6. CASE c.method = "AddMetrics"
  <2>1. d = Update(R, UpdateMetrics(stor, R))
    BY <1>3, <1>6 DEF Dispatch, AddMetrics
  <2> QED BY <1>4, <1>6, <2>1 DEF Stores1
<1>7. CASE c.method = "GetMetric"
  BY <1>3, <1>7, StoredType DEF Dispatch, GetMetric, Fails, Answer, Refused, Reads, Held,
                                GetProtoStorageMetric
<1>8. CASE c.method = "GetMetrics"
  BY <1>3, <1>8, StoredType DEF Dispatch, GetMetrics, Answer, Reads, Held, GetProtoStorageMetric
<1>9. CASE c.method = "Ping"
  BY <1>3, <1>9 DEF Dispatch, Ping, Answer, Reads
<1> QED BY <1>2, <1>5, <1>6, <1>7, <1>8, <1>9 DEF Methods

\* What is stored keeps its type.
LEMMA StoreType ==
  ASSUME stor \in Stores, NEW c \in Call, NEW a, Stores1(c, a)
  PROVE  a.stor \in Stores
<1> DEFINE R == RequestMetrics(c)
<1>1. R \in Seq(Metric) /\ DOMAIN R = DOMAIN c.ms
  BY RequestMetricsType
<1>2. \A i \in DOMAIN c.ms : R[i] = GetRequestMetric(c.ms[i])
  BY RequestMetricsType
<1>3. \A i \in DOMAIN R : Valid(R[i])
  <2> TAKE i \in DOMAIN R
  <2>1. R[i] = GetRequestMetric(c.ms[i]) /\ c.ms[i].spec # "none"
    BY <1>1, <1>2 DEF Stores1
  <2>2. R[i].mtype = "other" \/ Valid(R[i])
    BY <1>1, RequestMetricsType
  <2>3. c.ms[i] \in PbMetric
    BY <1>1 DEF Call
  <2>4. R[i].mtype # "other"
    BY <2>1, <2>3 DEF GetRequestMetric, PbMetric
  <2> QED BY <2>2, <2>4
<1>4. CASE a.stor = UpdateMetrics(stor, R)
  BY <1>1, <1>3, <1>4, UpdateMetricsType
<1>5. CASE c.ms # <<>> /\ a.stor = UpdateMetric(stor, R[1])
  <2>1. 1 \in DOMAIN R
    <3>1. c.ms \in Seq(PbMetric)
      BY DEF Call
    <3> QED BY <1>1, <1>5, <3>1
  <2>2. R[1] \in Metric /\ Valid(R[1])
    BY <1>1, <1>3, <2>1
  <2> QED BY <1>5, <2>2, UpdateMetricType
<1> QED BY <1>4, <1>5 DEF Stores1

\* A call of another client leaves the agent's gauges alone.
LEMMA ForeignKeepsAgentPart ==
  ASSUME stor \in Stores, NEW c \in Foreign, NEW a, Stores1(c, a)
  PROVE  AgentPart(a.stor) = AgentPart(stor)
<1> DEFINE R == RequestMetrics(c)
<1>1. c \in Call /\ \A i \in DOMAIN c.ms : c.ms[i].spec = "gauge" => c.ms[i].id \notin AgentGauges
  BY ForeignAssumption
<1>2. DOMAIN R = DOMAIN c.ms /\ c.ms \in Seq(PbMetric)
  BY <1>1, RequestMetricsType DEF Call
<1>3. ASSUME NEW i \in DOMAIN R, R[i].mtype = "gauge"
      PROVE  R[i].id \notin AgentGauges
  <2>1. R[i] = GetRequestMetric(c.ms[i])
    BY <1>2, <1>3 DEF RequestMetrics
  <2>2. c.ms[i].spec = "gauge" /\ R[i].id = c.ms[i].id
    BY <1>3, <2>1 DEF GetRequestMetric
  <2> QED BY <1>1, <1>2, <2>2
<1>4. ASSUME NEW g, \A id \in DOMAIN g : id \notin AgentGauges, a.stor.gauge = Put(stor.gauge, g)
      PROVE  AgentPart(a.stor) = AgentPart(stor)
  BY <1>4 DEF AgentPart, Put
<1>5. CASE a.stor = UpdateMetrics(stor, R)
  <2>1. a.stor.gauge = Put(stor.gauge, Gathered(R, "gauge"))
    BY <1>5 DEF UpdateMetrics, MergeCountersOf, MergeGaugesOf, Stores
  <2>2. \A id \in DOMAIN Gathered(R, "gauge") : id \notin AgentGauges
    BY <1>3 DEF Gathered, Positions
  <2> QED BY <1>4, <2>1, <2>2
<1>6. CASE c.ms # <<>> /\ a.stor = UpdateMetric(stor, R[1])
  <2>1. 1 \in DOMAIN R
    BY <1>2, <1>6
  <2>2. CASE R[1].mtype = "gauge"
    <3>1. a.stor.gauge = Put(stor.gauge, Only(R[1]))
      BY <1>6, <2>2 DEF UpdateMetric, Stores
    <3>2. \A id \in DOMAIN Only(R[1]) : id \notin AgentGauges
      BY <1>3, <2>1, <2>2 DEF Only
    <3> QED BY <1>4, <3>1, <3>2
  <2>3. CASE R[1].mtype # "gauge"
    BY <1>6, <2>3 DEF UpdateMetric, Stores, AgentPart
  <2> QED BY <2>2, <2>3
<1> QED BY <1>5, <1>6 DEF Stores1

\* A report of the agent replaces all of them.
LEMMA ReportReplacesAgentPart ==
  ASSUME stor \in Stores, NEW n \in 1..MaxReports, NEW c, SendMetrics(Sample(n)) = <<c>>,
         NEW a, a = TrustedSubnetServerInterceptor(c), a.status = "OK"
  PROVE  /\ AgentPart(a.stor) = Gathered(Sample(n), "gauge")
         /\ a.stor \in Stores /\ a.got = {} /\ c.method = "AddMetrics"
<1> DEFINE R == RequestMetrics(c)
<1>1. /\ c = ReportCall("AddMetrics", Sample(n)) /\ c \in Call /\ c.method = "AddMetrics"
      /\ Gathered(R, "gauge") = Gathered(Sample(n), "gauge")
  BY ReportCallType DEF SendMetrics
<1>2. a = Update(R, UpdateMetrics(stor, R))
  BY <1>1 DEF TrustedSubnetServerInterceptor, Dispatch, AddMetrics, Fails, Answer
<1>3. a.stor = UpdateMetrics(stor, R) /\ a.got = {} /\ \A i \in DOMAIN c.ms : Valid(R[i])
  BY <1>1, <1>2, UpdateOutcome DEF Fails, Answer
<1>4. a.stor.gauge = Put(stor.gauge, Gathered(Sample(n), "gauge"))
  BY <1>1, <1>3 DEF UpdateMetrics, MergeCountersOf, MergeGaugesOf, Stores
<1>5. DOMAIN Gathered(Sample(n), "gauge") = AgentGauges
  BY SampleAssumption
<1>6. AgentPart(a.stor) = [id \in AgentGauges |-> Gathered(Sample(n), "gauge")[id]]
  BY <1>4, <1>5 DEF AgentPart, Put
<1>7. Gathered(Sample(n), "gauge") = [id \in AgentGauges |-> Gathered(Sample(n), "gauge")[id]]
  BY <1>5 DEF Gathered
<1>8. a.stor \in Stores
  BY <1>1, <1>3, RequestMetricsType, UpdateMetricsType
<1> QED BY <1>1, <1>3, <1>6, <1>7, <1>8

-----------------------------------------------------------------------------
(* Invariance *)

LEMMA Initially == Init => TypeOK /\ Inv /\ OneSample /\ NoCallKills
<1> SUFFICES ASSUME Init
             PROVE  TypeOK /\ Inv /\ OneSample /\ NoCallKills
  OBVIOUS
<1>1. TypeOK
  <2>1. /\ NoAnswer.method \in Methods /\ NoAnswer.status = "none" /\ NoAnswer.got = {}
        /\ NoAnswer = [method |-> "Ping", status |-> "none", got |-> {}]
    BY DEF NoAnswer, Methods
  <2>2. queue = <<>> /\ queue \in Seq(Call)
    BY DEF Init
  <2> QED BY <2>1, <2>2, EmptyStoreType DEF Init, TypeOK
<1>2. OneSample
  BY DEF Init, OneSample, AgentPart, EmptyStore, EmptyMap
<1> QED BY <1>1, <1>2, MaxReportsAssumption DEF Init, Inv, NoCallKills

\* What the server and its clients do to the server.
LEMMA HandleStep ==
  ASSUME TypeOK, Inv, OneSample, NoCallKills,
         \/ \E d \in wire : HandleReport(d)
         \/ \E c \in Foreign : HandleForeign(c)
  PROVE  /\ TypeOK' /\ Inv' /\ OneSample' /\ NoCallKills'
         /\ up' /\ ~late => shown' >= shown
<1> USE DEF TypeOK
<1> DEFINE One(c, nr, others) ==
             /\ Handle(c, nr, others)
             /\ c.method = "AddMetric" => Len(c.ms) <= 1
             /\ \/ /\ nr \in 1..MaxReports /\ SendMetrics(Sample(nr)) = <<c>>
                   /\ ~late => nr = number
                \/ nr = 0 /\ c \in Foreign
<1>1. PICK c \in Call, nr \in 0..number, others \in SUBSET wire : One(c, nr, others)
  <2>1. ASSUME NEW d \in wire, HandleReport(d)
        PROVE  \E c \in Call, nr \in 0..number, others \in SUBSET wire : One(c, nr, others)
    <3>1. d.nr \in 1..number /\ d.nr \in 1..MaxReports /\ SendMetrics(Sample(d.nr)) = <<d.call>> /\ d.call \in Call
      BY MaxReportsAssumption DEF Inv
    <3>2. d.call.method = "AddMetrics"
      BY <3>1, ReportCallType
    <3>3. One(d.call, d.nr, wire \ {d})
      BY <2>1, <3>1, <3>2 DEF HandleReport, Inv
    <3> QED BY <3>1, <3>3
  <2>2. ASSUME NEW c \in Foreign, HandleForeign(c)
        PROVE  One(c, 0, wire)
    BY <2>2, ForeignAssumption DEF HandleForeign
  <2> QED BY <2>1, <2>2, ForeignAssumption
<1> DEFINE a == TrustedSubnetServerInterceptor(c)
<1>2. Refused(c, a) \/ Panics(c, a) \/ Reads(c, a) \/ Stores1(c, a)
  BY <1>1, Outcome
<1>3. UNCHANGED <<subnet, reporter, cancelled, queue, number, late>>
  BY <1>1 DEF Handle, agentVars
<1>4. CASE Panics(c, a)
  <2>1. Down /\ crashed' = TRUE
    BY <1>1, <1>4 DEF Handle, Panics
  <2>2. TypeOK'
    BY <1>3, <2>1, EmptyStoreType DEF Down, NoAnswer, Methods
  <2>3. OneSample'
    BY <2>1 DEF Down, OneSample, AgentPart, EmptyStore, EmptyMap
  <2> QED BY <1>3, <1>4, <2>1, <2>2, <2>3 DEF Down, Inv, NoCallKills, Panics
<1>5. CASE ~Panics(c, a)
  <2>1. a.status # "panic"
    BY <1>2, <1>5 DEF Refused, Panics, Reads, Stores1
  <2>2. /\ stor' = a.stor /\ wire' = others
        /\ shown' = IF a.status = "OK" /\ nr # 0 THEN nr ELSE shown
        /\ last' = [method |-> c.method, status |-> a.status, got |-> a.got]
        /\ up' = up /\ crashed' = crashed
    BY <1>1, <2>1 DEF Handle
  <2>3. a.stor \in Stores /\ a.got \in SUBSET PbMetric
        /\ a.status \in {"OK", "BadRequest", "NotFound", "InternalServerError", "ErrTrust"}
    BY <1>2, <1>5, StoreType DEF Refused, Reads, Stores1
  <2>4. c.method \in Methods
    BY DEF Call
  <2>5. TypeOK'
    BY <1>1, <1>3, <2>2, <2>3, <2>4
  <2>6. shown' \in 0..number /\ (~late => shown' >= shown)
    BY <1>1, <2>2 DEF Inv
  <2>7. Inv'
    BY <1>1, <1>3, <2>2, <2>6 DEF Inv
  <2>8. OneSample'
    <3>1. CASE nr # 0 /\ a.status = "OK"
      <4>1. AgentPart(a.stor) = Gathered(Sample(nr), "gauge")
        BY <1>1, <3>1, ReportReplacesAgentPart
      <4> QED BY <2>2, <3>1, <4>1 DEF OneSample
    <3>2. CASE a.stor = stor /\ shown' = shown
      BY <2>2, <3>2 DEF OneSample
    <3>3. CASE nr = 0
      <4>1. Stores1(c, a) => AgentPart(a.stor) = AgentPart(stor)
        BY <1>1, <3>3, ForeignKeepsAgentPart
      <4>2. AgentPart(a.stor) = AgentPart(stor)
        BY <1>2, <1>5, <4>1 DEF Refused, Reads
      <4> QED BY <2>2, <3>3, <4>2 DEF OneSample
    <3> QED BY <1>2, <1>5, <2>2, <3>1, <3>2, <3>3 DEF Refused, Reads, Stores1
  <2> QED BY <1>3, <2>2, <2>5, <2>6, <2>7, <2>8 DEF NoCallKills
<1> QED BY <1>4, <1>5

\* A report that has been begun is one call of the right type.
LEMMA QueueType ==
  ASSUME TypeOK, Inv, queue # <<>>
  PROVE  /\ number \in 1..MaxReports /\ Len(queue) = 1 /\ Tail(queue) = <<>>
         /\ Head(queue) \in Call /\ queue = <<Head(queue)>>
         /\ SendMetrics(Sample(number)) = <<Head(queue)>>
<1>1. number \in 1..MaxReports
  BY MaxReportsAssumption DEF TypeOK, Inv
<1>2. PICK c \in Call : SendMetrics(Sample(number)) = <<c>>
  BY <1>1, ReportCallType
<1>3. queue = <<c>>
  BY <1>2 DEF Inv
<1> QED BY <1>1, <1>2, <1>3

\* What the agent does.
LEMMA AgentStep ==
  ASSUME TypeOK, Inv, ReporterStep \/ ConnectionBreaks \/ Cancel
  PROVE  TypeOK' /\ Inv' /\ UNCHANGED <<subnet, up, crashed, stor, shown>>
<1> USE DEF TypeOK
<1>1. CASE Report
  <2>1. number + 1 \in 1..MaxReports
    BY <1>1, MaxReportsAssumption DEF Report
  <2>2. PICK c \in Call : SendMetrics(Sample(number + 1)) = <<c>>
    BY <2>1, ReportCallType
  <2>3. ~late => wire = {}
    BY <1>1 DEF Report, Inv
  <2>4. queue' \in Seq(Call) /\ queue' # <<>>
    <3>1. queue' = <<c>>
      BY <1>1, <2>2 DEF Report
    <3> QED BY <3>1
  <2>5. TypeOK'
    BY <1>1, <2>4 DEF Report
  <2> QED BY <1>1, <2>1, <2>3, <2>5 DEF Report, Inv
<1>2. CASE Invoke
  BY <1>2, QueueType DEF Invoke, Inv
<1>3. CASE InvokeFails \/ Return
  <2>1. queue' = <<>> /\ reporter' = "select" /\ reporter \in {"send", "wait"}
    BY <1>3, QueueType DEF InvokeFails, Return, Over
  <2>2. ~late => wire = {}
    <3>1. CASE InvokeFails
      BY <3>1 DEF InvokeFails, Inv
    <3>2. CASE Return
      <4>1. ASSUME ~late, NEW d \in wire
            PROVE  d \in Mine
        BY <3>2, <4>1, QueueType DEF Return, Inv, Mine
      <4> QED BY <3>2, <4>1 DEF Return
    <3> QED BY <1>3, <3>1, <3>2
  <2> QED BY <1>3, <2>1, <2>2 DEF InvokeFails, Return, Inv
<1>4. CASE Abandon
  <2>1. queue' = <<>> /\ reporter' = "select"
    BY <1>4, QueueType DEF Abandon, Over
  <2>2. ~late => wire \subseteq Mine
    <3>1. ASSUME ~late, NEW d \in wire
          PROVE  d \in Mine
      BY <1>4, <3>1, QueueType DEF Abandon, Inv, Mine
    <3> QED BY <3>1
  <2>3. wire' \subseteq wire /\ (~late' => ~late /\ wire' = {})
    BY <1>4, <2>2 DEF Abandon
  <2> QED BY <1>4, <2>1, <2>3 DEF Abandon, Inv
<1>5. CASE ReportStop \/ Cancel
  BY <1>5 DEF ReportStop, Cancel, Inv
<1> QED BY <1>1, <1>2, <1>3, <1>4, <1>5 DEF ReporterStep, CtxDone, ConnectionBreaks

LEMMA NextStep ==
  ASSUME TypeOK, Inv, OneSample, NoCallKills, [Next]_vars
  PROVE  /\ TypeOK' /\ Inv' /\ OneSample' /\ NoCallKills'
         /\ up' /\ ~late => shown' >= shown
<1>0. shown \in Nat
  BY DEF TypeOK
<1>1. CASE ReporterStep \/ ConnectionBreaks \/ Cancel
  BY <1>0, <1>1, AgentStep DEF OneSample, NoCallKills
<1>2. CASE \/ \E d \in wire : HandleReport(d)
           \/ \E c \in Foreign : HandleForeign(c)
  BY <1>2, HandleStep
<1>3. CASE Kill
  <2>1. TypeOK'
    BY <1>3, EmptyStoreType DEF Kill, Down, TypeOK, NoAnswer, Methods, agentVars
  <2>2. OneSample'
    BY <1>3 DEF Kill, Down, OneSample, AgentPart, EmptyStore, EmptyMap
  <2> QED BY <1>3, <2>1, <2>2 DEF Kill, Down, agentVars, TypeOK, Inv, NoCallKills
<1>4. CASE Boot
  <2>1. /\ UNCHANGED <<subnet, stor, wire, shown, last, agentVars>>
        /\ up' = TRUE /\ crashed' = FALSE
    BY <1>4 DEF Boot
  <2>2. TypeOK'
    BY <2>1 DEF TypeOK, agentVars
  <2>3. Inv' /\ OneSample' /\ NoCallKills'
    BY <2>1 DEF agentVars, Inv, OneSample, NoCallKills
  <2> QED BY <1>0, <2>1, <2>2, <2>3
<1>5. CASE UNCHANGED vars
  BY <1>0, <1>5 DEF vars, agentVars, TypeOK, Inv, OneSample, NoCallKills
<1> QED BY <1>1, <1>2, <1>3, <1>4, <1>5 DEF Next

\* Types, the inductive invariant and, at its side, the two safety invariants: the
\* agent's gauges are one sample's, and only a bad TRUSTED_SUBNET lets a call end the
\* process, for any sample, any other clients and any network.
THEOREM RPCInvariance == Spec => [](TypeOK /\ Inv /\ OneSample /\ NoCallKills)
<1>1. (TypeOK /\ Inv /\ OneSample /\ NoCallKills) /\ [Next]_vars
        => (TypeOK /\ Inv /\ OneSample /\ NoCallKills)'
  BY NextStep
<1> QED BY Initially, <1>1, PTL DEF Spec

\* The types alone: the lists the methods build, the answers and the store they leave.
THEOREM RPCTypes == Spec => []TypeOK
BY RPCInvariance, PTL

\* One by one: what the agent's gauges in the store are.
THEOREM GaugesAreOneSample == Spec => []OneSample
BY RPCInvariance, PTL

\* No call ends the process when TRUSTED_SUBNET is empty or a network.
THEOREM CallsDoNotKill == Spec => []NoCallKills
BY RPCInvariance, PTL

\* An older sample replaces a newer one only after a call was given up that arrived
\* even so.
THEOREM SamplesDoNotGoBack == Spec => NewestSample
<1>1. (TypeOK /\ Inv /\ OneSample /\ NoCallKills) /\ [Next]_vars
        => (up' /\ ~late => shown' >= shown)
  BY NextStep
<1> QED BY RPCInvariance, <1>1, PTL DEF Spec, NewestSample

\* What every step does to the store and to the last answer.
Answered(c, a) ==
  /\ stor' = a.stor
  /\ last' = [method |-> c.method, status |-> a.status, got |-> a.got]
  /\ Refused(c, a) \/ Reads(c, a) \/ Stores1(c, a)

LEMMA StoreStep ==
  ASSUME TypeOK, Inv, [Next]_vars
  PROVE  \/ stor' = stor /\ last' = last
         \/ ~up' /\ stor' = EmptyStore /\ last' = NoAnswer
         \/ \E c \in Call : \E a : Answered(c, a)
<1>1. ASSUME NEW c \in Call, NEW nr, NEW others, Handle(c, nr, others),
             c.method = "AddMetric" => Len(c.ms) <= 1
      PROVE  \/ ~up' /\ stor' = EmptyStore /\ last' = NoAnswer
             \/ \E a : Answered(c, a)
  <2> DEFINE a == TrustedSubnetServerInterceptor(c)
  <2>1. Refused(c, a) \/ Panics(c, a) \/ Reads(c, a) \/ Stores1(c, a)
    BY <1>1, Outcome DEF TypeOK
  <2>2. CASE a.status = "panic"
    BY <1>1, <2>2 DEF Handle, Down
  <2>3. CASE a.status # "panic"
    BY <1>1, <2>1, <2>3 DEF Handle, Panics, Answered
  <2> QED BY <2>2, <2>3
<1>2. CASE \E d \in wire : HandleReport(d)
  <2>1. PICK d \in wire : HandleReport(d)
    BY <1>2
  <2>2. d.nr \in 1..MaxReports /\ SendMetrics(Sample(d.nr)) = <<d.call>> /\ d.call \in Call
    BY MaxReportsAssumption DEF TypeOK, Inv
  <2>3. d.call.method = "AddMetrics"
    BY <2>2, ReportCallType
  <2> QED BY <1>1, <2>1, <2>2, <2>3 DEF HandleReport
<1>3. CASE \E c \in Foreign : HandleForeign(c)
  BY <1>1, <1>3, ForeignAssumption DEF HandleForeign
<1>4. CASE ReporterStep \/ ConnectionBreaks \/ Cancel
  BY <1>4 DEF ReporterStep, ConnectionBreaks, Cancel, Report, Invoke, InvokeFails, Return,
              CtxDone, Abandon, ReportStop
<1>5. CASE Kill \/ Boot \/ UNCHANGED vars
  BY <1>5 DEF Kill, Down, Boot, vars
<1> QED BY <1>2, <1>3, <1>4, <1>5 DEF Next

\* A running server's store changes by an update that is answered without an error only,
\* for lists of any length.
THEOREM SuccessChanges == Spec => OnlySuccessChanges
<1>1. TypeOK /\ Inv /\ [Next]_vars =>
        (up' /\ stor' # stor => last'.status = "OK" /\ last'.method \in {"AddMetric", "AddMetrics"})
  <2> SUFFICES ASSUME TypeOK, Inv, [Next]_vars, up', stor' # stor
               PROVE  last'.status = "OK" /\ last'.method \in {"AddMetric", "AddMetrics"}
    OBVIOUS
  <2>1. PICK c \in Call : \E a : Answered(c, a)
    BY StoreStep
  <2>2. PICK a : Answered(c, a)
    BY <2>1
  <2>3. Stores1(c, a)
    BY <2>2 DEF Answered, Refused, Reads
  <2> QED BY <2>2, <2>3 DEF Answered, Stores1
<1> QED BY RPCInvariance, <1>1, PTL DEF Spec, OnlySuccessChanges

\* Readers get metrics of the store, and GetMetrics all of them, for any store.
THEOREM ReadersSeeTheStore == Spec => []ReadsAreStored
<1>1. Init => ReadsAreStored
  BY DEF Init, NoAnswer, ReadsAreStored
<1>2. TypeOK /\ Inv /\ ReadsAreStored /\ [Next]_vars => ReadsAreStored'
  <2> SUFFICES ASSUME TypeOK, Inv, ReadsAreStored, [Next]_vars PROVE ReadsAreStored'
    OBVIOUS
  <2>1. CASE stor' = stor /\ last' = last
    BY <2>1 DEF ReadsAreStored, Stored
  <2>2. CASE last' = NoAnswer
    BY <2>2 DEF NoAnswer, ReadsAreStored
  <2>3. ASSUME NEW c \in Call, NEW a, Answered(c, a)
        PROVE  ReadsAreStored'
    <3>1. CASE Refused(c, a) \/ Stores1(c, a)
      BY <2>3, <3>1 DEF Answered, Refused, Stores1, ReadsAreStored
    <3>2. CASE Reads(c, a)
      <4>1. Stored' = Stored
        BY <2>3, <3>2 DEF Answered, Reads, Stored
      <4>2. \A m \in Stored : m.mtype # "none"
        BY DEF Stored, Entries
      <4>3. \A h \in Held : h.val \notin NaNs => Equal(h, h)
        BY <4>2 DEF Held, Equal
      <4>4. last'.got = a.got /\ last'.method = c.method
        BY <2>3 DEF Answered
      <4>5. Held' = Held
        BY <4>1 DEF Held
      <4>6. a.got \subseteq Held /\ (c.method = "GetMetrics" => a.got = Held)
        BY <3>2 DEF Reads
      <4> QED BY <4>3, <4>4, <4>5, <4>6 DEF Held, ReadsAreStored
    <3> QED BY <2>3, <3>1, <3>2 DEF Answered
  <2> QED BY <2>1, <2>2, <2>3, StoreStep
<1> QED BY RPCInvariance, <1>1, <1>2, PTL DEF Spec
=============================================================================
