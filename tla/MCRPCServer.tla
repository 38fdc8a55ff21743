----------------------------- MODULE MCRPCServer -----------------------------
(* Values for model-checking RPCServer: a sample of two gauges and a counter,   *)
(* three reports, and other clients' calls that are answered in every way.      *)
EXTENDS RPCServer

CONSTANT NaN

MCIDs == {"alloc", "free", "own", "PollCount"}
MCGauges == {1, 2, 3, NaN}

Gauge(id, v) == [id |-> id, mtype |-> "gauge", val |-> v]

\* The gauges of a sample tell its number.
MCSample(n) ==
  <<Gauge("alloc", n), [id |-> "PollCount", mtype |-> "counter", val |-> 1], Gauge("free", n)>>

MCMember == {<<"inside", "net">>}

Pb(spec, id, v) == [id |-> id, spec |-> spec, val |-> v]

Ask(method, ms, key, ip) == [method |-> method, ms |-> ms, key |-> key, ip |-> ip]
Key(id, mtype) == [id |-> id, mtype |-> mtype]

\* Lists that are good, and that turn bad after a good metric; keys that are there,
\* are not, and cannot be; addresses that are trusted or not.
MCForeign ==
  {Ask("AddMetrics", <<Pb("gauge", "own", NaN), Pb("counter", "PollCount", 1)>>, Nil, "inside"),
   Ask("AddMetrics", <<Pb("counter", "PollCount", 1), Pb("none", "own", Nil)>>, Nil, Nil),
   Ask("AddMetric", <<Pb("gauge", "own", 1)>>, Nil, "outside"),
   Ask("AddMetric", <<Pb("none", "own", Nil)>>, Nil, Nil),
   Ask("AddMetric", <<>>, Nil, Nil),
   Ask("GetMetric", <<>>, Key("PollCount", "counter"), Nil),
   Ask("GetMetric", <<>>, Key("own", "other"), Nil),
   Ask("GetMetrics", <<>>, Nil, "inside"),
   Ask("Ping", <<>>, Nil, Nil)}
=============================================================================
