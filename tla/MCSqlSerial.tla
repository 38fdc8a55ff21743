----------------------------- MODULE MCSqlSerial -----------------------------
(* Values for model-checking SqlSerial: two names, lists that lock them in      *)
(* both orders, counters of two bits.  *)
EXTENDS SqlSerial, TLC

CONSTANTS c1, c2, c3

ThreeConns == {c1, c2, c3}
MCIDs == {"a", "b"}
MCGauges == {"zero", "one"}

Gauge(id, v) == [id |-> id, mtype |-> "gauge", val |-> v]
Count(id, d) == [id |-> id, mtype |-> "counter", val |-> d]
Other(id) == [id |-> id, mtype |-> "other", val |-> Nil]

Single(m) == [op |-> "UpdateMetric", ms |-> <<m>>]
Batch(ms) == [op |-> "UpdateMetrics", ms |-> ms]

\* A single increment, lists in both orders (they deadlock), one of them with the
\* counter twice, one that is refused and one that panics after a good metric.
MCRequests ==
  {Single(Count("a", 1)),
   Batch(<<Gauge("b", "zero"), Count("a", -1)>>),
   Batch(<<Count("a", 1), Gauge("b", "one"), Count("a", 1)>>),
   Batch(<<Gauge("b", "one"), Other("a")>>),
   Batch(<<Count("a", 1), Gauge("b", Nil)>>)}
=============================================================================
