---------------------------- MODULE MCBackupStore ----------------------------
(* Values for model-checking BackupStore: one metric name, used both as a     *)
(* gauge and as a counter, so that every request touches both maps or races   *)
(* on one; counters of two bits, so that two increments overflow.             *)
EXTENDS BackupStore, TLC

CONSTANTS h1, h2

TwoHandlers == {h1, h2}

Gauge(v) == [id |-> "m", mtype |-> "gauge", val |-> v]
Count(d) == [id |-> "m", mtype |-> "counter", val |-> d]
Other == [id |-> "m", mtype |-> "other", val |-> Nil]

Single(m) == [op |-> "UpdateMetric", ms |-> <<m>>]
Batch(ms) == [op |-> "UpdateMetrics", ms |-> ms]
List == [op |-> "ForEachMetrics", ms |-> <<>>]

\* Updates of either map and of both with the counter twice in the list, a gauge
\* that cannot be saved, a list that fails on a nil value after a good metric,
\* and a listing.
SafetyRequests ==
  {Single(Gauge("NaN")), Single(Count(1)), Batch(<<Gauge("one"), Count(-1), Count(1)>>),
   Batch(<<Gauge("one"), Gauge(Nil)>>), List}

\* One of each kind, for liveness; the values are of no importance there.
LivenessRequests ==
  {Single(Gauge("one")), Batch(<<Gauge("one")>>), Batch(<<Other>>), List}

FewGauges == {"one", "NaN"}
OnlyNaN == {"NaN"}

MCIDs == {"m"}

HandlersAlike == Permutations(Handlers)
=============================================================================
