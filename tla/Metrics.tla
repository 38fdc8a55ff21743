------------------------------- MODULE Metrics -------------------------------
(***************************************************************************)
(* The data of the metrics server: a metric as a request carries it, the   *)
(* in-memory store (internal/storage/storage.go, type Storage) and what    *)
(* its two update methods compute.  The store is a pair of partial maps,   *)
(* as the two Go maps are; counters are machine integers that wrap.        *)
(***************************************************************************)
EXTENDS Integers, Sequences

CONSTANTS
  IDs,         \* metric names
  GaugeVals,   \* float64 values, told apart only by what encoding/json does with them
  NonFinite,   \* the ones of them that json.Marshal refuses (NaN, +Inf, -Inf)
  HalfRange,   \* int64 is -HalfRange .. HalfRange-1 (2^63 in the program)
  Nil,         \* the nil pointer
  Requests     \* the calls the handlers make of the store

ASSUME NonFiniteAssumption == NonFinite \subseteq GaugeVals
ASSUME HalfRangeAssumption == HalfRange \in Nat \ {0}
ASSUME NilAssumption == Nil \notin GaugeVals /\ Nil \notin Int

-----------------------------------------------------------------------------
(* Numbers and maps *)

Int64 == (-HalfRange) .. (HalfRange - 1)

\* Go's int64 addition wraps around silently.
Wrap(n) == ((n + HalfRange) % (2 * HalfRange)) - HalfRange

\* map[string]S
Maps(S) == UNION {[D -> S] : D \in SUBSET IDs}

EmptyMap == [id \in {} |-> Nil]

\* for key, value := range g { f[key] = value }
Put(f, g) ==
  [id \in DOMAIN f \cup DOMAIN g |-> IF id \in DOMAIN g THEN g[id] ELSE f[id]]

\* m[id], where a missing key reads as the zero value
Lookup(f, id) == IF id \in DOMAIN f THEN f[id] ELSE 0

\* for key, delta := range g { f[key] += delta }
Add(f, g) ==
  [id \in DOMAIN f \cup DOMAIN g |-> Wrap(Lookup(f, id) + Lookup(g, id))]

-----------------------------------------------------------------------------
(* Metrics and the store *)

\* A metric whose MType is neither "gauge" nor "counter" is "other"; val is the
\* pointer that belongs to the type (Value or Delta), Nil when it was not sent.
Metric ==
  [id : IDs, mtype : {"gauge"}, val : GaugeVals \cup {Nil}]
    \cup [id : IDs, mtype : {"counter"}, val : Int64 \cup {Nil}]
    \cup [id : IDs, mtype : {"other"}, val : {Nil}]

Stores == [gauge : Maps(GaugeVals), counter : Maps(Int64)]

EmptyStore == [gauge |-> EmptyMap, counter |-> EmptyMap]

\* A mutant for the runs: a pointer is stored without a look at it.
ValidUnchecked(m) == m.mtype # "other"

\* The store refuses an unknown type with an error and panics on a nil pointer.
Valid(m) == m.mtype # "other" /\ m.val # Nil

Only(m) == [id \in {m.id} |-> m.val]

\* Storage.UpdateMetric on a valid metric
UpdateMetric(s, m) ==
  IF m.mtype = "gauge"
  THEN [s EXCEPT !.gauge = Put(@, Only(m))]
  ELSE [s EXCEPT !.counter = Add(@, Only(m))]

\* Storage.UpdateMetrics first gathers the list in two temporary maps.  The
\* assignment (not +=) at line 279 keeps only the last delta of a counter.
Positions(ms, t) == {i \in DOMAIN ms : ms[i].mtype = t}

LastPosition(ms, t, id) ==
  CHOOSE i \in Positions(ms, t) :
    /\ ms[i].id = id
    /\ \A j \in Positions(ms, t) : ms[j].id = id => j <= i

Gathered(ms, t) ==
  [id \in {ms[i].id : i \in Positions(ms, t)} |-> ms[LastPosition(ms, t, id)].val]

\* ... and then merges them, gauges before counters.
MergeGaugesOf(s, ms) == [s EXCEPT !.gauge = Put(@, Gathered(ms, "gauge"))]

MergeCountersOf(s, ms) == [s EXCEPT !.counter = Add(@, Gathered(ms, "counter"))]

UpdateMetrics(s, ms) == MergeCountersOf(MergeGaugesOf(s, ms), ms)

-----------------------------------------------------------------------------
(* Requests *)

\* A call of a method of the store; a single update is a list of one metric.
RequestType ==
  [op : {"UpdateMetric"}, ms : {<<m>> : m \in Metric}]
    \cup [op : {"UpdateMetrics"}, ms : Seq(Metric)]
    \cup [op : {"ForEachMetrics"}, ms : {<<>>}]

ASSUME RequestsAssumption == Requests \subseteq RequestType

Accepted(r) == \A i \in DOMAIN r.ms : Valid(r.ms[i])

\* The store after an accepted update.
Effect(s, r) ==
  IF r.op = "UpdateMetric" THEN UpdateMetric(s, r.ms[1]) ELSE UpdateMetrics(s, r.ms)

\* json.Marshal of the BackupObject succeeds; its error is ignored by the
\* caller, which then writes no bytes at all.
Encodable(s) == \A id \in DOMAIN s.gauge : s.gauge[id] \notin NonFinite
=============================================================================
