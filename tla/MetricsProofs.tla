---------------------------- MODULE MetricsProofs ----------------------------
(***************************************************************************)
(* Lemmas about the operators of Metrics, for every value of its constants.*)
(***************************************************************************)
EXTENDS Metrics, WellFoundedInduction, TLAPS

\* A map is a function from some names to values, and conversely.
LEMMA MapsDef ==
  ASSUME NEW S, NEW f
  PROVE  f \in Maps(S) <=> DOMAIN f \subseteq IDs /\ f \in [DOMAIN f -> S]
BY DEF Maps

\* Whatever is added, the counter stays a machine integer.
LEMMA WrapInt64 ==
  ASSUME NEW n \in Int
  PROVE  Wrap(n) \in Int64
<1> DEFINE w == 2 * HalfRange
<1>1. w \in Nat \ {0}
  BY HalfRangeAssumption
<1>2. \A a \in Int : a % w \in 0 .. (w - 1)
  BY <1>1
<1>3. (n + HalfRange) % w \in 0 .. (w - 1)
  BY <1>2, HalfRangeAssumption
<1> QED BY <1>3, HalfRangeAssumption DEF Wrap, Int64

\* A sum that does not leave the range is the plain sum.
LEMMA WrapInRange ==
  ASSUME NEW n \in Int64
  PROVE  Wrap(n) = n
<1> DEFINE w == 2 * HalfRange
<1>1. w \in Nat \ {0}
  BY HalfRangeAssumption
<1>2. \A a \in 0 .. (w - 1) : a % w = a
  BY <1>1
<1>3. n + HalfRange \in 0 .. (w - 1)
  BY HalfRangeAssumption DEF Int64
<1> QED BY <1>2, <1>3, HalfRangeAssumption DEF Wrap, Int64

LEMMA PutType ==
  ASSUME NEW S, NEW f \in Maps(S), NEW g \in Maps(S)
  PROVE  Put(f, g) \in Maps(S)
BY MapsDef DEF Put

LEMMA AddType ==
  ASSUME NEW f \in Maps(Int64), NEW g \in Maps(Int64)
  PROVE  Add(f, g) \in Maps(Int64)
<1>1. ASSUME NEW id
      PROVE  Lookup(f, id) \in Int /\ Lookup(g, id) \in Int
  BY MapsDef, HalfRangeAssumption DEF Lookup, Int64
<1>2. \A id : Wrap(Lookup(f, id) + Lookup(g, id)) \in Int64
  BY <1>1, WrapInt64
<1> QED BY <1>2, MapsDef DEF Add

\* A set of naturals has a least element.
LEMMA LeastNat ==
  ASSUME NEW T \in SUBSET Nat, T # {}
  PROVE  \E x \in T : \A y \in T : x <= y
<1> DEFINE R == OpToRel(<, Nat)
<1>1. IsWellFoundedOn(R, Nat)
  BY NatLessThanWellFounded
<1>2. PICK x \in T : \A y \in T : ~(<<y, x>> \in R)
  BY <1>1, WFMin
<1>3. \A y \in T : ~(y < x)
  BY <1>2 DEF OpToRel
<1> QED BY <1>3

\* Induction over a set of naturals.
LEMMA NatInduct ==
  ASSUME NEW n \in Nat, NEW T, 0 \in T, \A i \in 0..(n - 1) : i \in T => i + 1 \in T
  PROVE  \A i \in 0..n : i \in T
<1> DEFINE Missing == {i \in 0..n : i \notin T}
<1> SUFFICES ASSUME Missing # {} PROVE FALSE
  OBVIOUS
<1>1. Missing \in SUBSET Nat
  OBVIOUS
<1>2. PICK i \in Missing : \A j \in Missing : i <= j
  BY <1>1, LeastNat
<1>3. i # 0 /\ i \in 0..n
  OBVIOUS
<1>4. i - 1 \in 0..(n - 1) /\ i - 1 \notin Missing
  BY <1>2, <1>3
<1>5. (i - 1) + 1 \in T
  BY <1>4
<1> QED BY <1>3, <1>5

\* The operator behind "the last delta of a name wins" is well defined: among
\* the metrics of one type and name in a list there is a last one.
LEMMA LastPositionExists ==
  ASSUME NEW ms \in Seq(Metric), NEW t, NEW k \in Positions(ms, t)
  PROVE  LET l == LastPosition(ms, t, ms[k].id) IN
           /\ l \in Positions(ms, t)
           /\ ms[l].id = ms[k].id
           /\ \A j \in Positions(ms, t) : ms[j].id = ms[k].id => j <= l
<1> DEFINE id == ms[k].id
           Same == {i \in Positions(ms, t) : ms[i].id = id}
           T == {Len(ms) - i : i \in Same}
<1>1. /\ Len(ms) \in Nat
      /\ DOMAIN ms = 1 .. Len(ms)
  OBVIOUS
<1>2. Same \subseteq 1 .. Len(ms)
  BY <1>1 DEF Positions
<1>3. T \in SUBSET Nat /\ T # {}
  <2>1. k \in Same
    OBVIOUS
  <2>2. Len(ms) - k \in T
    BY <2>1
  <2>3. \A i \in Same : Len(ms) - i \in Nat
    BY <1>1, <1>2
  <2> QED BY <2>2, <2>3
<1>4. PICK x \in T : \A y \in T : x <= y
  BY <1>3, LeastNat
<1>5. PICK l \in Same : x = Len(ms) - l
  BY <1>4
<1>6. \A j \in Same : j <= l
  <2> TAKE j \in Same
  <2>1. Len(ms) - l <= Len(ms) - j
    BY <1>4, <1>5
  <2>2. l \in Nat /\ j \in Nat
    BY <1>1, <1>2, <1>5
  <2> QED BY <2>1, <2>2, <1>1
<1>7. \E i \in Positions(ms, t) :
        ms[i].id = id /\ \A j \in Positions(ms, t) : ms[j].id = id => j <= i
  BY <1>5, <1>6
<1> HIDE DEF T
<1> QED BY <1>7 DEF LastPosition

\* The values of one valid list that are gathered for one type.
LEMMA GatheredType ==
  ASSUME NEW ms \in Seq(Metric), \A i \in DOMAIN ms : Valid(ms[i])
  PROVE  /\ Gathered(ms, "gauge") \in Maps(GaugeVals)
         /\ Gathered(ms, "counter") \in Maps(Int64)
<1>1. ASSUME NEW t, NEW S,
             \A i \in Positions(ms, t) : ms[i].id \in IDs /\ ms[i].val \in S
      PROVE  Gathered(ms, t) \in Maps(S)
  <2>1. ASSUME NEW id \in {ms[i].id : i \in Positions(ms, t)}
        PROVE  ms[LastPosition(ms, t, id)].val \in S
    <3>1. PICK k \in Positions(ms, t) : id = ms[k].id
      BY <2>1
    <3> QED BY <3>1, <1>1, LastPositionExists
  <2>2. {ms[i].id : i \in Positions(ms, t)} \subseteq IDs
    BY <1>1
  <2> DEFINE g == Gathered(ms, t)
             D == {ms[i].id : i \in Positions(ms, t)}
  <2>3. g \in [D -> S] /\ DOMAIN g = D
    BY <2>1 DEF Gathered
  <2> QED BY <2>2, <2>3, MapsDef
<1>2. \A i \in DOMAIN ms : ms[i] \in Metric
  OBVIOUS
<1>3. \A i \in Positions(ms, "gauge") : ms[i].id \in IDs /\ ms[i].val \in GaugeVals
  BY <1>2 DEF Positions, Metric, Valid
<1>4. \A i \in Positions(ms, "counter") : ms[i].id \in IDs /\ ms[i].val \in Int64
  BY <1>2 DEF Positions, Metric, Valid
<1>5. Gathered(ms, "gauge") \in Maps(GaugeVals)
  BY <1>1, <1>3
<1>6. Gathered(ms, "counter") \in Maps(Int64)
  BY <1>1, <1>4
<1> QED BY <1>5, <1>6

LEMMA EmptyStoreType == EmptyStore \in Stores
BY MapsDef DEF EmptyStore, EmptyMap, Stores

\* A single update of a valid metric gives a store again.
LEMMA UpdateMetricType ==
  ASSUME NEW s \in Stores, NEW m \in Metric, Valid(m)
  PROVE  UpdateMetric(s, m) \in Stores
<1>0. s.gauge \in Maps(GaugeVals) /\ s.counter \in Maps(Int64)
  BY DEF Stores
<1>1. CASE m.mtype = "gauge"
  <2>1. Only(m) \in Maps(GaugeVals)
    BY <1>1, MapsDef DEF Only, Metric, Valid
  <2>2. Put(s.gauge, Only(m)) \in Maps(GaugeVals)
    BY <1>0, <2>1, PutType
  <2> QED BY <1>1, <2>2 DEF UpdateMetric, Stores
<1>2. CASE m.mtype # "gauge"
  <2>1. Only(m) \in Maps(Int64)
    BY <1>2, MapsDef DEF Only, Metric, Valid
  <2>2. Add(s.counter, Only(m)) \in Maps(Int64)
    BY <1>0, <2>1, AddType
  <2> QED BY <1>2, <2>2 DEF UpdateMetric, Stores
<1> QED BY <1>1, <1>2

\* So do the two halves of a list update, one after the other.
LEMMA MergeType ==
  ASSUME NEW s \in Stores, NEW ms \in Seq(Metric), \A i \in DOMAIN ms : Valid(ms[i])
  PROVE  MergeGaugesOf(s, ms) \in Stores /\ MergeCountersOf(s, ms) \in Stores
<1>1. s.gauge \in Maps(GaugeVals) /\ s.counter \in Maps(Int64)
  BY DEF Stores
<1>2. Put(s.gauge, Gathered(ms, "gauge")) \in Maps(GaugeVals)
  BY <1>1, GatheredType, PutType
<1>3. Add(s.counter, Gathered(ms, "counter")) \in Maps(Int64)
  BY <1>1, GatheredType, AddType
<1>4. MergeGaugesOf(s, ms) \in Stores
  BY <1>2 DEF MergeGaugesOf, Stores
<1>5. MergeCountersOf(s, ms) \in Stores
  BY <1>3 DEF MergeCountersOf, Stores
<1> QED BY <1>4, <1>5

\* A list update is its two halves.
LEMMA UpdateMetricsType ==
  ASSUME NEW s \in Stores, NEW ms \in Seq(Metric), \A i \in DOMAIN ms : Valid(ms[i])
  PROVE  UpdateMetrics(s, ms) \in Stores
<1>1. MergeGaugesOf(s, ms) \in Stores
  BY MergeType
<1> QED BY <1>1, MergeType DEF UpdateMetrics
=============================================================================
