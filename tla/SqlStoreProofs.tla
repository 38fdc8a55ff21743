---------------------------- MODULE SqlStoreProofs ----------------------------
(***************************************************************************)
(* Types and isolation of SqlStore, for any pool, any names and any lists: *)
(* no update is lost between transactions that run at the same time, each  *)
(* commit is as if its list had run alone, and on lists that both stores   *)
(* take alike they compute and answer the same.                            *)
(***************************************************************************)
EXTENDS SqlSerial, MetricsProofs, TLAPS

-----------------------------------------------------------------------------
(* One statement *)

\* A statement that is not refused writes a row.
LEMMA RowAfterType ==
  ASSUME NEW t \in Tables, NEW m \in Metric, Valid(m), Fits(t, m)
  PROVE  RowAfter(t, m) \in Row
<1>1. CASE m.id \in DOMAIN t
  <2>1. t[m.id] \in Row
    BY <1>1, MapsDef DEF Tables
  <2>2. RowAfter(t, m) = Changed(t[m.id], m)
    BY <1>1 DEF RowAfter
  <2>3. CASE m.mtype = "gauge"
    BY <2>1, <2>2, <2>3 DEF Changed, Row, Metric, Valid
  <2>4. CASE m.mtype # "gauge"
    BY <2>1, <2>2, <2>4 DEF Changed, Row, Metric, Valid, Fits
  <2> QED BY <2>3, <2>4
<1>2. CASE m.id \notin DOMAIN t
  <2>1. RowAfter(t, m) = Fresh(m)
    BY <1>2 DEF RowAfter
  <2>2. Fresh(m).delta \in Int64
    BY <2>1 DEF Fits
  <2>3. Fresh(m).value \in GaugeVals /\ Fresh(m).mtype \in {"gauge", "counter"}
    BY ZeroAssumption DEF Fresh, Metric, Valid
  <2> QED BY <2>1, <2>2, <2>3 DEF Fresh, Row
<1> QED BY <1>1, <1>2

\* What a metric of a list is.
LEMMA CurrentMetric ==
  ASSUME TypeOK, NEW c \in Conns, NEW m \in Current(c)
  PROVE  m \in Metric
<1>1. pos[c] \in DOMAIN req[c].ms /\ m = req[c].ms[pos[c]]
  BY DEF Current
<1>2. req[c] \in Requests \cup {NoReq}
  BY DEF TypeOK
<1>3. req[c] # NoReq
  BY <1>1 DEF NoReq
<1>4. req[c] \in RequestType
  BY <1>2, <1>3, RequestsAssumption
<1>5. CASE req[c] \in [op : {"UpdateMetric"}, ms : {<<x>> : x \in Metric}]
  <2>1. PICK x \in Metric : req[c].ms = <<x>>
    BY <1>5
  <2> QED BY <1>1, <2>1
<1>6. CASE req[c] \in [op : {"UpdateMetrics"}, ms : Seq(Metric)]
  BY <1>1, <1>6
<1>7. CASE req[c] \in [op : {"ForEachMetrics"}, ms : {<<>>}]
  BY <1>1, <1>7
<1> QED BY <1>4, <1>5, <1>6, <1>7 DEF RequestType

\* A map with one key, and the empty map, are maps.
LEMMA OneKey ==
  ASSUME NEW S, NEW id \in IDs, NEW v \in S
  PROVE  [i \in {id} |-> v] \in Maps(S)
BY MapsDef

LEMMA EmptyType == ASSUME NEW S PROVE EmptyMap \in Maps(S)
BY MapsDef DEF EmptyMap

LEMMA ViewType == ASSUME TypeOK, NEW c \in Conns PROVE View(c) \in Tables
BY PutType DEF TypeOK, View, Tables

\* A released connection is as at the start.
LEMMA ReleaseType ==
  ASSUME TypeOK, NEW c \in Conns, NEW s \in {"ok", "error", "cut"}, NEW b \in BOOLEAN,
         Release(c, s, b), table' \in Tables
  PROVE  TypeOK'
<1>1. EmptyMap \in Tables /\ EmptyMap \in Maps(Row \cup {Nil})
  BY EmptyType DEF Tables
<1>2. [status |-> s, stored |-> b]
        \in [status : {"none", "ok", "error", "cut"}, stored : BOOLEAN]
  OBVIOUS
<1> QED BY <1>1, <1>2 DEF TypeOK, Release

-----------------------------------------------------------------------------
\* The types and the invariant of an empty database and an idle pool.
LEMMA InitInv == Init => TypeOK /\ Inv
<1> SUFFICES ASSUME Init PROVE TypeOK /\ Inv
  OBVIOUS
<1>1. EmptyMap \in Tables /\ EmptyMap \in Maps(Row \cup {Nil}) /\ DOMAIN EmptyMap = {}
  BY EmptyType DEF Tables, EmptyMap
<1>2. TypeOK
  BY <1>1 DEF Init, TypeOK, NoOutcome
<1>3. Inv
  BY <1>1 DEF Init, Inv, LocksAreExclusive, NoLostUpdate, OnlyListsHoldRows, NoReq
<1> QED BY <1>2, <1>3

-----------------------------------------------------------------------------
\* Every action keeps every variable in its set.
LEMMA TypeStep == ASSUME TypeOK, [Next]_vars PROVE TypeOK'
<1>1. ASSUME NEW c \in Conns, UpdateMetricSQL(c) PROVE TypeOK'
  <2>1. PICK m \in Current(c) : Valid(m) /\ Fits(table, m) /\ table' = Upsert(table, m)
    BY <1>1 DEF UpdateMetricSQL
  <2>2. table' \in Tables
    <3>1. m \in Metric
      BY CurrentMetric
    <3>2. RowAfter(table, m) \in Row
      BY <2>1, <3>1, RowAfterType DEF TypeOK
    <3>3. m.id \in IDs
      BY <3>1 DEF Metric
    <3> QED BY <2>1, <3>2, <3>3, OneKey, PutType DEF Upsert, TypeOK, Tables
  <2>3. PICK s \in {"ok", "cut"} : Release(c, s, TRUE)
    BY <1>1 DEF UpdateMetricSQL
  <2> QED BY <2>2, <2>3, ReleaseType
<1>2. ASSUME NEW c \in Conns, UpdateMetricFails(c) PROVE TypeOK'
  BY <1>2, ReleaseType DEF UpdateMetricFails, TypeOK
<1>3. ASSUME NEW c \in Conns, Statement(c) PROVE TypeOK'
  <2>1. PICK m \in Current(c) :
          /\ Valid(m) /\ Fits(View(c), m)
          /\ pending' = [pending EXCEPT ![c] =
                           Put(@, [id \in {m.id} |-> RowAfter(View(c), m)])]
          /\ base' = [base EXCEPT ![c] =
               Put([id \in {m.id} |-> IF id \in DOMAIN table THEN table[id] ELSE Nil], @)]
    BY <1>3 DEF Statement
  <2>2. m \in Metric /\ m.id \in IDs
    BY CurrentMetric DEF Metric
  <2>3. Put(pending[c], [id \in {m.id} |-> RowAfter(View(c), m)]) \in Tables
    <3>1. RowAfter(View(c), m) \in Row
      BY <2>1, <2>2, ViewType, RowAfterType
    <3> QED BY <2>2, <3>1, OneKey, PutType DEF TypeOK, Tables
  <2>4. Put([id \in {m.id} |-> IF id \in DOMAIN table THEN table[id] ELSE Nil], base[c])
          \in Maps(Row \cup {Nil})
    <3>1. (IF m.id \in DOMAIN table THEN table[m.id] ELSE Nil) \in Row \cup {Nil}
      BY MapsDef DEF TypeOK, Tables
    <3>2. [id \in {m.id} |-> IF id \in DOMAIN table THEN table[id] ELSE Nil]
            \in Maps(Row \cup {Nil})
      BY <2>2, <3>1, MapsDef
    <3> QED BY <3>2, PutType DEF TypeOK
  <2>5. pending' \in [Conns -> Tables] /\ base' \in [Conns -> Maps(Row \cup {Nil})]
    BY <2>1, <2>3, <2>4 DEF TypeOK
  <2>6. pos' \in [Conns -> Nat] /\ UNCHANGED <<table, pc, req, outcome>>
    <3>1. pos' = [pos EXCEPT ![c] = @ + 1] /\ UNCHANGED <<table, pc, req, outcome>>
      BY <1>3 DEF Statement
    <3> QED BY <3>1 DEF TypeOK
  <2> QED BY <2>5, <2>6 DEF TypeOK
<1>4. ASSUME NEW c \in Conns, Refused(c) \/ DeadlockDetected(c) PROVE TypeOK'
  BY <1>4 DEF Refused, DeadlockDetected, TypeOK
<1>5. ASSUME NEW c \in Conns, Rollback(c) PROVE TypeOK'
  BY <1>5, ReleaseType DEF Rollback, TypeOK
<1>6. ASSUME NEW c \in Conns, NilInList(c) PROVE TypeOK'
  BY <1>6 DEF NilInList, TypeOK
<1>7. ASSUME NEW c \in Conns, Commit(c) PROVE TypeOK'
  <2>1. table' \in Tables
    BY <1>7, ViewType DEF Commit
  <2>2. PICK s \in {"ok", "cut"} : Release(c, s, TRUE)
    BY <1>7 DEF Commit
  <2> QED BY <2>1, <2>2, ReleaseType
<1>8. ASSUME NEW c \in Conns, Break(c) PROVE TypeOK'
  BY <1>8, ReleaseType DEF Break, TypeOK
<1>9. ASSUME NEW c \in Conns, NEW r \in Requests, Begin(c, r) PROVE TypeOK'
  BY <1>9 DEF Begin, TypeOK, NoOutcome
<1>10. CASE Restart
  BY <1>10, EmptyType DEF Restart, TypeOK, NoOutcome, Tables
<1>11. CASE UNCHANGED vars
  BY <1>11 DEF vars, TypeOK
<1> QED BY <1>1, <1>2, <1>3, <1>4, <1>5, <1>6, <1>7, <1>8, <1>9, <1>10, <1>11
        DEF Next, Proceeds

-----------------------------------------------------------------------------
(* Isolation *)

\* Releasing a connection of a transaction that changed nothing that others
\* have locked preserves the invariant.
LEMMA ReleaseInv ==
  ASSUME TypeOK, Inv, NEW c \in Conns, NEW s, NEW b, Release(c, s, b),
         \A d \in Conns \ {c} : \A id \in DOMAIN pending[d] :
           /\ id \in DOMAIN table' <=> id \in DOMAIN table
           /\ id \in DOMAIN table => table'[id] = table[id]
  PROVE  Inv'
<1>1. /\ \A d \in Conns \ {c} : /\ pending'[d] = pending[d] /\ base'[d] = base[d]
                                /\ req'[d] = req[d] /\ pc'[d] = pc[d]
      /\ pending'[c] = EmptyMap /\ base'[c] = EmptyMap
      /\ req'[c] = NoReq /\ pc'[c] = "free"
  BY DEF Release, TypeOK
<1>2. DOMAIN EmptyMap = {}
  BY DEF EmptyMap
<1>3. LocksAreExclusive'
  BY <1>1, <1>2 DEF Inv, LocksAreExclusive
<1>4. NoLostUpdate'
  <2> SUFFICES ASSUME NEW d \in Conns, NEW id \in DOMAIN pending'[d]
               PROVE  base'[d][id] = IF id \in DOMAIN table' THEN table'[id] ELSE Nil
    BY DEF NoLostUpdate
  <2>1. d # c /\ id \in DOMAIN pending[d]
    BY <1>1, <1>2
  <2> QED BY <1>1, <2>1 DEF Inv, NoLostUpdate
<1>5. OnlyListsHoldRows'
  BY <1>1 DEF Inv, OnlyListsHoldRows, NoReq
<1> QED BY <1>3, <1>4, <1>5 DEF Inv

\* A step that leaves table, transactions and calls as they are, but for where
\* a busy connection is, preserves it as well.
LEMMA PlaceInv ==
  ASSUME TypeOK, Inv, NEW c \in Conns, NEW l, l # "free", pc[c] # "free",
         pc' = [pc EXCEPT ![c] = l], UNCHANGED <<table, req, pending, base>>
  PROVE  Inv'
<1>1. LocksAreExclusive' /\ NoLostUpdate'
  BY DEF Inv, LocksAreExclusive, NoLostUpdate
<1>2. OnlyListsHoldRows'
  BY DEF Inv, OnlyListsHoldRows, TypeOK
<1> QED BY <1>1, <1>2 DEF Inv

\* Every action preserves the invariant.
LEMMA InvStep == ASSUME TypeOK, Inv, [Next]_vars PROVE Inv'
<1>1. ASSUME NEW c \in Conns, UpdateMetricSQL(c) PROVE Inv'
  <2>1. PICK m \in Current(c) : Valid(m) /\ table' = Upsert(table, m)
    BY <1>1 DEF UpdateMetricSQL
  <2>2. \A d \in Conns \ {c} : m.id \notin DOMAIN pending[d]
    BY <1>1, <2>1 DEF UpdateMetricSQL, BlockedBy
  <2>3. DOMAIN table' = DOMAIN table \cup {m.id}
        /\ \A id \in DOMAIN table : id # m.id => table'[id] = table[id]
    BY <2>1 DEF Upsert, Put
  <2>4. \E s : Release(c, s, TRUE)
    BY <1>1 DEF UpdateMetricSQL
  <2> QED BY <2>2, <2>3, <2>4, ReleaseInv
<1>2. ASSUME NEW c \in Conns, UpdateMetricFails(c) \/ Rollback(c) \/ Break(c) PROVE Inv'
  <2>1. \E s, b : Release(c, s, b) /\ UNCHANGED table
    BY <1>2 DEF UpdateMetricFails, Rollback, Break
  <2> QED BY <2>1, ReleaseInv
<1>3. ASSUME NEW c \in Conns, Statement(c) PROVE Inv'
  <2> DEFINE was(id) == IF id \in DOMAIN table THEN table[id] ELSE Nil
  <2>1. PICK m \in Current(c) :
          /\ Valid(m)
          /\ pending' = [pending EXCEPT ![c] =
                           Put(@, [id \in {m.id} |-> RowAfter(View(c), m)])]
          /\ base' = [base EXCEPT ![c] = Put([id \in {m.id} |-> was(id)], @)]
    BY <1>3 DEF Statement
  <2>2. \A d \in Conns \ {c} : m.id \notin DOMAIN pending[d]
    BY <1>3, <2>1 DEF Statement, BlockedBy
  <2>3. /\ \A d \in Conns \ {c} : pending'[d] = pending[d] /\ base'[d] = base[d]
        /\ pending'[c] = Put(pending[c], [id \in {m.id} |-> RowAfter(View(c), m)])
        /\ base'[c] = Put([id \in {m.id} |-> was(id)], base[c])
    BY <2>1 DEF TypeOK
  <2>4. DOMAIN pending'[c] = DOMAIN pending[c] \cup {m.id}
    BY <2>3 DEF Put
  <2>5. /\ DOMAIN base'[c] = DOMAIN base[c] \cup {m.id}
        /\ \A id \in DOMAIN base[c] : base'[c][id] = base[c][id]
        /\ m.id \notin DOMAIN base[c] => base'[c][m.id] = was(m.id)
    BY <2>3 DEF Put
  <2>6. DOMAIN base[c] = DOMAIN pending[c]
    BY DEF Inv, OnlyListsHoldRows
  <2>7. LocksAreExclusive'
    BY <2>2, <2>3, <2>4 DEF Inv, LocksAreExclusive
  <2>8. NoLostUpdate'
    <3> SUFFICES ASSUME NEW d \in Conns, NEW id \in DOMAIN pending'[d]
                 PROVE  base'[d][id] = was(id)
      BY <1>3 DEF NoLostUpdate, Statement
    <3>1. CASE d # c
      BY <2>3, <3>1 DEF Inv, NoLostUpdate
    <3>2. CASE d = c /\ id \in DOMAIN pending[c]
      BY <2>5, <2>6, <3>2 DEF Inv, NoLostUpdate
    <3>3. CASE d = c /\ id \notin DOMAIN pending[c]
      BY <2>4, <2>5, <2>6, <3>3
    <3> QED BY <3>1, <3>2, <3>3
  <2>9. OnlyListsHoldRows'
    <3>1. pc' = pc /\ req' = req /\ req[c].op = "UpdateMetrics"
      BY <1>3 DEF Statement, Executing
    <3> QED BY <2>3, <2>4, <2>5, <2>6, <3>1 DEF Inv, OnlyListsHoldRows
  <2> QED BY <2>7, <2>8, <2>9 DEF Inv
<1>4. ASSUME NEW c \in Conns, Refused(c) \/ DeadlockDetected(c) \/ NilInList(c) PROVE Inv'
  <2>1. \E l \in {"rollback", "abandoned"} :
          pc[c] = "exec" /\ pc' = [pc EXCEPT ![c] = l] /\ UNCHANGED <<table, req, pending, base>>
    BY <1>4 DEF Refused, DeadlockDetected, NilInList, Executing
  <2> QED BY <2>1, PlaceInv
<1>5. ASSUME NEW c \in Conns, Commit(c) PROVE Inv'
  <2>1. DOMAIN table' = DOMAIN table \cup DOMAIN pending[c]
        /\ \A id \in DOMAIN table : id \notin DOMAIN pending[c] => table'[id] = table[id]
    BY <1>5 DEF Commit, View, Put
  <2>2. \A d \in Conns \ {c} : DOMAIN pending[d] \cap DOMAIN pending[c] = {}
    BY DEF Inv, LocksAreExclusive
  <2>3. \E s : Release(c, s, TRUE)
    BY <1>5 DEF Commit
  <2> QED BY <2>1, <2>2, <2>3, ReleaseInv
<1>6. ASSUME NEW c \in Conns, NEW r \in Requests, Begin(c, r) PROVE Inv'
  <2>1. LocksAreExclusive' /\ NoLostUpdate'
    BY <1>6 DEF Begin, Inv, LocksAreExclusive, NoLostUpdate
  <2>2. pending[c] = EmptyMap
    BY <1>6 DEF Begin, Inv, OnlyListsHoldRows, NoReq
  <2>3. OnlyListsHoldRows'
    BY <1>6, <2>2 DEF Begin, Inv, OnlyListsHoldRows, TypeOK
  <2> QED BY <2>1, <2>3 DEF Inv
<1>7. CASE Restart
  <2>1. DOMAIN EmptyMap = {}
    BY DEF EmptyMap
  <2> QED BY <1>7, <2>1
      DEF Restart, Inv, LocksAreExclusive, NoLostUpdate, OnlyListsHoldRows, NoReq
<1>8. CASE UNCHANGED vars
  BY <1>8 DEF vars, Inv, LocksAreExclusive, NoLostUpdate, OnlyListsHoldRows
<1> QED BY <1>1, <1>2, <1>3, <1>4, <1>5, <1>6, <1>7, <1>8 DEF Next, Proceeds

-----------------------------------------------------------------------------
\* Types and the inductive invariant, in every state.
THEOREM SqlInvariance == Spec => [](TypeOK /\ Inv)
<1>1. TypeOK /\ Inv /\ [Next]_vars => (TypeOK /\ Inv)'
  BY TypeStep, InvStep
<1> QED BY <1>1, InitInv, PTL DEF Spec

\* No statement leaves a sum that is not a bigint, or a null, in a row.
THEOREM SqlTypes == Spec => []TypeOK
BY SqlInvariance, PTL

\* No list or single update ever overwrites what another one has committed
\* since it read the row, whatever the order in which they lock rows.
THEOREM NoUpdateIsLost == Spec => []NoLostUpdate
<1>1. Inv => NoLostUpdate
  BY DEF Inv
<1> QED BY <1>1, SqlInvariance, PTL

-----------------------------------------------------------------------------
(* Serialisability *)

\* g has the tables before and after each of the first k statements of a list.
Solves(g, t, ms, k) ==
  g = [i \in 0..k |-> IF i = 0 THEN t ELSE Upsert(g[i - 1], ms[i])]

\* The recursion of Running has a solution.
LEMMA RunningExists ==
  ASSUME NEW t, NEW ms, NEW n \in Nat
  PROVE  \E g : Solves(g, t, ms, n)
<1> DEFINE T == {k \in 0..n : \E g : Solves(g, t, ms, k)}
<1>1. 0 \in T
  <2>1. Solves([i \in 0..0 |-> t], t, ms, 0)
    BY DEF Solves
  <2> QED BY <2>1
<1>2. ASSUME NEW k \in 0..(n - 1), k \in T
      PROVE  k + 1 \in T
  <2>1. PICK g : Solves(g, t, ms, k)
    BY <1>2
  <2> DEFINE h == [i \in 0..(k + 1) |-> IF i = k + 1 THEN Upsert(g[k], ms[k + 1]) ELSE g[i]]
  <2>2. \A i \in 0..k : h[i] = g[i]
    OBVIOUS
  <2>3. \A i \in 0..k : g[i] = IF i = 0 THEN t ELSE Upsert(g[i - 1], ms[i])
    BY <2>1 DEF Solves
  <2>4. ASSUME NEW i \in 0..(k + 1)
        PROVE  h[i] = IF i = 0 THEN t ELSE Upsert(h[i - 1], ms[i])
    <3>1. CASE i = k + 1
      <4>1. h[i] = Upsert(g[k], ms[k + 1]) /\ i # 0 /\ i - 1 = k
        BY <3>1
      <4>2. h[k] = g[k]
        BY <2>2
      <4> HIDE DEF h
      <4> QED BY <3>1, <4>1, <4>2
    <3>2. CASE i # k + 1 /\ i # 0
      <4>1. i \in 0..k /\ i - 1 \in 0..k
        BY <3>2
      <4> HIDE DEF h
      <4> QED BY <2>2, <2>3, <3>2, <4>1
    <3>3. CASE i = 0
      <4> HIDE DEF h
      <4> QED BY <2>2, <2>3, <3>3
    <3> QED BY <3>1, <3>2, <3>3
  <2>5. Solves(h, t, ms, k + 1)
    BY <2>4 DEF Solves
  <2> HIDE DEF h
  <2> QED BY <2>5
<1>3. n \in T
  <2> HIDE DEF T
  <2>1. \A i \in 0..n : i \in T
    BY <1>1, <1>2, NatInduct
  <2> QED BY <2>1
<1> QED BY <1>3

LEMMA RunningDef ==
  ASSUME NEW t, NEW ms \in Seq(Metric)
  PROVE  Running(t, ms) =
           [i \in 0..Len(ms) |-> IF i = 0 THEN t ELSE Upsert(Running(t, ms)[i - 1], ms[i])]
<1>1. Len(ms) \in Nat
  OBVIOUS
<1>2. \E g : Solves(g, t, ms, Len(ms))
  BY <1>1, RunningExists
<1> QED BY <1>2 DEF Running, Solves

\* One statement after the other.
LEMMA RunningStep ==
  ASSUME NEW t, NEW ms \in Seq(Metric)
  PROVE  /\ Running(t, ms)[0] = t
         /\ \A k \in 0..(Len(ms) - 1) :
              Running(t, ms)[k + 1] = Upsert(Running(t, ms)[k], ms[k + 1])
<1> DEFINE n == Len(ms)
           r == Running(t, ms)
<1>1. n \in Nat /\ 0 \in 0..n
  OBVIOUS
<1>2. \A i \in 0..n : r[i] = IF i = 0 THEN t ELSE Upsert(r[i - 1], ms[i])
  <2> HIDE DEF r
  <2>1. r = [i \in 0..n |-> IF i = 0 THEN t ELSE Upsert(r[i - 1], ms[i])]
    BY RunningDef DEF r
  <2> QED BY <2>1
<1> HIDE DEF r, n
<1>3. ASSUME NEW k \in 0..(n - 1)
      PROVE  r[k + 1] = Upsert(r[k], ms[k + 1])
  <2>1. k + 1 \in 0..n /\ k + 1 # 0 /\ (k + 1) - 1 = k
    BY <1>1
  <2> QED BY <1>2, <2>1
<1> QED BY <1>1, <1>2, <1>3 DEF n, r

\* Maps are put over each other in any grouping.
LEMMA PutPut == ASSUME NEW f, NEW g, NEW h PROVE Put(Put(f, g), h) = Put(f, Put(g, h))
BY DEF Put

\* The first n statements of a list write the map p of rows over the table.
Writes(p, t, ms, n) ==
  /\ p = [id \in {ms[i].id : i \in 1..n} |-> p[id]]
  /\ Running(t, ms)[n] = Put(t, p)

\* What they write depends on the rows they name only: it is the same map of rows for
\* any two tables that agree on these.
LEMMA SameWrites ==
  ASSUME NEW t, NEW u, NEW ms \in Seq(Metric), NEW n \in 0..Len(ms),
         t = Put(t, EmptyMap), u = Put(u, EmptyMap),
         \A i \in 1..n : /\ ms[i].id \in DOMAIN t <=> ms[i].id \in DOMAIN u
                         /\ ms[i].id \in DOMAIN t => t[ms[i].id] = u[ms[i].id]
  PROVE  \E p : Writes(p, t, ms, n) /\ Writes(p, u, ms, n)
<1> DEFINE Both(p, k) == Writes(p, t, ms, k) /\ Writes(p, u, ms, k)
           T == {k \in 0..n : \E p : Both(p, k)}
<1>0. Len(ms) \in Nat /\ n \in Nat /\ n <= Len(ms)
  OBVIOUS
<1>1. 0 \in T
  <2>1. EmptyMap = [id \in {ms[i].id : i \in 1..0} |-> EmptyMap[id]]
    BY DEF EmptyMap
  <2>2. Both(EmptyMap, 0)
    BY <2>1, RunningStep DEF Writes
  <2> HIDE DEF Both
  <2> QED BY <1>0, <2>2
<1>2. ASSUME NEW k \in 0..(n - 1), k \in T
      PROVE  k + 1 \in T
  <2>1. PICK p : Both(p, k)
    BY <1>2
  <2> DEFINE m == ms[k + 1]
             q == [id \in {m.id} |-> RowAfter(Put(t, p), m)]
  <2>2. k \in 0..(Len(ms) - 1) /\ k + 1 \in 1..n
    BY <1>0
  <2>3. RowAfter(Put(t, p), m) = RowAfter(Put(u, p), m)
    <3>1. /\ m.id \in DOMAIN t <=> m.id \in DOMAIN u
          /\ m.id \in DOMAIN t => t[m.id] = u[m.id]
      BY <2>2
    <3>2. /\ m.id \in DOMAIN Put(t, p) <=> m.id \in DOMAIN Put(u, p)
          /\ m.id \in DOMAIN Put(t, p) => Put(t, p)[m.id] = Put(u, p)[m.id]
      BY <3>1 DEF Put
    <3> HIDE DEF m
    <3> QED BY <3>2 DEF RowAfter
  <2>4. Running(t, ms)[k + 1] = Put(t, Put(p, q))
    <3>1. Running(t, ms)[k + 1] = Upsert(Put(t, p), m)
      BY <2>1, <2>2, RunningStep DEF Writes
    <3> QED BY <3>1, PutPut DEF Upsert
  <2>5. Running(u, ms)[k + 1] = Put(u, Put(p, q))
    <3>1. Running(u, ms)[k + 1] = Upsert(Put(u, p), m)
      BY <2>1, <2>2, RunningStep DEF Writes
    <3>2. Upsert(Put(u, p), m) = Put(Put(u, p), q)
      BY <2>3 DEF Upsert
    <3> QED BY <3>1, <3>2, PutPut
  <2>6. Put(p, q) = [id \in {ms[i].id : i \in 1..(k + 1)} |-> Put(p, q)[id]]
    <3>1. DOMAIN p = {ms[i].id : i \in 1..k} /\ DOMAIN q = {m.id}
      BY <2>1 DEF Writes
    <3>2. {ms[i].id : i \in 1..(k + 1)} = {ms[i].id : i \in 1..k} \cup {m.id}
      BY <1>0, <2>2
    <3> HIDE DEF q
    <3>3. DOMAIN Put(p, q) = {ms[i].id : i \in 1..(k + 1)}
      BY <3>1, <3>2 DEF Put
    <3>4. Put(p, q) = [id \in DOMAIN Put(p, q) |-> Put(p, q)[id]]
      BY DEF Put
    <3> QED BY <3>3, <3>4
  <2>7. Both(Put(p, q), k + 1)
    BY <2>4, <2>5, <2>6 DEF Writes
  <2> HIDE DEF Both, q
  <2> QED BY <2>2, <2>7
<1>3. n \in T
  <2> HIDE DEF T
  <2>1. \A i \in 0..n : i \in T
    BY <1>0, <1>1, <1>2, NatInduct
  <2> QED BY <1>0, <2>1
<1> QED BY <1>3

\* The list of a call.
LEMMA ListType ==
  ASSUME NEW r \in Requests \cup {NoReq}
  PROVE  r.ms \in Seq(Metric) /\ (r.op = "UpdateMetric" => Len(r.ms) = 1)
<1>1. CASE r = NoReq
  <2>1. <<>> \in Seq(Metric)
    OBVIOUS
  <2> QED BY <1>1, <2>1 DEF NoReq
<1>2. CASE r \in [op : {"UpdateMetric"}, ms : {<<x>> : x \in Metric}]
  <2>1. PICK x \in Metric : r.ms = <<x>>
    BY <1>2
  <2> QED BY <2>1
<1>3. CASE r \in [op : {"UpdateMetrics"}, ms : Seq(Metric)]
  BY <1>3
<1>4. CASE r \in [op : {"ForEachMetrics"}, ms : {<<>>}]
  <2>1. <<>> \in Seq(Metric)
    OBVIOUS
  <2> QED BY <1>4, <2>1
<1>5. r # NoReq => r \in RequestType
  BY RequestsAssumption
<1> QED BY <1>1, <1>2, <1>3, <1>4, <1>5 DEF RequestType

LEMMA ReqType ==
  ASSUME TypeOK, NEW c \in Conns
  PROVE  req[c].ms \in Seq(Metric) /\ (req[c].op = "UpdateMetric" => Len(req[c].ms) = 1)
BY ListType DEF TypeOK

LEMMA PutEmpty == ASSUME NEW S, NEW t \in Maps(S) PROVE Put(t, EmptyMap) = t
<1>1. t = [id \in DOMAIN t |-> t[id]]
  BY MapsDef
<1>2. DOMAIN t \cup DOMAIN EmptyMap = DOMAIN t /\ DOMAIN EmptyMap = {}
  BY DEF EmptyMap
<1> QED BY <1>1, <1>2 DEF Put

\* Others may commit as long as they keep off the rows that c has locked: its view
\* stays a serial one, over the new table.
LEMMA ViewKept ==
  ASSUME TypeOK, TypeOK', NEW c \in Conns, ViewIsSerial(c),
         UNCHANGED <<req[c], pos[c], pending[c]>>,
         \A id \in DOMAIN pending[c] : /\ id \in DOMAIN table' <=> id \in DOMAIN table
                                       /\ id \in DOMAIN table => table'[id] = table[id]
  PROVE  ViewIsSerial(c)'
<1> DEFINE ms == req[c].ms
           n == pos[c] - 1
<1>1. ms \in Seq(Metric) /\ Len(ms) \in Nat /\ n \in 0..Len(ms)
  BY ReqType DEF ViewIsSerial
<1>2. /\ table \in Maps(Row) /\ table' \in Maps(Row) /\ pending[c] \in Maps(Row)
      /\ table = Put(table, EmptyMap) /\ table' = Put(table', EmptyMap)
  <2>1. table \in Maps(Row) /\ table' \in Maps(Row) /\ pending[c] \in Maps(Row)
    BY DEF TypeOK, Tables
  <2> QED BY <2>1, PutEmpty
<1>3. DOMAIN pending[c] = {ms[i].id : i \in 1..n}
  BY DEF ViewIsSerial
<1>4. \A i \in 1..n : /\ ms[i].id \in DOMAIN table <=> ms[i].id \in DOMAIN table'
                      /\ ms[i].id \in DOMAIN table => table[ms[i].id] = table'[ms[i].id]
  BY <1>3
<1>5. PICK p : Writes(p, table, ms, n) /\ Writes(p, table', ms, n)
  <2> HIDE DEF ms, n
  <2> QED BY <1>1, <1>2, <1>4, SameWrites
<1>6. p = pending[c]
  <2>1. DOMAIN p = DOMAIN pending[c]
    BY <1>3, <1>5 DEF Writes
  <2>2. Put(table, p) = Put(table, pending[c])
    BY <1>5 DEF Writes, ViewIsSerial, View
  <2>3. ASSUME NEW id \in DOMAIN p PROVE p[id] = pending[c][id]
    <3>1. Put(table, p)[id] = p[id] /\ Put(table, pending[c])[id] = pending[c][id]
      BY <2>1 DEF Put
    <3> QED BY <2>2, <3>1
  <2>4. p = [id \in DOMAIN p |-> p[id]]
    BY <1>5 DEF Writes
  <2>5. pending[c] = [id \in DOMAIN pending[c] |-> pending[c][id]]
    BY <1>2, MapsDef
  <2> QED BY <2>1, <2>3, <2>4, <2>5
<1>7. View(c)' = Running(table', ms)[n]
  BY <1>5, <1>6 DEF Writes, View
<1> QED BY <1>7 DEF ViewIsSerial

\* The view of the one whose transaction ends is of no interest any more, and those of
\* the others stay.
LEMMA ReleaseViews ==
  ASSUME TypeOK, TypeOK', ViewsAreSerial, NEW c \in Conns, NEW s, NEW b, Release(c, s, b),
         \A d \in Conns \ {c} : \A id \in DOMAIN pending[d] :
           /\ id \in DOMAIN table' <=> id \in DOMAIN table
           /\ id \in DOMAIN table => table'[id] = table[id]
  PROVE  ViewsAreSerial'
<1> SUFFICES ASSUME NEW d \in Conns, pc'[d] # "free" PROVE ViewIsSerial(d)'
  BY DEF ViewsAreSerial
<1>1. d # c
  BY DEF Release, TypeOK
<1>2. pc[d] # "free" /\ UNCHANGED <<req[d], pos[d], pending[d]>>
  BY <1>1 DEF Release, TypeOK
<1> QED BY <1>1, <1>2, ViewKept DEF ViewsAreSerial

\* Every action leaves the views serial.
LEMMA ViewsStep == ASSUME TypeOK, Inv, ViewsAreSerial, [Next]_vars PROVE ViewsAreSerial'
<1>0. TypeOK'
  BY TypeStep
<1>1. ASSUME NEW c \in Conns, UpdateMetricSQL(c) PROVE ViewsAreSerial'
  <2>1. PICK m \in Current(c) : Valid(m) /\ table' = Upsert(table, m)
    BY <1>1 DEF UpdateMetricSQL
  <2>2. \A d \in Conns \ {c} : m.id \notin DOMAIN pending[d]
    BY <1>1, <2>1 DEF UpdateMetricSQL, BlockedBy
  <2>3. DOMAIN table' = DOMAIN table \cup {m.id}
        /\ \A id \in DOMAIN table : id # m.id => table'[id] = table[id]
    BY <2>1 DEF Upsert, Put
  <2>4. \E s : Release(c, s, TRUE)
    BY <1>1 DEF UpdateMetricSQL
  <2> QED BY <1>0, <2>2, <2>3, <2>4, ReleaseViews
<1>2. ASSUME NEW c \in Conns, UpdateMetricFails(c) \/ Rollback(c) \/ Break(c)
      PROVE  ViewsAreSerial'
  <2>1. \E s, b : Release(c, s, b) /\ UNCHANGED table
    BY <1>2 DEF UpdateMetricFails, Rollback, Break
  <2> QED BY <1>0, <2>1, ReleaseViews
<1>3. ASSUME NEW c \in Conns, Commit(c) PROVE ViewsAreSerial'
  <2>1. DOMAIN table' = DOMAIN table \cup DOMAIN pending[c]
        /\ \A id \in DOMAIN table : id \notin DOMAIN pending[c] => table'[id] = table[id]
    BY <1>3 DEF Commit, View, Put
  <2>2. \A d \in Conns \ {c} : DOMAIN pending[d] \cap DOMAIN pending[c] = {}
    BY DEF Inv, LocksAreExclusive
  <2>3. \E s : Release(c, s, TRUE)
    BY <1>3 DEF Commit
  <2> QED BY <1>0, <2>1, <2>2, <2>3, ReleaseViews
<1>4. ASSUME NEW c \in Conns, Statement(c) PROVE ViewsAreSerial'
  <2>1. PICK m \in Current(c) :
          pending' = [pending EXCEPT ![c] = Put(@, [id \in {m.id} |-> RowAfter(View(c), m)])]
    BY <1>4 DEF Statement
  <2>2. /\ pos' = [pos EXCEPT ![c] = @ + 1] /\ UNCHANGED <<table, pc, req>>
        /\ pc[c] = "exec"
    BY <1>4 DEF Statement, Executing
  <2>3. ASSUME NEW d \in Conns \ {c}, pc'[d] # "free" PROVE ViewIsSerial(d)'
    <3>1. pc[d] # "free" /\ UNCHANGED <<req[d], pos[d], pending[d], table>>
      BY <2>1, <2>2, <2>3 DEF TypeOK
    <3> QED BY <1>0, <3>1, ViewKept DEF ViewsAreSerial
  <2>4. ViewIsSerial(c)'
    <3> DEFINE ms == req[c].ms
               k == pos[c] - 1
    <3>1. ViewIsSerial(c)
      BY <2>2 DEF ViewsAreSerial
    <3>2. pos[c] \in DOMAIN ms /\ m = ms[pos[c]]
      BY DEF Current
    <3>3. ms \in Seq(Metric)
      BY ReqType
    <3>4. pos[c] \in 1..Len(ms) /\ k \in 0..(Len(ms) - 1) /\ k + 1 = pos[c]
      BY <3>2, <3>3
    <3>5. pos'[c] = pos[c] + 1 /\ pending'[c] = Put(pending[c], [id \in {m.id} |-> RowAfter(View(c), m)])
      BY <2>1, <2>2 DEF TypeOK
    <3>6. View(c)' = Upsert(View(c), m)
      BY <2>2, <3>5, PutPut DEF View, Upsert
    <3>7. Running(table, ms)[pos[c]] = Upsert(View(c), m)
      <4>1. Running(table, ms)[k + 1] = Upsert(Running(table, ms)[k], ms[k + 1])
        <5> HIDE DEF ms, k
        <5> QED BY <3>3, <3>4, RunningStep
      <4> QED BY <3>1, <3>2, <3>4, <4>1 DEF ViewIsSerial
    <3>8. DOMAIN pending'[c] = {ms[i].id : i \in 1..pos[c]}
      <4>1. DOMAIN pending'[c] = {ms[i].id : i \in 1..k} \cup {m.id}
        BY <3>1, <3>5 DEF ViewIsSerial, Put
      <4>2. 1..pos[c] = (1..k) \cup {pos[c]}
        BY <3>4
      <4> QED BY <3>2, <4>1, <4>2
    <3>9. pos'[c] - 1 = pos[c] /\ pos'[c] \in 1..(Len(ms) + 1)
      BY <3>3, <3>4, <3>5
    <3> QED BY <2>2, <3>6, <3>7, <3>8, <3>9 DEF ViewIsSerial
  <2> QED BY <2>3, <2>4 DEF ViewsAreSerial
<1>5. ASSUME NEW c \in Conns, Refused(c) \/ DeadlockDetected(c) \/ NilInList(c)
      PROVE  ViewsAreSerial'
  <2>1. \E l : pc[c] = "exec" /\ pc' = [pc EXCEPT ![c] = l] /\ UNCHANGED <<table, req, pos, pending>>
    BY <1>5 DEF Refused, DeadlockDetected, NilInList, Executing
  <2> SUFFICES ASSUME NEW d \in Conns, pc'[d] # "free" PROVE ViewIsSerial(d)'
    BY DEF ViewsAreSerial
  <2>2. pc[d] # "free" /\ UNCHANGED <<req[d], pos[d], pending[d], table>>
    BY <2>1 DEF TypeOK
  <2> QED BY <1>0, <2>2, ViewKept DEF ViewsAreSerial
<1>6. ASSUME NEW c \in Conns, NEW r \in Requests, Begin(c, r) PROVE ViewsAreSerial'
  <2>1. ASSUME NEW d \in Conns \ {c}, pc'[d] # "free" PROVE ViewIsSerial(d)'
    <3>1. pc[d] # "free" /\ UNCHANGED <<req[d], pos[d], pending[d], table>>
      BY <1>6, <2>1 DEF Begin, TypeOK
    <3> QED BY <1>0, <3>1, ViewKept DEF ViewsAreSerial
  <2>2. ViewIsSerial(c)'
    <3>1. pos'[c] = 1 /\ table' = table /\ pending'[c] = EmptyMap
      BY <1>6 DEF Begin, Inv, OnlyListsHoldRows, NoReq, TypeOK
    <3>2. req'[c].ms \in Seq(Metric) /\ Len(req'[c].ms) \in Nat
      <4>1. req'[c] = r
        BY <1>6 DEF Begin, TypeOK
      <4> QED BY <4>1, ListType
    <3>3. View(c)' = table
      BY <3>1, PutEmpty DEF View, TypeOK, Tables
    <3>4. Running(table, req'[c].ms)[0] = table
      BY <3>2, RunningStep
    <3>5. DOMAIN EmptyMap = {} /\ 1..(1 - 1) = {}
      BY DEF EmptyMap
    <3> QED BY <3>1, <3>2, <3>3, <3>4, <3>5 DEF ViewIsSerial
  <2> QED BY <2>1, <2>2 DEF ViewsAreSerial
<1>7. CASE Restart
  BY <1>7 DEF Restart, ViewsAreSerial
<1>8. CASE UNCHANGED vars
  <2> SUFFICES ASSUME NEW d \in Conns, pc'[d] # "free" PROVE ViewIsSerial(d)'
    BY DEF ViewsAreSerial
  <2>1. pc[d] # "free" /\ UNCHANGED <<req[d], pos[d], pending[d], table>>
    BY <1>8 DEF vars
  <2> QED BY <1>0, <2>1, ViewKept DEF ViewsAreSerial
<1> QED BY <1>1, <1>2, <1>3, <1>4, <1>5, <1>6, <1>7, <1>8 DEF Next, Proceeds

\* A commit leaves the table that the whole list leaves when it runs alone.
LEMMA SerialStep ==
  ASSUME TypeOK, Inv, ViewsAreSerial, [Next]_vars, table' # table
  PROVE  \E c \in Conns : /\ pc[c] = "exec" /\ pc'[c] = "free"
                          /\ table' = Applied(table, req[c].ms)
<1>1. PICK c \in Conns : UpdateMetricSQL(c) \/ Commit(c)
  BY DEF Next, Proceeds, vars, UpdateMetricFails, Statement, Refused, DeadlockDetected,
         Rollback, NilInList, Break, Begin, Restart
<1>2. pc[c] = "exec" /\ pc'[c] = "free"
  BY <1>1 DEF UpdateMetricSQL, Commit, Executing, Release, TypeOK
<1> DEFINE ms == req[c].ms
<1>3. ms \in Seq(Metric) /\ Len(ms) \in Nat /\ DOMAIN ms = 1..Len(ms)
  BY ReqType
<1>4. ViewIsSerial(c)
  BY <1>2 DEF ViewsAreSerial
<1>5. CASE UpdateMetricSQL(c)
  <2>1. PICK m \in Current(c) : table' = Upsert(table, m)
    BY <1>5 DEF UpdateMetricSQL
  <2>2. Len(ms) = 1
    BY <1>5, ReqType DEF UpdateMetricSQL, Executing
  <2>3. m = ms[1]
    BY <1>3, <2>2 DEF Current
  <2>4. Running(table, ms)[0] = table /\ Running(table, ms)[0 + 1] = Upsert(Running(table, ms)[0], ms[0 + 1])
    <3> HIDE DEF ms
    <3> QED BY <1>3, <2>2, RunningStep
  <2>5. Applied(table, req[c].ms) = Upsert(table, m)
    BY <2>2, <2>3, <2>4 DEF Applied
  <2> QED BY <1>2, <2>1, <2>5
<1>6. CASE Commit(c)
  <2>1. table' = View(c) /\ Current(c) = {}
    BY <1>6 DEF Commit
  <2>2. pos[c] - 1 = Len(ms)
    <3>1. pos[c] \notin DOMAIN ms
      BY <2>1 DEF Current
    <3>2. pos[c] \in 1..(Len(ms) + 1)
      BY <1>4 DEF ViewIsSerial
    <3> HIDE DEF ms
    <3> QED BY <1>3, <3>1, <3>2
  <2> QED BY <1>2, <1>4, <2>1, <2>2 DEF Applied, ViewIsSerial
<1> QED BY <1>1, <1>5, <1>6

\* ViewsAreSerial: at any point of a transaction the committed rows and its own are
\* what its list so far leaves of the rows committed by then (StorageV2.UpdateMetrics).
THEOREM Views == Spec => []ViewsAreSerial
<1>1. Init => ViewsAreSerial
  BY DEF Init, ViewsAreSerial
<1>2. TypeOK /\ Inv /\ ViewsAreSerial /\ [Next]_vars => ViewsAreSerial'
  BY ViewsStep
<1> QED BY <1>1, <1>2, SqlInvariance, PTL DEF Spec

\* CommitsAreSerial: for any number of connections and any lists, in whatever order
\* they lock rows and commit, wait and are rolled back, the table goes through what
\* the committed lists give one after the other.
THEOREM Serialisable == Spec => CommitsAreSerial
<1>1. TypeOK /\ Inv /\ ViewsAreSerial /\ [Next]_vars =>
        [table' # table =>
           \E c \in Conns :
             /\ pc[c] = "exec" /\ pc'[c] = "free"
             /\ table' = Applied(table, req[c].ms)]_vars
  BY SerialStep
<1> QED BY <1>1, Views, SqlInvariance, PTL DEF Spec, CommitsAreSerial

-----------------------------------------------------------------------------
(* The two implementations of StorageInterface *)

\* The maps of a table.
LEMMA AsMapsIs ==
  ASSUME NEW t \in Tables, NEW id
  PROVE  /\ id \in DOMAIN AsMaps(t)["gauge"] <=> id \in DOMAIN t /\ t[id].mtype = "gauge"
         /\ id \in DOMAIN AsMaps(t)["counter"] <=> id \in DOMAIN t /\ t[id].mtype = "counter"
         /\ id \in DOMAIN AsMaps(t)["gauge"] => AsMaps(t)["gauge"][id] = t[id].value
         /\ id \in DOMAIN AsMaps(t)["counter"] => AsMaps(t)["counter"][id] = t[id].delta
         /\ id \in DOMAIN t => t[id] \in Row
<1>1. id \in DOMAIN t => t[id] \in Row
  BY MapsDef DEF Tables
<1> QED BY <1>1 DEF AsMaps

LEMMA ListingsAgree ==
  ASSUME NEW t \in Tables
  PROVE  ForEachMetricsSQL(t, FALSE) = {ForEachMetrics(AsMaps(t))}
<1> DEFINE rows == {[id |-> id, mtype |-> t[id].mtype,
                     val |-> IF t[id].mtype = "gauge" THEN t[id].value ELSE t[id].delta] :
                    id \in DOMAIN t}
           st == AsMaps(t)
           all(mt) == {[id |-> id, mtype |-> mt, val |-> st[mt][id]] : id \in DOMAIN st[mt]}
<1>1. ForEachMetrics(st) = all("gauge") \cup all("counter")
  BY DEF ForEachMetrics
<1>2. \A id : /\ id \in DOMAIN st["gauge"] <=> id \in DOMAIN t /\ t[id].mtype = "gauge"
              /\ id \in DOMAIN st["counter"] <=> id \in DOMAIN t /\ t[id].mtype = "counter"
              /\ id \in DOMAIN st["gauge"] => st["gauge"][id] = t[id].value
              /\ id \in DOMAIN st["counter"] => st["counter"][id] = t[id].delta
              /\ id \in DOMAIN t => t[id].mtype \in {"gauge", "counter"}
  BY AsMapsIs DEF Row
<1> HIDE DEF st
<1>3. rows \subseteq all("gauge") \cup all("counter")
  BY <1>2
<1>4. all("gauge") \subseteq rows
  BY <1>2
<1>5. all("counter") \subseteq rows
  BY <1>2
<1>6. rows = ForEachMetrics(st)
  BY <1>1, <1>3, <1>4, <1>5
<1>7. ForEachMetricsSQL(t, FALSE) = {rows}
  BY DEF ForEachMetricsSQL
<1> QED BY <1>6, <1>7 DEF st

\* ReadersAgree: GetMetric and ForEachMetrics of the two stores give the same answers
\* for any table, as long as the connection lasts.
THEOREM ReadersSeeTheSame == Spec => []ReadersAgree
<1>1. TypeOK => ReadersAgree
  <2> SUFFICES ASSUME TypeOK PROVE ReadersAgree
    OBVIOUS
  <2>1. table \in Tables
    BY DEF TypeOK
  <2>2. ASSUME NEW id \in IDs, NEW mType \in {"gauge", "counter", "other"},
               id \in DOMAIN table /\ mType # "other" => table[id].mtype = mType
        PROVE  GetMetricSQL(table, mType, id) = GetMetric(AsMaps(table), mType, id)
    <3>1. CASE mType = "gauge"
      BY <2>1, <2>2, <3>1, AsMapsIs DEF GetMetricSQL, GetMetric
    <3>2. CASE mType = "counter"
      BY <2>1, <2>2, <3>2, AsMapsIs DEF GetMetricSQL, GetMetric
    <3>3. CASE mType = "other"
      BY <3>3 DEF GetMetricSQL, GetMetric
    <3> QED BY <3>1, <3>2, <3>3
  <2> QED BY <2>1, <2>2, ListingsAgree DEF ReadersAgree
<1> QED BY <1>1, SqlTypes, PTL

\* Statement j is the last of the first k that names id.
LastNamed(ms, k, id, j) ==
  /\ j \in 1..k /\ ms[j].id = id
  /\ \A l \in 1..k : ms[l].id = id => l <= j

\* In a list that both stores treat alike a second gauge of a name replaces the first ...
LEMMA GaugeTwice ==
  ASSUME NEW t \in Tables, NEW u, NEW a \in Metric, NEW b \in Metric, a.id = b.id,
         a.mtype = "gauge", b.mtype = "gauge",
         b.id \in DOMAIN u, u[b.id] = RowAfter(t, a)
  PROVE  RowAfter(u, b) = RowAfter(t, b)
<1>1. RowAfter(u, b) = [RowAfter(t, a) EXCEPT !.value = b.val]
  BY DEF RowAfter, Changed
<1>2. CASE b.id \in DOMAIN t
  <2>1. t[b.id] \in Row
    BY <1>2, AsMapsIs
  <2>2. RowAfter(t, a) = [t[b.id] EXCEPT !.value = a.val] /\ RowAfter(t, b) = [t[b.id] EXCEPT !.value = b.val]
    BY <1>2 DEF RowAfter, Changed
  <2> QED BY <1>1, <2>1, <2>2 DEF Row
<1>3. CASE b.id \notin DOMAIN t
  BY <1>1, <1>3 DEF RowAfter, Fresh
<1> QED BY <1>2, <1>3

\* ... and so the list leaves of each row it names what the last statement for that row
\* makes of the row before the list.
LEMMA PlainRows ==
  ASSUME NEW t \in Tables, NEW ms \in Seq(Metric), Plain(t, ms)
  PROVE  LET R == Applied(t, ms)
             ids == {ms[i].id : i \in 1..Len(ms)}
         IN /\ DOMAIN R = DOMAIN t \cup ids
            /\ \A id \in DOMAIN t \ ids : R[id] = t[id]
            /\ \A id \in ids : \E j : LastNamed(ms, Len(ms), id, j) /\ R[id] = RowAfter(t, ms[j])
<1> DEFINE n == Len(ms)
           R(k) == Running(t, ms)[k]
           ids(k) == {ms[i].id : i \in 1..k}
           Good(k) ==
             /\ DOMAIN R(k) = DOMAIN t \cup ids(k)
             /\ \A id \in DOMAIN t \ ids(k) : R(k)[id] = t[id]
             /\ \A id \in ids(k) : \E j : LastNamed(ms, k, id, j) /\ R(k)[id] = RowAfter(t, ms[j])
           T == {k \in 0..n : Good(k)}
<1>0. n \in Nat /\ DOMAIN ms = 1..n /\ \A i \in 1..n : ms[i] \in Metric
  OBVIOUS
<1>1. 0 \in T
  <2>1. R(0) = t /\ ids(0) = {}
    BY RunningStep
  <2>2. Good(0)
    BY <2>1
  <2> HIDE DEF Good
  <2> QED BY <1>0, <2>2
<1>2. ASSUME NEW k \in 0..(n - 1), k \in T
      PROVE  k + 1 \in T
  <2> DEFINE m == ms[k + 1]
  <2>0. k + 1 \in 1..n /\ k \in Nat /\ m \in Metric
    BY <1>0
  <2>1. Good(k)
    BY <1>2
  <2>2. R(k + 1) = Upsert(R(k), m)
    <3> HIDE DEF n
    <3> QED BY <1>0, RunningStep DEF n
  <2>3. /\ DOMAIN R(k + 1) = DOMAIN R(k) \cup {m.id}
        /\ \A id \in DOMAIN R(k) \ {m.id} : R(k + 1)[id] = R(k)[id]
        /\ R(k + 1)[m.id] = RowAfter(R(k), m)
    BY <2>2 DEF Upsert, Put
  <2>4. ids(k + 1) = ids(k) \cup {m.id}
    <3>1. 1..(k + 1) = (1..k) \cup {k + 1}
      BY <2>0
    <3> QED BY <3>1
  <2> HIDE DEF R, n, m
  <2>5. RowAfter(R(k), m) = RowAfter(t, m)
    <3>1. CASE m.id \in ids(k)
      <4>1. PICK j : LastNamed(ms, k, m.id, j) /\ R(k)[m.id] = RowAfter(t, ms[j])
        BY <2>1, <3>1
      <4>2. j \in 1..n /\ j # k + 1 /\ ms[j].id = m.id
        BY <1>0, <2>0, <4>1 DEF LastNamed
      <4>3. ms[j].mtype = "gauge" /\ m.mtype = "gauge"
        BY <1>0, <2>0, <4>2 DEF Plain, m
      <4>4. m.id \in DOMAIN R(k)
        BY <2>1, <3>1
      <4> QED BY <1>0, <2>0, <4>1, <4>2, <4>3, <4>4, GaugeTwice
    <3>2. CASE m.id \notin ids(k)
      <4>1. /\ m.id \in DOMAIN R(k) <=> m.id \in DOMAIN t
            /\ m.id \in DOMAIN t => R(k)[m.id] = t[m.id]
        BY <2>1, <3>2
      <4> QED BY <4>1 DEF RowAfter
    <3> QED BY <3>1, <3>2
  <2>6. ASSUME NEW id \in ids(k + 1)
        PROVE  \E j : LastNamed(ms, k + 1, id, j) /\ R(k + 1)[id] = RowAfter(t, ms[j])
    <3>1. CASE id = m.id
      <4>1. LastNamed(ms, k + 1, id, k + 1)
        BY <2>0, <3>1 DEF LastNamed, m
      <4> QED BY <2>3, <2>5, <3>1, <4>1 DEF m
    <3>2. CASE id # m.id
      <4>1. id \in ids(k)
        BY <2>4, <2>6, <3>2
      <4>2. PICK j : LastNamed(ms, k, id, j) /\ R(k)[id] = RowAfter(t, ms[j])
        BY <2>1, <4>1
      <4>3. LastNamed(ms, k + 1, id, j)
        BY <2>0, <3>2, <4>2 DEF LastNamed, m
      <4>4. R(k + 1)[id] = R(k)[id]
        BY <2>1, <2>3, <3>2, <4>1
      <4> QED BY <4>2, <4>3, <4>4
    <3> QED BY <3>1, <3>2
  <2>7. DOMAIN R(k + 1) = DOMAIN t \cup ids(k + 1)
    BY <2>1, <2>3, <2>4
  <2>8. \A id \in DOMAIN t \ ids(k + 1) : R(k + 1)[id] = t[id]
    BY <2>1, <2>3, <2>4
  <2>9. Good(k + 1)
    BY <2>6, <2>7, <2>8
  <2> HIDE DEF Good
  <2> QED BY <1>0, <2>0, <2>9
<1>3. n \in T
  <2> HIDE DEF T, n
  <2>1. \A i \in 0..n : i \in T
    BY <1>0, <1>1, <1>2, NatInduct
  <2> QED BY <1>0, <2>1
<1> QED BY <1>3 DEF Applied

\* The memory store gathers the same last metric for a name.
LEMMA GatheredIs ==
  ASSUME NEW t \in Tables, NEW ms \in Seq(Metric), Plain(t, ms), NEW mt, NEW id
  PROVE  /\ id \in DOMAIN Gathered(ms, mt) <=> \E i \in 1..Len(ms) : ms[i].id = id /\ ms[i].mtype = mt
         /\ \A j : id \in DOMAIN Gathered(ms, mt) /\ LastNamed(ms, Len(ms), id, j) =>
              Gathered(ms, mt)[id] = ms[j].val /\ ms[j].mtype = mt
<1>0. Len(ms) \in Nat /\ DOMAIN ms = 1..Len(ms)
  OBVIOUS
<1>1. id \in DOMAIN Gathered(ms, mt) <=> \E i \in Positions(ms, mt) : ms[i].id = id
  BY DEF Gathered
<1>2. ASSUME NEW j, id \in DOMAIN Gathered(ms, mt), LastNamed(ms, Len(ms), id, j)
      PROVE  Gathered(ms, mt)[id] = ms[j].val /\ ms[j].mtype = mt
  <2>1. PICK i \in Positions(ms, mt) : ms[i].id = id
    BY <1>1, <1>2
  <2> DEFINE l == LastPosition(ms, mt, id)
  <2>2. /\ l \in Positions(ms, mt) /\ ms[l].id = id
        /\ \A k \in Positions(ms, mt) : ms[k].id = id => k <= l
    BY <2>1, LastPositionExists
  <2> HIDE DEF l
  <2>3. i \in 1..Len(ms) /\ l \in 1..Len(ms) /\ j \in 1..Len(ms) /\ ms[j].id = id
    BY <1>0, <1>2, <2>1, <2>2 DEF Positions, LastNamed
  <2>4. ms[j].mtype = mt
    <3>1. CASE i = j
      BY <2>1, <3>1 DEF Positions
    <3>2. CASE i # j
      BY <1>0, <2>1, <2>3, <3>2 DEF Positions, Plain
    <3> QED BY <3>1, <3>2
  <2>5. l = j
    <3>1. j \in Positions(ms, mt)
      BY <1>0, <2>3, <2>4 DEF Positions
    <3>2. j <= l /\ l <= j
      BY <1>2, <2>2, <2>3, <3>1 DEF LastNamed
    <3> QED BY <2>3, <3>2
  <2>6. Gathered(ms, mt)[id] = ms[l].val
    BY <1>2, <2>1 DEF Gathered, l
  <2> QED BY <2>4, <2>5, <2>6
<1> QED BY <1>0, <1>1, <1>2 DEF Positions

\* The row a plain list leaves for a name it has.
LEMMA PlainRow ==
  ASSUME NEW t \in Tables, NEW ms \in Seq(Metric), Plain(t, ms), NEW i \in 1..Len(ms)
  PROVE  LET m == ms[i]
             row == RowAfter(t, m)
         IN /\ row.mtype = m.mtype /\ m.mtype \in {"gauge", "counter"}
            /\ m.id \in DOMAIN t => t[m.id].mtype = m.mtype
            /\ m.mtype = "gauge" => row.value = m.val
            /\ m.mtype = "counter" =>
                 /\ row.delta = (IF m.id \in DOMAIN t THEN t[m.id].delta ELSE 0) + m.val
                 /\ row.delta \in Int64 /\ m.val \in Int
<1> DEFINE m == ms[i]
<1>1. DOMAIN ms = 1..Len(ms) /\ m \in Metric
  OBVIOUS
<1>2. Valid(m) /\ Fits(t, m) /\ (m.id \in DOMAIN t => t[m.id].mtype = m.mtype)
  BY <1>1 DEF Plain
<1> HIDE DEF m
<1>3. m.mtype \in {"gauge", "counter"} /\ (m.mtype = "counter" => m.val \in Int)
  BY <1>1, <1>2, HalfRangeAssumption DEF Metric, Valid, Int64
<1>4. RowAfter(t, m).delta \in Int64
  BY <1>2 DEF Fits
<1>5. CASE m.id \in DOMAIN t
  <2>1. t[m.id] \in Row
    BY <1>5, AsMapsIs
  <2>2. RowAfter(t, m) = Changed(t[m.id], m)
    BY <1>5 DEF RowAfter
  <2> QED BY <1>2, <1>3, <1>4, <1>5, <2>1, <2>2 DEF Changed, Row, m
<1>6. CASE m.id \notin DOMAIN t
  <2>1. RowAfter(t, m) = Fresh(m)
    BY <1>6 DEF RowAfter
  <2>2. m.mtype = "counter" => m.val = 0 + m.val
    BY <1>3
  <2> QED BY <1>2, <1>3, <1>4, <1>6, <2>1, <2>2 DEF Fresh, m
<1> QED BY <1>5, <1>6 DEF m

\* The maps after a plain list, name by name.
LEMMA PlainMaps ==
  ASSUME NEW t \in Tables, NEW ms \in Seq(Metric), Plain(t, ms), NEW id
  PROVE  LET R == Applied(t, ms)
             G == Put(AsMaps(t)["gauge"], Gathered(ms, "gauge"))
             C == Add(AsMaps(t)["counter"], Gathered(ms, "counter"))
         IN /\ id \in DOMAIN G <=> id \in DOMAIN R /\ R[id].mtype = "gauge"
            /\ id \in DOMAIN G => G[id] = R[id].value
            /\ id \in DOMAIN C <=> id \in DOMAIN R /\ R[id].mtype = "counter"
            /\ id \in DOMAIN C => C[id] = R[id].delta
<1> DEFINE R == Applied(t, ms)
           ids == {ms[i].id : i \in 1..Len(ms)}
           A == AsMaps(t)
           G == Put(A["gauge"], Gathered(ms, "gauge"))
           C == Add(A["counter"], Gathered(ms, "counter"))
           Result == /\ id \in DOMAIN G <=> id \in DOMAIN R /\ R[id].mtype = "gauge"
                     /\ id \in DOMAIN G => G[id] = R[id].value
                     /\ id \in DOMAIN C <=> id \in DOMAIN R /\ R[id].mtype = "counter"
                     /\ id \in DOMAIN C => C[id] = R[id].delta
<1> SUFFICES Result
  OBVIOUS
<1>1. /\ DOMAIN R = DOMAIN t \cup ids
      /\ id \in DOMAIN t \ ids => R[id] = t[id]
      /\ id \in ids => \E j : LastNamed(ms, Len(ms), id, j) /\ R[id] = RowAfter(t, ms[j])
  BY PlainRows
<1>2. /\ id \in DOMAIN A["gauge"] <=> id \in DOMAIN t /\ t[id].mtype = "gauge"
      /\ id \in DOMAIN A["counter"] <=> id \in DOMAIN t /\ t[id].mtype = "counter"
      /\ id \in DOMAIN A["gauge"] => A["gauge"][id] = t[id].value
      /\ id \in DOMAIN A["counter"] => A["counter"][id] = t[id].delta
      /\ id \in DOMAIN t => t[id] \in Row
  BY AsMapsIs
<1>3. /\ id \in DOMAIN G <=> id \in DOMAIN A["gauge"] \/ id \in DOMAIN Gathered(ms, "gauge")
      /\ id \in DOMAIN G => G[id] = IF id \in DOMAIN Gathered(ms, "gauge")
                                    THEN Gathered(ms, "gauge")[id] ELSE A["gauge"][id]
      /\ id \in DOMAIN C <=> id \in DOMAIN A["counter"] \/ id \in DOMAIN Gathered(ms, "counter")
      /\ id \in DOMAIN C => C[id] = Wrap(Lookup(A["counter"], id) + Lookup(Gathered(ms, "counter"), id))
  BY DEF Put, Add
<1>4. \A mt : id \in DOMAIN Gathered(ms, mt) => id \in ids
  BY GatheredIs
<1> HIDE DEF R, A, G, C
<1>5. CASE id \in ids
  <2>1. PICK j : LastNamed(ms, Len(ms), id, j) /\ R[id] = RowAfter(t, ms[j])
    BY <1>1, <1>5
  <2> DEFINE m == ms[j]
  <2>2. j \in 1..Len(ms) /\ m.id = id
    BY <2>1 DEF LastNamed
  <2>3. /\ R[id].mtype = m.mtype /\ m.mtype \in {"gauge", "counter"}
        /\ id \in DOMAIN t => t[id].mtype = m.mtype
        /\ m.mtype = "gauge" => R[id].value = m.val
        /\ m.mtype = "counter" =>
             /\ R[id].delta = (IF id \in DOMAIN t THEN t[id].delta ELSE 0) + m.val
             /\ R[id].delta \in Int64 /\ m.val \in Int
    BY <2>1, <2>2, PlainRow
  <2>4. \A mt : id \in DOMAIN Gathered(ms, mt) <=> m.mtype = mt
    BY <2>1, <2>2, GatheredIs
  <2>5. \A mt : id \in DOMAIN Gathered(ms, mt) => Gathered(ms, mt)[id] = m.val
    BY <2>1, GatheredIs
  <2> HIDE DEF m
  <2>6. CASE m.mtype = "gauge"
    BY <1>1, <1>2, <1>3, <1>5, <2>3, <2>4, <2>5, <2>6
  <2>7. CASE m.mtype = "counter"
    <3>1. id \in DOMAIN C /\ id \notin DOMAIN G /\ id \in DOMAIN R /\ R[id].mtype = "counter"
      BY <1>1, <1>2, <1>3, <1>5, <2>3, <2>4, <2>7
    <3>2. Lookup(A["counter"], id) = (IF id \in DOMAIN t THEN t[id].delta ELSE 0)
      BY <1>2, <2>3, <2>7 DEF Lookup
    <3>3. Lookup(Gathered(ms, "counter"), id) = m.val
      BY <2>4, <2>5, <2>7 DEF Lookup
    <3>4. C[id] = Wrap(R[id].delta)
      BY <1>3, <2>3, <2>7, <3>1, <3>2, <3>3
    <3>5. C[id] = R[id].delta
      BY <2>3, <2>7, <3>4, WrapInRange
    <3> QED BY <3>1, <3>5
  <2> QED BY <2>3, <2>6, <2>7
<1>6. CASE id \notin ids
  <2>1. /\ id \notin DOMAIN Gathered(ms, "gauge") /\ id \notin DOMAIN Gathered(ms, "counter")
        /\ id \in DOMAIN R <=> id \in DOMAIN t
        /\ id \in DOMAIN t => R[id] = t[id]
    BY <1>1, <1>4, <1>6
  <2>2. id \in DOMAIN C => C[id] = R[id].delta
    <3> SUFFICES ASSUME id \in DOMAIN C PROVE C[id] = R[id].delta
      OBVIOUS
    <3>1. id \in DOMAIN A["counter"] /\ Lookup(A["counter"], id) = t[id].delta
      BY <1>2, <1>3, <2>1 DEF Lookup
    <3>2. Lookup(Gathered(ms, "counter"), id) = 0
      BY <2>1 DEF Lookup
    <3>3. t[id].delta \in Int64 /\ t[id].delta + 0 = t[id].delta
      BY <1>2, <3>1, HalfRangeAssumption DEF Row, Int64
    <3> QED BY <1>2, <1>3, <2>1, <3>1, <3>2, <3>3, WrapInRange
  <2> QED BY <1>2, <1>3, <2>1, <2>2
<1> QED BY <1>5, <1>6

\* StoresAgree: StorageV2.UpdateMetrics, statement by statement, and
\* Storage.UpdateMetrics, which gathers first, come to the same for every list of
\* any length that both treat alike.
THEOREM StoresCompute == Spec => []StoresAgree
<1>1. ASSUME TypeOK, NEW r \in Requests, Plain(table, r.ms)
      PROVE  AsMaps(Applied(table, r.ms)) = UpdateMetrics(AsMaps(table), r.ms)
  <2> DEFINE ms == r.ms
             R == Applied(table, ms)
             A == AsMaps(table)
             G == Put(A["gauge"], Gathered(ms, "gauge"))
             C == Add(A["counter"], Gathered(ms, "counter"))
  <2>1. table \in Tables /\ ms \in Seq(Metric)
    BY <1>1, ListType DEF TypeOK
  <2>2. UpdateMetrics(A, ms) = [gauge |-> G, counter |-> C]
    <3>1. A = [gauge |-> A["gauge"], counter |-> A["counter"]]
      BY DEF AsMaps
    <3> HIDE DEF A
    <3>2. MergeGaugesOf(A, ms) = [gauge |-> G, counter |-> A["counter"]]
      BY <3>1 DEF MergeGaugesOf
    <3> HIDE DEF G
    <3> QED BY <3>2 DEF UpdateMetrics, MergeCountersOf
  <2>3. \A id : /\ id \in DOMAIN G <=> id \in DOMAIN R /\ R[id].mtype = "gauge"
                /\ id \in DOMAIN G => G[id] = R[id].value
                /\ id \in DOMAIN C <=> id \in DOMAIN R /\ R[id].mtype = "counter"
                /\ id \in DOMAIN C => C[id] = R[id].delta
    BY <1>1, <2>1, PlainMaps
  <2>4. G = [id \in DOMAIN G |-> G[id]] /\ C = [id \in DOMAIN C |-> C[id]]
    BY DEF Put, Add
  <2> HIDE DEF R, G, C
  <2>5. G = [id \in {i \in DOMAIN R : R[i].mtype = "gauge"} |-> R[id].value]
    <3>1. DOMAIN G = {i \in DOMAIN R : R[i].mtype = "gauge"}
      BY <2>3
    <3> QED BY <2>3, <2>4, <3>1
  <2>6. C = [id \in {i \in DOMAIN R : R[i].mtype = "counter"} |-> R[id].delta]
    <3>1. DOMAIN C = {i \in DOMAIN R : R[i].mtype = "counter"}
      BY <2>3
    <3> QED BY <2>3, <2>4, <3>1
  <2> QED BY <2>2, <2>5, <2>6 DEF AsMaps, R
<1>2. TypeOK => StoresAgree
  BY <1>1 DEF StoresAgree
<1> QED BY <1>2, SqlTypes, PTL
=============================================================================
