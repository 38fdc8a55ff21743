--------------------------- MODULE AgentLoopProofs ---------------------------
(***************************************************************************)
(* What AgentLoop promises, for every pair of intervals and any length of  *)
(* a run: its types, its inductive invariant, and the three safety         *)
(* properties that follow from it.                                         *)
(***************************************************************************)
EXTENDS AgentLoop, TLAPS

\* The types and the invariant hold before the first tick.
LEMMA InitInv == Init => TypeOK /\ Inv
<1> SUFFICES ASSUME Init PROVE TypeOK /\ Inv
  OBVIOUS
<1>1. TypeOK
  BY NilAssumption DEF Init, TypeOK, Sample, NoSample, Collectors
<1>2. Inv
  BY NilAssumption DEF Init, Inv, WholeSamples, EveryPollTaken, NoSample
<1> QED BY <1>1, <1>2

-----------------------------------------------------------------------------
\* Every action keeps every variable in its set.
LEMMA TypeStep == ASSUME TypeOK, Inv, [Next]_vars PROVE TypeOK'
<1> USE DEF TypeOK, tickVars, lifeVars, collectVars, sampleVars, reportVars
<1>1. CASE Advance
  BY <1>1, IntervalAssumption DEF Advance
<1>2. CASE Cancel
  BY <1>2 DEF Cancel
<1>3. CASE PollerStep
  <2>1. CASE PollTick
    BY <2>1 DEF PollTick, PollerAt
  <2>2. ASSUME NEW c \in Collectors, Collect(c) PROVE TypeOK'
    BY <2>2 DEF Collect
  <2>3. CASE Join
    BY <2>3 DEF Join
  <2>4. CASE PollLock
    BY <2>4 DEF PollLock
  <2>5. CASE Publish
    <3>1. mPointer' \in Sample
      BY <2>5 DEF Publish, Sample
    <3> QED BY <2>5, <3>1 DEF Publish
  <2>6. CASE PollStop
    BY <2>6 DEF PollStop
  <2>7. CASE CollectPanics
    BY <2>7 DEF CollectPanics, Collectors, PollerAt
  <2> QED BY <1>3, <2>1, <2>2, <2>3, <2>4, <2>5, <2>6, <2>7 DEF PollerStep
<1>4. CASE ReporterStep
  <2>1. CASE ReportTick
    BY <2>1 DEF ReportTick
  <2>2. CASE ReportLock
    BY <2>2 DEF ReportLock
  <2>3. CASE Copy
    BY <2>3 DEF Copy
  <2>4. CASE NilDeref
    BY <2>4 DEF NilDeref, ReporterAt
  <2>5. CASE Reset
    <3>1. copy.count \in Nat /\ copy.nr \in Nat
      BY DEF Sample
    <3> QED BY <2>5, <3>1 DEF Reset
  <2>6. CASE SendMetrics
    <3>1. copy.count \in Nat
      BY DEF Sample
    <3> QED BY <2>6, <3>1 DEF SendMetrics
  <2>7. CASE ReportStop
    BY <2>7 DEF ReportStop
  <2> QED BY <1>4, <2>1, <2>2, <2>3, <2>4, <2>5, <2>6, <2>7 DEF ReporterStep
<1>5. CASE UNCHANGED vars
  BY <1>5 DEF vars
<1>6. CASE Die
  BY <1>6 DEF Die
<1> QED BY <1>1, <1>2, <1>3, <1>4, <1>5, <1>6 DEF Next

-----------------------------------------------------------------------------
\* Every action preserves the invariant.  Publish and Reset are the two that
\* move polls between pollCount, the sample and the reports.
LEMMA InvStep == ASSUME TypeOK, Inv, [Next]_vars PROVE Inv'
<1> USE DEF Inv, WholeSamples, EveryPollTaken, Filled, tickVars, lifeVars, collectVars,
            sampleVars, reportVars
<1>1. CASE Advance
  BY <1>1 DEF Advance
<1>2. CASE Cancel
  BY <1>2 DEF Cancel
<1>3. CASE PollerStep
  <2>1. CASE PollTick
    BY <2>1 DEF PollTick, PollerAt
  <2>2. ASSUME NEW c \in Collectors, Collect(c) PROVE Inv'
    BY <2>2 DEF Collect, PollerAt
  <2>3. CASE Join
    BY <2>3 DEF Join, PollerAt, Collectors, TypeOK
  <2>4. CASE PollLock
    BY <2>4, NilAssumption DEF PollLock, PollerAt
  <2>5. CASE Publish
    <3> USE <2>5 DEF Publish, PollerAt
    <3>1. mux = "poller" /\ reporter \notin {"copy", "reset", "gone"} /\ Filled(parts)
      OBVIOUS
    <3>2. mPointer' \in Sample /\ mPointer' # Nil
      BY NilAssumption DEF TypeOK, Sample
    <3>3. /\ mPointer'.parts = parts
          /\ mPointer'.nr = polls + 1 /\ mPointer'.count = pollCount + 1
      BY <3>1
    <3>4. mPointer'.nr # lastSent'
      BY <3>3 DEF TypeOK
    <3>5. (taken - repeated = polls - pollCount)'
      BY DEF TypeOK
    <3>6. polls' > 0 /\ lastSent' <= polls'
      BY DEF TypeOK
    <3> QED BY <3>1, <3>2, <3>3, <3>4, <3>5, <3>6, NilAssumption
  <2>6. CASE PollStop
    BY <2>6 DEF PollStop, PollerAt
  <2>7. CASE CollectPanics
    BY <2>7 DEF CollectPanics, Collectors, PollerAt
  <2> QED BY <1>3, <2>1, <2>2, <2>3, <2>4, <2>5, <2>6, <2>7 DEF PollerStep
<1>4. CASE ReporterStep
  <2>1. CASE ReportTick
    BY <2>1 DEF ReportTick, ReporterAt
  <2>2. CASE ReportLock
    BY <2>2, NilAssumption DEF ReportLock, ReporterAt
  <2>3. CASE Copy
    BY <2>3 DEF Copy, ReporterAt
  <2>4. CASE NilDeref
    BY <2>4 DEF NilDeref, ReporterAt
  <2>5. CASE Reset
    <3> USE <2>5 DEF Reset, ReporterAt
    <3>1. mux = "reporter" /\ poller # "publish" /\ copy = mPointer /\ mPointer # Nil
      OBVIOUS
    <3>2. copy.count \in Nat /\ copy.nr = polls /\ Filled(copy.parts)
      BY <3>1 DEF TypeOK, Sample
    <3>3. (taken - repeated = polls - pollCount)'
      <4>1. CASE copy.nr = lastSent
        BY <4>1, <3>1, <3>2 DEF TypeOK
      <4>2. CASE copy.nr # lastSent
        BY <4>2, <3>1, <3>2 DEF TypeOK
      <4> QED BY <4>1, <4>2
    <3>4. (total + (IF reporter = "send" THEN copy.count ELSE 0) <= taken)'
      BY <3>2 DEF TypeOK
    <3>5. lastSent' = polls' /\ lastSent' <= polls'
      BY <3>2 DEF TypeOK
    <3> QED BY <3>1, <3>2, <3>3, <3>4, <3>5, NilAssumption
  <2>6. CASE SendMetrics
    <3>1. copy.count \in Nat
      BY DEF TypeOK, Sample
    <3> USE <2>6 DEF SendMetrics, ReporterAt
    <3>2. total + copy.count <= taken /\ reporter = "send"
      OBVIOUS
    <3>3. total' <= taken' /\ total' \in Nat
      BY <3>1, <3>2 DEF TypeOK
    <3>4. (total + (IF reporter = "send" THEN copy.count ELSE 0) <= taken)'
      <4>1. reporter' # "send"
        OBVIOUS
      <4> QED BY <3>3, <4>1
    <3> QED BY <3>2, <3>4
  <2>7. CASE ReportStop
    BY <2>7 DEF ReportStop, ReporterAt
  <2> QED BY <1>4, <2>1, <2>2, <2>3, <2>4, <2>5, <2>6, <2>7 DEF ReporterStep
<1>5. CASE UNCHANGED vars
  BY <1>5 DEF vars
<1>6. CASE Die
  BY <1>6 DEF Die
<1> QED BY <1>1, <1>2, <1>3, <1>4, <1>5, <1>6 DEF Next

-----------------------------------------------------------------------------
\* The types and the inductive invariant hold in every state of the agent.
THEOREM AgentInvariance == Spec => [](TypeOK /\ Inv)
<1>1. Init => TypeOK /\ Inv
  BY InitInv
<1>2. TypeOK /\ Inv /\ [Next]_vars => (TypeOK /\ Inv)'
  BY TypeStep, InvStep
<1> QED BY <1>1, <1>2, PTL DEF Spec

\* Every variable stays in its set, however long the agent runs.
THEOREM AgentTypes == Spec => []TypeOK
BY AgentInvariance, PTL

\* As long as no goroutine has panicked every report carries a sample that both
\* collecting goroutines have filled, and in a dying process at least one that
\* CollectMetrics has: its wg.Done() is deferred, as the other one's (service.go).
THEOREM ReportsAreWhole == Spec => []WholeSamples
<1>1. Inv => WholeSamples
  BY DEF Inv
<1> QED BY <1>1, AgentInvariance, PTL

\* However polls and reports interleave, each poll is in exactly one sample
\* that is reported for the first time, or still in pollCount.
THEOREM PollsAreTaken == Spec => []EveryPollTaken
<1>1. Inv => EveryPollTaken
  BY DEF Inv
<1> QED BY <1>1, AgentInvariance, PTL

\* The server's PollCount exceeds the number of polls by nothing but the
\* samples that were reported again.
THEOREM ServerBound == Spec => []ServerWithinPolls
<1>1. TypeOK /\ Inv => ServerWithinPolls
  <2> SUFFICES ASSUME TypeOK, Inv PROVE ServerWithinPolls
    OBVIOUS
  <2>1. total <= taken
    <3>1. copy.count \in Nat
      BY DEF TypeOK, Sample
    <3> QED BY <3>1 DEF Inv, TypeOK
  <2> QED BY <2>1 DEF Inv, EveryPollTaken, ServerWithinPolls, TypeOK
<1> QED BY <1>1, AgentInvariance, PTL
=============================================================================
