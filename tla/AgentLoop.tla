------------------------------ MODULE AgentLoop ------------------------------
(***************************************************************************)
(* The agent (cmd/agent/service/service.go, StartSending): one goroutine   *)
(* that polls the runtime, one that reports, the mutex between them, their *)
(* tickers, and the HTTP request of a report, which may arrive or not and  *)
(* may never be answered.                                                  *)
(***************************************************************************)
EXTENDS Integers

CONSTANTS
  PollInterval,     \* in units of the clock
  ReportInterval,
  MaxClock,         \* bound on the time observed, for TLC only
  Nil               \* the nil pointer, and "nobody" for the mutex

ASSUME IntervalAssumption ==
  PollInterval \in Nat \ {0} /\ ReportInterval \in Nat \ {0}
ASSUME MaxClockAssumption == MaxClock \in Nat

\* The two goroutines of a poll: CollectMetrics and CollectGopsutilMetrics.
Collectors == {"runtime", "gopsutil"}

VARIABLES
  clock,
  pollTick,     \* pollTicker.C holds a tick (a channel of capacity 1)
  reportTick,   \* reportInterval.C holds one
  cancelled,    \* ctx is done: a signal came
  dying,        \* a goroutine has panicked: the runtime is about to end the process
  panicked,     \* ... and has ended it
  poller,       \* where the polling goroutine is
  finished,     \* the collectors of its sample that have called wg.Done()
  parts,        \* the collectors that have filled it
  reporter,     \* where the reporting goroutine is
  mux,          \* who holds mux, or Nil
  pollCount,
  mPointer,     \* the last sample: what fills it, its PollCount, its number; or Nil
  copy          \* metricsCopy

\* History variables.
VARIABLES
  polls,        \* the samples published so far
  lastSent,     \* the number of the last sample copied for a report, 0 if none
  taken,        \* the sum of the PollCounts of all reports
  repeated,     \* the part of it in reports of a sample reported before
  total         \* the sum of the PollCounts that reached the server

tickVars == <<clock, pollTick, reportTick>>
sampleVars == <<pollCount, mPointer>>
reportVars == <<lastSent, taken, repeated>>
collectVars == <<finished, parts>>
lifeVars == <<cancelled, dying, panicked>>
vars == <<clock, pollTick, reportTick, cancelled, dying, panicked, poller, finished,
          parts, reporter, mux, pollCount, mPointer, copy, polls, lastSent, taken,
          repeated, total>>

Sample == [parts : SUBSET Collectors, count : Nat, nr : Nat]

ASSUME NilAssumption == Nil \notin Sample /\ Nil \notin {"poller", "reporter"}

NoSample == [parts |-> {}, count |-> 0, nr |-> 0]

Init ==
  /\ clock = 0 /\ pollTick = FALSE /\ reportTick = FALSE
  /\ cancelled = FALSE /\ dying = FALSE /\ panicked = FALSE
  /\ poller = "select" /\ finished = {} /\ parts = {}
  /\ reporter = "select" /\ mux = Nil
  /\ pollCount = 0 /\ mPointer = Nil /\ copy = NoSample
  /\ polls = 0 /\ lastSent = 0 /\ taken = 0 /\ repeated = 0 /\ total = 0

-----------------------------------------------------------------------------
\* Time passes; a tick that finds its channel full is dropped.
Advance ==
  /\ clock < MaxClock /\ ~panicked
  /\ clock' = clock + 1
  /\ pollTick' = (pollTick \/ clock' % PollInterval = 0)
  /\ reportTick' = (reportTick \/ clock' % ReportInterval = 0)
  /\ UNCHANGED <<lifeVars, poller, collectVars, reporter, mux, sampleVars, copy,
                 polls, reportVars, total>>

\* main's goroutine cancels the context when a signal comes.
Cancel ==
  /\ ~cancelled /\ ~panicked
  /\ cancelled' = TRUE
  /\ UNCHANGED <<tickVars, dying, panicked, poller, collectVars, reporter, mux, sampleVars,
                 copy, polls, reportVars, total>>

-----------------------------------------------------------------------------
(* The polling goroutine *)

PollerAt(l) == ~panicked /\ poller = l

PollTick ==
  /\ PollerAt("select") /\ pollTick
  /\ pollTick' = FALSE
  /\ poller' = "collect"
  /\ finished' = {} /\ parts' = {}
  /\ UNCHANGED <<clock, reportTick, lifeVars, reporter, mux, sampleVars,
                 copy, polls, reportVars, total>>

\* One of the two collecting goroutines fills its part of the sample and is done.
Collect(c) ==
  /\ PollerAt("collect") /\ c \notin finished
  /\ finished' = finished \cup {c}
  /\ parts' = parts \cup {c}
  /\ UNCHANGED <<tickVars, lifeVars, poller, reporter, mux, sampleVars,
                 copy, polls, reportVars, total>>

\* mem.VirtualMemory may fail: its error is dropped and the nil result is dereferenced.
\* Nothing recovers the collecting goroutine, but its deferred wg.Done() runs, and the
\* others go on until the runtime has ended the process.
CollectPanics ==
  /\ PollerAt("collect") /\ "gopsutil" \notin finished
  /\ finished' = finished \cup {"gopsutil"}
  /\ dying' = TRUE
  /\ UNCHANGED <<tickVars, cancelled, panicked, poller, parts, reporter, mux, sampleVars,
                 copy, polls, reportVars, total>>

\* A mutant: wg.Add(1) for the two of them.
JoinOne ==
  /\ PollerAt("collect") /\ finished # {}
  /\ poller' = "lock"
  /\ UNCHANGED <<tickVars, lifeVars, collectVars, reporter, mux, sampleVars,
                 copy, polls, reportVars, total>>

\* wg.Wait()
Join ==
  /\ PollerAt("collect") /\ finished = Collectors
  /\ poller' = "lock"
  /\ UNCHANGED <<tickVars, lifeVars, collectVars, reporter, mux, sampleVars,
                 copy, polls, reportVars, total>>

\* A mutant: the sample is published without the mutex.
PollLockFree ==
  /\ PollerAt("lock")
  /\ mux' = "poller"
  /\ poller' = "publish"
  /\ UNCHANGED <<tickVars, lifeVars, collectVars, reporter, sampleVars, copy,
                 polls, reportVars, total>>

PollLock ==
  /\ PollerAt("lock") /\ mux = Nil
  /\ mux' = "poller"
  /\ poller' = "publish"
  /\ UNCHANGED <<tickVars, lifeVars, collectVars, reporter, sampleVars, copy,
                 polls, reportVars, total>>

\* A mutant: no Unlock.
PublishLocked ==
  /\ PollerAt("publish")
  /\ pollCount' = pollCount + 1
  /\ mPointer' = [parts |-> parts, count |-> pollCount', nr |-> polls + 1]
  /\ polls' = polls + 1
  /\ poller' = "select"
  /\ UNCHANGED <<tickVars, lifeVars, collectVars, reporter, mux, copy, reportVars,
                 total>>

\* The sample gets the number of polls since the last report and is published.
Publish ==
  /\ PollerAt("publish")
  /\ pollCount' = pollCount + 1
  /\ mPointer' = [parts |-> parts, count |-> pollCount', nr |-> polls + 1]
  /\ polls' = polls + 1
  /\ mux' = Nil
  /\ poller' = "select"
  /\ UNCHANGED <<tickVars, lifeVars, collectVars, reporter, copy, reportVars,
                 total>>

PollStop ==
  /\ PollerAt("select") /\ cancelled
  /\ poller' = "done"
  /\ UNCHANGED <<tickVars, lifeVars, collectVars, reporter, mux, sampleVars,
                 copy, polls, reportVars, total>>

-----------------------------------------------------------------------------
(* The reporting goroutine *)

ReporterAt(l) == ~panicked /\ reporter = l

ReportTick ==
  /\ ReporterAt("select") /\ reportTick
  /\ reportTick' = FALSE
  /\ reporter' = "lock"
  /\ UNCHANGED <<clock, pollTick, lifeVars, poller, collectVars, mux, sampleVars,
                 copy, polls, reportVars, total>>

\* A mutant: the sample is copied without the mutex.
ReportLockFree ==
  /\ ReporterAt("lock")
  /\ mux' = "reporter"
  /\ reporter' = "copy"
  /\ UNCHANGED <<tickVars, lifeVars, poller, collectVars, sampleVars, copy,
                 polls, reportVars, total>>

ReportLock ==
  /\ ReporterAt("lock") /\ mux = Nil
  /\ mux' = "reporter"
  /\ reporter' = "copy"
  /\ UNCHANGED <<tickVars, lifeVars, poller, collectVars, sampleVars, copy,
                 polls, reportVars, total>>

\* metricsCopy := *mPointer
Copy ==
  /\ ReporterAt("copy") /\ mPointer # Nil
  /\ copy' = mPointer
  /\ reporter' = "reset"
  /\ UNCHANGED <<tickVars, lifeVars, poller, collectVars, mux, sampleVars,
                 polls, reportVars, total>>

\* ... with no sample published yet: a nil dereference, nothing recovers it, and no
\* deferred call unlocks mux.
NilDeref ==
  /\ ReporterAt("copy") /\ mPointer = Nil
  /\ reporter' = "gone"
  /\ dying' = TRUE
  /\ UNCHANGED <<tickVars, cancelled, panicked, poller, collectVars, mux, sampleVars,
                 copy, polls, reportVars, total>>

\* A mutant: what was reported is subtracted, a sample reported again included.
ResetBySubtraction ==
  /\ ReporterAt("reset")
  /\ pollCount' = pollCount - copy.count
  /\ mux' = Nil
  /\ reporter' = "send"
  /\ taken' = taken + copy.count
  /\ repeated' = repeated + (IF copy.nr = lastSent THEN copy.count ELSE 0)
  /\ lastSent' = copy.nr
  /\ UNCHANGED <<tickVars, lifeVars, poller, collectVars, mPointer, copy, polls,
                 total>>

\* pollCount = 0, whatever becomes of the report.
Reset ==
  /\ ReporterAt("reset")
  /\ pollCount' = 0
  /\ mux' = Nil
  /\ reporter' = "send"
  /\ taken' = taken + copy.count
  /\ repeated' = repeated + (IF copy.nr = lastSent THEN copy.count ELSE 0)
  /\ lastSent' = copy.nr
  /\ UNCHANGED <<tickVars, lifeVars, poller, collectVars, mPointer, copy, polls,
                 total>>

\* A mutant: a request whose answer is lost is sent again.
SendMetricsRetrying ==
  /\ ReporterAt("send")
  /\ total' \in {total, total + copy.count, total + 2 * copy.count}
  /\ reporter' \in {"select", "hung"}
  /\ UNCHANGED <<tickVars, lifeVars, poller, collectVars, mux, sampleVars, copy,
                 polls, reportVars>>

\* The request reaches the server or does not; the agent logs the outcome and
\* goes on in both cases, or waits for an answer that never comes:
\* http.DefaultClient has no timeout.
SendMetrics ==
  /\ ReporterAt("send")
  /\ total' \in {total, total + copy.count}
  /\ \/ reporter' = "select"
     \/ reporter' = "hung"
  /\ UNCHANGED <<tickVars, lifeVars, poller, collectVars, mux, sampleVars, copy,
                 polls, reportVars>>

ReportStop ==
  /\ ReporterAt("select") /\ cancelled
  /\ reporter' = "done"
  /\ UNCHANGED <<tickVars, lifeVars, poller, collectVars, mux, sampleVars, copy,
                 polls, reportVars, total>>

-----------------------------------------------------------------------------
\* The runtime has written the panic's message and ends the process.
Die ==
  /\ dying /\ ~panicked
  /\ panicked' = TRUE
  /\ UNCHANGED <<tickVars, cancelled, dying, poller, collectVars, reporter, mux, sampleVars,
                 copy, polls, reportVars, total>>

PollerStep ==
  \/ PollTick
  \/ \E c \in Collectors : Collect(c)
  \/ CollectPanics
  \/ Join
  \/ PollLock
  \/ Publish
  \/ PollStop

ReporterStep ==
  \/ ReportTick
  \/ ReportLock
  \/ Copy
  \/ NilDeref
  \/ Reset
  \/ SendMetrics
  \/ ReportStop

Next == Advance \/ Cancel \/ PollerStep \/ ReporterStep \/ Die

Spec == Init /\ [][Next]_vars

\* The scheduler runs every goroutine, sync.Mutex starves nobody, and a select
\* chooses at random, so that it does not pass over a ready ctx.Done() forever.
\* A panic ends the process some time later.
Fairness ==
  /\ WF_vars(PollerStep) /\ SF_vars(PollLock) /\ SF_vars(PollStop)
  /\ WF_vars(ReporterStep) /\ SF_vars(ReportLock) /\ SF_vars(ReportStop)
  /\ WF_vars(Die)

FairSpec == Spec /\ Fairness

-----------------------------------------------------------------------------
(* Properties *)

\* Every variable stays in its set.
TypeOK ==
  /\ clock \in Nat /\ pollTick \in BOOLEAN /\ reportTick \in BOOLEAN
  /\ cancelled \in BOOLEAN /\ dying \in BOOLEAN /\ panicked \in BOOLEAN
  /\ poller \in {"select", "collect", "lock", "publish", "done"}
  /\ finished \subseteq Collectors /\ parts \subseteq Collectors
  /\ reporter \in {"select", "lock", "copy", "reset", "send", "hung", "done", "gone"}
  /\ mux \in {Nil, "poller", "reporter"}
  /\ pollCount \in Nat /\ mPointer \in Sample \cup {Nil} /\ copy \in Sample
  /\ polls \in Nat /\ lastSent \in Nat /\ taken \in Nat /\ repeated \in Nat
  /\ total \in Nat

\* What a sample may have when wg.Wait() has returned: both parts, or in a dying
\* process that of CollectMetrics alone.
Filled(ps) == ps = Collectors \/ (dying /\ ps = {"runtime"})

\* A report carries a sample that both collectors have filled, as long as none of them
\* has panicked: the WaitGroup and the publication under mux keep half-built samples
\* away from the reporter.  After a panic of gopsutil's collector it may be the half of
\* a sample, never less, and never the half that gopsutil fills.
WholeSamples == reporter \in {"send", "hung"} => Filled(copy.parts)

\* No poll is lost between the two goroutines: what the reports have carried,
\* samples sent twice set aside, is every poll but those still in pollCount.
EveryPollTaken == taken - repeated = polls - pollCount

\* The server never counts a poll that was not made, samples sent twice aside.
ServerWithinPolls == total <= polls - pollCount + repeated

\* After a signal both goroutines leave their loops, so that mainWG.Wait()
\* returns, unless the agent panics or a report is never answered.
Stops ==
  /\ cancelled ~> panicked \/ poller = "done"
  /\ cancelled ~> panicked \/ reporter \in {"done", "hung"}

\* The inductive invariant behind the safety properties.
Inv ==
  /\ mux = "poller" <=> poller = "publish"
  /\ mux = "reporter" <=> reporter \in {"copy", "reset", "gone"}
  /\ parts \subseteq finished
  /\ finished # parts => dying /\ finished \ parts = {"gopsutil"}
  /\ poller \in {"lock", "publish"} => Filled(parts)
  /\ IF mPointer = Nil
     THEN polls = 0 /\ pollCount = 0 /\ lastSent = 0
     ELSE /\ Filled(mPointer.parts)
          /\ mPointer.nr = polls /\ polls > 0
          /\ pollCount = IF mPointer.nr = lastSent THEN 0 ELSE mPointer.count
  /\ lastSent <= polls
  /\ reporter = "reset" => copy = mPointer /\ mPointer # Nil
  /\ WholeSamples
  /\ EveryPollTaken
  /\ total + (IF reporter = "send" THEN copy.count ELSE 0) <= taken

-----------------------------------------------------------------------------
(* What the repository's documents say and the code does not do *)

\* .github/workflows/devopstest.yml:100: the agent ends normally, on a signal.
\* With equal intervals, as in cmd/agent/config.json:3-4, the first report may
\* come before the first sample: the agent panics, with no failure around it.
SampleToReport == reporter = "copy" => mPointer # Nil
=============================================================================
