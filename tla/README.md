# A verification project for devops-pet-project

The repository is a small monitoring system in Go: an **agent** samples runtime
metrics and reports them to a **server**, which keeps gauges (last value) and
counters (sums) in memory with a backup file, or in Postgres. This directory
holds TLA+ specifications of its concurrent and failure-prone parts, TLC
configurations that model-check them, and TLAPS proofs of the safety properties
for all values of the parameters. Paths below are relative to `src/`.

## 1. The system

| part | state | operations | hard behaviour |
|---|---|---|---|
| memory store (`internal/storage/storage.go`, `Storage`) | `gaugeMap`, `counterMap`, `storageRWM` | `UpdateMetric`, `UpdateMetrics`, `ForEachMetrics`, `GetMetric` | concurrent handlers; a list is merged in two loops; panic on a nil pointer; `int64` wraps |
| backup (`BackupStorageWrapper`, `InitBackupTicker`, `writeStoreBackup`, `createStorageFromBackup`) | the file, `fileRWM`, the ticker goroutine, `doneFlag` | save, restore, stop | two locks; truncate-then-write; ignored errors; crashes |
| server life (`cmd/server/service/service.go`, `HTTPServer.go`, `main.go`) | mode of the store, listener | `InitService`, `Start`, `Destructor` | `main` ends while handlers still run |
| agent loop (`cmd/agent/service/service.go`) | `mPointer`, `pollCount`, `mux`, two tickers, `ctx` | poll, report, stop | two goroutines and two collectors; lost reports; reports faster than polls |
| agent clients (`HTTPClient.go`, `RPCClient.go`) | - | `SendMetrics`, `SendMetricsOneByOne` | loss; no timeout over HTTP; calls given up over gRPC that arrive even so |
| SQL store (`StorageV2`) | table `metrics` | the same interface | transactions, row locks, rollback |
| HTTP handlers, hash (`cmd/server/handlers`, `internal/common/common.go`) | key, store | status of each outcome | panics recovered by `net/http` |
| middlewares, routes, encryption (`handlers.go`, `HTTPServer.go`, `internal/crypto`) | - | subnet, decrypt, gunzip | order of the steps on both sides |
| RPC server and protobuf (`RPCServer.go`, `proto/`) | the store, the interceptor's network | five methods on the same store | no recovery from panics, no orderly end |
| configuration and start (`internal/common/common.go`, both `main.go`, `InitService`) | `Config` | file, flags, environment, the choice of the store | three layers that treat bad values differently |
| exit analyzer (`staticlint/straightExit`) | - | walk of a syntax tree | - |

The agent calls the server over HTTP (`POST /updates/`, a list of metrics); the
handlers call the store through `StorageInterface`; the ticker goroutine and the
handlers share the store through `storageRWM`, and in sync mode the handlers
share the file through `fileRWM`.

What makes each part correct: the *store* gives readers only states it really
had and applies each update or list as a whole; the *backup* holds such a state
whenever it can be read, never goes back within one life, and in sync mode
contains what was acknowledged; the *agent loop* neither loses nor invents polls
and always comes to an end; the *RPC side* never leaves half a sample in the store
and outlives every call; the *start* works with the value of the strongest layer
that has a good one, whatever else is wrong; no wait lasts forever.

## 2. The modules

| module | what it is |
|---|---|
| `Metrics` | the data: metrics, the two maps, machine integers, what the update methods compute |
| `BackupPromise` | the abstract specification of the store with its file: atomic updates, atomic saves of a state not older than the last, restarts |
| `BackupStore` | the detailed one: goroutines, both locks, system calls, the life of the process |
| `SqlStore` | the SQL store: requests as transactions on a table with row locks |
| `SqlSerial` | its commits against a serial execution, its results and its readers' answers against the memory store's |
| `Encoding` | what both sides do to the bytes of a request: JSON, gzip, chunked RSA |
| `HTTPServer` | the agent's and other requests through middlewares, routes, handlers and hash checks |
| `AgentLoop` | the agent: tickers, two goroutines, collectors, mutex, lossy reports, signal |
| `RPCServer` | agent and other clients over gRPC: the reporter's calls, the interceptor, the handlers, the conversions, the end of the process |
| `StartUp` | both programs from the command line to a running service: file, flags, environment, choice of store and backup mode, end |
| `MetricsProofs` | lemmas about the operators of `Metrics`, and `NatInduct` |
| `BackupStoreProofs` | theorems about `BackupStore`, the refinement of `BackupPromise` included |
| `SqlStoreProofs` | theorems about `SqlStore` and `SqlSerial` |
| `AgentLoopProofs` | theorems about `AgentLoop` |
| `HTTPServerProofs` | theorems about `HTTPServer` |
| `RPCServerProofs` | theorems about `RPCServer` |
| `StartUpProofs` | theorems about `StartUp` |
| `EncodingProofs` | theorems about `Encoding`: chunks, blocks, `RSADecrypt` of `RSAEncrypt`; lemmas about JSON and gzip |
| `MCBackupStore`, `MCSqlSerial`, `MCAgentLoop`, `MCHTTPServer`, `MCRPCServer`, `MCStartUp` | small values for TLC |

`Metrics` is extended by `BackupStore`, `SqlStore`, `HTTPServer` and `RPCServer`, so that
all four compute with the same store; `BackupStore` instantiates `BackupPromise`.

### BackupStore and the code

| model | code |
|---|---|
| `stor` | `gaugeMap`, `counterMap` |
| `writer`, `readers` | `storageRWM`: `writer` is set by the call of `Lock()`, which from then on keeps new readers out; it owns the store when `readers` is empty (`Holds`) |
| `fileRWM` | the wrapper's mutex |
| `mode` | what `InitService` set up: `"sync"` (`StoreInterval` 0), `"ticker"`, `"off"` (no `StoreFile`) |
| `pc`, `req`, `buf` | where each handler and the ticker goroutine are, the call they execute, the copy of the maps they hold |
| `file.st`, `file.data` | the backup file: absent, unreadable (`"torn"`), or decodable, and the maps in it |
| `phase` | down, up, or draining: `Shutdown` was called and `main` is about to end while handlers are still running |

One action is what a goroutine does between two points at which another may
intervene: `Lock`, `UpdateSingle`, `MergeGauges`/`MergeCounters` (the two loops of
`UpdateMetrics`, both under the lock), `LockFile`, `ReadGauges`/`ReadCounters` (the
two maps, under one `RLock`), `OpenTrunc`/`WriteBytes` (`os.WriteFile`), with
`OpenFail`/`WriteFail` for the errors nobody looks at, `Boot`, `Signal`, `Exit`,
`Kill` (the end of the process alone: the file is never synced, and a power cut is not
modelled). `Reject` is an unknown type or a nil pointer: the deferred `Unlock` runs and
nothing has changed. `hist`, `mine`, `acked`, `lost`, `buf[p].at` and `file.at` are
history variables: the states the store had in this life, which of them an update
made, which was acknowledged, whether the last attempt to write failed or was
interrupted, and which state a copy or the file is.

`GetMetric` reads one key under the same `RLock` and changes nothing; it has no
action. A float is a member of `GaugeVals`, of which the subset `NonFinite` is what
`json.Marshal` refuses. `json.Unmarshal` of what `json.Marshal` wrote is taken to
give the same maps back, and a file that was cut short is taken not to decode.

### SqlStore and the code

An actor is a connection of the pool with the handler that has it. `table` holds
the committed rows; the key is the id alone, so that a gauge and a counter of one
name share a row. `Begin` takes a connection (and begins the transaction of a list),
`UpdateMetricSQL`/`UpdateMetricFails` are the autocommitted statement of a single
update, `Statement` is one iteration of the loop of `UpdateMetrics`, `Refused` and
`DeadlockDetected` lead to `return tx.Rollback(ctx)`, which `Rollback` executes and
whose success is the handler's success; `Commit` ends the loop. `NilInList` is the
panic on a nil pointer in a list: `net/http` recovers the handler, the transaction
stays open and its connection is lost. `Break` is a cancelled context or a broken
connection, `Restart` a restart of server or database. What Postgres (READ
COMMITTED) does is modelled from how the code relies on it: a row written is locked
until the end of its transaction, a statement sees what is committed when it gets
the lock, a sum out of `bigint` is an error, a transaction in a circle of waits may
be chosen to fail, an open transaction dies with its connection. `base` and `outcome`
are history variables. Requests that wait for a free connection wait outside of the
model. The readers are single statements over the committed rows and change nothing:
`GetMetricSQL` and `ForEachMetricsSQL` of `SqlSerial` say what they may answer. A listing
whose connection breaks (`fails`) is any part of the table, because the loop over
`rows.Next()` ends in the same way and `rows.Err()` is not looked at. `Running(t, ms)[n]`
is what the first n statements of a list make of the rows t with nobody else at work,
`Applied(t, ms)` what all of them do: the serial execution the commits are compared with.

### AgentLoop and the code

`clock` drives `pollTick` and `reportTick`, the two ticker channels of capacity 1
(a tick that finds its channel full is dropped, as in Go). `poller` and `reporter`
are the places of the two goroutines, `finished` the collectors that have called
`wg.Done()`, `parts` those that have filled the sample, `mPointer` the published
sample, `copy` the reporter's `metricsCopy`. A sample is
abstracted to who filled it, its `PollCount` and a number. `SendMetrics` delivers
the report or not, and returns or never does (`http.DefaultClient` has no
timeout). The first report may find `mPointer` nil (`NilDeref`), and a collector does not
look at the error of gopsutil (`CollectPanics`). Nothing recovers these panics, but they
do not end the process at once: the deferred `wg.Done()` of the collector runs, and until
`Die` the other goroutines go on, for any number of steps (`dying`). That is why
`WholeSamples` promises two filled parts only as long as nothing has panicked, and of a
dying process the part of `CollectMetrics`. (A panic of a gRPC handler is one step of
`RPCServer`: its deferred calls release a lock and no more, and what others do
before the end might as well have come before the panic.)
`polls`, `lastSent`, `taken`, `repeated`, `total` are history variables.

### HTTPServer, Encoding and the code

A state is a deployment (`dep`: keys, RSA keys and subnet of an agent and a server,
fixed for the life of both), the store, and the last request with its answer; a step
is one request. Requests run in goroutines that share only the store, whose methods
are atomic to their callers (`SnapshotsAreStates` of `BackupStore`), so that nothing is
lost by letting a request be one step. The three middleware actions are the requests
that a middleware ends; the others are the handlers with every refusal of theirs.
`Routed` is the way through the middlewares: what reaches a handler is `Body(r)`, the
body decrypted and then decompressed. `Aborted` is a panic, which `net/http` recovers by
closing the connection. `Report` and `Single` are the two ways in which the agent's
client builds a request from a sample; `Foreign` are requests of other clients. A
`metricValue` in a URL that is no number is `Nil`.

`Encoding` has texts made of cells that say what was encoded and which part of it
they are. Only lengths and boundaries matter: JSON of a list has one cell per metric
and one more, gzip as many as its input, an RSA block as many as its key. A block opens
with its own key and if it is whole, which is what is taken of the cipher. `Gathering` is
the `append` of the two loops of `crypto.go`, one value for each round. An error of a
decoder, `Failed`, is none of the metrics and none of the texts (`FailedAssumption`): Go
returns it beside the result. A sample is never empty (`SamplesAssumption`):
`RuntimeMetrics` has its fields, and `WholeSamples` of `AgentLoop` says when they are set.
`Nil`, the pointer of a metric without hash, is no hash (`NilIsNoHash`).
`%f` in a hash is `Digits`: two gauges with the same six decimals have one hash.

### RPCServer and the code

`reporter`, `queue` and `wire` are the reporting goroutine of the agent with `RPCClient`
behind it, the calls its report has left, and its calls that the server may have
received; `up` and `stor` are the server. `Report` is a tick, `Invoke` ... `Return` one call
of the stub. `Abandon` ends a call from outside, by a broken connection or the agent's
context: the server may have it already, and then handles it at any later time, side by
side with the next report (`late` remembers this). `Handle` is a whole handler, because a
call of the store is atomic for its callers (`SnapshotsAreStates`). An answer is the store
after it, a status, and what it carries; status `panic` is a panic, and ends the process
with its memory: gRPC recovers nothing. `Kill` is a signal or a crash, `Boot` a new
process. Network and addresses are opaque, `Member` says which belongs to which, and a
`TRUSTED_SUBNET` that is an address is one without a mask. `main` of both programs picks
HTTP today; the model is of what `common.GRPC` would run.

### StartUp and the code

An input is a way to start a program: members of the JSON file, arguments, environment,
`.env`. `phase` and `pos` are where `initConfig` is: `DecodeMember`/`DecodeEnd` are
`InitJSONConfig`, `ParseFlag`/`ParseEnd` `flag.Parse`, `ReadEnv` the two functions of the
environment, `StartAgent`/`StartServer` what `InitService` and `StartSending` make of the
result, `Stop` the end on a signal. `"running"` is an initialised service: that its address
cannot be listened on (`HTTPServer.go:64`) would be found out after that. A field stands
for its member, flag and variable.
`Durations`, `Bools` and `KeyFiles` are the parsers, given by their results; `Bad` is an
error, `NoPEM` the file at which `readPublicCryptoKey` and `readPrivateCryptoKey` panic.

## 3. The runs

| run | what it asks | bounds and why they are enough |
|---|---|---|
| `backup_safe` | types, the inductive invariant, `SnapshotsAreStates`, `AckedOnDisk`, `BootKeepsAcked`, `GracefulExitKeepsFile`, refinement of `BackupPromise` | two handlers and the ticker (every hazard is a race of two savers, or of a saver and a writer), two updates per life, any number of lives, all three modes, failing system calls, one name used as gauge and as counter, counters of two bits so that two increments overflow |
| `backup_live` | `RequestAnswered`, `EventuallySaved` | the same goroutines without failing calls; two updates per life |
| `sql` | types, the invariant (`NoLostUpdate` in it), `ViewsAreSerial`, `CommitsAreSerial`, `StoresAgree`, `ReadersAgree`, `RequestsEnd` | three connections (a deadlock of two and a third that waits), two names, lists that lock them in both orders, with one counter twice, refused, and panicking; counters of two bits, so that sums leave the range; no bound on the number of requests |
| `agent` | types, the invariant, `WholeSamples`, `EveryPollTaken`, `ServerWithinPolls`, `Stops` | the default intervals (1 s and 2 s), five seconds: two reports, with polls before, between and after them; a report may lag behind or overtake polls by any amount within them, and a panic may take as long to end the process. Ticks after that are not observed |
| `http` | types, `ReportDelivered`, `OnlySuccessChanges`, `SignedOnly`, `AnswersVerify` | 39 deployments: all pairs of hash keys with and without RSA, all pairs of RSA keys of four sizes (the one that fits, a shorter, a longer, one without room for the padding), both kinds of `TRUSTED_SUBNET`; reports of one block and of two; other clients' lists that fail in each way after a good metric, plain, compressed, encrypted and both; counters of two bits; any number of requests |
| `rpc` | types, the invariant, `OneSample`, `NewestSample`, `OnlySuccessChanges`, `NoCallKills`, `ReadsAreStored`, `Stops` | three reports (the one that is stored, one that is given up, one that overtakes it), a sample of two gauges so that it can be mixed, nine calls of others that are answered in every way, a network, an address as network, or none; any number of kills and restarts |
| `startup` | types, the invariant, `Precedence`, `BackupHasAFile`, `GoodInputStarts` | 56,000 ways to start: four or five files for each program that end in every way, all lines of up to two arguments out of ten, pairs of environments that overlap with them; texts that parse as one thing, as several, or as nothing |
| `backup_batch_not_saved` | violated: `BatchAckedOnDisk` | README.md:20-21 calls interval 0 synchronous; lists, which is all the agent sends, are never recorded |
| `backup_emptied` | violated: `GoodFileIsKept` | a NaN gauge makes every save truncate the file and write nothing |
| `backup_not_saved_at_exit` | violated: `SavedAtExit` | devopstest.yml:196 wants all data saved at a normal end; the ticker is stopped without a last save |
| `sql_rolled_back` | violated: `AcknowledgedIsStored` | a rolled back list is answered with 200 |
| `agent_nil_deref` | violated: `SampleToReport` | equal intervals, as in `cmd/agent/config.json` |

Every property of a passing run has a mutant, an operator next to the one it
replaces, in the form of a plausible bug; TLC finds the property violated under
it. The bounds `MaxUpdates`, `MaxClock` and `MaxReports` exist for TLC only: the theorems hold for
every value of them.

**Fairness.** `BackupStore!Fairness`: Go's scheduler runs each runnable goroutine
(weak fairness of its steps); locks are taken with strong fairness, because
`sync.Mutex` has a starvation mode and `Unlock` of an `RWMutex` lets waiting
readers in before the next writer; the ticker fires again and again; system calls
return. Nothing is assumed of requests, signals, crashes or restarts.
`SqlStore!FairSpec`: every request that can go on again and again does, as Postgres
wakes waiters in order and looks for deadlocks; `RequestsEnd` holds only as long as no
transaction was abandoned by `NilInList`.
`AgentLoop!Fairness`: the same for the two goroutines, and that a `select`, which
picks a ready case at random, does not pass over a ready `ctx.Done()` forever; and that the
runtime ends a process after a panic (`Die`).
`RPCServer!FairSpec` asks the same of the reporter, and of gRPC that a call whose context
is done returns; it asks nothing of the server, which may be down or never answer.
`StartUp!FairSpec`: `main` goes on until the service is initialised. Nothing is asked of `Stop`.

## 4. The proofs

Constants are arbitrary within the named assumptions (any sets of handlers, names
and requests, any integer width, any intervals).

*BackupStore.* The properties are not inductive. `Inv` adds what they depend on:
who may hold which lock at which place (`StoreLock`), that whoever saves is alone
(`OneSaver`), that the store is the last state of `hist`, or that with the gauges of
the list that is being merged (`StoreIsLatest`), that half a copy is half of the
*latest* state because the reader keeps writers out (`CopiesAreStates`), that no copy
that will replace the file is older than the file (`FileIsState`), and that a
copy taken after an update contains it (`AckedIsSaved`). `Invariance` proves
`Spec => [](TypeOK /\ Inv)`, one step per action; `Snapshots`, `Acknowledged`,
`RestartKeepsAcked` and `GracefulExit` follow from it. `Refinement` proves
`Spec => ImplementsPromise`: `UpdateSingle` and `MergeCounters` are `Commit`,
`OpenTrunc` is `Spoil`, a successful `WriteBytes` is `Save(buf[p].at)`, `Boot` is
`Start`, `Exit` and `Kill` are `Stop`, all other steps stutter. `MetricsProofs` holds
the lemmas about the maps and about wrapping addition that typing rests on.

*SqlStore.* `Inv` says that locks are exclusive, that the row a transaction has started
from is the committed one until it ends (`NoLostUpdate`), and that only connections
with a list hold rows. `ReleaseInv` covers every way a transaction can end.
`Serialisable` needs more: `ViewsAreSerial` says that in the middle of its list a
transaction sees what the statements executed so far would have left of the rows that
are committed *now*, although others commit all the time; it is inductive together with
`Inv`, since a commit of another changes only rows that this one has not touched
(`NoLostUpdate`). At the end of the list the view is `Applied`, and a commit is the list
run alone. `StoresCompute` compares two ways through one list: statement after statement
in SQL, and gathering the last delta of each name before merging in memory. On lists
that both take alike (`Plain`: no counter twice, one type for each name, nothing that is
refused) `Applied` and `UpdateMetrics` agree, by induction over the list. `ReadersSeeTheSame` needs the
correspondence `AsMaps` only.

*HTTPServer.* The properties relate the last request to the store before and after it, so
that each follows from what a request may come to: `Outcomes` reduces all actions to six
cases, `NoFault` says that a loop which found nothing looked at every element. The store's
type (`HTTPTypes`) is what the other proofs need of earlier steps. `Delivered` follows a
report from the sample to the store: `SignedList` and `HashesAgree` (each hash is the one
the server computes if and only if the keys are the same or the server has none),
`ClearBody`/`SecretBody` (what the client makes of the list, with and without RSA),
`ReportArrives` (what the middlewares make of that: the list, an error, or a text that
is no list), `ReportChecked` and `ReportServed` (then the list is stored as a whole or
refused as a whole). It holds in both directions: a report that is incompatible is
neither stored nor answered with 200. The `Single...` lemmas do the same for
`SendMetricsOneByOne`.

*RPCServer.* `OneSample` is not inductive: `Inv` adds that every call on its way is the
whole report of its number, that the reporter's queue is the same, and that without a
call given up at most one is on its way, which is what `NewestSample` needs.
`RPCInvariance` proves it with `OneSample` and `NoCallKills`, one step per action;
`GaugesAreOneSample` rests on a sample naming each metric once and on other clients'
gauges having other names, both named assumptions.

*StartUp.* `Inv` says of every phase that `Config` is what the layers read so far give, a
declarative description (the last member before one that ends the decoding, the last
flag before an operand). Each step moves one boundary of these descriptions;
`LayersInOrder` and `BackupsHaveFiles` read the result off at the end. `GoodStartsGoOn` is
the safety half of `GoodInputStarts`: with nothing wrong in the input no step before the
service exits or panics; that `main` then gets there is liveness.

*Encoding.* `ChunksAreFull` and `ChunksAreAll`: for texts and sizes of any length the chunks
cover the text, each cell in one place, all but the last of full size; `BlocksOpen`: each
fits its key and its block gives it back. `GluedChunks` and `GluedBlocks` say, by induction
over the rounds of the loop, what `append` has gathered from chunks and from blocks.
`Recut`: what was glued at the size of the key and is cut at `ServerBlock` gives the same
blocks if the two are equal; `FirstChunk` and `Undecipherable`: if not, the first piece
already is no block, one single short block aside (`OneBlock`). `RoundTrip` puts this
together: which texts come back with which keys, and what happens to the others.

*AgentLoop.* `Inv` ties `pollCount` to the published sample (it is the sample's
count, or 0 once that sample was reported) and puts each goroutine's critical section
under `mux`. It says of every sample that is being published, published or copied that it
is `Filled`, which follows from `finished`: a collector that has not filled its part has
panicked. `AgentInvariance`, `ReportsAreWhole`, `PollsAreTaken` and `ServerBound`
follow, for every pair of intervals.

**Induction.** `SqlSerial` and `Encoding` describe loops by recursive functions
(`LET f[n \in 0..Len(s)] == ... IN f`), which are a CHOOSE for the prover. Each use needs
two inductions, one that such a function exists (`GatheringExists` builds it up to n, for
every n) and one for what it computes. The library's induction theorems take a predicate
as a parameter, which the provers cannot instantiate; `NatInduct` of `MetricsProofs`
takes the *set* of the numbers that have the property, and follows from the least number
outside of it.

**Assumptions.** Only the named ASSUMEs of the modules, which TLC evaluates on the values
of every run; there is no other hypothesis in a theorem `Spec => ...`.

**Model-checked only.** All invariants and all action properties of the passing runs are
proved, and the refinement. Left to TLC is what needs fairness, beyond the prover's
reach: `RequestAnswered`, `EventuallySaved`, `RequestsEnd`, both `Stops`, and
`GoodInputStarts` apart from its safety half. The violated statements are shown violated
by TLC's traces.

## 5. Where the code departs from its documents

The five violated runs, and, seen while modelling:

- *store and backup:* RESTORE=false does not create a new file (README.md:25); the 30
  seconds that `Shutdown` gives running requests are not waited for by `main`; the
  destructor is nil without ticker and database; a list keeps only the last delta of a
  counter (`storage.go:279`);
- *SQL store:* a nil pointer in a list leaves a transaction open for good; `GetMetric`
  ignores the type; a listing that was cut short is served as complete
  (`ForEachMetricsSQL`; no property is about it);
- *agent:* a sample reported twice adds its PollCount twice (devopstest.yml:90;
  `ServerWithinPolls` bounds the excess by the repeated samples); an agent that dies of
  gopsutil's error may still send a sample without gopsutil's values;
- *HTTP:* `TRUSTED_SUBNET` with a plain address, as README.md:31 describes it, makes
  requests panic, and with a network it shuts the agent out, which sets no `X-Real-IP`;
  `RSADecrypt` fits 4096-bit keys only; `SendMetricsOneByOne` announces a compression it
  does not do; `UpdateMetricV1` checks no hash; a metric without a hash panics instead of
  a 400; `POST /value/` of a NaN answers what is not JSON;
- *gRPC:* counters are sent as 0 (`proto/common.go:91`); hashes and RSA keys are not used;
  the agent sends no metadata, so that a `TRUSTED_SUBNET` refuses all its reports; a
  `TRUSTED_SUBNET` without a mask ends the server at the first call with an address;
- *configuration:* `-c` and `-config` do nothing; a time without a unit, which README.md:8
  asks for, is ignored in the environment and fatal as a flag; a bad duration in the file
  becomes 0 and hides the members after it; a key file that is no PEM is a panic; `-r
  false` ends the parsing of the flags, which want `-r=false`;
- *exit analyzer:* it looks at every plain function of package main, not at `main` only,
  and at statements of the outermost block only.

## 6. Not modelled

- `/ping`, and the errors of the SQL store behind the HTTP handlers: `HTTPServer` is over
  the memory store, `SqlStore` says what the other one returns.
- The system's cache of the file: nothing is ever synced, so that a power cut may take
  what was acknowledged; crashes are those of the process.
- The logger and the compression of answers: no state, no decision.
- The exit analyzer (`staticlint`): one pass over syntax trees, a conjunction of
  conditions with nothing beside it to interact with.
- Of the generated code the getters, descriptors and reflection.
- The ciphers, HTTP, gRPC and SQL drivers: modelled by what they promise where a module
  needs them. Formatting and logging.

What would come next: agent loop, encodings and server composed, for what PollCount on the
server may be after lost reports and restarts (the refinement theorem allows using
`BackupPromise` for the server, and `Delivered` a report as one step), with the bound of
`ServerWithinPolls` as a theorem of the composition.
