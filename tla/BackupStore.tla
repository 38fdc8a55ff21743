----------------------------- MODULE BackupStore -----------------------------
(***************************************************************************)
(* The in-memory store of the server with its backup file, as the          *)
(* goroutines of the process run it: request handlers calling the store,   *)
(* the ticker goroutine of InitBackupTicker, the two locks, the calls of   *)
(* os.WriteFile, and the life of the process from InitService to its end.  *)
(* A step is what a goroutine does between two points where another one    *)
(* may intervene.                                                          *)
(***************************************************************************)
EXTENDS Metrics, FiniteSets

CONSTANTS
  Handlers,     \* request goroutines that may be in the store at once
  Ticker,       \* the goroutine of InitBackupTicker
  Modes,        \* the ways InitService may set the backup up at a start
  Restores,     \* the values RESTORE may have at a start
  IOFaults,     \* may open(2) or write(2) of the backup file fail?
  MaxUpdates    \* bound on the updates of one life, for TLC only

ASSUME ModesAssumption == Modes \subseteq {"sync", "ticker", "off"}
ASSUME ProcsAssumption == Ticker \notin Handlers /\ Nil \notin Handlers \cup {Ticker}
ASSUME RestoresAssumption == Restores \subseteq BOOLEAN
ASSUME IOFaultsAssumption == IOFaults \in BOOLEAN

VARIABLES
  phase,     \* "down", "up", or "draining": Shutdown was called, handlers still run
  mode,      \* "sync": STORE_INTERVAL is 0; "ticker": it is not; "off": no STORE_FILE
  stor,      \* gaugeMap and counterMap
  writer,    \* who has called storageRWM.Lock(): it waits for the readers, then holds it
  readers,   \* who holds storageRWM for reading
  fileRWM,   \* who holds the wrapper's mutex, or Nil
  pc,        \* where each goroutine is
  req,       \* the call each handler is executing
  buf,       \* the copy each goroutine is reading or has read, and its index in hist
  file       \* the backup file: readable or not, its state, the index of it in hist

\* History variables: the program does not have them.
VARIABLES
  hist,      \* the states of the store in this life, in order of commit
  mine,      \* the index in hist of the update each handler committed, 0 if none
  acked,     \* the latest index acknowledged to a client, by method
  lost       \* the last attempt to write the file did not complete

procVars == <<pc, req, buf, mine>>
lockVars == <<writer, readers, fileRWM>>
ghosts == <<hist, mine, acked, lost>>
vars == <<phase, mode, stor, writer, readers, fileRWM, pc, req, buf, file, hist, mine,
          acked, lost>>

Procs == Handlers \cup {Ticker}

NoReq == [op |-> "none", ms |-> <<>>]
NoBuf == [data |-> EmptyStore, at |-> 0]
NoAck == [single |-> 0, batch |-> 0]

Running == phase \in {"up", "draining"}

Later(a, b) == IF a >= b THEN a ELSE b

Init ==
  /\ phase = "down" /\ mode = "off"
  /\ stor = EmptyStore
  /\ writer = Nil /\ readers = {} /\ fileRWM = Nil
  /\ pc = [p \in Procs |-> "idle"]
  /\ req = [p \in Procs |-> NoReq]
  /\ buf = [p \in Procs |-> NoBuf]
  /\ file = [st |-> "absent", data |-> EmptyStore, at |-> 0]
  /\ hist = <<EmptyStore>>
  /\ mine = [p \in Procs |-> 0]
  /\ acked = NoAck
  /\ lost = FALSE

-----------------------------------------------------------------------------
(* Goroutines *)

At(p, l) == Running /\ pc[p] = l

Goto(p, l) == pc' = [pc EXCEPT ![p] = l]

\* Goroutine p is done with what it was doing; its locals are gone.
Return(p) ==
  /\ Goto(p, "idle")
  /\ req' = [req EXCEPT ![p] = NoReq]
  /\ buf' = [buf EXCEPT ![p] = NoBuf]
  /\ mine' = [mine EXCEPT ![p] = 0]

\* The goroutines that read the store in order to write it to the file.
Saves(p) == p = Ticker \/ req[p].op = "UpdateMetric"

Updating == {p \in Handlers : pc[p] \in {"lock", "update", "merge"}}

\* A request reaches the store.  The server takes new ones only while it is up.
Request(p, r) ==
  /\ phase = "up" /\ pc[p] = "idle"
  /\ r.op # "ForEachMetrics" => Len(hist) + Cardinality(Updating) <= MaxUpdates
  /\ Goto(p, IF r.op = "ForEachMetrics" THEN "readGauges" ELSE "lock")
  /\ req' = [req EXCEPT ![p] = r]
  /\ UNCHANGED <<phase, mode, stor, lockVars, buf, file, hist, mine, acked, lost>>

\* A mutant: RLock where Lock is needed, so that a writer does not wait for another.
LockShared(p) ==
  /\ At(p, "lock")
  /\ writer' = p
  /\ Goto(p, "update")
  /\ UNCHANGED <<phase, mode, stor, readers, fileRWM, req, buf, file, ghosts>>

\* storageRWM.Lock(): one writer at a time, and from here on no new reader ...
Lock(p) ==
  /\ At(p, "lock") /\ writer = Nil
  /\ writer' = p
  /\ Goto(p, "update")
  /\ UNCHANGED <<phase, mode, stor, readers, fileRWM, req, buf, file, ghosts>>

\* ... and once the last reader has left the writer has the store for itself.
Holds(p) == At(p, "update") /\ readers = {}

\* An unknown type (error) or a nil pointer (panic, recovered by net/http): the
\* deferred Unlock runs and nothing has been changed.
Reject(p) ==
  /\ Holds(p)
  /\ ~Accepted(req[p])
  /\ writer' = Nil
  /\ Return(p)
  /\ UNCHANGED <<phase, mode, stor, readers, fileRWM, file, hist, acked, lost>>

\* A mutant: the store is saved in the background of the reply.
UpdateSingleAckFirst(p) ==
  /\ Holds(p)
  /\ req[p].op = "UpdateMetric" /\ Accepted(req[p])
  /\ writer' = Nil
  /\ stor' = UpdateMetric(stor, req[p].ms[1])
  /\ hist' = Append(hist, stor')
  /\ acked' = [acked EXCEPT !.single = Len(hist')]
  /\ IF mode = "sync"
     THEN Goto(p, "lockFile") /\ UNCHANGED <<req, buf, mine>>
     ELSE Return(p)
  /\ UNCHANGED <<phase, mode, readers, fileRWM, file, lost>>

\* Storage.UpdateMetric; in sync mode the wrapper goes on to save the store.
UpdateSingle(p) ==
  /\ Holds(p)
  /\ req[p].op = "UpdateMetric" /\ Accepted(req[p])
  /\ writer' = Nil
  /\ stor' = UpdateMetric(stor, req[p].ms[1])
  /\ hist' = Append(hist, stor')
  /\ IF mode = "sync"
     THEN /\ Goto(p, "lockFile")
          /\ mine' = [mine EXCEPT ![p] = Len(hist')]
          /\ UNCHANGED <<req, buf, acked>>
     ELSE /\ Return(p)
          /\ acked' = [acked EXCEPT !.single = Len(hist')]
  /\ UNCHANGED <<phase, mode, readers, fileRWM, file, lost>>

\* Storage.UpdateMetrics up to its first merge loop, with the lock held ...
MergeGauges(p) ==
  /\ Holds(p)
  /\ req[p].op = "UpdateMetrics" /\ Accepted(req[p])
  /\ stor' = MergeGaugesOf(stor, req[p].ms)
  /\ Goto(p, "merge")
  /\ UNCHANGED <<phase, mode, lockVars, req, buf, file, ghosts>>

\* ... and from its second one to the reply: the wrapper does not override it.
MergeCounters(p) ==
  /\ At(p, "merge")
  /\ writer' = Nil
  /\ stor' = MergeCountersOf(stor, req[p].ms)
  /\ hist' = Append(hist, stor')
  /\ acked' = [acked EXCEPT !.batch = Len(hist')]
  /\ Return(p)
  /\ UNCHANGED <<phase, mode, readers, fileRWM, file, lost>>

\* A mutant: the wrapper without its mutex.
LockFileFree(p) ==
  /\ At(p, "lockFile")
  /\ fileRWM' = p
  /\ Goto(p, "readGauges")
  /\ UNCHANGED <<phase, mode, stor, writer, readers, req, buf, file, ghosts>>

\* BackupStorageWrapper.UpdateMetric takes its mutex after the update.
LockFile(p) ==
  /\ At(p, "lockFile") /\ fileRWM = Nil
  /\ fileRWM' = p
  /\ Goto(p, "readGauges")
  /\ UNCHANGED <<phase, mode, stor, writer, readers, req, buf, file, ghosts>>

\* A mutant: a timer, which fires once, instead of a ticker.
TickOnce ==
  /\ mode = "ticker" /\ At(Ticker, "idle") /\ file.st = "absent"
  /\ Goto(Ticker, "readGauges")
  /\ UNCHANGED <<phase, mode, stor, lockVars, req, buf, file, ghosts>>

\* The ticker goroutine receives from ticker.C.
Tick ==
  /\ mode = "ticker" /\ At(Ticker, "idle")
  /\ Goto(Ticker, "readGauges")
  /\ UNCHANGED <<phase, mode, stor, lockVars, req, buf, file, ghosts>>

\* A mutant: RUnlock and RLock again between the two maps.
ReadGaugesUnlocking(p) ==
  /\ At(p, "readGauges") /\ writer = Nil
  /\ buf' = [buf EXCEPT ![p] = [data |-> [EmptyStore EXCEPT !.gauge = stor.gauge],
                                at |-> Len(hist)]]
  /\ Goto(p, "readCounters")
  /\ UNCHANGED <<phase, mode, stor, lockVars, req, file, ghosts>>

\* ForEachMetrics and writeStoreBackup read the two maps under RLock.
ReadGauges(p) ==
  /\ At(p, "readGauges") /\ writer = Nil
  /\ readers' = readers \cup {p}
  /\ buf' = [buf EXCEPT ![p] = [data |-> [EmptyStore EXCEPT !.gauge = stor.gauge],
                                at |-> Len(hist)]]
  /\ Goto(p, "readCounters")
  /\ UNCHANGED <<phase, mode, stor, writer, fileRWM, req, file, ghosts>>

ReadCounters(p) ==
  /\ At(p, "readCounters")
  /\ readers' = readers \ {p}
  /\ buf' = [buf EXCEPT ![p].data.counter = stor.counter]
  /\ Goto(p, IF Saves(p) THEN "open" ELSE "reply")
  /\ UNCHANGED <<phase, mode, stor, writer, fileRWM, req, file, ghosts>>

\* A listing is sent to the client.
Reply(p) ==
  /\ At(p, "reply")
  /\ Return(p)
  /\ UNCHANGED <<phase, mode, stor, lockVars, file, hist, acked, lost>>

-----------------------------------------------------------------------------
(* os.WriteFile: open with O_TRUNC, then write *)

OpenTrunc(p) ==
  /\ At(p, "open")
  /\ file' = [file EXCEPT !.st = "torn"]
  /\ Goto(p, "write")
  /\ UNCHANGED <<phase, mode, stor, lockVars, req, buf, ghosts>>

\* A mutant: the mutex is not unlocked on the way out.
FinishLocked(p) ==
  /\ acked' = [acked EXCEPT !.single = Later(@, mine[p])]
  /\ Return(p)
  /\ UNCHANGED <<phase, mode, stor, writer, readers, fileRWM, hist>>

\* writeStoreBackup returns, whatever happened; nobody looks at its error, the
\* handler acknowledges the update and the deferred Unlock runs.
Finish(p) ==
  /\ fileRWM' = IF fileRWM = p THEN Nil ELSE fileRWM
  /\ acked' = [acked EXCEPT !.single = Later(@, mine[p])]
  /\ Return(p)
  /\ UNCHANGED <<phase, mode, stor, writer, readers, hist>>

OpenFail(p) ==
  /\ IOFaults /\ At(p, "open")
  /\ lost' = TRUE
  /\ UNCHANGED file
  /\ Finish(p)

WriteBytes(p) ==
  /\ At(p, "write")
  /\ IF Encodable(buf[p].data)
     THEN /\ file' = [st |-> "whole", data |-> buf[p].data, at |-> buf[p].at]
          /\ lost' = FALSE
     ELSE lost' = TRUE /\ UNCHANGED file
  /\ Finish(p)

WriteFail(p) ==
  /\ IOFaults /\ At(p, "write")
  /\ lost' = TRUE
  /\ UNCHANGED file
  /\ Finish(p)

-----------------------------------------------------------------------------
(* The life of the process *)

\* A mutant: counters are not restored.
BootGauges(restore, m) ==
  LET restored == restore /\ file.st = "whole" IN
  /\ phase = "down"
  /\ phase' = "up" /\ mode' = m
  /\ stor' = IF restored THEN [EmptyStore EXCEPT !.gauge = file.data.gauge] ELSE EmptyStore
  /\ hist' = <<stor'>>
  /\ file' = [file EXCEPT !.at = IF restored THEN 1 ELSE 0]
  /\ acked' = NoAck
  /\ UNCHANGED <<lockVars, procVars, lost>>

\* InitService: storage.Init reads the file if it is asked to and can.
Boot(restore, m) ==
  LET restored == restore /\ file.st = "whole" IN
  /\ phase = "down"
  /\ phase' = "up" /\ mode' = m
  /\ stor' = IF restored THEN file.data ELSE EmptyStore
  /\ hist' = <<stor'>>
  /\ file' = [file EXCEPT !.at = IF restored THEN 1 ELSE 0]
  /\ acked' = NoAck
  /\ UNCHANGED <<lockVars, procVars, lost>>

\* A signal: Shutdown closes the listener, ListenAndServe returns, main calls
\* Destructor; the handlers that are in the store go on.
Signal ==
  /\ phase = "up"
  /\ phase' = "draining"
  /\ UNCHANGED <<mode, stor, lockVars, procVars, file, hist, acked, lost>>

\* What every end of the process does: only the file survives.
Halt ==
  /\ phase' = "down"
  /\ stor' = EmptyStore
  /\ writer' = Nil /\ readers' = {} /\ fileRWM' = Nil
  /\ pc' = [p \in Procs |-> "idle"]
  /\ req' = [p \in Procs |-> NoReq]
  /\ buf' = [p \in Procs |-> NoBuf]
  /\ mine' = [p \in Procs |-> 0]
  /\ lost' = (lost \/ \E p \in Procs : pc[p] = "write")
  /\ UNCHANGED <<mode, file, hist, acked>>

\* A mutant: doneFlag with a buffer, so that the destructor does not wait.
ExitAtOnce ==
  /\ phase = "draining"
  /\ Halt

\* main returns.  With a ticker the destructor first hands its value to the
\* ticker goroutine, which takes it only between two saves; without one the
\* destructor is nil and calling it panics, which ends the process as well.
Exit ==
  /\ phase = "draining"
  /\ mode = "ticker" => pc[Ticker] = "idle"
  /\ Halt

\* A crash, SIGKILL, log.Fatalf: the end of the process alone.  What the system has
\* taken from os.WriteFile stays; the file is never synced, and a power cut is not
\* modelled.
Kill ==
  /\ Running
  /\ Halt

-----------------------------------------------------------------------------
HandlerStep(p) ==
  \/ \E r \in Requests : Request(p, r)
  \/ Lock(p)
  \/ Reject(p)
  \/ UpdateSingle(p)
  \/ MergeGauges(p)
  \/ MergeCounters(p)
  \/ LockFile(p)
  \/ Reply(p)

\* What handlers and the ticker goroutine both do.
SaveStep(p) ==
  \/ ReadGauges(p)
  \/ ReadCounters(p)
  \/ OpenTrunc(p)
  \/ OpenFail(p)
  \/ WriteBytes(p)
  \/ WriteFail(p)

LifeStep ==
  \/ \E restore \in Restores, m \in Modes : Boot(restore, m)
  \/ Signal
  \/ Exit
  \/ Kill

Next ==
  \/ \E p \in Handlers : HandlerStep(p)
  \/ Tick
  \/ \E p \in Procs : SaveStep(p)
  \/ LifeStep

Spec == Init /\ [][Next]_vars
-----------------------------------------------------------------------------
(* Fairness: Go's scheduler runs every runnable goroutine, and its mutexes   *)
(* let no waiter starve (sync.Mutex has a starvation mode, Unlock of a       *)
(* sync.RWMutex lets the waiting readers in first), hence strong fairness    *)
(* where a lock is taken.  The ticker fires again and again; calls of the    *)
(* kernel return, with or without an error.  Nothing is assumed of requests, *)
(* signals, crashes and restarts.                                            *)

TakesLock(p) == Lock(p) \/ LockFile(p) \/ ReadGauges(p)

Proceeds(p) ==
  \/ Reject(p) \/ UpdateSingle(p) \/ MergeGauges(p) \/ MergeCounters(p)
  \/ ReadCounters(p) \/ Reply(p)
  \/ OpenTrunc(p) \/ OpenFail(p) \/ WriteBytes(p) \/ WriteFail(p)

Fairness ==
  /\ \A p \in Procs : SF_vars(TakesLock(p)) /\ WF_vars(Proceeds(p))
  /\ WF_vars(Tick)

FairSpec == Spec /\ Fairness

-----------------------------------------------------------------------------
(* Types *)

Labels == {"idle", "lock", "update", "merge", "lockFile", "readGauges", "readCounters",
           "reply", "open", "write"}

\* Every variable stays in its set: in particular the store holds machine
\* integers only and no operation leaves a nil pointer in it.
TypeOK ==
  /\ phase \in {"down", "up", "draining"}
  /\ mode \in {"sync", "ticker", "off"}
  /\ stor \in Stores
  /\ writer \in Handlers \cup {Nil}
  /\ readers \subseteq Procs
  /\ fileRWM \in Handlers \cup {Nil}
  /\ pc \in [Procs -> Labels]
  /\ req \in [Procs -> Requests \cup {NoReq}]
  /\ buf \in [Procs -> [data : Stores, at : Nat]]
  /\ file \in [st : {"absent", "torn", "whole"}, data : Stores, at : Nat]
  /\ hist \in Seq(Stores)
  /\ mine \in [Procs -> Nat]
  /\ acked \in [single : Nat, batch : Nat]
  /\ lost \in BOOLEAN

-----------------------------------------------------------------------------
(* Safety *)

\* Whatever a listing shows, a save is about to write or the file holds is one
\* state the store really had, never the gauges of one and the counters of
\* another, nor half a batch: the purpose of storageRWM.
SnapshotsAreStates ==
  /\ \A p \in Procs :
       pc[p] \in {"reply", "open", "write"} =>
         buf[p].at \in DOMAIN hist /\ buf[p].data = hist[buf[p].at]
  /\ file.st = "whole" /\ file.at > 0 =>
       file.at \in DOMAIN hist /\ file.data = hist[file.at]

NobodyWrites == \A p \in Procs : pc[p] # "write"

\* With STORE_INTERVAL=0 a single update that was acknowledged is on disk, in a
\* file that can be read, as soon as no save is going on, unless the last save
\* failed.  fileRWM is taken after the update: two handlers may save in the
\* other order, but each saves what it reads under the mutex.
AckedOnDisk ==
  mode = "sync" /\ ~lost /\ NobodyWrites /\ acked.single > 0 =>
    file.st = "whole" /\ acked.single <= file.at

\* Every restart with RESTORE=true after a crash then starts from a state at
\* least as new as everything that was acknowledged to a single update.
BootKeepsAcked ==
  [][mode = "sync" /\ ~lost /\ acked.single > 0 /\ (\E m \in Modes : Boot(TRUE, m)) =>
       \E k \in acked.single .. Len(hist) : stor' = hist[k]]_vars

\* A graceful end with a ticker never leaves a truncated file behind: the
\* unbuffered doneFlag makes main wait for the save that is going on.
GracefulExitKeepsFile ==
  [][mode = "ticker" /\ Exit /\ file.st = "torn" => lost]_vars

\* The store and its file implement the promise, the two locks and the system
\* calls being invisible.
Promise == INSTANCE BackupPromise WITH disk <- file, on <- Running

ImplementsPromise == Promise!Spec

-----------------------------------------------------------------------------
(* Liveness *)

\* Every request that reached the store is answered (or the process ends): no
\* cycle of waits between the two locks, no handler starved by the others.
RequestAnswered == \A p \in Handlers : pc[p] # "idle" ~> pc[p] = "idle"

\* With a ticker every committed update is in the file after a while, as long
\* as the process is up and holds no gauge that cannot be encoded.
EventuallySaved ==
  \A n \in 1 .. MaxUpdates :
    Running /\ mode = "ticker" /\ Len(hist) > n ~>
      ~Running \/ file.at > n \/ ~Encodable(stor)

-----------------------------------------------------------------------------
(* What the repository's documents say and the code does not do *)

\* README.md:20-21: with STORE_INTERVAL=0 recording is synchronous.  For a list
\* of metrics (the only call the agent makes) nothing is ever recorded.
BatchAckedOnDisk ==
  mode = "sync" /\ ~lost /\ NobodyWrites => acked.batch <= file.at

\* README.md:23: STORE_FILE is where the server stores the metrics.  A gauge that
\* json refuses (ParseFloat accepts NaN) empties a file that held good metrics.
GoodFileIsKept ==
  [][file.at > 0 /\ (\E p \in Procs : WriteBytes(p)) => file'.st = "whole"]_vars

\* .github/workflows/devopstest.yml:196: on a normal end of the server all the
\* data it has gathered are saved.  The ticker is stopped without a last save.
SavedAtExit ==
  [][mode = "ticker" /\ Exit =>
       file.at >= Later(acked.single, acked.batch)]_vars

-----------------------------------------------------------------------------
(* Why it works: the inductive invariant the proofs rest on *)

Saving == {"readGauges", "readCounters", "open", "write"}

\* The copies that have been taken.
Holding(p) == pc[p] \in {"readCounters", "reply", "open", "write"}

\* A process that is not running has no goroutines.
IdleWhenDown ==
  ~Running => \A p \in Procs : pc[p] = "idle"

\* storageRWM: the writer is between Lock and Unlock, a reader between RLock
\* and RUnlock, and nobody reads while a list is half merged.
StoreLock ==
  /\ \A p \in Procs : pc[p] \in {"update", "merge"} <=> writer = p
  /\ \A p \in Procs : p \in readers <=> pc[p] = "readCounters"
  /\ \A p \in Procs : pc[p] = "merge" => readers = {}

\* What a goroutine does fits the call it executes.
CallMatches ==
  /\ \A p \in Procs : pc[p] = "idle" => req[p] = NoReq
  /\ \A p \in Handlers : pc[p] # "idle" => req[p] \in Requests
  /\ \A p \in Procs : pc[p] \in {"lock", "update", "merge"} =>
       p \in Handlers /\ req[p].op # "ForEachMetrics"
  /\ \A p \in Procs : pc[p] = "merge" =>
       req[p].op = "UpdateMetrics" /\ Accepted(req[p])
  /\ \A p \in Procs : pc[p] = "lockFile" =>
       p \in Handlers /\ mode = "sync" /\ req[p].op = "UpdateMetric"
  /\ \A p \in Procs : pc[p] = "reply" => ~Saves(p)
  /\ \A p \in Procs : pc[p] \in {"open", "write"} => Saves(p)
  /\ pc[Ticker] # "idle" => mode = "ticker" /\ pc[Ticker] \in Saving

\* Who saves is alone: it holds the file mutex, or is the ticker goroutine.
OneSaver ==
  \A p \in Procs : pc[p] \in Saving /\ Saves(p) =>
    IF mode = "sync" THEN fileRWM = p ELSE mode = "ticker" /\ p = Ticker

\* The store is the last state of hist, or that with the gauges merged.
StoreIsLatest ==
  /\ Len(hist) > 0
  /\ Running =>
       IF \E p \in Procs : pc[p] = "merge"
       THEN stor = MergeGaugesOf(hist[Len(hist)], req[writer].ms)
       ELSE stor = hist[Len(hist)]

\* A copy is a state of hist; half a copy is half of the latest state.
CopiesAreStates ==
  \A p \in Procs : Holding(p) =>
    /\ buf[p].at \in DOMAIN hist
    /\ IF pc[p] = "readCounters"
       THEN buf[p].at = Len(hist) /\ buf[p].data.gauge = hist[Len(hist)].gauge
       ELSE buf[p].data = hist[buf[p].at]

\* The file is a state of hist, or is left from an earlier life, and is not
\* newer than any copy that may replace it.
FileIsState ==
  /\ file.at <= Len(hist)
  /\ file.st = "whole" /\ file.at > 0 => file.data = hist[file.at]
  /\ file.st = "absent" => file.at = 0
  /\ \A p \in Procs : Holding(p) /\ Saves(p) => file.at <= buf[p].at

\* An unreadable file is being written or was left so by the last attempt.
TornIsKnown == file.st = "torn" => lost \/ ~NobodyWrites

\* A save carries every update acknowledged before it ends, its own included.
AckedIsSaved ==
  /\ acked.single <= Len(hist)
  /\ \A p \in Procs : mine[p] <= Len(hist) /\ (pc[p] = "idle" => mine[p] = 0)
  /\ mode = "sync" =>
       /\ ~lost => acked.single <= file.at
       /\ \A p \in Procs : Holding(p) /\ Saves(p) =>
            acked.single <= buf[p].at /\ mine[p] <= buf[p].at

\* Everything above.
Inv ==
  /\ IdleWhenDown
  /\ StoreLock
  /\ CallMatches
  /\ OneSaver
  /\ StoreIsLatest
  /\ CopiesAreStates
  /\ FileIsState
  /\ TornIsKnown
  /\ AckedIsSaved
=============================================================================
