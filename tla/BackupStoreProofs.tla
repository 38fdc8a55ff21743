-------------------------- MODULE BackupStoreProofs --------------------------
(***************************************************************************)
(* Theorems of BackupStore for every set of handlers, every set of         *)
(* requests, every backup mode and every bound: its type invariant, the    *)
(* inductive invariant, the safety invariants and the refinement.          *)
(***************************************************************************)
EXTENDS BackupStore, MetricsProofs

-----------------------------------------------------------------------------
(* Types *)

LEMMA NoBufType == NoBuf \in [data : Stores, at : Nat]
BY EmptyStoreType DEF NoBuf

\* What an accepted request in hand looks like.
LEMMA RequestShape ==
  ASSUME NEW r \in Requests, Accepted(r)
  PROVE  /\ r.op = "UpdateMetric" => r.ms[1] \in Metric /\ Valid(r.ms[1])
         /\ r.op = "UpdateMetrics" => r.ms \in Seq(Metric)
         /\ \A i \in DOMAIN r.ms : Valid(r.ms[i])
<1>1. r \in RequestType
  BY RequestsAssumption
<1>2. ASSUME r.op = "UpdateMetric"
      PROVE  r.ms[1] \in Metric /\ Valid(r.ms[1])
  <2>1. PICK m \in Metric : r.ms = <<m>>
    BY <1>1, <1>2 DEF RequestType
  <2>2. 1 \in DOMAIN r.ms
    BY <2>1
  <2> QED BY <2>1, <2>2 DEF Accepted
<1>3. r.op = "UpdateMetrics" => r.ms \in Seq(Metric)
  BY <1>1 DEF RequestType
<1> QED BY <1>2, <1>3 DEF Accepted

\* A goroutine that returns leaves well-typed locals behind.
LEMMA ReturnType ==
  ASSUME TypeOK, NEW p \in Procs, Return(p)
  PROVE  /\ pc' \in [Procs -> Labels]
         /\ req' \in [Procs -> Requests \cup {NoReq}]
         /\ buf' \in [Procs -> [data : Stores, at : Nat]]
         /\ mine' \in [Procs -> Nat]
BY NoBufType DEF TypeOK, Return, Goto, Labels

\* A commit appends a store to the history.
LEMMA AppendHist ==
  ASSUME hist \in Seq(Stores), stor' \in Stores, hist' = Append(hist, stor')
  PROVE  /\ hist' \in Seq(Stores)
         /\ Len(hist') = Len(hist) + 1
         /\ Len(hist) \in Nat
         /\ hist'[Len(hist')] = stor'
         /\ \A i \in 1 .. Len(hist) : hist'[i] = hist[i]
OBVIOUS

LEMMA TypeInit == Init => TypeOK
<1> SUFFICES ASSUME Init
             PROVE  TypeOK
  OBVIOUS
<1>1. /\ stor \in Stores
      /\ hist \in Seq(Stores)
      /\ file \in [st : {"absent", "torn", "whole"}, data : Stores, at : Nat]
  BY EmptyStoreType DEF Init
<1>2. buf \in [Procs -> [data : Stores, at : Nat]]
  BY NoBufType DEF Init
<1>3. /\ pc \in [Procs -> Labels]
      /\ req \in [Procs -> Requests \cup {NoReq}]
      /\ mine \in [Procs -> Nat]
      /\ acked \in [single : Nat, batch : Nat]
  BY DEF Init, Labels, NoAck
<1> QED BY <1>1, <1>2, <1>3 DEF Init, TypeOK

LEMMA TypeHandler ==
  ASSUME TypeOK, CallMatches, NEW p \in Handlers, HandlerStep(p)
  PROVE  TypeOK'
<1>0. p \in Procs
  BY DEF Procs
<1>1. ASSUME NEW r \in Requests, Request(p, r)
      PROVE  TypeOK'
  BY <1>0, <1>1 DEF TypeOK, Request, Goto, Labels, lockVars
<1>2. CASE Lock(p)
  BY <1>0, <1>2 DEF TypeOK, Lock, Goto, Labels, ghosts
<1>3. CASE Reject(p)
  BY <1>0, <1>3, ReturnType DEF TypeOK, Reject
<1>4. CASE UpdateSingle(p)
  <2>1. req[p] \in Requests
    BY <1>0, <1>4 DEF TypeOK, UpdateSingle, NoReq
  <2>2. stor' \in Stores
    BY <1>4, <2>1, RequestShape, UpdateMetricType DEF TypeOK, UpdateSingle
  <2>3. hist' \in Seq(Stores) /\ Len(hist') \in Nat
    BY <1>4, <2>2 DEF TypeOK, UpdateSingle
  <2>4. CASE mode = "sync"
    <3>1. pc' = [pc EXCEPT ![p] = "lockFile"] /\ mine' = [mine EXCEPT ![p] = Len(hist')]
      BY <1>4, <2>4 DEF UpdateSingle, Goto
    <3>2. pc' \in [Procs -> Labels]
      BY <1>0, <3>1 DEF TypeOK, Labels
    <3>3. mine' \in [Procs -> Nat]
      BY <1>0, <2>3, <3>1 DEF TypeOK
    <3> QED BY <1>4, <2>2, <2>3, <2>4, <3>2, <3>3 DEF TypeOK, UpdateSingle
  <2>5. CASE mode # "sync"
    <3>1. Return(p)
      BY <1>4, <2>5 DEF UpdateSingle
    <3>2. acked' \in [single : Nat, batch : Nat]
      BY <1>4, <2>3, <2>5 DEF TypeOK, UpdateSingle
    <3> QED BY <1>0, <1>4, <2>2, <2>3, <3>1, <3>2, ReturnType DEF TypeOK, UpdateSingle
  <2> QED BY <2>4, <2>5
<1>5. CASE MergeGauges(p)
  <2>1. req[p] \in Requests
    BY <1>0, <1>5 DEF TypeOK, MergeGauges, NoReq
  <2>2. stor' \in Stores
    BY <1>5, <2>1, RequestShape, MergeType DEF TypeOK, MergeGauges
  <2> QED BY <1>0, <1>5, <2>2 DEF TypeOK, MergeGauges, Goto, Labels, ghosts, lockVars
<1>6. CASE MergeCounters(p)
  <2>1. pc[p] = "merge"
    BY <1>6 DEF MergeCounters, At
  <2>2. req[p] \in Requests /\ req[p].op = "UpdateMetrics" /\ Accepted(req[p])
    BY <1>0, <2>1 DEF CallMatches
  <2>3. stor' \in Stores
    BY <1>6, <2>2, RequestShape, MergeType DEF TypeOK, MergeCounters
  <2>4. hist' \in Seq(Stores) /\ Len(hist') \in Nat
    BY <1>6, <2>3 DEF TypeOK, MergeCounters
  <2>5. acked' \in [single : Nat, batch : Nat]
    BY <1>6, <2>4 DEF TypeOK, MergeCounters
  <2>6. Return(p)
    BY <1>6 DEF MergeCounters
  <2> QED BY <1>0, <1>6, <2>3, <2>4, <2>5, <2>6, ReturnType DEF TypeOK, MergeCounters
<1>7. CASE LockFile(p)
  BY <1>0, <1>7 DEF TypeOK, LockFile, Goto, Labels, ghosts
<1>8. CASE Reply(p)
  BY <1>0, <1>8, ReturnType DEF TypeOK, Reply, lockVars
<1> QED BY <1>1, <1>2, <1>3, <1>4, <1>5, <1>6, <1>7, <1>8 DEF HandlerStep

LEMMA TypeSave ==
  ASSUME TypeOK, NEW p \in Procs, SaveStep(p)
  PROVE  TypeOK'
<1>1. CASE ReadGauges(p)
  <2>1. [EmptyStore EXCEPT !.gauge = stor.gauge] \in Stores
    BY EmptyStoreType DEF TypeOK, Stores
  <2>2. Len(hist) \in Nat
    BY DEF TypeOK
  <2>3. buf' \in [Procs -> [data : Stores, at : Nat]]
    BY <1>1, <2>1, <2>2 DEF TypeOK, ReadGauges
  <2> QED BY <1>1, <2>3 DEF TypeOK, ReadGauges, Goto, Labels, ghosts
<1>2. CASE ReadCounters(p)
  <2>1. buf' \in [Procs -> [data : Stores, at : Nat]]
    BY <1>2 DEF TypeOK, ReadCounters, Stores
  <2> QED BY <1>2, <2>1 DEF TypeOK, ReadCounters, Goto, Labels, ghosts
<1>3. CASE OpenTrunc(p)
  BY <1>3 DEF TypeOK, OpenTrunc, Goto, Labels, ghosts, lockVars
<1>4. ASSUME Finish(p), file' \in [st : {"absent", "torn", "whole"}, data : Stores, at : Nat],
             lost' \in BOOLEAN
      PROVE  TypeOK'
  <2>1. Return(p)
    BY <1>4 DEF Finish
  <2>2. acked' \in [single : Nat, batch : Nat]
    BY <1>4 DEF Finish, TypeOK, Later
  <2> QED BY <1>4, <2>1, <2>2, ReturnType DEF Finish, TypeOK
<1>5. CASE OpenFail(p)
  BY <1>4, <1>5 DEF OpenFail, TypeOK
<1>6. CASE WriteBytes(p)
  <2>1. file' \in [st : {"absent", "torn", "whole"}, data : Stores, at : Nat]
    BY <1>6 DEF WriteBytes, TypeOK
  <2>2. lost' \in BOOLEAN
    BY <1>6 DEF WriteBytes
  <2> QED BY <1>4, <1>6, <2>1, <2>2 DEF WriteBytes
<1>7. CASE WriteFail(p)
  BY <1>4, <1>7 DEF WriteFail, TypeOK
<1> QED BY <1>1, <1>2, <1>3, <1>5, <1>6, <1>7 DEF SaveStep

LEMMA TypeLife ==
  ASSUME TypeOK, Tick \/ LifeStep
  PROVE  TypeOK'
<1>1. CASE Tick
  BY <1>1 DEF TypeOK, Tick, Goto, Labels, ghosts, lockVars, Procs
<1>2. ASSUME NEW restore \in Restores, NEW m \in Modes, Boot(restore, m)
      PROVE  TypeOK'
  <2>1. stor' \in Stores
    BY <1>2, EmptyStoreType DEF TypeOK, Boot
  <2>2. hist' \in Seq(Stores)
    BY <1>2, <2>1 DEF Boot
  <2>3. file' \in [st : {"absent", "torn", "whole"}, data : Stores, at : Nat]
    BY <1>2 DEF TypeOK, Boot
  <2>4. mode' \in {"sync", "ticker", "off"}
    BY <1>2, ModesAssumption DEF Boot
  <2> QED BY <1>2, <2>1, <2>2, <2>3, <2>4 DEF TypeOK, Boot, lockVars, procVars, NoAck
<1>3. CASE Signal
  BY <1>3 DEF TypeOK, Signal, lockVars, procVars
<1>4. CASE Halt
  <2>1. buf' \in [Procs -> [data : Stores, at : Nat]]
    BY <1>4, NoBufType DEF Halt
  <2>2. lost' \in BOOLEAN
    BY <1>4 DEF Halt, TypeOK
  <2> QED BY <1>4, <2>1, <2>2, EmptyStoreType DEF TypeOK, Halt, Labels
<1> QED BY <1>1, <1>2, <1>3, <1>4 DEF LifeStep, Exit, Kill

-----------------------------------------------------------------------------
(* The inductive invariant *)

LEMMA InvInit == Init => Inv
<1> SUFFICES ASSUME Init
             PROVE  Inv
  OBVIOUS
<1>1. IdleWhenDown /\ StoreLock /\ CallMatches
  BY ProcsAssumption DEF Init, IdleWhenDown, StoreLock, CallMatches, Procs
<1>2. OneSaver /\ CopiesAreStates
  BY DEF Init, OneSaver, CopiesAreStates, Saving, Holding
<1>3. StoreIsLatest
  BY DEF Init, StoreIsLatest, Running
<1>4. FileIsState /\ TornIsKnown /\ AckedIsSaved
  BY DEF Init, FileIsState, TornIsKnown, AckedIsSaved, Holding, NoAck
<1> QED BY <1>1, <1>2, <1>3, <1>4 DEF Inv

\* Between the open and the write of a save nobody else has a copy to save.
LEMMA SaverAlone ==
  ASSUME Inv, NEW p \in Procs, pc[p] \in {"open", "write"}
  PROVE  \A q \in Procs : Holding(q) /\ Saves(q) => q = p
BY DEF Inv, OneSaver, CallMatches, Saving, Holding

\* A writer whose readers have left has the latest state for itself.
LEMMA AloneWithStore ==
  ASSUME TypeOK, Inv, NEW p \in Handlers, Holds(p)
  PROVE  /\ writer = p /\ readers = {} /\ Running
         /\ req[p] \in Requests
         /\ \A q \in Procs : pc[q] \in {"update", "merge"} => q = p
         /\ \A q \in Procs : pc[q] # "readCounters"
         /\ Len(hist) \in Nat \ {0}
         /\ stor = hist[Len(hist)]
<1>1. p \in Procs /\ pc[p] = "update" /\ readers = {} /\ Running
  BY DEF Holds, At, Procs
<1>2. writer = p /\ \A q \in Procs : pc[q] \in {"update", "merge"} => q = p
  BY <1>1 DEF Inv, StoreLock
<1>3. \A q \in Procs : pc[q] # "readCounters"
  BY <1>1 DEF Inv, StoreLock
<1>4. req[p] \in Requests
  BY <1>1 DEF Inv, CallMatches
<1>5. ~ \E q \in Procs : pc[q] = "merge"
  BY <1>1, <1>2
<1>6. Len(hist) \in Nat \ {0} /\ stor = hist[Len(hist)]
  BY <1>1, <1>5 DEF TypeOK, Inv, StoreIsLatest
<1> QED BY <1>1, <1>2, <1>3, <1>4, <1>6

\* A request arrives: a goroutine starts at storageRWM.Lock or RLock.
LEMMA InvRequest ==
  ASSUME TypeOK, Inv, NEW p \in Handlers, NEW r \in Requests, Request(p, r)
  PROVE  Inv'
<1>1. IdleWhenDown'
  BY DEF Inv, IdleWhenDown, Running, Request, Goto, lockVars
<1>2. StoreLock'
  BY DEF Inv, StoreLock, Request, Goto, lockVars
<1>3. CallMatches'
  BY ProcsAssumption
   DEF TypeOK, Inv, CallMatches, Procs, Saves, Saving, Request, Goto, lockVars
<1>4. OneSaver'
  BY ProcsAssumption
   DEF TypeOK, Inv, OneSaver, Procs, Saves, Saving, Request, Goto, lockVars
<1>5. StoreIsLatest'
  BY ProcsAssumption
   DEF TypeOK, Inv, StoreIsLatest, StoreLock, Procs, Running, Request, Goto,
     lockVars
<1>6. CopiesAreStates'
  BY DEF Inv, CopiesAreStates, Holding, Request, Goto, lockVars
<1>7. FileIsState'
  BY DEF Inv, FileIsState, Holding, Saves, Request, Goto, lockVars
<1>8. TornIsKnown'
  BY DEF Inv, TornIsKnown, NobodyWrites, Request, Goto, lockVars
<1>9. AckedIsSaved'
  BY DEF Inv, AckedIsSaved, Holding, Saves, Request, Goto, lockVars
<1> QED BY <1>1, <1>2, <1>3, <1>4, <1>5, <1>6, <1>7, <1>8, <1>9 DEF Inv

\* Lock is called: one writer at a time.
LEMMA InvLock ==
  ASSUME TypeOK, Inv, NEW p \in Handlers, Lock(p)
  PROVE  Inv'
<1>1. IdleWhenDown'
  BY DEF Inv, IdleWhenDown, Running, Lock, At, Goto, ghosts
<1>2. StoreLock'
  BY ProcsAssumption DEF TypeOK, Inv, StoreLock, Procs, Lock, At, Goto, ghosts
<1>3. CallMatches'
  BY DEF Inv, CallMatches, Saves, Saving, Lock, At, Goto, ghosts
<1>4. OneSaver'
  BY DEF Inv, OneSaver, Saves, Saving, Lock, At, Goto, ghosts
<1>5. StoreIsLatest'
  BY ProcsAssumption
   DEF TypeOK, Inv, StoreIsLatest, StoreLock, Procs, Running, Lock, At, Goto,
     ghosts
<1>6. CopiesAreStates'
  BY DEF Inv, CopiesAreStates, Holding, Lock, At, Goto, ghosts
<1>7. FileIsState'
  BY DEF Inv, FileIsState, Holding, Saves, Lock, At, Goto, ghosts
<1>8. TornIsKnown'
  BY DEF Inv, TornIsKnown, NobodyWrites, Lock, At, Goto, ghosts
<1>9. AckedIsSaved'
  BY DEF Inv, AckedIsSaved, Holding, Saves, Lock, At, Goto, ghosts
<1> QED BY <1>1, <1>2, <1>3, <1>4, <1>5, <1>6, <1>7, <1>8, <1>9 DEF Inv

\* A refused request leaves everything as it was, the lock free.
LEMMA InvReject ==
  ASSUME TypeOK, Inv, NEW p \in Handlers, Reject(p)
  PROVE  Inv'
<1>1. IdleWhenDown'
  BY DEF Inv, IdleWhenDown, Running, Reject, Holds, At, Return, Goto
<1>2. StoreLock'
  BY ProcsAssumption
   DEF TypeOK, Inv, StoreLock, Procs, Reject, Holds, At, Return, Goto
<1>3. CallMatches'
  BY DEF TypeOK, Inv, CallMatches, Saves, Saving, Reject, Holds, At, Return,
       Goto
<1>4. OneSaver'
  BY DEF Inv, OneSaver, Saves, Saving, Reject, Holds, At, Return, Goto
<1>5. StoreIsLatest'
  BY ProcsAssumption
   DEF TypeOK, Inv, StoreIsLatest, StoreLock, Procs, Running, Reject, Holds,
     At, Return, Goto
<1>6. CopiesAreStates'
  BY DEF Inv, CopiesAreStates, Holding, Reject, Holds, At, Return, Goto
<1>7. FileIsState'
  BY DEF Inv, FileIsState, Holding, Saves, Reject, Holds, At, Return, Goto
<1>8. TornIsKnown'
  BY DEF Inv, TornIsKnown, NobodyWrites, Reject, Holds, At, Return, Goto
<1>9. AckedIsSaved'
  BY DEF TypeOK, Inv, AckedIsSaved, Holding, Saves, Reject, Holds, At, Return,
       Goto
<1> QED BY <1>1, <1>2, <1>3, <1>4, <1>5, <1>6, <1>7, <1>8, <1>9 DEF Inv

\* A single update: a new state, the lock free, and in sync mode a save to do.
LEMMA InvUpdateSingle ==
  ASSUME TypeOK, TypeOK', Inv, NEW p \in Handlers, UpdateSingle(p)
  PROVE  Inv'
<1>1. p \in Procs /\ Holds(p) /\ req[p].op = "UpdateMetric"
  BY DEF UpdateSingle, Procs
<1>2. /\ writer = p /\ readers = {} /\ Running
      /\ req[p] \in Requests /\ pc[p] = "update"
      /\ \A q \in Procs : pc[q] \in {"update", "merge"} => q = p
      /\ \A q \in Procs : pc[q] # "readCounters"
  BY <1>1, AloneWithStore DEF Holds, At
<1>3. /\ hist' \in Seq(Stores)
      /\ Len(hist') = Len(hist) + 1
      /\ Len(hist) \in Nat
      /\ hist'[Len(hist')] = stor'
      /\ \A i \in 1 .. Len(hist) : hist'[i] = hist[i]
  BY AppendHist DEF TypeOK, UpdateSingle
<1>4. /\ writer' = Nil
      /\ UNCHANGED <<phase, mode, readers, fileRWM, file, lost>>
  BY DEF UpdateSingle
<1>5. \/ /\ mode = "sync"
         /\ pc' = [pc EXCEPT ![p] = "lockFile"]
         /\ mine' = [mine EXCEPT ![p] = Len(hist')]
         /\ UNCHANGED <<req, buf, acked>>
      \/ /\ mode # "sync"
         /\ pc' = [pc EXCEPT ![p] = "idle"]
         /\ req' = [req EXCEPT ![p] = NoReq]
         /\ buf' = [buf EXCEPT ![p] = NoBuf]
         /\ mine' = [mine EXCEPT ![p] = 0]
         /\ acked' = [acked EXCEPT !.single = Len(hist')]
  BY DEF UpdateSingle, Return, Goto
<1>6. /\ \A q \in Procs \ {p} : pc'[q] = pc[q] /\ req'[q] = req[q] /\ buf'[q] = buf[q] /\ mine'[q] = mine[q]
      /\ pc'[p] \in {"idle", "lockFile"}
      /\ pc'[p] = "idle" => req'[p] = NoReq
      /\ pc'[p] = "lockFile" => mode = "sync" /\ req'[p] = req[p]
  BY <1>1, <1>5 DEF TypeOK
<1>7. IdleWhenDown'
  BY <1>2, <1>4 DEF IdleWhenDown, Running
<1>8. StoreLock'
  BY <1>2, <1>4, <1>6, ProcsAssumption DEF Inv, StoreLock, Procs
<1>9. CallMatches'
  BY <1>1, <1>2, <1>4, <1>6, ProcsAssumption
  DEF Inv, CallMatches, Saves, Saving, Procs
<1>10. OneSaver'
  BY <1>4, <1>6 DEF Inv, OneSaver, Saves, Saving
<1>11. StoreIsLatest'
  BY <1>2, <1>3, <1>6 DEF StoreIsLatest
<1>12. CopiesAreStates'
  BY <1>2, <1>3, <1>6 DEF Inv, CopiesAreStates, Holding
<1>13. FileIsState'
  <2>1. file.at \in Nat /\ file.at <= Len(hist)
    BY DEF TypeOK, Inv, FileIsState
  <2>2. file.st = "whole" /\ file.at > 0 => file.data = hist'[file.at]
    BY <1>3, <2>1 DEF Inv, FileIsState
  <2>3. \A q \in Procs : Holding(q)' => Holding(q) /\ q # p
    BY <1>6 DEF Holding
  <2>4. \A q \in Procs : (Holding(q) /\ Saves(q))' => file.at <= buf'[q].at
    BY <1>6, <2>3 DEF Inv, FileIsState, Saves
  <2> QED BY <1>3, <1>4, <2>1, <2>2, <2>4 DEF Inv, FileIsState
<1>14. TornIsKnown'
  BY <1>2, <1>4, <1>6 DEF Inv, TornIsKnown, NobodyWrites
<1>15. AckedIsSaved'
  <2>1. acked'.single <= Len(hist')
    BY <1>3, <1>5 DEF TypeOK, Inv, AckedIsSaved
  <2>2. mine'[p] <= Len(hist') /\ (pc'[p] = "idle" => mine'[p] = 0)
    BY <1>1, <1>3, <1>5 DEF TypeOK
  <2>3. mode = "sync" => acked' = acked
    BY <1>5
  <2>4. \A q \in Procs \ {p} : mine'[q] <= Len(hist') /\ (pc'[q] = "idle" => mine'[q] = 0)
    BY <1>3, <1>6 DEF TypeOK, Inv, AckedIsSaved
  <2>5. \A q \in Procs : Holding(q)' => Holding(q) /\ q # p
    BY <1>6 DEF Holding
  <2>6. mode = "sync" =>
          /\ ~lost' => acked'.single <= file'.at
          /\ \A q \in Procs : (Holding(q) /\ Saves(q))' =>
               acked'.single <= buf'[q].at /\ mine'[q] <= buf'[q].at
    BY <1>4, <1>6, <2>3, <2>5 DEF Inv, AckedIsSaved, Saves
  <2> QED BY <2>1, <2>2, <2>4, <2>6, <1>4 DEF AckedIsSaved
<1> QED BY <1>7, <1>8, <1>9, <1>10, <1>11, <1>12, <1>13, <1>14, <1>15 DEF Inv

\* A list is half merged, under the lock.
LEMMA InvMergeGauges ==
  ASSUME TypeOK, Inv, NEW p \in Handlers, MergeGauges(p)
  PROVE  Inv'
<1>1. IdleWhenDown'
  BY DEF Inv, IdleWhenDown, Running, MergeGauges, Holds, At, Goto, ghosts,
       lockVars
<1>2. StoreLock'
  BY DEF Inv, StoreLock, MergeGauges, Holds, At, Goto, ghosts, lockVars
<1>3. CallMatches'
  BY DEF Inv, CallMatches, Saves, Saving, MergeGauges, Holds, At, Goto,
       ghosts, lockVars
<1>4. OneSaver'
  BY DEF Inv, OneSaver, Saves, Saving, MergeGauges, Holds, At, Goto, ghosts,
       lockVars
<1>5. StoreIsLatest'
  BY ProcsAssumption
   DEF TypeOK, Inv, StoreIsLatest, StoreLock, Procs, Running, MergeGauges,
     Holds, At, Goto, ghosts, lockVars
<1>6. CopiesAreStates'
  BY DEF Inv, CopiesAreStates, Holding, MergeGauges, Holds, At, Goto, ghosts,
       lockVars
<1>7. FileIsState'
  BY DEF Inv, FileIsState, Holding, Saves, MergeGauges, Holds, At, Goto,
       ghosts, lockVars
<1>8. TornIsKnown'
  BY DEF Inv, TornIsKnown, NobodyWrites, MergeGauges, Holds, At, Goto, ghosts,
       lockVars
<1>9. AckedIsSaved'
  BY DEF Inv, AckedIsSaved, Holding, Saves, MergeGauges, Holds, At, Goto,
       ghosts, lockVars
<1> QED BY <1>1, <1>2, <1>3, <1>4, <1>5, <1>6, <1>7, <1>8, <1>9 DEF Inv

\* A list is merged entirely: a new state, the lock free.
LEMMA InvMergeCounters ==
  ASSUME TypeOK, Inv, NEW p \in Handlers, MergeCounters(p)
  PROVE  Inv'
<1>1. IdleWhenDown'
  BY DEF Inv, IdleWhenDown, Running, MergeCounters, At, Return, Goto
<1>2. StoreLock'
  BY ProcsAssumption
   DEF TypeOK, Inv, StoreLock, Procs, MergeCounters, At, Return, Goto
<1>3. CallMatches'
  BY DEF TypeOK, Inv, CallMatches, Saves, Saving, MergeCounters, At, Return,
       Goto
<1>4. OneSaver'
  BY DEF Inv, OneSaver, Saves, Saving, MergeCounters, At, Return, Goto
<1>5. StoreIsLatest'
  BY ProcsAssumption
   DEF TypeOK, Inv, StoreIsLatest, StoreLock, Procs, Running, MergeCounters,
     At, Return, Goto
<1>6. CopiesAreStates'
  BY ProcsAssumption
   DEF TypeOK, Inv, CopiesAreStates, StoreLock, Procs, Holding, MergeCounters,
     At, Return, Goto
<1>7. FileIsState'
  BY DEF TypeOK, Inv, FileIsState, Holding, Saves, MergeCounters, At, Return,
       Goto
<1>8. TornIsKnown'
  BY DEF Inv, TornIsKnown, NobodyWrites, MergeCounters, At, Return, Goto
<1>9. AckedIsSaved'
  BY DEF TypeOK, Inv, AckedIsSaved, Holding, Saves, MergeCounters, At, Return,
       Goto
<1> QED BY <1>1, <1>2, <1>3, <1>4, <1>5, <1>6, <1>7, <1>8, <1>9 DEF Inv

\* The wrapper's mutex makes its holder the only saver.
LEMMA InvLockFile ==
  ASSUME TypeOK, Inv, NEW p \in Handlers, LockFile(p)
  PROVE  Inv'
<1>1. IdleWhenDown'
  BY DEF Inv, IdleWhenDown, Running, LockFile, At, Goto, ghosts
<1>2. StoreLock'
  BY DEF Inv, StoreLock, LockFile, At, Goto, ghosts
<1>3. CallMatches'
  BY DEF Inv, CallMatches, Saves, Saving, LockFile, At, Goto, ghosts
<1>4. OneSaver'
  BY ProcsAssumption
   DEF TypeOK, Inv, OneSaver, StoreLock, CallMatches, Procs, Saves, Saving,
     LockFile, At, Goto, ghosts
<1>5. StoreIsLatest'
  BY DEF Inv, StoreIsLatest, Running, LockFile, At, Goto, ghosts
<1>6. CopiesAreStates'
  BY DEF Inv, CopiesAreStates, Holding, LockFile, At, Goto, ghosts
<1>7. FileIsState'
  BY DEF Inv, FileIsState, Holding, Saves, LockFile, At, Goto, ghosts
<1>8. TornIsKnown'
  BY DEF Inv, TornIsKnown, NobodyWrites, LockFile, At, Goto, ghosts
<1>9. AckedIsSaved'
  BY DEF Inv, AckedIsSaved, Holding, Saves, LockFile, At, Goto, ghosts
<1> QED BY <1>1, <1>2, <1>3, <1>4, <1>5, <1>6, <1>7, <1>8, <1>9 DEF Inv

\* A listing leaves.
LEMMA InvReply ==
  ASSUME TypeOK, Inv, NEW p \in Handlers, Reply(p)
  PROVE  Inv'
<1>1. IdleWhenDown'
  BY DEF Inv, IdleWhenDown, Running, Reply, At, Return, Goto, lockVars
<1>2. StoreLock'
  BY DEF Inv, StoreLock, Reply, At, Return, Goto, lockVars
<1>3. CallMatches'
  BY DEF TypeOK, Inv, CallMatches, Saves, Saving, Reply, At, Return, Goto,
       lockVars
<1>4. OneSaver'
  BY DEF Inv, OneSaver, Saves, Saving, Reply, At, Return, Goto, lockVars
<1>5. StoreIsLatest'
  BY ProcsAssumption
   DEF TypeOK, Inv, StoreIsLatest, StoreLock, Procs, Running, Reply, At,
     Return, Goto, lockVars
<1>6. CopiesAreStates'
  BY DEF TypeOK, Inv, CopiesAreStates, Holding, Reply, At, Return, Goto,
       lockVars
<1>7. FileIsState'
  BY DEF TypeOK, Inv, FileIsState, Holding, Saves, Reply, At, Return, Goto,
       lockVars
<1>8. TornIsKnown'
  BY DEF Inv, TornIsKnown, NobodyWrites, Reply, At, Return, Goto, lockVars
<1>9. AckedIsSaved'
  BY DEF TypeOK, Inv, AckedIsSaved, Holding, Saves, Reply, At, Return, Goto,
       lockVars
<1> QED BY <1>1, <1>2, <1>3, <1>4, <1>5, <1>6, <1>7, <1>8, <1>9 DEF Inv

\* The ticker goroutine is the only saver of its mode.
LEMMA InvTick ==
  ASSUME TypeOK, Inv, Tick
  PROVE  Inv'
<1>1. IdleWhenDown'
  BY DEF Inv, IdleWhenDown, Running, Tick, At, Goto, ghosts, lockVars
<1>2. StoreLock'
  BY DEF Inv, StoreLock, Tick, At, Goto, ghosts, lockVars
<1>3. CallMatches'
  BY ProcsAssumption
   DEF TypeOK, Inv, CallMatches, Procs, Saves, Saving, Tick, At, Goto, ghosts,
     lockVars
<1>4. OneSaver'
  BY DEF Inv, OneSaver, Saves, Saving, Tick, At, Goto, ghosts, lockVars
<1>5. StoreIsLatest'
  BY DEF Inv, StoreIsLatest, Running, Tick, At, Goto, ghosts, lockVars
<1>6. CopiesAreStates'
  BY DEF Inv, CopiesAreStates, Holding, Tick, At, Goto, ghosts, lockVars
<1>7. FileIsState'
  BY DEF Inv, FileIsState, Holding, Saves, Tick, At, Goto, ghosts, lockVars
<1>8. TornIsKnown'
  BY DEF Inv, TornIsKnown, NobodyWrites, Tick, At, Goto, ghosts, lockVars
<1>9. AckedIsSaved'
  BY DEF Inv, AckedIsSaved, Holding, Saves, Tick, At, Goto, ghosts, lockVars
<1> QED BY <1>1, <1>2, <1>3, <1>4, <1>5, <1>6, <1>7, <1>8, <1>9 DEF Inv

\* Half a copy is taken: nothing is half merged then.
LEMMA InvReadGauges ==
  ASSUME TypeOK, Inv, NEW p \in Procs, ReadGauges(p)
  PROVE  Inv'
<1>1. IdleWhenDown'
  BY DEF Inv, IdleWhenDown, Running, ReadGauges, At, Goto, ghosts
<1>2. StoreLock'
  BY ProcsAssumption
   DEF TypeOK, Inv, StoreLock, CallMatches, Procs, Saves, ReadGauges, At, Goto,
     ghosts
<1>3. CallMatches'
  BY DEF Inv, CallMatches, Saves, Saving, ReadGauges, At, Goto, ghosts
<1>4. OneSaver'
  BY DEF Inv, OneSaver, Saves, Saving, ReadGauges, At, Goto, ghosts
<1>5. StoreIsLatest'
  BY DEF Inv, StoreIsLatest, Running, ReadGauges, At, Goto, ghosts
<1>6. CopiesAreStates'
  <2>1. writer = Nil /\ Running /\ pc[p] = "readGauges"
    BY DEF ReadGauges, At
  <2>2. \A q \in Procs : pc[q] # "merge"
    BY <2>1, ProcsAssumption DEF Inv, StoreLock, Procs
  <2>3. stor = hist[Len(hist)] /\ Len(hist) \in DOMAIN hist
    BY <2>1, <2>2 DEF TypeOK, Inv, StoreIsLatest
  <2>4. buf'[p].data.gauge = stor.gauge /\ buf'[p].at = Len(hist)
    BY DEF ReadGauges, TypeOK, EmptyStore
  <2> QED BY <2>3, <2>4 DEF TypeOK, Inv, CopiesAreStates, Holding, ReadGauges, Goto, ghosts
<1>7. FileIsState'
  BY DEF TypeOK, Inv, FileIsState, Holding, Saves, ReadGauges, At, Goto, ghosts
<1>8. TornIsKnown'
  BY DEF Inv, TornIsKnown, NobodyWrites, ReadGauges, At, Goto, ghosts
<1>9. AckedIsSaved'
  BY DEF TypeOK, Inv, AckedIsSaved, Holding, Saves, ReadGauges, At, Goto, ghosts
<1> QED BY <1>1, <1>2, <1>3, <1>4, <1>5, <1>6, <1>7, <1>8, <1>9 DEF Inv

\* The copy is completed from the same state: no writer came in between.
LEMMA InvReadCounters ==
  ASSUME TypeOK, Inv, NEW p \in Procs, ReadCounters(p)
  PROVE  Inv'
<1>1. IdleWhenDown'
  BY DEF Inv, IdleWhenDown, Running, ReadCounters, At, Goto, ghosts
<1>2. StoreLock'
  BY DEF TypeOK, Inv, StoreLock, ReadCounters, At, Goto, ghosts
<1>3. CallMatches'
  BY DEF Inv, CallMatches, Saves, Saving, ReadCounters, At, Goto, ghosts
<1>4. OneSaver'
  BY DEF Inv, OneSaver, Saves, Saving, ReadCounters, At, Goto, ghosts
<1>5. StoreIsLatest'
  BY DEF Inv, StoreIsLatest, Running, ReadCounters, At, Goto, ghosts
<1>6. CopiesAreStates'
  <2>1. Running /\ pc[p] = "readCounters" /\ p \in readers
    BY DEF ReadCounters, At, Inv, StoreLock
  <2>2. \A q \in Procs : pc[q] # "merge"
    BY <2>1 DEF Inv, StoreLock
  <2>3. stor = hist[Len(hist)] /\ Len(hist) \in DOMAIN hist
    BY <2>1, <2>2 DEF TypeOK, Inv, StoreIsLatest
  <2>4. buf[p].data.gauge = stor.gauge /\ buf[p].at = Len(hist)
    BY <2>1, <2>3 DEF Inv, CopiesAreStates, Holding
  <2>5. /\ buf'[p].data = [gauge |-> buf[p].data.gauge, counter |-> stor.counter]
        /\ buf'[p].at = buf[p].at
    BY DEF ReadCounters, TypeOK, Stores
  <2>6. stor = [gauge |-> stor.gauge, counter |-> stor.counter]
    BY DEF TypeOK, Stores
  <2>7. buf'[p].data = hist[buf'[p].at] /\ buf'[p].at \in DOMAIN hist
    BY <2>3, <2>4, <2>5, <2>6 DEF TypeOK
  <2>8. \A q \in Procs \ {p} : buf'[q] = buf[q] /\ pc'[q] = pc[q]
    BY DEF TypeOK, ReadCounters, Goto
  <2>9. pc'[p] \in {"open", "reply"} /\ hist' = hist
    BY DEF TypeOK, ReadCounters, Goto, ghosts
  <2> QED BY <2>7, <2>8, <2>9 DEF Inv, CopiesAreStates, Holding
<1>7. FileIsState'
  BY DEF Inv, FileIsState, Holding, Saves, ReadCounters, At, Goto, ghosts
<1>8. TornIsKnown'
  BY DEF Inv, TornIsKnown, NobodyWrites, ReadCounters, At, Goto, ghosts
<1>9. AckedIsSaved'
  BY DEF Inv, AckedIsSaved, Holding, Saves, ReadCounters, At, Goto, ghosts
<1> QED BY <1>1, <1>2, <1>3, <1>4, <1>5, <1>6, <1>7, <1>8, <1>9 DEF Inv

\* The file is emptied.
LEMMA InvOpenTrunc ==
  ASSUME TypeOK, Inv, NEW p \in Procs, OpenTrunc(p)
  PROVE  Inv'
<1>1. IdleWhenDown'
  BY DEF Inv, IdleWhenDown, Running, OpenTrunc, At, Goto, ghosts, lockVars
<1>2. StoreLock'
  BY DEF Inv, StoreLock, OpenTrunc, At, Goto, ghosts, lockVars
<1>3. CallMatches'
  BY DEF Inv, CallMatches, Saves, Saving, OpenTrunc, At, Goto, ghosts, lockVars
<1>4. OneSaver'
  BY DEF Inv, OneSaver, Saves, Saving, OpenTrunc, At, Goto, ghosts, lockVars
<1>5. StoreIsLatest'
  BY DEF Inv, StoreIsLatest, Running, OpenTrunc, At, Goto, ghosts, lockVars
<1>6. CopiesAreStates'
  BY DEF Inv, CopiesAreStates, Holding, OpenTrunc, At, Goto, ghosts, lockVars
<1>7. FileIsState'
  BY DEF Inv, FileIsState, Holding, Saves, OpenTrunc, At, Goto, ghosts, lockVars
<1>8. TornIsKnown'
  BY DEF TypeOK, Inv, TornIsKnown, NobodyWrites, OpenTrunc, At, Goto, ghosts,
       lockVars
<1>9. AckedIsSaved'
  BY DEF Inv, AckedIsSaved, Holding, Saves, OpenTrunc, At, Goto, ghosts,
       lockVars
<1> QED BY <1>1, <1>2, <1>3, <1>4, <1>5, <1>6, <1>7, <1>8, <1>9 DEF Inv

\* The file cannot be opened, which is recorded in lost.
LEMMA InvOpenFail ==
  ASSUME TypeOK, Inv, NEW p \in Procs, OpenFail(p)
  PROVE  Inv'
<1>1. IdleWhenDown'
  BY DEF Inv, IdleWhenDown, Running, OpenFail, Finish, At, Return, Goto
<1>2. StoreLock'
  BY DEF Inv, StoreLock, OpenFail, Finish, At, Return, Goto
<1>3. CallMatches'
  BY DEF TypeOK, Inv, CallMatches, Saves, Saving, OpenFail, Finish, At,
       Return, Goto
<1>4. OneSaver'
  BY DEF TypeOK, Inv, OneSaver, Saves, Saving, OpenFail, Finish, At, Return,
       Goto
<1>5. StoreIsLatest'
  BY DEF TypeOK, Inv, StoreIsLatest, StoreLock, Running, OpenFail, Finish, At,
       Return, Goto
<1>6. CopiesAreStates'
  BY DEF TypeOK, Inv, CopiesAreStates, Holding, OpenFail, Finish, At, Return,
       Goto
<1>7. FileIsState'
  BY DEF TypeOK, Inv, FileIsState, Holding, Saves, OpenFail, Finish, At,
       Return, Goto
<1>8. TornIsKnown'
  BY DEF Inv, TornIsKnown, NobodyWrites, OpenFail, Finish, At, Return, Goto
<1>9. AckedIsSaved'
  BY SaverAlone
   DEF TypeOK, Inv, AckedIsSaved, CallMatches, Holding, Saves, OpenFail,
     Finish, At, Return, Goto, Later
<1> QED BY <1>1, <1>2, <1>3, <1>4, <1>5, <1>6, <1>7, <1>8, <1>9 DEF Inv

\* The file becomes the saver's copy, which is not older.
LEMMA InvWriteBytes ==
  ASSUME TypeOK, Inv, NEW p \in Procs, WriteBytes(p)
  PROVE  Inv'
<1>1. IdleWhenDown'
  BY DEF Inv, IdleWhenDown, Running, WriteBytes, Finish, At, Return, Goto
<1>2. StoreLock'
  BY DEF Inv, StoreLock, WriteBytes, Finish, At, Return, Goto
<1>3. CallMatches'
  BY DEF TypeOK, Inv, CallMatches, Saves, Saving, WriteBytes, Finish, At,
       Return, Goto
<1>4. OneSaver'
  BY DEF TypeOK, Inv, OneSaver, Saves, Saving, WriteBytes, Finish, At, Return,
       Goto
<1>5. StoreIsLatest'
  BY DEF TypeOK, Inv, StoreIsLatest, StoreLock, Running, WriteBytes, Finish,
       At, Return, Goto
<1>6. CopiesAreStates'
  BY DEF TypeOK, Inv, CopiesAreStates, Holding, WriteBytes, Finish, At,
       Return, Goto
<1>7. FileIsState'
  <2>1. pc[p] = "write" /\ hist' = hist
    BY DEF WriteBytes, Finish, At
  <2>2. buf[p].at \in DOMAIN hist /\ buf[p].data = hist[buf[p].at]
    BY <2>1 DEF Inv, CopiesAreStates, Holding
  <2>3. \A q \in Procs : ~(Holding(q) /\ Saves(q))'
    BY <2>1, SaverAlone DEF TypeOK, WriteBytes, Finish, Return, Goto, Holding, Saves
  <2>4. CASE file' = [st |-> "whole", data |-> buf[p].data, at |-> buf[p].at]
    BY <2>1, <2>2, <2>3, <2>4 DEF TypeOK, FileIsState
  <2>5. CASE UNCHANGED file
    BY <2>1, <2>3, <2>5 DEF Inv, FileIsState
  <2> QED BY <2>4, <2>5 DEF WriteBytes
<1>8. TornIsKnown'
  BY DEF Inv, TornIsKnown, NobodyWrites, WriteBytes, Finish, At, Return, Goto
<1>9. AckedIsSaved'
  BY SaverAlone
   DEF TypeOK, Inv, AckedIsSaved, CallMatches, Holding, Saves, WriteBytes,
     Finish, At, Return, Goto, Later
<1> QED BY <1>1, <1>2, <1>3, <1>4, <1>5, <1>6, <1>7, <1>8, <1>9 DEF Inv

\* The file cannot be written and stays unreadable.
LEMMA InvWriteFail ==
  ASSUME TypeOK, Inv, NEW p \in Procs, WriteFail(p)
  PROVE  Inv'
<1>1. IdleWhenDown'
  BY DEF Inv, IdleWhenDown, Running, WriteFail, Finish, At, Return, Goto
<1>2. StoreLock'
  BY DEF Inv, StoreLock, WriteFail, Finish, At, Return, Goto
<1>3. CallMatches'
  BY DEF TypeOK, Inv, CallMatches, Saves, Saving, WriteFail, Finish, At,
       Return, Goto
<1>4. OneSaver'
  BY DEF TypeOK, Inv, OneSaver, Saves, Saving, WriteFail, Finish, At, Return,
       Goto
<1>5. StoreIsLatest'
  BY DEF TypeOK, Inv, StoreIsLatest, StoreLock, Running, WriteFail, Finish,
       At, Return, Goto
<1>6. CopiesAreStates'
  BY DEF TypeOK, Inv, CopiesAreStates, Holding, WriteFail, Finish, At, Return,
       Goto
<1>7. FileIsState'
  BY DEF TypeOK, Inv, FileIsState, Holding, Saves, WriteFail, Finish, At,
       Return, Goto
<1>8. TornIsKnown'
  BY DEF Inv, TornIsKnown, NobodyWrites, WriteFail, Finish, At, Return, Goto
<1>9. AckedIsSaved'
  BY SaverAlone
   DEF TypeOK, Inv, AckedIsSaved, CallMatches, Holding, Saves, WriteFail,
     Finish, At, Return, Goto, Later
<1> QED BY <1>1, <1>2, <1>3, <1>4, <1>5, <1>6, <1>7, <1>8, <1>9 DEF Inv

\* A new life starts from the file or from nothing.
LEMMA InvBoot ==
  ASSUME TypeOK, Inv, NEW restore \in Restores, NEW m \in Modes, Boot(restore, m)
  PROVE  Inv'
<1>1. IdleWhenDown'
  BY DEF Inv, IdleWhenDown, Running, Boot, lockVars, procVars, NoAck
<1>2. StoreLock'
  BY DEF Inv, StoreLock, Boot, lockVars, procVars, NoAck
<1>3. CallMatches'
  BY ProcsAssumption
  DEF TypeOK, Inv, IdleWhenDown, Running, CallMatches, Boot, procVars, Procs
<1>4. OneSaver'
  BY DEF Inv, IdleWhenDown, Running, OneSaver, Saving, Boot, procVars
<1>5. StoreIsLatest'
  BY DEF TypeOK, Inv, StoreIsLatest, IdleWhenDown, Running, Boot, lockVars,
       procVars, NoAck
<1>6. CopiesAreStates'
  BY DEF TypeOK, Inv, CopiesAreStates, IdleWhenDown, Holding, Running, Boot,
       lockVars, procVars, NoAck
<1>7. FileIsState'
  BY DEF TypeOK, Inv, FileIsState, IdleWhenDown, Holding, Saves, Running,
       Boot, lockVars, procVars, NoAck
<1>8. TornIsKnown'
  BY DEF Inv, TornIsKnown, NobodyWrites, Boot, lockVars, procVars, NoAck
<1>9. AckedIsSaved'
  BY DEF TypeOK, Inv, AckedIsSaved, IdleWhenDown, Holding, Saves, Running,
       Boot, lockVars, procVars, NoAck
<1> QED BY <1>1, <1>2, <1>3, <1>4, <1>5, <1>6, <1>7, <1>8, <1>9 DEF Inv

\* A signal changes nothing for the goroutines.
LEMMA InvSignal ==
  ASSUME TypeOK, Inv, Signal
  PROVE  Inv'
<1>1. IdleWhenDown'
  BY DEF Inv, IdleWhenDown, Running, Signal, lockVars, procVars
<1>2. StoreLock'
  BY DEF Inv, StoreLock, Signal, lockVars, procVars
<1>3. CallMatches'
  BY DEF Inv, CallMatches, Saves, Saving, Signal, lockVars, procVars
<1>4. OneSaver'
  BY DEF Inv, OneSaver, Saves, Saving, Signal, lockVars, procVars
<1>5. StoreIsLatest'
  BY DEF Inv, StoreIsLatest, Running, Signal, lockVars, procVars
<1>6. CopiesAreStates'
  BY DEF Inv, CopiesAreStates, Holding, Signal, lockVars, procVars
<1>7. FileIsState'
  BY DEF Inv, FileIsState, Holding, Saves, Signal, lockVars, procVars
<1>8. TornIsKnown'
  BY DEF Inv, TornIsKnown, NobodyWrites, Signal, lockVars, procVars
<1>9. AckedIsSaved'
  BY DEF Inv, AckedIsSaved, Holding, Saves, Signal, lockVars, procVars
<1> QED BY <1>1, <1>2, <1>3, <1>4, <1>5, <1>6, <1>7, <1>8, <1>9 DEF Inv

\* Any end of the process leaves the file only.
LEMMA InvHalt ==
  ASSUME TypeOK, Inv, Halt
  PROVE  Inv'
<1>1. IdleWhenDown'
  BY DEF Inv, IdleWhenDown, Running, Halt
<1>2. StoreLock'
  BY ProcsAssumption DEF TypeOK, Inv, StoreLock, CallMatches, Procs, Saves, Halt
<1>3. CallMatches'
  BY ProcsAssumption
   DEF TypeOK, Inv, CallMatches, StoreLock, Procs, Saves, Saving, Halt
<1>4. OneSaver'
  BY DEF Inv, OneSaver, Saves, Saving, Halt
<1>5. StoreIsLatest'
  BY DEF Inv, StoreIsLatest, Running, Halt
<1>6. CopiesAreStates'
  BY DEF Inv, CopiesAreStates, Holding, Halt
<1>7. FileIsState'
  BY DEF Inv, FileIsState, Holding, Saves, Halt
<1>8. TornIsKnown'
  BY DEF Inv, TornIsKnown, NobodyWrites, Halt
<1>9. AckedIsSaved'
  BY DEF TypeOK, Inv, AckedIsSaved, Holding, Saves, Halt
<1> QED BY <1>1, <1>2, <1>3, <1>4, <1>5, <1>6, <1>7, <1>8, <1>9 DEF Inv

\* The invariant is inductive, together with the types.
LEMMA InvStep ==
  ASSUME TypeOK, Inv, [Next]_vars
  PROVE  TypeOK' /\ Inv'
<1>1. ASSUME NEW p \in Handlers, HandlerStep(p)
      PROVE  TypeOK' /\ Inv'
  <2>1. TypeOK'
    BY <1>1, TypeHandler DEF Inv
  <2>2. Inv'
    BY <1>1, <2>1, InvRequest, InvLock, InvReject, InvUpdateSingle, InvMergeGauges,
       InvMergeCounters, InvLockFile, InvReply DEF HandlerStep
  <2> QED BY <2>1, <2>2
<1>2. CASE Tick
  BY <1>2, TypeLife, InvTick
<1>3. ASSUME NEW p \in Procs, SaveStep(p)
      PROVE  TypeOK' /\ Inv'
  BY <1>3, TypeSave, InvReadGauges, InvReadCounters, InvOpenTrunc, InvOpenFail,
     InvWriteBytes, InvWriteFail DEF SaveStep
<1>4. CASE LifeStep
  BY <1>4, TypeLife, InvBoot, InvSignal, InvHalt DEF LifeStep, Exit, Kill
<1>5. CASE UNCHANGED vars
  <2>1. TypeOK'
    BY <1>5 DEF vars, TypeOK
  <2>2. Inv'
    BY <1>5
    DEF vars, Inv, IdleWhenDown, StoreLock, CallMatches, OneSaver, StoreIsLatest,
        CopiesAreStates, FileIsState, TornIsKnown, AckedIsSaved, Running, Saves,
        Holding, NobodyWrites
  <2> QED BY <2>1, <2>2
<1> QED BY <1>1, <1>2, <1>3, <1>4, <1>5 DEF Next

-----------------------------------------------------------------------------
(* Theorems *)

\* In every reachable state the variables have their types and the locks, the
\* copies, the file and the acknowledgements fit together: storage.go:195-414.
THEOREM Invariance == Spec => [](TypeOK /\ Inv)
<1>1. Init => TypeOK /\ Inv
  BY TypeInit, InvInit
<1>2. TypeOK /\ Inv /\ [Next]_vars => (TypeOK /\ Inv)'
  BY InvStep
<1> QED BY <1>1, <1>2, PTL DEF Spec

\* The types alone: no operation puts a nil pointer, or a number that is not an
\* int64, in the store.
THEOREM TypeCorrect == Spec => []TypeOK
BY Invariance, PTL

\* The inductive invariant alone, which the runs check too.
THEOREM InvCorrect == Spec => []Inv
BY Invariance, PTL

\* Listings, copies on their way to the file and the file are states the store
\* really had: storageRWM in ForEachMetrics, writeStoreBackup, UpdateMetrics.
THEOREM Snapshots == Spec => []SnapshotsAreStates
<1>1. TypeOK /\ Inv => SnapshotsAreStates
  BY DEF TypeOK, Inv, SnapshotsAreStates, CopiesAreStates, FileIsState, Holding
<1> QED BY <1>1, Invariance, PTL

\* With STORE_INTERVAL=0 an acknowledged single update is on disk.
THEOREM Acknowledged == Spec => []AckedOnDisk
<1>1. TypeOK /\ Inv => AckedOnDisk
  BY DEF TypeOK, Inv, AckedOnDisk, AckedIsSaved, TornIsKnown, FileIsState
<1> QED BY <1>1, Invariance, PTL

\* A restart after any end of the process restores a state at least as new as
\* everything acknowledged to single updates: createStorageFromBackup.
THEOREM RestartKeepsAcked == Spec => BootKeepsAcked
<1>1. TypeOK /\ Inv =>
        (mode = "sync" /\ ~lost /\ acked.single > 0 /\ (\E m \in Modes : Boot(TRUE, m)) =>
           \E k \in acked.single .. Len(hist) : stor' = hist[k])
  <2> SUFFICES ASSUME TypeOK, Inv, mode = "sync", ~lost, acked.single > 0,
                      NEW m \in Modes, Boot(TRUE, m)
               PROVE  \E k \in acked.single .. Len(hist) : stor' = hist[k]
    OBVIOUS
  <2>1. NobodyWrites
    BY DEF Boot, Inv, IdleWhenDown, Running, NobodyWrites
  <2>2. acked.single <= file.at /\ file.at <= Len(hist)
    BY DEF Inv, AckedIsSaved, FileIsState
  <2>3. file.st = "whole" /\ file.at > 0
    BY <2>1, <2>2 DEF TypeOK, Inv, TornIsKnown, FileIsState
  <2>4. stor' = hist[file.at]
    BY <2>3 DEF Boot, Inv, FileIsState
  <2>5. file.at \in acked.single .. Len(hist)
    BY <2>2 DEF TypeOK
  <2> QED BY <2>4, <2>5
<1> QED BY <1>1, Invariance, PTL DEF BootKeepsAcked

\* The destructor of the ticker never lets main end in the middle of a save.
THEOREM GracefulExit == Spec => GracefulExitKeepsFile
<1>1. TypeOK /\ Inv => (mode = "ticker" /\ Exit /\ file.st = "torn" => lost)
  <2> SUFFICES ASSUME Inv, mode = "ticker", Exit, file.st = "torn"
               PROVE  lost
    OBVIOUS
  <2>1. \A p \in Procs : pc[p] = "write" => p = Ticker
    BY DEF Inv, OneSaver, CallMatches, Saving
  <2>2. NobodyWrites
    BY <2>1 DEF Exit, NobodyWrites
  <2> QED BY <2>2 DEF Inv, TornIsKnown
<1> QED BY <1>1, Invariance, PTL DEF GracefulExitKeepsFile

-----------------------------------------------------------------------------
(* Refinement *)

\* Steps that change neither the history, nor the file, nor whether the process
\* runs are invisible in the promise.
LEMMA StutterStep ==
  ASSUME UNCHANGED <<hist, file>>, Running' = Running
  PROVE  UNCHANGED Promise!vars
BY DEF Promise!vars

\* A single update is one commit of its request.
LEMMA SingleCommits ==
  ASSUME TypeOK, Inv, NEW p \in Handlers, UpdateSingle(p)
  PROVE  Promise!Commit(req[p])
<1>1. Holds(p) /\ req[p].op = "UpdateMetric" /\ Accepted(req[p])
  BY DEF UpdateSingle
<1>2. stor = hist[Len(hist)] /\ Running
  BY <1>1, AloneWithStore
<1>3. hist' = Append(hist, Effect(hist[Len(hist)], req[p]))
  BY <1>1, <1>2 DEF UpdateSingle, Effect
<1>4. file' = file /\ Running' = Running
  BY DEF UpdateSingle, Running
<1> QED BY <1>1, <1>2, <1>3, <1>4 DEF Promise!Commit

\* A list is one commit as well, at the end of its second loop.
LEMMA ListCommits ==
  ASSUME TypeOK, Inv, NEW p \in Handlers, MergeCounters(p)
  PROVE  Promise!Commit(req[p])
<1>1. p \in Procs /\ pc[p] = "merge" /\ Running
  BY DEF MergeCounters, At, Procs
<1>2. writer = p /\ req[p].op = "UpdateMetrics" /\ Accepted(req[p])
  BY <1>1 DEF Inv, StoreLock, CallMatches
<1>3. stor = MergeGaugesOf(hist[Len(hist)], req[p].ms)
  BY <1>1, <1>2 DEF Inv, StoreIsLatest
<1>4. hist' = Append(hist, Effect(hist[Len(hist)], req[p]))
  BY <1>2, <1>3 DEF MergeCounters, Effect, UpdateMetrics
<1>5. file' = file /\ Running' = Running
  BY DEF MergeCounters, Running
<1> QED BY <1>1, <1>2, <1>4, <1>5 DEF Promise!Commit

\* A complete write saves a state that is not older than the file's.
LEMMA WriteSaves ==
  ASSUME TypeOK, Inv, NEW p \in Procs, WriteBytes(p), file' # file
  PROVE  \E k \in DOMAIN hist : Promise!Save(k)
<1>1. pc[p] = "write" /\ Running
  BY DEF WriteBytes, At
<1>2. buf[p].at \in DOMAIN hist /\ buf[p].data = hist[buf[p].at]
  BY <1>1 DEF Inv, CopiesAreStates, Holding
<1>3. file.at <= buf[p].at
  BY <1>1 DEF Inv, FileIsState, CallMatches, Holding
<1>4. buf[p].at >= file.at
  BY <1>2, <1>3 DEF TypeOK
<1>5. /\ file' = [st |-> "whole", data |-> hist[buf[p].at], at |-> buf[p].at]
      /\ hist' = hist /\ Running' = Running
  BY <1>2 DEF WriteBytes, Finish, Running
<1>6. Promise!Save(buf[p].at)
  BY <1>1, <1>4, <1>5 DEF Promise!Save
<1> QED BY <1>2, <1>6

\* Every step of the store is a step of the promise or is invisible.
LEMMA StepRefines ==
  ASSUME TypeOK, Inv, [Next]_vars
  PROVE  [Promise!Next]_Promise!vars
<1>1. ASSUME NEW p \in Handlers, HandlerStep(p)
      PROVE  [Promise!Next]_Promise!vars
  <2>0. p \in Procs
    BY DEF Procs
  <2>1. CASE UpdateSingle(p)
    <3>1. req[p] \in Requests
      BY <2>1, AloneWithStore DEF UpdateSingle
    <3> QED BY <2>1, <3>1, SingleCommits DEF Promise!Next
  <2>2. CASE MergeCounters(p)
    <3>1. req[p] \in Requests
      BY <2>2 DEF MergeCounters, At, Inv, CallMatches
    <3> QED BY <2>2, <3>1, ListCommits DEF Promise!Next
  <2>3. CASE \/ \E r \in Requests : Request(p, r)
             \/ Lock(p) \/ Reject(p) \/ MergeGauges(p) \/ LockFile(p) \/ Reply(p)
    <3>1. UNCHANGED <<hist, file>> /\ Running' = Running
      BY <2>3
      DEF Request, Lock, Reject, MergeGauges, LockFile, Reply, ghosts, Running
    <3> QED BY <3>1, StutterStep
  <2> QED BY <1>1, <2>1, <2>2, <2>3 DEF HandlerStep
<1>2. CASE Tick
  <2>1. UNCHANGED <<hist, file>> /\ Running' = Running
    BY <1>2 DEF Tick, ghosts, Running
  <2> QED BY <2>1, StutterStep
<1>3. ASSUME NEW p \in Procs, SaveStep(p)
      PROVE  [Promise!Next]_Promise!vars
  <2>1. CASE WriteBytes(p) /\ file' # file
    BY <2>1, WriteSaves DEF Promise!Next
  <2>2. CASE OpenTrunc(p)
    <3>1. Running /\ Running' = Running /\ hist' = hist
      BY <2>2 DEF OpenTrunc, At, ghosts, Running
    <3>2. Promise!Spoil
      BY <2>2, <3>1 DEF OpenTrunc, Promise!Spoil
    <3> QED BY <3>2 DEF Promise!Next
  <2>3. CASE \/ ReadGauges(p) \/ ReadCounters(p) \/ OpenFail(p) \/ WriteFail(p)
             \/ (WriteBytes(p) /\ file' = file)
    <3>1. UNCHANGED <<hist, file>> /\ Running' = Running
      BY <2>3
      DEF ReadGauges, ReadCounters, OpenFail, WriteFail, WriteBytes, Finish, ghosts,
          Running
    <3> QED BY <3>1, StutterStep
  <2> QED BY <1>3, <2>1, <2>2, <2>3 DEF SaveStep
<1>4. ASSUME NEW restore \in Restores, NEW m \in Modes, Boot(restore, m)
      PROVE  [Promise!Next]_Promise!vars
  <2>1. restore \in BOOLEAN
    BY RestoresAssumption
  <2>2. ~Running /\ Running'
    BY <1>4 DEF Boot, Running
  <2>3. Promise!Start(restore)
    BY <1>4, <2>2 DEF Boot, Promise!Start
  <2> QED BY <2>1, <2>3 DEF Promise!Next
<1>5. CASE Signal
  <2>1. UNCHANGED <<hist, file>> /\ Running' = Running
    BY <1>5 DEF Signal, Running
  <2> QED BY <2>1, StutterStep
<1>6. CASE Exit \/ Kill
  <2>1. Running /\ ~Running' /\ UNCHANGED <<hist, file>>
    BY <1>6 DEF Exit, Kill, Halt, Running
  <2>2. Promise!Stop
    BY <2>1 DEF Promise!Stop
  <2> QED BY <2>2 DEF Promise!Next
<1>7. CASE UNCHANGED vars
  <2>1. UNCHANGED <<hist, file>> /\ Running' = Running
    BY <1>7 DEF vars, Running
  <2> QED BY <2>1, StutterStep
<1> QED BY <1>1, <1>2, <1>3, <1>4, <1>5, <1>6, <1>7 DEF Next, LifeStep

\* The store with its locks, copies and system calls implements the promise of
\* BackupPromise: no update is lost or torn, and the file never goes back.
THEOREM Refinement == Spec => ImplementsPromise
<1>1. Init => Promise!Init
  BY DEF Init, Promise!Init, Running
<1>2. TypeOK /\ Inv /\ [Next]_vars => [Promise!Next]_Promise!vars
  BY StepRefines
<1> QED BY <1>1, <1>2, Invariance, PTL DEF Spec, Promise!Spec, ImplementsPromise
=============================================================================
