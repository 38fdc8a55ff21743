------------------------------- MODULE SqlStore -------------------------------
(***************************************************************************)
(* The SQL store of the server (internal/storage/storage.go, StorageV2):   *)
(* update requests, each on a connection of the pool, as transactions on   *)
(* one table.  Of Postgres the module has what the code relies on: row     *)
(* locks kept until the end of the transaction, statements that see what   *)
(* was committed before them, the detection of deadlocks, range errors of  *)
(* bigint, and connections that break.                                     *)
(***************************************************************************)
EXTENDS Metrics, FiniteSets

CONSTANTS
  Conns,      \* the connections of the pool; a request waits outside for a free one
  ZeroGauge   \* the float64 0, the default of column value

ASSUME ZeroAssumption == ZeroGauge \in GaugeVals

VARIABLES
  table,      \* the committed rows
  pc,         \* what the handler that has the connection is doing
  req,        \* the call it is executing
  pos,        \* the metric of the list it has come to
  pending     \* the rows its transaction has written, which are locked by it

\* History variables.
VARIABLES
  base,       \* the committed row each pending row was computed from, Nil if none
  outcome     \* how the last request of each connection ended

vars == <<table, pc, req, pos, pending, base, outcome>>

Row == [mtype : {"gauge", "counter"}, delta : Int64, value : GaugeVals]
Tables == Maps(Row)

NoReq == [op |-> "none", ms |-> <<>>]
NoOutcome == [status |-> "none", stored |-> FALSE]

-----------------------------------------------------------------------------
(* One statement: INSERT ... ON CONFLICT (id) DO UPDATE *)

\* A mutant: the columns have no DEFAULT.
FreshNull(m) ==
  [mtype |-> m.mtype,
   delta |-> IF m.mtype = "counter" THEN m.val ELSE Nil,
   value |-> IF m.mtype = "gauge" THEN m.val ELSE Nil]

\* The id alone is the key: a metric of the other type finds the same row, and
\* changes its own column of it, but not mtype.
Fresh(m) ==
  [mtype |-> m.mtype,
   delta |-> IF m.mtype = "counter" THEN m.val ELSE 0,
   value |-> IF m.mtype = "gauge" THEN m.val ELSE ZeroGauge]

\* A mutant: SET delta = EXCLUDED.delta
ChangedBlindly(row, m) ==
  IF m.mtype = "gauge"
  THEN [row EXCEPT !.value = m.val]
  ELSE [row EXCEPT !.delta = m.val]

Changed(row, m) ==
  IF m.mtype = "gauge"
  THEN [row EXCEPT !.value = m.val]
  ELSE [row EXCEPT !.delta = @ + m.val]

RowAfter(t, m) == IF m.id \in DOMAIN t THEN Changed(t[m.id], m) ELSE Fresh(m)

\* The statement fails on a sum that is not a bigint.
Fits(t, m) == RowAfter(t, m).delta \in Int64

Upsert(t, m) == Put(t, [id \in {m.id} |-> RowAfter(t, m)])

-----------------------------------------------------------------------------
(* Transactions *)

Init ==
  /\ table = EmptyMap
  /\ pc = [c \in Conns |-> "free"]
  /\ req = [c \in Conns |-> NoReq]
  /\ pos = [c \in Conns |-> 0]
  /\ pending = [c \in Conns |-> EmptyMap]
  /\ base = [c \in Conns |-> EmptyMap]
  /\ outcome = [c \in Conns |-> NoOutcome]

\* What a transaction sees: the committed rows and its own.
View(c) == Put(table, pending[c])

\* The metric c has come to, as a set of at most one.
Current(c) == IF pos[c] \in DOMAIN req[c].ms THEN {req[c].ms[pos[c]]} ELSE {}

\* The transactions that keep c waiting for a row.
BlockedBy(c) ==
  {d \in Conns \ {c} : \E m \in Current(c) : Valid(m) /\ m.id \in DOMAIN pending[d]}

Executing(c, op) == pc[c] = "exec" /\ req[c].op = op

\* The connection goes back to the pool, its transaction is over.
Release(c, status, stored) ==
  /\ pc' = [pc EXCEPT ![c] = "free"]
  /\ req' = [req EXCEPT ![c] = NoReq]
  /\ pos' = [pos EXCEPT ![c] = 0]
  /\ pending' = [pending EXCEPT ![c] = EmptyMap]
  /\ base' = [base EXCEPT ![c] = EmptyMap]
  /\ outcome' = [outcome EXCEPT ![c] = [status |-> status, stored |-> stored]]

\* A handler takes a connection; for a list it begins a transaction.
Begin(c, r) ==
  /\ pc[c] = "free" /\ r.op # "ForEachMetrics"
  /\ pc' = [pc EXCEPT ![c] = "exec"]
  /\ req' = [req EXCEPT ![c] = r]
  /\ pos' = [pos EXCEPT ![c] = 1]
  /\ outcome' = [outcome EXCEPT ![c] = NoOutcome]
  /\ UNCHANGED <<table, pending, base>>

\* StorageV2.UpdateMetric: a statement on its own commits at once.  The reply
\* of the database may be lost even so.
UpdateMetricSQL(c) ==
  /\ Executing(c, "UpdateMetric") /\ BlockedBy(c) = {}
  /\ \E m \in Current(c) :
       /\ Valid(m) /\ Fits(table, m)
       /\ table' = Upsert(table, m)
  /\ \E status \in {"ok", "cut"} : Release(c, status, TRUE)

\* An unknown type, a nil pointer (the panic comes before the connection is
\* used) or a range error: the client gets an error.
UpdateMetricFails(c) ==
  /\ Executing(c, "UpdateMetric") /\ BlockedBy(c) = {}
  /\ \E m \in Current(c) : ~Valid(m) \/ ~Fits(table, m)
  /\ Release(c, "error", FALSE)
  /\ UNCHANGED table

\* A mutant: the sum is computed from the committed row (stor.dbPool, not tx).
StatementOutside(c) ==
  /\ Executing(c, "UpdateMetrics") /\ BlockedBy(c) = {}
  /\ \E m \in Current(c) :
       /\ Valid(m) /\ Fits(table, m)
       /\ pending' = [pending EXCEPT ![c] = Put(@, [id \in {m.id} |-> RowAfter(table, m)])]
       /\ base' = [base EXCEPT ![c] =
            Put([id \in {m.id} |-> IF id \in DOMAIN table THEN table[id] ELSE Nil], @)]
  /\ pos' = [pos EXCEPT ![c] = @ + 1]
  /\ UNCHANGED <<table, pc, req, outcome>>

\* StorageV2.UpdateMetrics, one iteration of its loop: tx.Exec gets the row's
\* lock and writes the row.
Statement(c) ==
  /\ Executing(c, "UpdateMetrics") /\ BlockedBy(c) = {}
  /\ \E m \in Current(c) :
       /\ Valid(m) /\ Fits(View(c), m)
       /\ pending' = [pending EXCEPT ![c] = Put(@, [id \in {m.id} |-> RowAfter(View(c), m)])]
       /\ base' = [base EXCEPT ![c] =
            Put([id \in {m.id} |-> IF id \in DOMAIN table THEN table[id] ELSE Nil], @)]
  /\ pos' = [pos EXCEPT ![c] = @ + 1]
  /\ UNCHANGED <<table, pc, req, outcome>>

\* A mutant: what fails is tried again.
RefusedRetrying(c) ==
  /\ Executing(c, "UpdateMetrics") /\ BlockedBy(c) = {}
  /\ \E m \in Current(c) : m.mtype = "other" \/ (Valid(m) /\ ~Fits(View(c), m))
  /\ UNCHANGED vars

\* An unknown type, or a statement that fails: range error ...
Refused(c) ==
  /\ Executing(c, "UpdateMetrics") /\ BlockedBy(c) = {}
  /\ \E m \in Current(c) :
       \/ m.mtype = "other"
       \/ Valid(m) /\ ~Fits(View(c), m)
  /\ pc' = [pc EXCEPT ![c] = "rollback"]
  /\ UNCHANGED <<table, req, pos, pending, base, outcome>>

\* ... or c is in a circle of transactions that wait for each other.
InDeadlock(c) ==
  \E S \in SUBSET Conns :
    /\ c \in S
    /\ \A d \in S : BlockedBy(d) \cap S # {} /\ \E e \in S : d \in BlockedBy(e)

DeadlockDetected(c) ==
  /\ Executing(c, "UpdateMetrics") /\ InDeadlock(c)
  /\ pc' = [pc EXCEPT ![c] = "rollback"]
  /\ UNCHANGED <<table, req, pos, pending, base, outcome>>

\* A mutant: return err without tx.Rollback, the locks stay.
RollbackForgotten(c) ==
  /\ pc[c] = "rollback"
  /\ pc' = [pc EXCEPT ![c] = "free"]
  /\ req' = [req EXCEPT ![c] = NoReq]
  /\ pos' = [pos EXCEPT ![c] = 0]
  /\ outcome' = [outcome EXCEPT ![c] = [status |-> "error", stored |-> FALSE]]
  /\ UNCHANGED <<table, pending, base>>

\* return tx.Rollback(ctx): its success is what the handler is told of.
Rollback(c) ==
  /\ pc[c] = "rollback"
  /\ Release(c, "ok", FALSE)
  /\ UNCHANGED table

\* *metric.Value with a nil pointer: net/http recovers the handler, but the
\* transaction is neither committed nor rolled back, and keeps its connection.
NilInList(c) ==
  /\ Executing(c, "UpdateMetrics")
  /\ \E m \in Current(c) : m.mtype # "other" /\ m.val = Nil
  /\ pc' = [pc EXCEPT ![c] = "abandoned"]
  /\ outcome' = [outcome EXCEPT ![c] = [status |-> "error", stored |-> FALSE]]
  /\ UNCHANGED <<table, req, pos, pending, base>>

\* The end of the loop: tx.Commit.
Commit(c) ==
  /\ Executing(c, "UpdateMetrics") /\ Current(c) = {}
  /\ table' = View(c)
  /\ \E status \in {"ok", "cut"} : Release(c, status, TRUE)

\* The request's context is cancelled or the connection breaks: the statement
\* and the rollback fail, Postgres ends the transaction.
Break(c) ==
  /\ pc[c] \in {"exec", "rollback"}
  /\ Release(c, "cut", FALSE)
  /\ UNCHANGED table

\* The server, or Postgres, goes down and comes back: what was not committed
\* is gone, abandoned transactions included.
Restart ==
  /\ pc' = [c \in Conns |-> "free"]
  /\ req' = [c \in Conns |-> NoReq]
  /\ pos' = [c \in Conns |-> 0]
  /\ pending' = [c \in Conns |-> EmptyMap]
  /\ base' = [c \in Conns |-> EmptyMap]
  /\ outcome' = [c \in Conns |-> NoOutcome]
  /\ UNCHANGED table

-----------------------------------------------------------------------------
Proceeds(c) ==
  \/ UpdateMetricSQL(c)
  \/ UpdateMetricFails(c)
  \/ Statement(c)
  \/ Refused(c)
  \/ DeadlockDetected(c)
  \/ Rollback(c)
  \/ NilInList(c)
  \/ Commit(c)

Next ==
  \/ \E c \in Conns : Proceeds(c) \/ Break(c) \/ \E r \in Requests : Begin(c, r)
  \/ Restart

Spec == Init /\ [][Next]_vars

\* Postgres wakes those who wait for a row in the order of their arrival, and
\* looks for deadlocks after a second of waiting.
FairSpec == Spec /\ \A c \in Conns : SF_vars(Proceeds(c))

-----------------------------------------------------------------------------
(* Properties *)

\* Every variable stays in its set: no statement leaves a sum in a row that is
\* not a bigint, or a null in a column that has no default.
TypeOK ==
  /\ table \in Tables
  /\ pc \in [Conns -> {"free", "exec", "rollback", "abandoned"}]
  /\ req \in [Conns -> Requests \cup {NoReq}]
  /\ pos \in [Conns -> Nat]
  /\ pending \in [Conns -> Tables]
  /\ base \in [Conns -> Maps(Row \cup {Nil})]
  /\ outcome \in [Conns -> [status : {"none", "ok", "error", "cut"}, stored : BOOLEAN]]

\* No two transactions have written the same row.
LocksAreExclusive ==
  \A c, d \in Conns : c # d => DOMAIN pending[c] \cap DOMAIN pending[d] = {}

\* No lost update: the committed row a transaction started from when it wrote a
\* row is the committed row still, whatever others have committed meanwhile.
\* ON CONFLICT ... delta = metrics.delta + EXCLUDED.delta relies on it.
NoLostUpdate ==
  \A c \in Conns : \A id \in DOMAIN pending[c] :
    base[c][id] = IF id \in DOMAIN table THEN table[id] ELSE Nil

\* A connection in the pool has no transaction, and a single update none ever.
OnlyListsHoldRows ==
  \A c \in Conns :
    /\ pc[c] = "free" => req[c] = NoReq
    /\ pc[c] # "free" => req[c] \in Requests /\ req[c].op # "ForEachMetrics"
    /\ req[c].op # "UpdateMetrics" => pending[c] = EmptyMap
    /\ DOMAIN base[c] = DOMAIN pending[c]

\* The inductive invariant.
Inv == LocksAreExclusive /\ NoLostUpdate /\ OnlyListsHoldRows
=============================================================================
