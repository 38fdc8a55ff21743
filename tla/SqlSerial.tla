------------------------------ MODULE SqlSerial ------------------------------
(* What the SQL store computes, against running its requests one by one and    *)
(* against the memory store.                                                   *)
EXTENDS SqlStore

\* The table after each statement of a list, with nobody else around.
Running(t, ms) ==
  LET after[i \in 0..Len(ms)] == IF i = 0 THEN t ELSE Upsert(after[i - 1], ms[i])
  IN after

\* ... and after the list.
Applied(t, ms) == Running(t, ms)[Len(ms)]

\* Serialisability: a commit changes the table as if the whole list had run at
\* that moment on the committed rows, and nothing but a commit changes it.
CommitsAreSerial ==
  [][table' # table =>
       \E c \in Conns :
         /\ pc[c] = "exec" /\ pc'[c] = "free"
         /\ table' = Applied(table, req[c].ms)]_vars

\* The view of a transaction at the statement it has come to.
ViewIsSerial(c) ==
  /\ pos[c] \in 1..(Len(req[c].ms) + 1)
  /\ View(c) = Running(table, req[c].ms)[pos[c] - 1]
  /\ DOMAIN pending[c] = {req[c].ms[i].id : i \in 1..(pos[c] - 1)}

\* It rests on what a transaction sees in the middle of its list: what the part of
\* it that it has executed would have left of the rows that are committed by now,
\* however many others have committed since it began.
ViewsAreSerial == \A c \in Conns : pc[c] # "free" => ViewIsSerial(c)

\* Every request gets its connection back to the pool, deadlocks included, as
\* long as no transaction has been abandoned.
RequestsEnd ==
  \A c \in Conns :
    pc[c] \in {"exec", "rollback"} ~> pc[c] = "free" \/ \E d \in Conns : pc[d] = "abandoned"

-----------------------------------------------------------------------------
(* The memory store *)

\* The rows as the two maps of the memory store.
AsMaps(t) ==
  [gauge |-> [id \in {i \in DOMAIN t : t[i].mtype = "gauge"} |-> t[id].value],
   counter |-> [id \in {i \in DOMAIN t : t[i].mtype = "counter"} |-> t[id].delta]]

\* A list both stores treat alike: one type for each name, the one it has in the
\* table, no counter twice, no overflow, nothing that is refused.
Plain(t, ms) ==
  /\ \A i \in DOMAIN ms :
       /\ Valid(ms[i])
       /\ ms[i].id \in DOMAIN t => t[ms[i].id].mtype = ms[i].mtype
       /\ Fits(t, ms[i])
  /\ \A i, j \in DOMAIN ms : i # j /\ ms[i].id = ms[j].id =>
       ms[i].mtype = "gauge" /\ ms[j].mtype = "gauge"

\* The two implementations of StorageInterface agree on such lists.
StoresAgree ==
  \A r \in Requests : Plain(table, r.ms) =>
    AsMaps(Applied(table, r.ms)) = UpdateMetrics(AsMaps(table), r.ms)

-----------------------------------------------------------------------------
(* The readers of both stores; each is one statement, or one read lock *)

Found(v) == [error |-> FALSE, val |-> v]
NotFound == Found(Nil)
UnknownType == [error |-> TRUE, val |-> Nil]

\* Storage.GetMetric
GetMetric(st, mType, id) ==
  IF mType \notin {"gauge", "counter"} THEN UnknownType
  ELSE IF id \in DOMAIN st[mType] THEN Found(st[mType][id]) ELSE NotFound

\* A mutant: pgx.ErrNoRows is not told from a row.
GetMetricSQLOfNoRows(t, mType, id) ==
  CASE mType = "gauge" -> Found(IF id \in DOMAIN t THEN t[id].value ELSE ZeroGauge)
    [] mType = "counter" -> Found(IF id \in DOMAIN t THEN t[id].delta ELSE 0)
    [] OTHER -> UnknownType

\* StorageV2.GetMetric selects by id: the column asked for, whatever type the
\* row was stored with.
GetMetricSQL(t, mType, id) ==
  IF mType \notin {"gauge", "counter"} THEN UnknownType
  ELSE IF id \notin DOMAIN t THEN NotFound
  ELSE Found(IF mType = "gauge" THEN t[id].value ELSE t[id].delta)

\* Storage.ForEachMetrics, as GetAllMetrics prints it.
ForEachMetrics(st) ==
  UNION {{[id |-> id, mtype |-> t, val |-> st[t][id]] : id \in DOMAIN st[t]} :
         t \in {"gauge", "counter"}}

\* StorageV2.ForEachMetrics: rows.Next() is FALSE after the last row and after a
\* failure alike, and nobody looks at rows.Err(): then any part of the table is
\* answered as the whole.
ForEachMetricsSQL(t, fails) ==
  LET rows == {[id |-> id, mtype |-> t[id].mtype,
                val |-> IF t[id].mtype = "gauge" THEN t[id].value ELSE t[id].delta] :
               id \in DOMAIN t}
  IN IF fails THEN SUBSET rows ELSE {rows}

\* A reader cannot tell the stores apart as long as it asks for names by the type
\* they have, and the connection lasts.
ReadersAgree ==
  /\ \A id \in IDs, mType \in {"gauge", "counter", "other"} :
       (id \in DOMAIN table /\ mType # "other" => table[id].mtype = mType) =>
         GetMetricSQL(table, mType, id) = GetMetric(AsMaps(table), mType, id)
  /\ ForEachMetricsSQL(table, FALSE) = {ForEachMetrics(AsMaps(table))}

-----------------------------------------------------------------------------
(* What the repository's documents say and the code does not do *)

\* cmd/server/handlers/handlers.go:62: UpdateMetrics saves the pack of metrics it
\* is sent.  A list whose transaction was rolled back is answered with 200.
AcknowledgedIsStored ==
  \A c \in Conns : outcome[c].status = "ok" => outcome[c].stored
=============================================================================
