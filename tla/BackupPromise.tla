---------------------------- MODULE BackupPromise ----------------------------
(***************************************************************************)
(* What the memory store and its backup file promise together, with no     *)
(* locks, goroutines or system calls: updates take effect one after the    *)
(* other and none is lost or torn; the file holds, whenever it can be      *)
(* read, a state the store really had; within one life of the process a    *)
(* newer state is never replaced by an older one; and a process that       *)
(* restores starts from exactly what the file holds, or empty.             *)
(***************************************************************************)
EXTENDS Naturals, Sequences

CONSTANTS
  Requests,      \* what may be asked of the store
  Accepted(_),   \* ... and is an update that it takes
  Effect(_, _),  \* the state after an accepted update of a state
  EmptyStore

VARIABLES
  hist,   \* the states of the store in this life of the process, in order
  disk,   \* the backup file: readable or not, its state, the index of it in hist
  on      \* the process is running

vars == <<hist, disk, on>>

Init ==
  /\ hist = <<EmptyStore>>
  /\ disk = [st |-> "absent", data |-> EmptyStore, at |-> 0]
  /\ on = FALSE

\* An accepted update takes effect on the latest state, at once and entirely.
Commit(r) ==
  /\ on
  /\ Accepted(r)
  /\ hist' = Append(hist, Effect(hist[Len(hist)], r))
  /\ UNCHANGED <<disk, on>>

\* The file stops being readable: it is being rewritten, or a write failed.
Spoil ==
  /\ on
  /\ disk' = [disk EXCEPT !.st = "torn"]
  /\ UNCHANGED <<hist, on>>

\* The file becomes a copy of a state that is not older than the last copy.
Save(k) ==
  /\ on
  /\ k >= disk.at
  /\ disk' = [st |-> "whole", data |-> hist[k], at |-> k]
  /\ UNCHANGED <<hist, on>>

\* The process ends, gracefully or not; the file stays as it is.
Stop ==
  /\ on
  /\ on' = FALSE
  /\ UNCHANGED <<hist, disk>>

\* The process starts again.
Start(restore) ==
  LET restored == restore /\ disk.st = "whole" IN
  /\ ~on
  /\ on' = TRUE
  /\ hist' = <<IF restored THEN disk.data ELSE EmptyStore>>
  /\ disk' = [disk EXCEPT !.at = IF restored THEN 1 ELSE 0]

Next ==
  \/ \E r \in Requests : Commit(r)
  \/ Spoil
  \/ \E k \in DOMAIN hist : Save(k)
  \/ Stop
  \/ \E restore \in BOOLEAN : Start(restore)

Spec == Init /\ [][Next]_vars
=============================================================================
