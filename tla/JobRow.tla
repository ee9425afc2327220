-------------------------------- MODULE JobRow --------------------------------
(***************************************************************************)
(* What a Job row promises the pages that show it, whatever kind of task   *)
(* is behind it (services/jobs/service.py, tasks.py): requests, workers,   *)
(* cancels and sweeps meet in the row alone, each with what it read some   *)
(* time ago.                                                               *)
(*                                                                         *)
(* A row comes in pending.  A worker has it in hand only after it was      *)
(* published and was read as active.  Only a worker that has it in hand    *)
(* makes it running or a success; only a cancel that read it as active     *)
(* makes it cancelled.  Everybody else can fail it, while it is active or  *)
(* before it is published.  What a worker may write over a row that was    *)
(* settled behind its back depends on how the task writes:                 *)
(*   Reopens    it sets the row running whatever it says (_execute_*,      *)
(*              _mark_housekeeping_running),                               *)
(*   Rewrites   its outcome replaces a failure or a success, never a       *)
(*              cancel (_update_job_status).                               *)
(***************************************************************************)
CONSTANTS Row, RowWorker, NoRow, Reopens, Rewrites

VARIABLES
  row,      \* row[r]: "none" until it is in
  out,      \* rows whose request is over, published or not
  hand,     \* hand[w]: the row that worker w read as active and still works for
  cancels   \* rows that a cancel read as active and has not written yet

rowVars == <<row, out, hand, cancels>>

RowInit ==
  /\ row = [r \in Row |-> "none"]
  /\ out = {}
  /\ hand = [w \in RowWorker |-> NoRow]
  /\ cancels = {}

RowActive(r) == row[r] \in {"pending", "running"}

\* The row comes in, by itself or in one commit with its message.
Enter(r) ==
  /\ row[r] = "none"
  /\ row' = [row EXCEPT ![r] = "pending"]
  /\ out' \in {out, out \union {r}}
  /\ UNCHANGED <<hand, cancels>>

\* Requests end and rows are failed: by the broker's refusal, a sweep, a signal.
EndRequests(R, F) ==
  /\ \A r \in R : row[r] # "none" /\ r \notin out
  /\ \A r \in F : r \in R \/ RowActive(r)
  /\ out' = out \union R
  /\ row' = [r \in Row |-> IF r \in F THEN "failed" ELSE row[r]]
  /\ UNCHANGED <<hand, cancels>>

\* A delivery finds the row active; some tasks set it running in the same commit.
Pick(w, r) ==
  /\ hand[w] = NoRow
  /\ r \in out /\ RowActive(r)
  /\ hand' = [hand EXCEPT ![w] = r]
  /\ row' \in {row, [row EXCEPT ![r] = "running"]}
  /\ UNCHANGED <<out, cancels>>

MayWrite(old, new) ==
  \/ old \in {"pending", "running"} /\ new \in {"pending", "running", "success", "failed"}
  \/ Reopens /\ new = "running"
  \/ Rewrites /\ old \in {"success", "failed"} /\ new \in {"success", "failed"}

\* The worker writes, and its task goes on or is over.
Write(w, new) ==
  /\ hand[w] # NoRow
  /\ MayWrite(row[hand[w]], new)
  /\ row' = [row EXCEPT ![hand[w]] = new]
  /\ hand' \in {hand, [hand EXCEPT ![w] = NoRow]}
  /\ UNCHANGED <<out, cancels>>

\* The task is over, or its process died, without a word.
LetGo(w) ==
  /\ hand[w] # NoRow
  /\ hand' = [hand EXCEPT ![w] = NoRow]
  /\ UNCHANGED <<row, out, cancels>>

CancelRead(r) ==
  /\ RowActive(r)
  /\ cancels' = cancels \union {r}
  /\ UNCHANGED <<row, out, hand>>

\* The row is written as it was read, whatever it has become since.
CancelWrite(r) ==
  /\ r \in cancels \/ RowActive(r)
  /\ row' = [row EXCEPT ![r] = "cancelled"]
  /\ cancels' \in {cancels, cancels \ {r}}
  /\ UNCHANGED <<out, hand>>

RowNext ==
  \/ \E r \in Row : Enter(r) \/ CancelRead(r) \/ CancelWrite(r)
  \/ \E R, F \in SUBSET Row : EndRequests(R, F)
  \/ \E w \in RowWorker, r \in Row : Pick(w, r)
  \/ \E w \in RowWorker : LetGo(w) \/ \E new \in {"pending", "running", "success", "failed"} : Write(w, new)

RowSpec == RowInit /\ [][RowNext]_rowVars
------------------------------------------------------------------------------
\* A settled row that nobody is left to write.
AtRest(r) ==
  /\ r \in out /\ r \notin cancels
  /\ row[r] \in {"success", "failed", "cancelled"}
  /\ \A w \in RowWorker : hand[w] # r

\* Such a row stays as it is: no redelivery, sweep or second worker wakes it.
RestsForGood == [][\A r \in Row : AtRest(r) => row'[r] = row[r] /\ AtRest(r)']_rowVars

\* A cancel is final once the request is over.
CancelsStand == [][\A r \in Row : r \in out /\ row[r] = "cancelled" => row'[r] = "cancelled"]_rowVars
==============================================================================
