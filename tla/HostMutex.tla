------------------------------ MODULE HostMutex ------------------------------
(***************************************************************************)
(* What services/server_job_lock.py promises: "at most one active backup   *)
(* (or patch) per server across workers".  A worker may take several hosts *)
(* (a Move takes two) and gives any number of them back in one step (its   *)
(* process is killed).  The promise rests on the Redis broker: once a      *)
(* worker could not reach it the module falls back to process-local locks, *)
(* and nothing is promised across workers any more.                        *)
(***************************************************************************)
CONSTANTS Worker, Host

VARIABLES
  holders,    \* holders[h]: the workers that believe they hold host h
  degraded    \* Redis has been unreachable

vars == <<holders, degraded>>

Init ==
  /\ holders = [h \in Host |-> {}]
  /\ degraded = FALSE

Take(w, h) ==
  /\ w \notin holders[h]
  /\ degraded \/ holders[h] = {}
  /\ holders' = [holders EXCEPT ![h] = @ \union {w}]
  /\ UNCHANGED degraded

\* Give back every host of H: one release, or the death of the process.
Drop(w, H) ==
  /\ holders' = [h \in Host |-> IF h \in H THEN holders[h] \ {w} ELSE holders[h]]
  /\ UNCHANGED degraded

Degrade ==
  /\ degraded' = TRUE
  /\ UNCHANGED holders

Next ==
  \/ \E w \in Worker, h \in Host : Take(w, h)
  \/ \E w \in Worker, H \in SUBSET Host : Drop(w, H)
  \/ Degrade

Spec == Init /\ [][Next]_vars
==============================================================================
