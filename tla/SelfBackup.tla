------------------------------- MODULE SelfBackup -------------------------------
(***************************************************************************)
(* PiHerder's backups of itself (services/jobs/service.py, tasks.py        *)
(* housekeeping_job, services/herder_backup.py).  The schedule or an admin *)
(* asks for one; a row in the way means it is not queued.  A worker writes *)
(* the archive straight into the folder, removes all but the newest few    *)
(* and records the outcome.  A row that stays pending is failed after half *)
(* an hour.  Users cancel, processes die.                                  *)
(*                                                                         *)
(* Clocks are left out: a pending row may be old.  So are the alert, the   *)
(* audit rows, the fallback folders, the copies of an archive and the      *)
(* deletion of archives by hand.                                           *)
(***************************************************************************)
EXTENDS Naturals, FiniteSets

CONSTANTS
  SelfJob,       \* rows that may be requested
  SelfWorker,    \* Celery child processes
  Keep,          \* the setting "keep"
  MaxSelfFaults, \* bound: cancels, deaths, refusals of the broker, sweeps of a live task
  NoSelf

ASSUME SelfAssumption ==
  /\ NoSelf \notin SelfJob /\ IsFiniteSet(SelfJob)
  /\ Keep \in Nat \ {0} /\ MaxSelfFaults \in Nat

VARIABLES
  sbReq,    \* how far the request of each row has come
  sbKnown,  \* Job.celery_task_id is committed
  sbStatus, \* Job.status
  sbSent,   \* messages of the row in the broker
  sbStop,   \* a cancel has read the row and may not have written it yet; its task was revoked
  sbWatch,  \* the watch has read the row as pending
  sbHand, sbPc,
  sbOk,     \* what create_herder_backup of the worker came to
  sbFile,   \* each row's archive
  sbOlder,  \* <<i, j>>: the archive of i was last written before that of j
  sbFaults,
  sbRuns,   \* history: how often an archive was begun for the row
  sbLoose   \* history: two requests looked at once, or a row was settled in a worker's hands

sbRequest == <<sbReq, sbKnown>>
sbTask    == <<sbHand, sbPc, sbOk>>
sbFolder  == <<sbFile, sbOlder>>
selfVars  == <<sbRequest, sbStatus, sbSent, sbStop, sbWatch, sbTask, sbFolder, sbFaults, sbRuns,
               sbLoose>>

SelfTypeOK ==
  /\ sbReq \in [SelfJob -> {"new", "looked", "inserted", "sent", "over"}]
  /\ sbKnown \in [SelfJob -> BOOLEAN]
  /\ sbStatus \in [SelfJob -> {"none", "pending", "running", "success", "failed", "cancelled"}]
  /\ sbSent \in [SelfJob -> Nat]
  /\ sbStop \in [SelfJob -> {"no", "read", "revoked"}]
  /\ sbWatch \in [SelfJob -> BOOLEAN]
  /\ sbHand \in [SelfWorker -> SelfJob \union {NoSelf}]
  /\ sbPc \in [SelfWorker -> {"idle", "check", "start", "dump", "write", "finish"}]
  /\ sbOk \in [SelfWorker -> BOOLEAN]
  /\ sbFile \in [SelfJob -> {"none", "writing", "whole", "broken", "gone"}]
  /\ sbOlder \in SUBSET (SelfJob \X SelfJob)
  /\ sbFaults \in 0 .. MaxSelfFaults
  /\ sbRuns \in [SelfJob -> Nat]
  /\ sbLoose \in BOOLEAN

SelfInit ==
  /\ sbReq = [j \in SelfJob |-> "new"]
  /\ sbKnown = [j \in SelfJob |-> FALSE]
  /\ sbStatus = [j \in SelfJob |-> "none"]
  /\ sbSent = [j \in SelfJob |-> 0]
  /\ sbStop = [j \in SelfJob |-> "no"]
  /\ sbWatch = [j \in SelfJob |-> FALSE]
  /\ sbHand = [w \in SelfWorker |-> NoSelf]
  /\ sbPc = [w \in SelfWorker |-> "idle"]
  /\ sbOk = [w \in SelfWorker |-> FALSE]
  /\ sbFile = [j \in SelfJob |-> "none"]
  /\ sbOlder = {}
  /\ sbFaults = 0
  /\ sbRuns = [j \in SelfJob |-> 0]
  /\ sbLoose = FALSE

SbActive(j)  == sbStatus[j] \in {"pending", "running"}
SbHeld(j)    == \E w \in SelfWorker : sbHand[w] = j
SbFault      == sbFaults < MaxSelfFaults /\ sbFaults' = sbFaults + 1
SbGoto(w, l) == sbPc' = [sbPc EXCEPT ![w] = l] /\ UNCHANGED <<sbHand, sbOk>>

\* _finish and _fail_housekeeping_open leave a settled row as it is.
SbSettle(j, outcome) ==
  sbStatus' = IF SbActive(j) THEN [sbStatus EXCEPT ![j] = outcome] ELSE sbStatus

SbEndTask(w) ==
  /\ sbHand' = [sbHand EXCEPT ![w] = NoSelf]
  /\ sbPc' = [sbPc EXCEPT ![w] = "idle"]
  /\ sbOk' = [sbOk EXCEPT ![w] = FALSE]
------------------------------------------------------------------------------
\* Mutant: a running backup does not keep the next one away.
PendingSelfBackup == \E j \in SelfJob : sbStatus[j] = "pending"

\* _active_herder_backup
ActiveSelfBackup == \E j \in SelfJob : SbActive(j)

\* An admin's request and the schedule's look for an active row, each in a process
\* or thread of its own.
SelfLook(j) ==
  /\ sbReq[j] = "new"
  /\ ~ActiveSelfBackup
  /\ sbReq' = [sbReq EXCEPT ![j] = "looked"]
  /\ sbLoose' = (sbLoose \/ \E i \in SelfJob : sbReq[i] = "looked")
  /\ UNCHANGED <<sbKnown, sbStatus, sbSent, sbStop, sbWatch, sbTask, sbFolder, sbFaults, sbRuns>>

SelfInsert(j) ==
  /\ sbReq[j] = "looked"
  /\ sbReq' = [sbReq EXCEPT ![j] = "inserted"]
  /\ sbStatus' = [sbStatus EXCEPT ![j] = "pending"]
  /\ UNCHANGED <<sbKnown, sbSent, sbStop, sbWatch, sbTask, sbFolder, sbFaults, sbRuns, sbLoose>>

\* handoff_housekeeping: a broker that refuses fails the row.
SelfPublish(j) ==
  /\ sbReq[j] = "inserted"
  /\ \/ /\ sbSent' = [sbSent EXCEPT ![j] = @ + 1]
        /\ sbReq' = [sbReq EXCEPT ![j] = "sent"]
        /\ UNCHANGED <<sbStatus, sbFaults>>
     \/ /\ SbFault
        /\ SbSettle(j, "failed")
        /\ sbReq' = [sbReq EXCEPT ![j] = "over"]
        /\ UNCHANGED sbSent
  /\ UNCHANGED <<sbKnown, sbStop, sbWatch, sbTask, sbFolder, sbRuns, sbLoose>>

\* The task id is stored after the message is out.
SelfKeepTaskId(j) ==
  /\ sbReq[j] = "sent"
  /\ sbReq' = [sbReq EXCEPT ![j] = "over"]
  /\ sbKnown' = [sbKnown EXCEPT ![j] = TRUE]
  /\ UNCHANGED <<sbStatus, sbSent, sbStop, sbWatch, sbTask, sbFolder, sbFaults, sbRuns, sbLoose>>
------------------------------------------------------------------------------
\* Delivery; a revoked message is dropped.
SelfTake(w, j) ==
  /\ sbPc[w] = "idle"
  /\ sbSent[j] > 0
  /\ sbSent' = [sbSent EXCEPT ![j] = @ - 1]
  /\ IF sbStop[j] = "revoked"
     THEN UNCHANGED <<sbHand, sbPc>>
     ELSE /\ sbHand' = [sbHand EXCEPT ![w] = j]
          /\ sbPc' = [sbPc EXCEPT ![w] = "check"]
  /\ UNCHANGED <<sbRequest, sbStatus, sbStop, sbWatch, sbOk, sbFolder, sbFaults, sbRuns, sbLoose>>

\* Mutant: a redelivery resumes a row that is running.
SelfCheckResumes(w) ==
  LET j == sbHand[w]
  IN  /\ sbPc[w] = "check"
      /\ \/ SbActive(j) /\ sbKnown' = [sbKnown EXCEPT ![j] = TRUE] /\ SbGoto(w, "start")
         \/ ~SbActive(j) /\ UNCHANGED sbKnown /\ SbEndTask(w)
      /\ UNCHANGED <<sbReq, sbStatus, sbSent, sbStop, sbWatch, sbFolder, sbFaults, sbRuns, sbLoose>>

\* run_housekeeping_job: a settled row is skipped, a running one failed, not resumed.
SelfCheck(w) ==
  LET j == sbHand[w]
  IN  /\ sbPc[w] = "check"
      /\ sbKnown' = IF SbActive(j) THEN [sbKnown EXCEPT ![j] = TRUE] ELSE sbKnown
      /\ \/ sbStatus[j] = "pending" /\ SbGoto(w, "start") /\ UNCHANGED sbStatus
         \/ sbStatus[j] # "pending" /\ SbEndTask(w) /\ SbSettle(j, "failed")
      /\ UNCHANGED <<sbReq, sbSent, sbStop, sbWatch, sbFolder, sbFaults, sbRuns, sbLoose>>

\* _mark_housekeeping_running, whatever the row has become since, and the dump begins.
SelfStart(w) ==
  LET j == sbHand[w]
  IN  /\ sbPc[w] = "start"
      /\ sbStatus' = [sbStatus EXCEPT ![j] = "running"]
      /\ sbRuns' = [sbRuns EXCEPT ![j] = @ + 1]
      /\ SbGoto(w, "dump")
      /\ UNCHANGED <<sbRequest, sbSent, sbStop, sbWatch, sbFolder, sbFaults, sbLoose>>

SbPresent(j) == sbFile[j] \in {"writing", "whole", "broken"}
SbClosed(j) == sbFile[j] \in {"whole", "broken"}

\* The dump or the rows are in a temporary file, and the archive is opened in the folder;
\* or it raises.
SelfDumped(w) ==
  LET j == sbHand[w]
  IN  /\ sbPc[w] = "dump"
      /\ \/ /\ SbGoto(w, "write")
            /\ sbFile' = [sbFile EXCEPT ![j] = "writing"]
            /\ sbOlder' = sbOlder \union ({i \in SelfJob : SbClosed(i)} \X {j})
         \/ SbGoto(w, "finish") /\ UNCHANGED sbFolder
      /\ UNCHANGED <<sbRequest, sbStatus, sbSent, sbStop, sbWatch, sbFaults, sbRuns, sbLoose>>

\* prune_old_backups: all but the newest Keep go, whatever they are.  When a file that
\* is being written was last written, other than before it, nobody can tell.
Newest(files, older) ==
  {stay \in SUBSET files :
     /\ Cardinality(stay) = IF Cardinality(files) > Keep THEN Keep ELSE Cardinality(files)
     /\ \A i \in stay, k \in files \ stay : <<i, k>> \notin older}

\* The archive of w's row stays as far as it has come.
LeavesFile(w) ==
  /\ sbFile' = IF sbPc[w] = "write" /\ sbFile[sbHand[w]] = "writing"
               THEN [sbFile EXCEPT ![sbHand[w]] = "broken"] ELSE sbFile
  /\ UNCHANGED sbOlder

\* The archive is complete and old ones are removed; or it raises and stays as it is.
\* A file that was removed while it was written stays away.
SelfWritten(w) ==
  LET j     == sbHand[w]
      files == {i \in SelfJob : SbPresent(i)}
      older == sbOlder \union ({i \in SelfJob : SbClosed(i)} \X {j})
  IN  /\ sbPc[w] = "write"
      /\ \/ \E stay \in Newest(files, older) :
              /\ sbFile' = [i \in SelfJob |-> IF i \in files \ stay THEN "gone"
                                              ELSE IF i \in stay /\ i = j THEN "whole"
                                              ELSE sbFile[i]]
              /\ sbOlder' = older \intersect (stay \X stay)
              /\ sbOk' = [sbOk EXCEPT ![w] = TRUE]
         \/ LeavesFile(w) /\ UNCHANGED sbOk
      /\ sbPc' = [sbPc EXCEPT ![w] = "finish"]
      /\ UNCHANGED <<sbRequest, sbStatus, sbSent, sbStop, sbWatch, sbHand, sbFaults, sbRuns,
                     sbLoose>>

SelfFinish(w) ==
  /\ sbPc[w] = "finish"
  /\ SbSettle(sbHand[w], IF sbOk[w] THEN "success" ELSE "failed")
  /\ SbEndTask(w)
  /\ UNCHANGED <<sbRequest, sbSent, sbStop, sbWatch, sbFolder, sbFaults, sbRuns, sbLoose>>
------------------------------------------------------------------------------
\* expire_stale_pending_herder_backups, of the watch or of the next request:
\* rows that are pending are read, and failed if they are still active.
WatchReads(j) ==
  /\ sbStatus[j] = "pending"
  /\ ~sbWatch[j]
  /\ sbWatch' = [sbWatch EXCEPT ![j] = TRUE]
  /\ UNCHANGED <<sbRequest, sbStatus, sbSent, sbStop, sbTask, sbFolder, sbFaults, sbRuns, sbLoose>>

WatchFails(j) ==
  /\ sbWatch[j]
  /\ sbWatch' = [sbWatch EXCEPT ![j] = FALSE]
  /\ SbSettle(j, "failed")
  /\ sbLoose' = (sbLoose \/ (SbActive(j) /\ SbHeld(j)))
  /\ UNCHANGED <<sbRequest, sbSent, sbStop, sbTask, sbFolder, sbFaults, sbRuns>>

\* cancel_job reads an active row and revokes its task, if it has the task's id.
SelfCancelReads(j) ==
  /\ SbFault
  /\ SbActive(j)
  /\ sbStop[j] = "no"
  /\ sbStop' = [sbStop EXCEPT ![j] = IF sbKnown[j] THEN "revoked" ELSE "read"]
  /\ UNCHANGED <<sbRequest, sbStatus, sbSent, sbWatch, sbTask, sbFolder, sbRuns, sbLoose>>

SelfCancelWrites(j) ==
  /\ sbStop[j] # "no"
  /\ sbStatus[j] # "cancelled"
  /\ sbStatus' = [sbStatus EXCEPT ![j] = "cancelled"]
  /\ sbLoose' = (sbLoose \/ SbHeld(j))
  /\ UNCHANGED <<sbRequest, sbSent, sbStop, sbWatch, sbTask, sbFolder, sbFaults, sbRuns>>

\* SIGTERM of a revoked task
SelfTerminated(w) ==
  /\ sbPc[w] # "idle"
  /\ sbStop[sbHand[w]] = "revoked"
  /\ LeavesFile(w)
  /\ SbEndTask(w)
  /\ UNCHANGED <<sbRequest, sbStatus, sbSent, sbStop, sbWatch, sbFaults, sbRuns, sbLoose>>

\* SIGKILL or the hard time limit of one child: its parent fails the row.
SelfChildDies(w) ==
  /\ SbFault
  /\ sbPc[w] # "idle"
  /\ LeavesFile(w)
  /\ SbSettle(sbHand[w], "failed")
  /\ SbEndTask(w)
  /\ UNCHANGED <<sbRequest, sbSent, sbStop, sbWatch, sbRuns, sbLoose>>

\* The container stops, and the broker delivers the message again.
SelfWorkerDies(w) ==
  /\ SbFault
  /\ sbPc[w] # "idle"
  /\ LeavesFile(w)
  /\ sbSent' = [sbSent EXCEPT ![sbHand[w]] = @ + 1]
  /\ SbEndTask(w)
  /\ UNCHANGED <<sbRequest, sbStatus, sbStop, sbWatch, sbRuns, sbLoose>>

\* reconcile_orphaned_running_jobs: a running row whose task no worker lists, or
\* whose worker was too busy to list it.
SelfSweep(j) ==
  /\ sbStatus[j] = "running"
  /\ \/ ~SbHeld(j) /\ UNCHANGED <<sbFaults, sbLoose>>
     \/ SbHeld(j) /\ SbFault /\ sbLoose' = TRUE
  /\ sbStatus' = [sbStatus EXCEPT ![j] = "failed"]
  /\ UNCHANGED <<sbRequest, sbSent, sbStop, sbWatch, sbTask, sbFolder, sbRuns>>

SelfNext ==
  \/ \E j \in SelfJob :
       \/ SelfLook(j) \/ SelfInsert(j) \/ SelfPublish(j) \/ SelfKeepTaskId(j)
       \/ WatchReads(j) \/ WatchFails(j) \/ SelfCancelReads(j) \/ SelfCancelWrites(j)
       \/ SelfSweep(j)
  \/ \E w \in SelfWorker, j \in SelfJob : SelfTake(w, j)
  \/ \E w \in SelfWorker :
       \/ SelfCheck(w) \/ SelfStart(w) \/ SelfDumped(w) \/ SelfWritten(w) \/ SelfFinish(w)
       \/ SelfTerminated(w) \/ SelfChildDies(w) \/ SelfWorkerDies(w)

SelfSpec == SelfInit /\ [][SelfNext]_selfVars
------------------------------------------------------------------------------
\* jobs/service.py:2656 "One PiHerder backup at a time", and no run loses what an
\* earlier one has kept: unless two requests looked at once or a row was settled in
\* a worker's hands, one archive is made at a time, and once a row is a success some
\* whole archive is in the folder, whatever was cancelled, killed or pruned since.
SelfBackupKept ==
  ~sbLoose =>
    /\ \A v, w \in SelfWorker : {sbPc[v], sbPc[w]} \subseteq {"dump", "write"} => v = w
    /\ (\E j \in SelfJob : sbStatus[j] = "success") => \E j \in SelfJob : sbFile[j] = "whole"

\* jobs/service.py:2553 "A running redelivery fails and does not resume": however
\* often the message comes back, and whoever settles the row meanwhile, an archive is
\* begun once for a row.
ArchivedOnce == \A j \in SelfJob : sbRuns[j] <= 1
==============================================================================
