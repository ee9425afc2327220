------------------------------- MODULE HostBackup -------------------------------
(***************************************************************************)
(* Backups of one host (tasks.py backup_server, services/backup.py,        *)
(* services/jobs): a request inserts a row per source and publishes its    *)
(* task; a worker takes the host's backup lock, or puts the task back and  *)
(* waits; it runs rsync and records the outcome; only then does it open    *)
(* or close the host's one backup_failed alert and hand the host over to   *)
(* the drive copies.  Users cancel (the task is revoked with SIGTERM       *)
(* before the row is written), children and whole workers die, and two     *)
(* sweeps fail rows they believe dead.                                     *)
(*                                                                         *)
(* The lock is the one ServerLock models, taken here as one value that is  *)
(* freed by its holder or, when the holder died, by its TTL.               *)
(***************************************************************************)
EXTENDS Integers, FiniteSets

CONSTANTS
  BackupJob,       \* rows that may be requested
  BackupWorker,    \* Celery child processes
  BackupSource,    \* the source_filter of each row
  MaxLockWaits,    \* _LOCK_MAX_RETRIES
  MaxBackupFaults, \* bound: cancels, deaths and sweeps
  NoBackup

ASSUME BackupAssumption ==
  /\ NoBackup \notin BackupJob
  /\ "free" \notin BackupWorker /\ "dead" \notin BackupWorker
  /\ MaxLockWaits \in Nat /\ MaxBackupFaults \in Nat

VARIABLES
  bkReq,     \* how far the request of each row has come
  bkStatus,  \* Job.status
  bkSent,    \* messages of the row in the broker
  bkWaits,   \* request.retries of the row's task
  bkKnown,   \* Job.celery_task_id is committed
  bkStop,    \* a cancel has read the row and not written it yet; its task was revoked
  bkHand,    \* the row whose message each worker has
  bkPc,
  bkResult,  \* what run_backup of the worker came to
  bkLock,    \* the lock: free, its holder, or dead when that died
  strays,    \* rsync processes that outlive the task that started them
  bkAlert,   \* the host's backup_failed alert is open
  bkFaults,
  lastRun,   \* history: outcome of the last run that was recorded
  cut,       \* history: a recorded run was cut off before it dealt with the alert
  asked      \* history: rows whose success was handed to the drive copies

backupVars == <<bkReq, bkStatus, bkSent, bkWaits, bkKnown, bkStop, bkHand, bkPc, bkResult,
                bkLock, strays, bkAlert, bkFaults, lastRun, cut, asked>>

BackupTypeOK ==
  /\ bkReq \in [BackupJob -> {"new", "checked", "inserted", "sent", "over"}]
  /\ bkStatus \in [BackupJob -> {"none", "pending", "running", "success", "failed", "cancelled"}]
  /\ bkSent \in [BackupJob -> Nat]
  /\ bkWaits \in [BackupJob -> 0 .. MaxLockWaits]
  /\ bkKnown \in [BackupJob -> BOOLEAN]
  /\ bkStop \in [BackupJob -> {"no", "read", "revoked"}]
  /\ bkHand \in [BackupWorker -> BackupJob \union {NoBackup}]
  /\ bkPc \in [BackupWorker -> {"idle", "check", "lock", "start", "rsync", "record", "alert", "raised"}]
  /\ bkResult \in [BackupWorker -> {"none", "success", "failed"}]
  /\ bkLock \in BackupWorker \union {"free", "dead"}
  /\ strays \in Nat
  /\ bkAlert \in BOOLEAN
  /\ bkFaults \in 0 .. MaxBackupFaults
  /\ lastRun \in {"none", "success", "failed", "raised"}
  /\ cut \in BOOLEAN
  /\ asked \in SUBSET BackupJob

BackupInit ==
  /\ bkReq = [j \in BackupJob |-> "new"]
  /\ bkStatus = [j \in BackupJob |-> "none"]
  /\ bkSent = [j \in BackupJob |-> 0]
  /\ bkWaits = [j \in BackupJob |-> 0]
  /\ bkKnown = [j \in BackupJob |-> FALSE]
  /\ bkStop = [j \in BackupJob |-> "no"]
  /\ bkHand = [w \in BackupWorker |-> NoBackup]
  /\ bkPc = [w \in BackupWorker |-> "idle"]
  /\ bkResult = [w \in BackupWorker |-> "none"]
  /\ bkLock = "free"
  /\ strays = 0
  /\ bkAlert = FALSE
  /\ bkFaults = 0
  /\ lastRun = "none"
  /\ cut = FALSE
  /\ asked = {}

reqSide   == <<bkReq, bkKnown, bkStop>>
sideVars  == <<strays, bkAlert, bkFaults, lastRun, cut, asked>>
------------------------------------------------------------------------------
BkActive(j) == bkStatus[j] \in {"pending", "running"}

\* Mutant: any later write wins.
WriteOver(j, new) ==
  bkStatus' = [bkStatus EXCEPT ![j] = new]

\* _update_job_status: a cancelled row is left, a finished one is not reopened.
WriteStatus(j, new) ==
  bkStatus' = [bkStatus EXCEPT ![j] =
    IF @ = "cancelled" \/ (@ \in {"success", "failed"} /\ new \in {"pending", "running"})
    THEN @ ELSE new]

\* The task is over: its message is acknowledged and, in finally, the lock released.
EndTask(w) ==
  /\ bkHand' = [bkHand EXCEPT ![w] = NoBackup]
  /\ bkPc' = [bkPc EXCEPT ![w] = "idle"]
  /\ bkResult' = [bkResult EXCEPT ![w] = "none"]
  /\ bkLock' = IF bkLock = w THEN "free" ELSE bkLock

Goto(w, label) ==
  /\ bkPc' = [bkPc EXCEPT ![w] = label]
  /\ UNCHANGED <<bkHand, bkResult>>
------------------------------------------------------------------------------
\* enqueue_backup_for_server: no row of the same source is active.
CheckRequest(j) ==
  /\ bkReq[j] = "new"
  /\ \A k \in BackupJob : BkActive(k) => BackupSource[k] # BackupSource[j]
  /\ bkReq' = [bkReq EXCEPT ![j] = "checked"]
  /\ UNCHANGED <<bkStatus, bkSent, bkWaits, bkKnown, bkStop, bkHand, bkPc, bkResult, bkLock,
                 sideVars>>

InsertRow(j) ==
  /\ bkReq[j] = "checked"
  /\ bkReq' = [bkReq EXCEPT ![j] = "inserted"]
  /\ bkStatus' = [bkStatus EXCEPT ![j] = "pending"]
  /\ UNCHANGED <<bkSent, bkWaits, bkKnown, bkStop, bkHand, bkPc, bkResult, bkLock, sideVars>>

\* backup_server.delay; when the broker refuses, the row is failed as it stands.
Send(j) ==
  /\ bkReq[j] = "inserted"
  /\ \/ /\ bkSent' = [bkSent EXCEPT ![j] = @ + 1]
        /\ bkReq' = [bkReq EXCEPT ![j] = "sent"]
        /\ UNCHANGED bkStatus
     \/ /\ bkStatus' = [bkStatus EXCEPT ![j] = "failed"]
        /\ bkReq' = [bkReq EXCEPT ![j] = "over"]
        /\ UNCHANGED bkSent
  /\ UNCHANGED <<bkWaits, bkKnown, bkStop, bkHand, bkPc, bkResult, bkLock, sideVars>>

KeepTaskId(j) ==
  /\ bkReq[j] = "sent"
  /\ bkReq' = [bkReq EXCEPT ![j] = "over"]
  /\ bkKnown' = [bkKnown EXCEPT ![j] = TRUE]
  /\ UNCHANGED <<bkStatus, bkSent, bkWaits, bkStop, bkHand, bkPc, bkResult, bkLock, sideVars>>
------------------------------------------------------------------------------
TakeTask(w, j) ==
  /\ bkPc[w] = "idle"
  /\ bkSent[j] > 0
  /\ bkSent' = [bkSent EXCEPT ![j] = @ - 1]
  /\ \/ /\ bkStop[j] # "revoked"
        /\ bkHand' = [bkHand EXCEPT ![w] = j]
        /\ bkPc' = [bkPc EXCEPT ![w] = "check"]
     \/ /\ bkStop[j] = "revoked"
        /\ UNCHANGED <<bkHand, bkPc>>
  /\ UNCHANGED <<reqSide, bkStatus, bkWaits, bkResult, bkLock, sideVars>>

\* The row is read once more; a settled one is skipped.
CheckRow(w) ==
  /\ bkPc[w] = "check"
  /\ \/ BkActive(bkHand[w]) /\ Goto(w, "lock") /\ UNCHANGED bkLock
     \/ ~BkActive(bkHand[w]) /\ EndTask(w)
  /\ UNCHANGED <<reqSide, bkStatus, bkSent, bkWaits, sideVars>>

\* Mutant: a busy lock is no reason to wait.
GoOnWithoutLock(w) ==
  /\ bkPc[w] = "lock"
  /\ bkLock' = IF bkLock = "free" THEN w ELSE bkLock
  /\ Goto(w, "start")
  /\ UNCHANGED <<reqSide, bkStatus, bkSent, bkWaits, sideVars>>

\* try_acquire_server_lock: taken; or busy, and the row is settled by now, or
\* failed after too many waits, or the task goes back for another try.
TryLock(w) ==
  LET j == bkHand[w]
  IN  /\ bkPc[w] = "lock"
      /\ \/ /\ bkLock = "free"
            /\ bkLock' = w
            /\ Goto(w, "start")
            /\ UNCHANGED <<bkStatus, bkSent, bkWaits>>
         \/ /\ bkLock # "free"
            /\ EndTask(w)
            /\ \/ /\ ~BkActive(j)
                  /\ UNCHANGED <<bkStatus, bkSent, bkWaits>>
               \/ /\ BkActive(j)
                  /\ bkWaits[j] >= MaxLockWaits
                  /\ WriteStatus(j, "failed")
                  /\ UNCHANGED <<bkSent, bkWaits>>
               \/ /\ BkActive(j)
                  /\ bkWaits[j] < MaxLockWaits
                  /\ WriteStatus(j, "pending")
                  /\ bkSent' = [bkSent EXCEPT ![j] = @ + 1]
                  /\ bkWaits' = [bkWaits EXCEPT ![j] = @ + 1]
      /\ UNCHANGED <<reqSide, sideVars>>

\* The row is set to running, unless it was cancelled meanwhile: rsync starts all the same.
StartRun(w) ==
  /\ bkPc[w] = "start"
  /\ WriteStatus(bkHand[w], "running")
  /\ Goto(w, "rsync")
  /\ UNCHANGED <<reqSide, bkSent, bkWaits, bkLock, sideVars>>

\* run_backup returns the sources' outcome, or raises.
RunReturns(w) ==
  /\ bkPc[w] = "rsync"
  /\ \/ \E r \in {"success", "failed"} :
          /\ bkResult' = [bkResult EXCEPT ![w] = r]
          /\ bkPc' = [bkPc EXCEPT ![w] = "record"]
          /\ UNCHANGED bkHand
     \/ Goto(w, "raised")
  /\ UNCHANGED <<reqSide, bkStatus, bkSent, bkWaits, bkLock, sideVars>>

\* A row cancelled while rsync ran is left alone; otherwise the outcome is written.
RecordRun(w) ==
  /\ bkPc[w] = "record"
  /\ \/ /\ bkStatus[bkHand[w]] = "cancelled"
        /\ EndTask(w)
        /\ UNCHANGED <<bkStatus, lastRun>>
     \/ /\ bkStatus[bkHand[w]] # "cancelled"
        /\ WriteStatus(bkHand[w], bkResult[w])
        /\ lastRun' = bkResult[w]
        /\ Goto(w, "alert")
        /\ UNCHANGED bkLock
  /\ UNCHANGED <<reqSide, bkSent, bkWaits, strays, bkAlert, bkFaults, cut, asked>>

\* Mutant: the lock is given back before the alert is dealt with.
AlertAfterRelease(w) ==
  /\ bkPc[w] = "alert"
  /\ \/ /\ bkLock = w
        /\ bkLock' = "free"
        /\ UNCHANGED <<bkHand, bkPc, bkResult, bkAlert, asked>>
     \/ /\ bkLock # w
        /\ bkAlert' = (bkResult[w] = "failed")
        /\ asked' = IF bkResult[w] = "success" THEN asked \union {bkHand[w]} ELSE asked
        /\ EndTask(w)
  /\ UNCHANGED <<reqSide, bkStatus, bkSent, bkWaits, strays, bkFaults, lastRun, cut>>

\* resolve_backup_failed and enqueue_after_host_backup, or notify_backup_failed:
\* the alert is the host's, whichever source the run was for.
SettleAlert(w) ==
  /\ bkPc[w] = "alert"
  /\ bkAlert' = (bkResult[w] = "failed")
  /\ asked' = IF bkResult[w] = "success" THEN asked \union {bkHand[w]} ELSE asked
  /\ EndTask(w)
  /\ UNCHANGED <<reqSide, bkStatus, bkSent, bkWaits, strays, bkFaults, lastRun, cut>>

\* The except branch: a cancelled row is left; otherwise the row is failed, no
\* alert is opened, and after a transient error the task goes back once more.
RunRaised(w) ==
  LET j == bkHand[w]
  IN  /\ bkPc[w] = "raised"
      /\ EndTask(w)
      /\ \/ /\ bkStatus[j] = "cancelled"
            /\ UNCHANGED <<bkStatus, bkSent, lastRun>>
         \/ /\ bkStatus[j] # "cancelled"
            /\ WriteStatus(j, "failed")
            /\ lastRun' = "raised"
            /\ \E transient \in BOOLEAN :
                 bkSent' = IF transient THEN [bkSent EXCEPT ![j] = @ + 1] ELSE bkSent
      /\ UNCHANGED <<reqSide, bkWaits, strays, bkAlert, bkFaults, cut, asked>>
------------------------------------------------------------------------------
\* cancel_job reads an active row and revokes its task, if it has the task's id.
CancelReads(j) ==
  /\ bkFaults < MaxBackupFaults
  /\ BkActive(j)
  /\ bkStop[j] = "no"
  /\ bkStop' = [bkStop EXCEPT ![j] = IF bkKnown[j] THEN "revoked" ELSE "read"]
  /\ bkFaults' = bkFaults + 1
  /\ UNCHANGED <<bkReq, bkKnown, bkStatus, bkSent, bkWaits, bkHand, bkPc, bkResult, bkLock,
                 strays, bkAlert, lastRun, cut, asked>>

\* _mark_job_cancelled, whatever the row has become since.
CancelWrites(j) ==
  /\ bkStop[j] # "no"
  /\ bkStatus[j] # "cancelled"
  /\ bkStatus' = [bkStatus EXCEPT ![j] = "cancelled"]
  /\ UNCHANGED <<reqSide, bkSent, bkWaits, bkHand, bkPc, bkResult, bkLock, sideVars>>

\* A worker that loses its task: rsync goes on, an alert that was due is not dealt with.
Abandoned(w) ==
  /\ strays' = IF bkPc[w] = "rsync" THEN strays + 1 ELSE strays
  /\ cut' = (cut \/ bkPc[w] = "alert")

\* SIGTERM of a revoked task: finally runs, so the lock is released.
Terminated(w) ==
  /\ bkPc[w] # "idle"
  /\ bkStop[bkHand[w]] = "revoked"
  /\ Abandoned(w)
  /\ EndTask(w)
  /\ UNCHANGED <<reqSide, bkStatus, bkSent, bkWaits, bkAlert, bkFaults, lastRun, asked>>

DropHand(w) ==
  /\ bkHand' = [bkHand EXCEPT ![w] = NoBackup]
  /\ bkPc' = [bkPc EXCEPT ![w] = "idle"]
  /\ bkResult' = [bkResult EXCEPT ![w] = "none"]
  /\ bkLock' = IF bkLock = w THEN "dead" ELSE bkLock

\* SIGKILL or the hard time limit of one child: no finally, and the message is acknowledged.
ChildDies(w) ==
  /\ bkFaults < MaxBackupFaults
  /\ bkPc[w] # "idle"
  /\ Abandoned(w)
  /\ DropHand(w)
  /\ bkFaults' = bkFaults + 1
  /\ UNCHANGED <<reqSide, bkStatus, bkSent, bkWaits, bkAlert, lastRun, asked>>

\* The container stops: rsync stops with it, and the broker delivers the message again.
WorkerDies(w) ==
  /\ bkFaults < MaxBackupFaults
  /\ bkPc[w] # "idle"
  /\ bkSent' = [bkSent EXCEPT ![bkHand[w]] = @ + 1]
  /\ cut' = (cut \/ bkPc[w] = "alert")
  /\ DropHand(w)
  /\ bkFaults' = bkFaults + 1
  /\ UNCHANGED <<reqSide, bkStatus, bkWaits, strays, bkAlert, lastRun, asked>>

LockExpires ==
  /\ bkLock = "dead"
  /\ bkLock' = "free"
  /\ UNCHANGED <<reqSide, bkStatus, bkSent, bkWaits, bkHand, bkPc, bkResult, sideVars>>

StrayEnds ==
  /\ strays > 0
  /\ strays' = strays - 1
  /\ UNCHANGED <<reqSide, bkStatus, bkSent, bkWaits, bkHand, bkPc, bkResult, bkLock, bkAlert,
                 bkFaults, lastRun, cut, asked>>

\* cleanup_stale_backup_jobs, two hours after the request, and
\* reconcile_orphaned_running_jobs, when no worker lists the task.
SweepFails(j) ==
  /\ \/ BkActive(j) /\ bkFaults < MaxBackupFaults /\ bkFaults' = bkFaults + 1
     \/ /\ bkStatus[j] = "running"
        /\ \A w \in BackupWorker : bkHand[w] # j
        /\ UNCHANGED bkFaults
  /\ bkStatus' = [bkStatus EXCEPT ![j] = "failed"]
  /\ UNCHANGED <<reqSide, bkSent, bkWaits, bkHand, bkPc, bkResult, bkLock, strays, bkAlert,
                 lastRun, cut, asked>>

WorkerStep(w) ==
  \/ CheckRow(w) \/ TryLock(w) \/ StartRun(w) \/ RunReturns(w) \/ RecordRun(w)
  \/ SettleAlert(w) \/ RunRaised(w)

BackupNext ==
  \/ \E j \in BackupJob :
       \/ CheckRequest(j) \/ InsertRow(j) \/ Send(j) \/ KeepTaskId(j)
       \/ CancelReads(j) \/ CancelWrites(j) \/ SweepFails(j)
  \/ \E w \in BackupWorker, j \in BackupJob : TakeTask(w, j)
  \/ \E w \in BackupWorker : WorkerStep(w) \/ Terminated(w) \/ ChildDies(w) \/ WorkerDies(w)
  \/ LockExpires
  \/ StrayEnds

BackupSpec == BackupInit /\ [][BackupNext]_backupVars
------------------------------------------------------------------------------
AtWork(w) == bkPc[w] \in {"start", "rsync", "record", "alert", "raised"}

\* tasks.py:193 "concurrent workers never run two backups against the same host
\* at once": no two workers are at work on the host, and rsync runs twice on it
\* only beside the process a killed task has left behind.
OneRunPerHost ==
  /\ \A v, w \in BackupWorker : AtWork(v) /\ AtWork(w) => v = w
  /\ \A w \in BackupWorker : AtWork(w) => bkLock = w
  /\ bkFaults = 0 => strays = 0

\* When no run is under way, the host's one alert tells the outcome of the last
\* run that was recorded, whichever sources ran, waited or were cancelled, unless
\* that run raised or was cut off between its record and the alert.
AlertTellsLastRun ==
  (\A w \in BackupWorker : ~AtWork(w)) /\ ~cut /\ lastRun \in {"success", "failed"}
    => bkAlert = (lastRun = "failed")

\* A cancelled row is never taken up again and never turns into a success: not
\* by its worker, a redelivery, a lock wait or a sweep.
CancelIsFinal ==
  [][\A j \in BackupJob : bkStatus[j] = "cancelled" => bkStatus'[j] \in {"cancelled", "failed"}]_backupVars
==============================================================================
