---------------------------- MODULE BackupsProofs ----------------------------
(***************************************************************************)
(* What is proved of the backups: those of the hosts, the copies made of   *)
(* them, and PiHerder's own. The components share no variable; each has an *)
(* inductive invariant of its own.                                         *)
(***************************************************************************)
EXTENDS HostBackup, SelfBackup, BackupCopies, FiniteSetTheorems, TLAPS
------------------------------------------------------------------------------
(***************************************************************************)
(* Backups of one host for any number of rows, sources, workers, lock      *)
(* waits and faults.  The invariant has four parts beside the type: who    *)
(* works on the host has the lock; a row that is not inserted yet has been *)
(* touched by nobody; a revoked task and a stray rsync need a fault; and   *)
(* the alert tells the last recorded run whenever no worker stands between *)
(* the record of a run and its alert.                                      *)
(***************************************************************************)

\* Whoever is at work holds the lock; whoever is busy has a row.
LockOfWork ==
  \A w \in BackupWorker :
    /\ AtWork(w) => bkLock = w
    /\ bkPc[w] # "idle" => bkHand[w] \in BackupJob

\* A row whose request has not come to the insert is in no queue, with no worker and
\* not being cancelled.
NotInserted ==
  \A j \in BackupJob : bkReq[j] \in {"new", "checked"} =>
    /\ bkStatus[j] = "none"
    /\ bkSent[j] = 0
    /\ bkStop[j] = "no"
    /\ \A w \in BackupWorker : bkHand[w] # j

FaultsFirst ==
  /\ \A j \in BackupJob : bkStop[j] # "no" => bkFaults > 0
  /\ strays > 0 => bkFaults > 0

\* The result a worker has recorded is the last one, and outside that gap the alert tells it.
AlertFollows ==
  /\ \A w \in BackupWorker : bkPc[w] \in {"record", "alert"} => bkResult[w] \in {"success", "failed"}
  /\ \A w \in BackupWorker : bkPc[w] = "alert" => lastRun = bkResult[w]
  /\ (\A w \in BackupWorker : bkPc[w] # "alert") /\ ~cut /\ lastRun \in {"success", "failed"}
       => (bkAlert <=> lastRun = "failed")

BackupInv == BackupTypeOK /\ LockOfWork /\ NotInserted /\ FaultsFirst /\ AlertFollows
LEMMA BackupInit0 == BackupInit => BackupInv
<1> SUFFICES ASSUME BackupInit PROVE BackupInv
  OBVIOUS
<1>1. BackupTypeOK
  <2>1. bkKnown \in [BackupJob -> BOOLEAN]
    BY Zenon DEF BackupInit
  <2>2. bkAlert \in BOOLEAN /\ cut \in BOOLEAN /\ asked \in SUBSET BackupJob
    BY Zenon DEF BackupInit
  <2>3. /\ bkStatus \in [BackupJob -> {"none", "pending", "running", "success", "failed", "cancelled"}]
        /\ bkReq \in [BackupJob -> {"new", "checked", "inserted", "sent", "over"}]
        /\ bkStop \in [BackupJob -> {"no", "read", "revoked"}]
    BY DEF BackupInit
  <2>4. /\ bkPc \in [BackupWorker -> {"idle", "check", "lock", "start", "rsync", "record", "alert", "raised"}]
        /\ bkResult \in [BackupWorker -> {"none", "success", "failed"}]
        /\ bkHand \in [BackupWorker -> BackupJob \union {NoBackup}]
        /\ lastRun \in {"none", "success", "failed", "raised"}
        /\ bkLock \in BackupWorker \union {"free", "dead"}
    BY DEF BackupInit
  <2>5. /\ bkSent \in [BackupJob -> Nat] /\ bkWaits \in [BackupJob -> 0 .. MaxLockWaits]
        /\ strays \in Nat /\ bkFaults \in 0 .. MaxBackupFaults
    BY BackupAssumption DEF BackupInit
  <2> QED BY <2>1, <2>2, <2>3, <2>4, <2>5 DEF BackupTypeOK
<1>2. LockOfWork /\ NotInserted /\ FaultsFirst /\ AlertFollows
  BY BackupAssumption DEF BackupInit, LockOfWork, AtWork, NotInserted, FaultsFirst, AlertFollows
<1> QED BY <1>1, <1>2 DEF BackupInv

\* What a write of a row's status may do to it.
LEMMA StatusWritten ==
  ASSUME BackupTypeOK, NEW j \in BackupJob,
         NEW new \in {"pending", "running", "success", "failed"}, WriteStatus(j, new)
  PROVE  /\ bkStatus' \in [BackupJob -> {"none", "pending", "running", "success", "failed", "cancelled"}]
         /\ \A k \in BackupJob : bkStatus[k] = "cancelled" => bkStatus'[k] = "cancelled"
         /\ \A k \in BackupJob \ {j} : bkStatus'[k] = bkStatus[k]
BY DEF BackupTypeOK, WriteStatus

\* The request side touches no worker.
LEMMA RequestStep ==
  ASSUME BackupInv, NEW j \in BackupJob,
         CheckRequest(j) \/ InsertRow(j) \/ Send(j) \/ KeepTaskId(j)
  PROVE  BackupInv'
<1> USE DEF BackupInv, BackupTypeOK, reqSide, sideVars
<1>1. BackupTypeOK'
  <2>1. CASE CheckRequest(j) \/ InsertRow(j) \/ Send(j)
    BY <2>1 DEF CheckRequest, InsertRow, Send
  <2>2. CASE KeepTaskId(j)
    <3>1. bkKnown' \in [BackupJob -> BOOLEAN]
      BY <2>2, Zenon DEF KeepTaskId
    <3> QED BY <2>2, <3>1 DEF KeepTaskId
  <2> QED BY <2>1, <2>2
<1>2. LockOfWork' /\ AlertFollows'
  BY DEF CheckRequest, InsertRow, Send, KeepTaskId, LockOfWork, AtWork, AlertFollows
<1>3. NotInserted'
  BY DEF CheckRequest, InsertRow, Send, KeepTaskId, NotInserted
<1>4. FaultsFirst'
  BY DEF CheckRequest, InsertRow, Send, KeepTaskId, FaultsFirst
<1> QED BY <1>1, <1>2, <1>3, <1>4

LEMMA TakeStep ==
  ASSUME BackupInv, NEW w \in BackupWorker, NEW j \in BackupJob, TakeTask(w, j)
  PROVE  BackupInv'
<1> USE BackupAssumption DEF BackupInv, BackupTypeOK, TakeTask, reqSide, sideVars
<1>1. BackupTypeOK'
  OBVIOUS
<1>2. LockOfWork' /\ AlertFollows'
  BY DEF LockOfWork, AtWork, AlertFollows
<1>3. NotInserted' /\ FaultsFirst'
  BY DEF NotInserted, FaultsFirst
<1> QED BY <1>1, <1>2, <1>3

\* A step of a worker: it is not idle, so it has a row, and who is at work is alone.
LEMMA BusyWorker ==
  ASSUME BackupInv, NEW w \in BackupWorker, bkPc[w] # "idle"
  PROVE  /\ bkHand[w] \in BackupJob
         /\ bkReq[bkHand[w]] \notin {"new", "checked"}
         /\ AtWork(w) => bkLock = w /\ \A v \in BackupWorker \ {w} : ~AtWork(v)
         /\ bkPc[w] # "alert" /\ AtWork(w) => \A v \in BackupWorker : bkPc[v] # "alert"
BY DEF BackupInv, LockOfWork, NotInserted, AtWork

LEMMA BackupCheckStep ==
  ASSUME BackupInv, NEW w \in BackupWorker, CheckRow(w)
  PROVE  BackupInv'
<1> USE BusyWorker, BackupAssumption DEF BackupInv, BackupTypeOK, CheckRow, Goto, EndTask, reqSide, sideVars
<1>1. BackupTypeOK'
  OBVIOUS
<1>2. LockOfWork' /\ AlertFollows'
  BY DEF LockOfWork, AtWork, AlertFollows
<1>3. NotInserted' /\ FaultsFirst'
  BY DEF NotInserted, FaultsFirst
<1> QED BY <1>1, <1>2, <1>3

LEMMA BackupLockStep ==
  ASSUME BackupInv, NEW w \in BackupWorker, TryLock(w)
  PROVE  BackupInv'
<1> USE BusyWorker, BackupAssumption DEF BackupInv, BackupTypeOK, TryLock, Goto, EndTask, BkActive, reqSide, sideVars
<1>0. bkStatus' \in [BackupJob -> {"none", "pending", "running", "success", "failed", "cancelled"}]
      /\ \A k \in BackupJob \ {bkHand[w]} : bkStatus'[k] = bkStatus[k]
  BY StatusWritten
<1>1. BackupTypeOK'
  BY <1>0
<1>2. LockOfWork' /\ AlertFollows'
  BY DEF LockOfWork, AtWork, AlertFollows
<1>3. NotInserted' /\ FaultsFirst'
  BY <1>0 DEF NotInserted, FaultsFirst
<1> QED BY <1>1, <1>2, <1>3

LEMMA BackupRunStep ==
  ASSUME BackupInv, NEW w \in BackupWorker, StartRun(w) \/ RunReturns(w)
  PROVE  BackupInv'
<1> USE BusyWorker, BackupAssumption DEF BackupInv, BackupTypeOK, StartRun, RunReturns, Goto, reqSide, sideVars
<1>0. bkStatus' \in [BackupJob -> {"none", "pending", "running", "success", "failed", "cancelled"}]
      /\ \A k \in BackupJob \ {bkHand[w]} : bkStatus'[k] = bkStatus[k]
  BY StatusWritten
<1>1. BackupTypeOK'
  BY <1>0
<1>2. LockOfWork' /\ AlertFollows'
  BY DEF LockOfWork, AtWork, AlertFollows
<1>3. NotInserted' /\ FaultsFirst'
  BY <1>0 DEF NotInserted, FaultsFirst
<1> QED BY <1>1, <1>2, <1>3

\* The outcome is recorded while nobody else is at work: from here the alert is this worker's to set.
LEMMA RecordStep ==
  ASSUME BackupInv, NEW w \in BackupWorker, RecordRun(w)
  PROVE  BackupInv'
<1> USE BusyWorker, BackupAssumption DEF BackupInv, BackupTypeOK, RecordRun, Goto, EndTask, reqSide
<1>0. bkStatus' \in [BackupJob -> {"none", "pending", "running", "success", "failed", "cancelled"}]
      /\ \A k \in BackupJob \ {bkHand[w]} : bkStatus'[k] = bkStatus[k]
  BY StatusWritten DEF AlertFollows
<1>1. BackupTypeOK'
  BY <1>0 DEF AlertFollows
<1>2. LockOfWork'
  BY DEF LockOfWork, AtWork
<1>3. AlertFollows'
  BY DEF AlertFollows, AtWork
<1>4. NotInserted' /\ FaultsFirst'
  BY <1>0 DEF NotInserted, FaultsFirst
<1> QED BY <1>1, <1>2, <1>3, <1>4

LEMMA AlertStep ==
  ASSUME BackupInv, NEW w \in BackupWorker, SettleAlert(w)
  PROVE  BackupInv'
<1> USE BusyWorker, BackupAssumption DEF BackupInv, BackupTypeOK, SettleAlert, EndTask, reqSide
<1>1. BackupTypeOK'
  OBVIOUS
<1>2. LockOfWork'
  BY DEF LockOfWork, AtWork
<1>3. AlertFollows'
  BY DEF AlertFollows, AtWork
<1>4. NotInserted' /\ FaultsFirst'
  BY DEF NotInserted, FaultsFirst
<1> QED BY <1>1, <1>2, <1>3, <1>4

LEMMA RaisedStep ==
  ASSUME BackupInv, NEW w \in BackupWorker, RunRaised(w)
  PROVE  BackupInv'
<1> USE BusyWorker, BackupAssumption DEF BackupInv, BackupTypeOK, RunRaised, EndTask, reqSide
<1>0. bkStatus' \in [BackupJob -> {"none", "pending", "running", "success", "failed", "cancelled"}]
      /\ \A k \in BackupJob \ {bkHand[w]} : bkStatus'[k] = bkStatus[k]
  BY StatusWritten
<1>1. BackupTypeOK'
  BY <1>0
<1>2. LockOfWork'
  BY DEF LockOfWork, AtWork
<1>3. AlertFollows'
  BY DEF AlertFollows, AtWork
<1>4. NotInserted' /\ FaultsFirst'
  BY <1>0 DEF NotInserted, FaultsFirst
<1> QED BY <1>1, <1>2, <1>3, <1>4

\* A worker that loses its task: in the gap before the alert it says so in cut.
LEMMA LossStep ==
  ASSUME BackupInv, NEW w \in BackupWorker, Terminated(w) \/ ChildDies(w) \/ WorkerDies(w)
  PROVE  BackupInv'
<1> USE BusyWorker, BackupAssumption
    DEF BackupInv, BackupTypeOK, Terminated, ChildDies, WorkerDies, Abandoned, DropHand, EndTask, reqSide
<1>0. cut' \in BOOLEAN /\ (cut' <=> (cut \/ bkPc[w] = "alert"))
  BY Zenon
<1>1. BackupTypeOK'
  BY <1>0
<1>2. LockOfWork'
  BY DEF LockOfWork, AtWork
<1>3. AlertFollows'
  BY <1>0 DEF AlertFollows, AtWork
<1>4. NotInserted' /\ FaultsFirst'
  BY DEF NotInserted, FaultsFirst
<1> QED BY <1>1, <1>2, <1>3, <1>4

LEMMA BackupOtherStep ==
  ASSUME BackupInv,
         \/ \E j \in BackupJob : CancelReads(j) \/ CancelWrites(j) \/ SweepFails(j)
         \/ LockExpires \/ StrayEnds
  PROVE  BackupInv'
<1> USE BackupAssumption
    DEF BackupInv, BackupTypeOK, CancelReads, CancelWrites, SweepFails, LockExpires, StrayEnds, BkActive, reqSide, sideVars
<1>1. BackupTypeOK'
  OBVIOUS
<1>2. LockOfWork' /\ AlertFollows'
  BY DEF LockOfWork, AtWork, AlertFollows
<1>3. NotInserted' /\ FaultsFirst'
  BY DEF NotInserted, FaultsFirst
<1> QED BY <1>1, <1>2, <1>3

LEMMA BackupStep == BackupInv /\ [BackupNext]_backupVars => BackupInv'
<1>1. BackupInv /\ UNCHANGED backupVars => BackupInv'
  BY DEF backupVars, BackupInv, BackupTypeOK, LockOfWork, AtWork, NotInserted, FaultsFirst, AlertFollows
<1> QED
  BY <1>1, RequestStep, TakeStep, BackupCheckStep, BackupLockStep, BackupRunStep, RecordStep, AlertStep, RaisedStep,
     LossStep, BackupOtherStep DEF BackupNext, WorkerStep

LEMMA SafetyFollows == BackupInv => OneRunPerHost /\ AlertTellsLastRun
<1> SUFFICES ASSUME BackupInv PROVE OneRunPerHost /\ AlertTellsLastRun
  OBVIOUS
<1>1. OneRunPerHost
  BY DEF BackupInv, BackupTypeOK, LockOfWork, FaultsFirst, OneRunPerHost
<1>2. ASSUME \A w \in BackupWorker : ~AtWork(w), ~cut, lastRun \in {"success", "failed"}
      PROVE  bkAlert = (lastRun = "failed")
  <2>1. bkAlert <=> lastRun = "failed"
    BY <1>2 DEF BackupInv, AlertFollows, AtWork
  <2> QED BY <2>1, Zenon DEF BackupInv, BackupTypeOK
<1> QED BY <1>1, <1>2 DEF AlertTellsLastRun

\* No write of a row's status brings a cancelled row back.
LEMMA BackupCancelStep ==
  ASSUME BackupInv, [BackupNext]_backupVars, NEW j \in BackupJob, bkStatus[j] = "cancelled"
  PROVE  bkStatus'[j] \in {"cancelled", "failed"}
<1>1. CASE bkStatus' = bkStatus
  BY <1>1
<1>2. ASSUME NEW k \in BackupJob, CheckRequest(k) \/ KeepTaskId(k) \/ InsertRow(k) \/ Send(k)
      PROVE  bkStatus'[j] \in {"cancelled", "failed"}
  BY <1>2 DEF BackupInv, BackupTypeOK, NotInserted, CheckRequest, KeepTaskId, InsertRow, Send
<1>3. ASSUME NEW w \in BackupWorker, WorkerStep(w) PROVE bkStatus'[j] = "cancelled"
  <2>1. CASE bkStatus' = bkStatus
    BY <2>1
  <2>2. CASE \E new \in {"pending", "running", "success", "failed"} : WriteStatus(bkHand[w], new)
    BY <2>2, <1>3, BusyWorker, StatusWritten
    DEF BackupInv, WorkerStep, CheckRow, TryLock, StartRun, RunReturns, RecordRun, SettleAlert, RunRaised
  <2> QED
    BY <1>3, <2>1, <2>2
    DEF WorkerStep, CheckRow, TryLock, StartRun, RunReturns, RecordRun, SettleAlert, RunRaised, BackupInv, AlertFollows
<1>4. ASSUME NEW k \in BackupJob, CancelReads(k) \/ CancelWrites(k) \/ SweepFails(k)
      PROVE  bkStatus'[j] \in {"cancelled", "failed"}
  BY <1>4 DEF BackupInv, BackupTypeOK, CancelReads, CancelWrites, SweepFails
<1>5. CASE (\E w \in BackupWorker, k \in BackupJob : TakeTask(w, k)) \/ LockExpires \/ StrayEnds
  BY <1>5 DEF TakeTask, LockExpires, StrayEnds
<1>6. CASE \E w \in BackupWorker : Terminated(w) \/ ChildDies(w) \/ WorkerDies(w)
  BY <1>6 DEF Terminated, ChildDies, WorkerDies
<1>7. CASE UNCHANGED backupVars
  BY <1>7 DEF backupVars
<1> QED BY <1>2, <1>3, <1>4, <1>5, <1>6, <1>7 DEF BackupNext
\* Rows, workers and lock keep their state in its sets.
THEOREM BackupTypeCorrect == BackupSpec => []BackupTypeOK
<1>1. BackupInv => BackupTypeOK
  BY DEF BackupInv
<1> QED BY BackupInit0, BackupStep, <1>1, PTL DEF BackupSpec

\* tasks.py:193: for any number of workers and rows no two workers are at work on one
\* host, and rsync runs there twice only after a fault.
THEOREM BackupsExcludeEachOther == BackupSpec => []OneRunPerHost
BY BackupInit0, BackupStep, SafetyFollows, PTL DEF BackupSpec

\* tasks.py: whichever sources ran, waited, were cancelled or swept, the host's one
\* alert tells the last recorded run, unless that run raised or was cut off.
THEOREM AlertIsLastRuns == BackupSpec => []AlertTellsLastRun
BY BackupInit0, BackupStep, SafetyFollows, PTL DEF BackupSpec

\* _update_job_status: no wait, redelivery, retry or sweep takes a cancelled row up again.
THEOREM CancelStands == BackupSpec => CancelIsFinal
<1>1. BackupInv /\ [BackupNext]_backupVars =>
        [\A j \in BackupJob : bkStatus[j] = "cancelled" => bkStatus'[j] \in {"cancelled", "failed"}]_backupVars
  BY BackupCancelStep
<1> QED BY BackupInit0, BackupStep, <1>1, PTL DEF BackupSpec, CancelIsFinal

(***************************************************************************)
(* Backups as holders of the host: the workers at work are the holders of  *)
(* HostMutex, with the broker taken to answer.  The start of a run is a    *)
(* Take, its end, a cancel or a death a Drop, every other step stutters.   *)
(***************************************************************************)
AtWorkOn == [h \in {"host"} |-> {w \in BackupWorker : AtWork(w)}]

HostLock == INSTANCE HostMutex WITH
  Worker <- BackupWorker, Host <- {"host"}, holders <- AtWorkOn, degraded <- FALSE

\* One worker's task moves; or none does.
LEMMA OneMoves ==
  ASSUME BackupInv, [BackupNext]_backupVars
  PROVE  \/ bkPc' = bkPc
         \/ \E w \in BackupWorker :
              /\ \A v \in BackupWorker \ {w} : bkPc'[v] = bkPc[v]
              /\ AtWork(w)' /\ ~AtWork(w) => bkLock = "free"
<1> USE DEF BackupInv, BackupTypeOK, EndTask, Goto, AtWork
<1>1. ASSUME NEW j \in BackupJob,
             \/ CheckRequest(j) \/ InsertRow(j) \/ Send(j) \/ KeepTaskId(j)
             \/ CancelReads(j) \/ CancelWrites(j) \/ SweepFails(j)
      PROVE  bkPc' = bkPc
  BY <1>1 DEF CheckRequest, InsertRow, Send, KeepTaskId, CancelReads, CancelWrites, SweepFails
<1>2. ASSUME NEW w \in BackupWorker, NEW j \in BackupJob, TakeTask(w, j)
      PROVE  /\ \A v \in BackupWorker \ {w} : bkPc'[v] = bkPc[v]
             /\ ~AtWork(w)' \/ AtWork(w)
  BY <1>2 DEF TakeTask
<1>3. ASSUME NEW w \in BackupWorker, WorkerStep(w)
      PROVE  /\ \A v \in BackupWorker \ {w} : bkPc'[v] = bkPc[v]
             /\ AtWork(w)' /\ ~AtWork(w) => bkLock = "free"
  BY <1>3 DEF WorkerStep, CheckRow, TryLock, StartRun, RunReturns, RecordRun, SettleAlert, RunRaised
<1>4. ASSUME NEW w \in BackupWorker, Terminated(w) \/ ChildDies(w) \/ WorkerDies(w)
      PROVE  /\ \A v \in BackupWorker \ {w} : bkPc'[v] = bkPc[v]
             /\ ~AtWork(w)'
  BY <1>4 DEF Terminated, ChildDies, WorkerDies, DropHand
<1>5. CASE LockExpires \/ StrayEnds \/ UNCHANGED backupVars
  BY <1>5 DEF LockExpires, StrayEnds, backupVars
<1> QED BY <1>1, <1>2, <1>3, <1>4, <1>5 DEF BackupNext

LEMMA HostLockStep ==
  ASSUME BackupInv, [BackupNext]_backupVars
  PROVE  [HostLock!Next]_HostLock!vars
<1> DEFINE H == {"host"}
<1>1. CASE bkPc' = bkPc
  BY <1>1 DEF HostLock!vars, AtWorkOn, AtWork
<1>2. ASSUME NEW w \in BackupWorker,
             \A v \in BackupWorker \ {w} : bkPc'[v] = bkPc[v],
             AtWork(w)' /\ ~AtWork(w) => bkLock = "free"
      PROVE  [HostLock!Next]_HostLock!vars
  <2>1. \A v \in BackupWorker \ {w} : AtWork(v)' <=> AtWork(v)
    BY <1>2 DEF AtWork
  <2>2. CASE AtWork(w)' /\ ~AtWork(w)
    <3>1. \A v \in BackupWorker : ~AtWork(v)
      BY <1>2, <2>2, BackupAssumption DEF BackupInv, LockOfWork
    <3>2. AtWorkOn["host"] = {} /\ AtWorkOn' = [AtWorkOn EXCEPT !["host"] = @ \union {w}]
      BY <2>1, <2>2, <3>1 DEF AtWorkOn
    <3>3. HostLock!Take(w, "host")
      BY <3>2 DEF HostLock!Take
    <3> QED BY <3>3 DEF HostLock!Next
  <2>3. CASE ~(AtWork(w)' /\ ~AtWork(w))
    <3>1. CASE AtWork(w)' <=> AtWork(w)
      BY <2>1, <3>1 DEF HostLock!vars, AtWorkOn
    <3>2. CASE ~AtWork(w)'
      <4>1. AtWorkOn' = [h \in H |-> IF h \in H THEN AtWorkOn[h] \ {w} ELSE AtWorkOn[h]]
        BY <2>1, <3>2 DEF AtWorkOn
      <4>2. HostLock!Drop(w, H)
        BY <4>1 DEF HostLock!Drop
      <4> QED BY <4>2 DEF HostLock!Next
    <3> QED BY <2>3, <3>1, <3>2
  <2> QED BY <2>2, <2>3
<1> QED BY <1>1, <1>2, OneMoves

\* backup_server keeps what server_job_lock.py promises: from the lock to the end of the task,
\* or its death, a worker holds its host alone, and takes it only when nobody is at work.
THEOREM BackupsHoldHost == BackupSpec => HostLock!Spec
<1>1. BackupInit => HostLock!Init
  BY DEF BackupInit, HostLock!Init, AtWorkOn, AtWork
<1> QED BY <1>1, BackupInit0, BackupStep, HostLockStep, PTL DEF BackupSpec, HostLock!Spec
------------------------------------------------------------------------------
(***************************************************************************)
(* Copies of host backups for any number of hosts, rows, workers, backups  *)
(* and faults. A copy that is behind its host is excused, or some row is   *)
(* on its way that will copy it as it is now: it is asked for and has not  *)
(* read the host's folder, or has read it in its last state. Every action  *)
(* either keeps that row or puts the host among the excused. A row in a    *)
(* worker's hands is nobody else's, which is what keeps a settled row from *)
(* being settled again by a second copy.                                   *)
(***************************************************************************)

\* A row that is not asked for is blank, and one that is says what it is to copy.
RowsAsked ==
  \A j \in CopyJob :
    /\ cpReq[j] = "new" => cpStatus[j] = "none" /\ cpKind[j] = "none"
    /\ cpReq[j] \in {"decided", "inserted", "sent"} \/ cpStatus[j] # "none"
         => cpKind[j] # "none" /\ cpScope[j] # "none"
    /\ cpStop[j] # "no" => cpStatus[j] # "none"

\* A worker at work has a row of its own, whose message is gone, and which is past
\* pending once the copy has begun.
RowsHeld ==
  \A w \in CopyWorker :
    /\ cpPc[w] = "idle" => cpHand[w] = NoCopy
    /\ cpPc[w] # "idle" => /\ cpHand[w] \in CopyJob
                           /\ cpReq[cpHand[w]] = "over"
                           /\ cpKind[cpHand[w]] # "none" /\ cpScope[cpHand[w]] # "none"
                           /\ \A v \in CopyWorker : cpHand[v] = cpHand[w] => v = w
    /\ cpPc[w] \in {"copy", "after"} => cpStatus[cpHand[w]] # "pending"

NoneAhead ==
  \A h \in CopyHost : destV[h] <= hostV[h] /\ \A w \in CopyWorker : cpSeen[w][h] <= hostV[h]

\* Row j is on its way to copy h as it is now, or to put h among the lost.
Serves(j, h) ==
  /\ cpKind[j] = "folder"
  /\ h \in Hosts(cpScope[j])
  /\ cpReq[j] = "decided" \/ CpActive(j)
  /\ \A w \in CopyWorker : cpHand[w] = j /\ cpPc[w] = "copy" => cpSeen[w][h] = hostV[h]

BehindIsServed ==
  \A h \in CopyHost \ cpLost : destV[h] # hostV[h] => \E j \in CopyJob : Serves(j, h)

\* Nobody but a cancel keeps the direct hop from a folder hop whose task has ended.
EndFollows ==
  \A j \in CopyJob \ cpCut :
    StartsDirect(j) /\ cpReq[j] = "over" /\ (\A w \in CopyWorker : cpHand[w] # j)
      => cpStatus[j] = "cancelled" \/ j \in cpFollowed

CopyInv == CopyTypeOK /\ RowsAsked /\ RowsHeld /\ NoneAhead /\ BehindIsServed /\ EndFollows
LEMMA CopyInit0 == CopyInit => CopyInv
<1> SUFFICES ASSUME CopyInit PROVE CopyInv
  OBVIOUS
<1> USE CopyAssumption DEF CopyInit, NoVersions
<1>1. cpKnown \in [CopyJob -> BOOLEAN]
  BY Zenon
<1>2. CopyTypeOK
  BY <1>1 DEF CopyTypeOK
<1>3. RowsAsked /\ RowsHeld /\ NoneAhead
  BY DEF RowsAsked, RowsHeld, NoneAhead
<1>4. BehindIsServed /\ EndFollows
  BY DEF BehindIsServed, EndFollows
<1> QED BY <1>2, <1>3, <1>4 DEF CopyInv

\* What a row stands for is ticked.
LEMMA HostsTicked ==
  ASSUME CopyTypeOK, RowsAsked, NEW j \in CopyJob,
         cpStatus[j] # "none" \/ cpReq[j] \in {"decided", "inserted", "sent"} \/ cpScope[j] # "none"
  PROVE  Hosts(cpScope[j]) \in SUBSET CopyHost
BY DEF CopyTypeOK, RowsAsked, Hosts

\* A request takes a blank row and either decides on a copy or declines.
LEMMA AskTakes ==
  ASSUME CopyTypeOK, NEW j \in CopyJob, NEW scope \in CopyHost \union {"all"}, AskCopy(j, scope)
  PROVE  /\ cpReq[j] = "new"
         /\ cpReq' \in [CopyJob -> {"new", "decided", "inserted", "sent", "over"}]
         /\ cpKind' \in [CopyJob -> {"none", "folder", "direct"}]
         /\ cpScope' \in [CopyJob -> CopyHost \union {"none", "all"}]
         /\ cpLost' \in SUBSET CopyHost /\ cpLost \subseteq cpLost'
         /\ \A k \in CopyJob \ {j} : cpReq'[k] = cpReq[k] /\ cpKind'[k] = cpKind[k] /\ cpScope'[k] = cpScope[k]
         /\ \/ cpReq'[j] = "decided" /\ cpKind'[j] \in {"folder", "direct"} /\ cpScope'[j] = scope
            \/ cpReq'[j] = "over" /\ cpKind'[j] = cpKind[j] /\ cpScope'[j] = cpScope[j]
         /\ \/ cpReq'[j] = "decided" /\ cpKind'[j] = "folder"
            \/ \A h \in Hosts(scope) \ cpLost' :
                 \E k \in ActiveOf("folder") : cpStatus[k] = "pending" /\ h \in Hosts(cpScope[k])
<1>1. Hosts(scope) \subseteq CopyHost /\ Unserved(scope) \subseteq Hosts(scope)
  BY DEF Hosts, Unserved
<1>2. cpReq[j] = "new"
  BY DEF AskCopy, NewCopy
<1>3. CASE Decide(j, "folder", scope) /\ UNCHANGED cpLost
  BY <1>1, <1>2, <1>3 DEF CopyTypeOK, Decide
<1>4. CASE Decide(j, "direct", scope) /\ cpLost' = cpLost \union Unserved(scope)
  BY <1>1, <1>2, <1>4 DEF CopyTypeOK, Decide, Unserved
<1>5. CASE /\ cpReq' = [cpReq EXCEPT ![j] = "over"] /\ UNCHANGED <<cpKind, cpScope>>
           /\ cpLost' = cpLost \union Unserved(scope)
  BY <1>1, <1>2, <1>5 DEF CopyTypeOK, Unserved
<1> QED BY <1>3, <1>4, <1>5 DEF AskCopy

\* A follow-up may take a blank row for a direct hop.
LEMMA FollowTakes ==
  ASSUME CopyTypeOK, NEW j \in CopyJob, Follow(j)
  PROVE  /\ cpFollowed' = cpFollowed \union {j}
         /\ cpReq' \in [CopyJob -> {"new", "decided", "inserted", "sent", "over"}]
         /\ cpKind' \in [CopyJob -> {"none", "folder", "direct"}]
         /\ cpScope' \in [CopyJob -> CopyHost \union {"none", "all"}]
         /\ \A k \in CopyJob :
              \/ cpReq'[k] = cpReq[k] /\ cpKind'[k] = cpKind[k] /\ cpScope'[k] = cpScope[k]
              \/ /\ cpReq[k] = "new"
                 /\ cpReq'[k] = "decided" /\ cpKind'[k] = "direct" /\ cpScope'[k] = "all"
<1>1. CASE UNCHANGED <<cpReq, cpKind, cpScope>>
  BY <1>1 DEF CopyTypeOK, Follow
<1>2. CASE \E k \in CopyJob : NewCopy(k) /\ Decide(k, "direct", "all")
  <2>1. PICK k \in CopyJob : cpReq[k] = "new" /\ Decide(k, "direct", "all")
    BY <1>2 DEF NewCopy
  <2> QED BY <2>1 DEF CopyTypeOK, Follow, Decide
<1> QED BY <1>1, <1>2 DEF Follow

\* What the end of a task leaves of its worker.
LEMMA EndsWork ==
  ASSUME CopyTypeOK, NEW w \in CopyWorker, CopyEnds(w)
  PROVE  /\ cpHand' \in [CopyWorker -> CopyJob \union {NoCopy}]
         /\ cpPc' \in [CopyWorker -> {"idle", "check", "copy", "after"}]
         /\ cpSeen' \in [CopyWorker -> [CopyHost -> 0 .. MaxVersion]]
         /\ cpHand'[w] = NoCopy /\ cpPc'[w] = "idle" /\ cpSeen'[w] = NoVersions
         /\ \A v \in CopyWorker \ {w} : cpHand'[v] = cpHand[v] /\ cpPc'[v] = cpPc[v] /\ cpSeen'[v] = cpSeen[v]
<1>1. NoVersions \in [CopyHost -> 0 .. MaxVersion]
  BY CopyAssumption DEF NoVersions
<1>2. cpSeen' \in [CopyWorker -> [CopyHost -> 0 .. MaxVersion]] /\ cpSeen'[w] = NoVersions
  BY <1>1 DEF CopyTypeOK, CopyEnds
<1> QED BY <1>2 DEF CopyTypeOK, CopyEnds

\* What a write of a row's status may do to it.
LEMMA CopyStatusWritten ==
  ASSUME CopyTypeOK, NEW j \in CopyJob, NEW new \in {"running", "success", "failed"}, CopyStatus(j, new)
  PROVE  /\ cpStatus' \in [CopyJob -> {"none", "pending", "running", "success", "failed", "cancelled"}]
         /\ \A k \in CopyJob \ {j} : cpStatus'[k] = cpStatus[k]
         /\ CpActive(j) => cpStatus'[j] = new
         /\ cpStatus[j] = "cancelled" => cpStatus'[j] = "cancelled"
         /\ cpStatus'[j] \notin {"none", "pending"}
BY DEF CopyTypeOK, CopyStatus, CpActive

LEMMA AskAllKeeps ==
  ASSUME CopyInv, NEW j \in CopyJob, AskAll(j)
  PROVE  CopyInv'
<1> USE CopyAssumption DEF CopyInv, CopyTypeOK, AskAll,
      CpActive, cpWork, cpData
<1>0. /\ cpReq[j] = "new"
      /\ cpReq' \in [CopyJob -> {"new", "decided", "inserted", "sent", "over"}]
      /\ cpKind' \in [CopyJob -> {"none", "folder", "direct"}]
      /\ cpScope' \in [CopyJob -> CopyHost \union {"none", "all"}]
      /\ cpLost' \in SUBSET CopyHost /\ cpLost \subseteq cpLost'
      /\ \A k \in CopyJob \ {j} : cpReq'[k] = cpReq[k] /\ cpKind'[k] = cpKind[k] /\ cpScope'[k] = cpScope[k]
      /\ \/ cpReq'[j] = "decided" /\ cpKind'[j] \in {"folder", "direct"} /\ cpScope'[j] = "all"
         \/ cpReq'[j] = "over" /\ cpKind'[j] = cpKind[j] /\ cpScope'[j] = cpScope[j]
      /\ \/ cpReq'[j] = "decided" /\ cpKind'[j] = "folder"
         \/ \A g \in Hosts("all") \ cpLost' :
              \E k \in ActiveOf("folder") : cpStatus[k] = "pending" /\ g \in Hosts(cpScope[k])
  BY AskTakes
<1>1. CopyTypeOK'
  BY <1>0
<1>2. RowsAsked' /\ RowsHeld'
  BY <1>0 DEF RowsAsked, RowsHeld
<1>3. NoneAhead'
  BY <1>0 DEF NoneAhead
<1>4. BehindIsServed'
  BY <1>0 DEF RowsAsked, RowsHeld, NoneAhead, BehindIsServed, Serves, Hosts
<1>5. EndFollows'
  BY <1>0 DEF RowsAsked, RowsHeld, EndFollows, StartsDirect
<1> QED BY <1>1, <1>2, <1>3, <1>4, <1>5

LEMMA InsertCopyKeeps ==
  ASSUME CopyInv, NEW j \in CopyJob, InsertCopy(j)
  PROVE  CopyInv'
<1> USE CopyAssumption DEF CopyInv, CopyTypeOK, InsertCopy,
      CpActive, cpWork, cpData
<1>1. CopyTypeOK'
  OBVIOUS
<1>2. RowsAsked' /\ RowsHeld'
  BY DEF RowsAsked, RowsHeld
<1>3. NoneAhead'
  BY DEF NoneAhead
<1>4. BehindIsServed'
  BY DEF RowsAsked, RowsHeld, NoneAhead, BehindIsServed, Serves, Hosts
<1>5. EndFollows'
  BY DEF RowsAsked, RowsHeld, EndFollows, StartsDirect
<1> QED BY <1>1, <1>2, <1>3, <1>4, <1>5

LEMMA KeepCopyTaskKeeps ==
  ASSUME CopyInv, NEW j \in CopyJob, KeepCopyTask(j)
  PROVE  CopyInv'
<1> USE CopyAssumption DEF CopyInv, CopyTypeOK, KeepCopyTask,
      CpActive, cpWork, cpData
<1>1. CopyTypeOK'
  OBVIOUS
<1>2. RowsAsked' /\ RowsHeld'
  BY DEF RowsAsked, RowsHeld
<1>3. NoneAhead'
  BY DEF NoneAhead
<1>4. BehindIsServed'
  BY DEF RowsAsked, RowsHeld, NoneAhead, BehindIsServed, Serves, Hosts
<1>5. EndFollows'
  BY DEF RowsAsked, RowsHeld, EndFollows, StartsDirect
<1> QED BY <1>1, <1>2, <1>3, <1>4, <1>5

LEMMA CancelCopyReadsKeeps ==
  ASSUME CopyInv, NEW j \in CopyJob, CancelCopyReads(j)
  PROVE  CopyInv'
<1> USE CopyAssumption DEF CopyInv, CopyTypeOK, CancelCopyReads,
      CpActive, CopyFault, cpWork, cpData
<1>1. CopyTypeOK'
  OBVIOUS
<1>2. RowsAsked' /\ RowsHeld'
  BY DEF RowsAsked, RowsHeld
<1>3. NoneAhead'
  BY DEF NoneAhead
<1>4. BehindIsServed'
  BY DEF RowsAsked, RowsHeld, NoneAhead, BehindIsServed, Serves, Hosts
<1>5. EndFollows'
  BY DEF RowsAsked, RowsHeld, EndFollows, StartsDirect
<1> QED BY <1>1, <1>2, <1>3, <1>4, <1>5

LEMMA SendCopyKeeps ==
  ASSUME CopyInv, NEW j \in CopyJob, SendCopy(j)
  PROVE  CopyInv'
<1> USE CopyAssumption DEF CopyInv, CopyTypeOK, SendCopy,
      CpActive, CopyFault, cpWork, cpData
<1>0. Hosts(cpScope[j]) \in SUBSET CopyHost
  BY HostsTicked
<1>1. CopyTypeOK'
  <2>1. CASE UNCHANGED <<cpStatus, cpCut, cpLost, cpFaults>>
    BY <2>1
  <2>2. CASE /\ CopyFault /\ cpStatus' = [cpStatus EXCEPT ![j] = "failed"]
             /\ cpReq' = [cpReq EXCEPT ![j] = "over"]
             /\ cpCut' = cpCut \union {j} /\ cpLost' = cpLost \union Hosts(cpScope[j])
    BY <2>2, <1>0
  <2> QED BY <2>1, <2>2
<1>2. RowsAsked' /\ RowsHeld'
  BY <1>0 DEF RowsAsked, RowsHeld
<1>3. NoneAhead'
  BY <1>0 DEF NoneAhead
<1>4. BehindIsServed'
  BY <1>0 DEF RowsAsked, RowsHeld, NoneAhead, BehindIsServed, Serves, Hosts
<1>5. EndFollows'
  BY <1>0 DEF RowsAsked, RowsHeld, EndFollows, StartsDirect
<1> QED BY <1>1, <1>2, <1>3, <1>4, <1>5

LEMMA CancelCopyWritesKeeps ==
  ASSUME CopyInv, NEW j \in CopyJob, CancelCopyWrites(j)
  PROVE  CopyInv'
<1> USE CopyAssumption DEF CopyInv, CopyTypeOK, CancelCopyWrites,
      CpActive, cpWork, cpData
<1>0. Hosts(cpScope[j]) \in SUBSET CopyHost /\ cpStatus[j] # "none"
  BY HostsTicked DEF RowsAsked, RowsHeld
<1>1. CopyTypeOK'
  BY <1>0
<1>2. RowsAsked' /\ RowsHeld'
  BY <1>0 DEF RowsAsked, RowsHeld
<1>3. NoneAhead'
  BY <1>0 DEF NoneAhead
<1>4. BehindIsServed'
  BY <1>0 DEF RowsAsked, RowsHeld, NoneAhead, BehindIsServed, Serves, Hosts
<1>5. EndFollows'
  BY <1>0 DEF RowsAsked, RowsHeld, EndFollows, StartsDirect
<1> QED BY <1>1, <1>2, <1>3, <1>4, <1>5

LEMMA ReconcileCopyKeeps ==
  ASSUME CopyInv, NEW j \in CopyJob, ReconcileCopy(j)
  PROVE  CopyInv'
<1> USE CopyAssumption DEF CopyInv, CopyTypeOK, ReconcileCopy,
      CpActive, cpWork, cpData
<1>0. Hosts(cpScope[j]) \in SUBSET CopyHost /\ cpStatus[j] # "none"
  BY HostsTicked DEF RowsAsked, RowsHeld
<1>1. CopyTypeOK'
  BY <1>0
<1>2. RowsAsked' /\ RowsHeld'
  BY <1>0 DEF RowsAsked, RowsHeld
<1>3. NoneAhead'
  BY <1>0 DEF NoneAhead
<1>4. BehindIsServed'
  BY <1>0 DEF RowsAsked, RowsHeld, NoneAhead, BehindIsServed, Serves, Hosts
<1>5. EndFollows'
  BY <1>0 DEF RowsAsked, RowsHeld, EndFollows, StartsDirect
<1> QED BY <1>1, <1>2, <1>3, <1>4, <1>5

LEMMA HostBackedUpKeeps ==
  ASSUME CopyInv, NEW h \in CopyHost, NEW j \in CopyJob, HostBackedUp(h, j)
  PROVE  CopyInv'
<1> USE CopyAssumption DEF CopyInv, CopyTypeOK, HostBackedUp,
      CpActive, cpWork
<1>0. /\ cpReq[j] = "new"
      /\ cpReq' \in [CopyJob -> {"new", "decided", "inserted", "sent", "over"}]
      /\ cpKind' \in [CopyJob -> {"none", "folder", "direct"}]
      /\ cpScope' \in [CopyJob -> CopyHost \union {"none", "all"}]
      /\ cpLost' \in SUBSET CopyHost /\ cpLost \subseteq cpLost'
      /\ \A k \in CopyJob \ {j} : cpReq'[k] = cpReq[k] /\ cpKind'[k] = cpKind[k] /\ cpScope'[k] = cpScope[k]
      /\ \/ cpReq'[j] = "decided" /\ cpKind'[j] \in {"folder", "direct"} /\ cpScope'[j] = h
         \/ cpReq'[j] = "over" /\ cpKind'[j] = cpKind[j] /\ cpScope'[j] = cpScope[j]
      /\ \/ cpReq'[j] = "decided" /\ cpKind'[j] = "folder"
         \/ \A g \in Hosts(h) \ cpLost' :
              \E k \in ActiveOf("folder") : cpStatus[k] = "pending" /\ g \in Hosts(cpScope[k])
  BY AskTakes
<1>1. CopyTypeOK'
  BY <1>0
<1>2. RowsAsked' /\ RowsHeld'
  BY <1>0 DEF RowsAsked, RowsHeld
<1>3. NoneAhead'
  BY <1>0 DEF NoneAhead
<1>4. BehindIsServed'
  <2>1. hostV'[h] = hostV[h] + 1 /\ \A g \in CopyHost \ {h} : hostV'[g] = hostV[g]
    OBVIOUS
  <2>2. \A k \in CopyJob \ {j} : \A g \in CopyHost \ {h} : Serves(k, g) => Serves(k, g)'
    BY <1>0, <2>1 DEF Serves, Hosts
  <2>3. \A g \in CopyHost : ~Serves(j, g)
    BY <1>0 DEF Serves, RowsAsked, RowsHeld
  <2>4. ASSUME NEW g \in CopyHost \ cpLost', g # h, destV'[g] # hostV'[g]
        PROVE  \E k \in CopyJob : Serves(k, g)'
    BY <2>1, <2>2, <2>3, <2>4, <1>0 DEF BehindIsServed
  <2>5. ASSUME h \notin cpLost'
        PROVE  \E k \in CopyJob : Serves(k, h)'
    <3>1. CASE cpReq'[j] = "decided" /\ cpKind'[j] = "folder"
      <4>1. cpScope'[j] = h /\ \A w \in CopyWorker : cpHand[w] # j
        BY <3>1, <1>0 DEF RowsAsked, RowsHeld
      <4> QED BY <3>1, <4>1 DEF Serves, Hosts
    <3>2. CASE ~(cpReq'[j] = "decided" /\ cpKind'[j] = "folder")
      <4>1. PICK k \in ActiveOf("folder") : cpStatus[k] = "pending" /\ h \in Hosts(cpScope[k])
        BY <3>2, <2>5, <1>0 DEF Hosts
      <4>2. k \in CopyJob /\ k # j /\ cpKind[k] = "folder"
        BY <4>1, <1>0 DEF RowsAsked, ActiveOf
      <4>3. \A w \in CopyWorker : ~(cpHand[w] = k /\ cpPc[w] = "copy")
        BY <4>1 DEF RowsAsked, RowsHeld
      <4>4. Serves(k, h)'
        BY <4>1, <4>2, <4>3, <1>0 DEF Serves, Hosts
      <4> QED BY <4>2, <4>4
    <3> QED BY <3>1, <3>2
  <2> QED BY <2>4, <2>5 DEF BehindIsServed
<1>5. EndFollows'
  BY <1>0 DEF RowsAsked, RowsHeld, EndFollows, StartsDirect
<1> QED BY <1>1, <1>2, <1>3, <1>4, <1>5

LEMMA TakeCopyKeeps ==
  ASSUME CopyInv, NEW w \in CopyWorker, NEW j \in CopyJob, TakeCopy(w, j)
  PROVE  CopyInv'
<1> USE CopyAssumption DEF CopyInv, CopyTypeOK, TakeCopy,
      CpActive, cpData
<1>1. CopyTypeOK'
  OBVIOUS
<1>2. RowsAsked' /\ RowsHeld'
  <2>1. cpKind[j] # "none" /\ cpScope[j] # "none" /\ \A v \in CopyWorker : cpHand[v] # j
    BY DEF RowsAsked, RowsHeld
  <2>2. CASE cpStop[j] = "revoked"
    BY <2>1, <2>2 DEF RowsAsked, RowsHeld
  <2>3. CASE cpHand' = [cpHand EXCEPT ![w] = j] /\ cpPc' = [cpPc EXCEPT ![w] = "check"]
    <3>1. /\ cpHand'[w] = j /\ cpPc'[w] = "check" /\ cpReq'[j] = "over"
          /\ \A v \in CopyWorker \ {w} : cpHand'[v] = cpHand[v] /\ cpPc'[v] = cpPc[v]
          /\ \A k \in CopyJob \ {j} : cpReq'[k] = cpReq[k]
      BY <2>3
    <3>2. RowsAsked'
      BY <3>1 DEF RowsAsked
    <3>3. UNCHANGED <<cpKind, cpScope, cpStatus>>
      OBVIOUS
    <3> QED BY <2>1, <3>1, <3>2, <3>3 DEF RowsHeld
  <2> QED BY <2>2, <2>3
<1>3. NoneAhead'
  BY DEF NoneAhead
<1>4. BehindIsServed'
  <2>1. \A k \in CopyJob, h \in CopyHost : Serves(k, h) => Serves(k, h)'
    BY DEF Serves, Hosts
  <2> QED BY <2>1 DEF BehindIsServed
<1>5. EndFollows'
  BY DEF RowsAsked, RowsHeld, EndFollows, StartsDirect
<1> QED BY <1>1, <1>2, <1>3, <1>4, <1>5

LEMMA StartCopyKeeps ==
  ASSUME CopyInv, NEW w \in CopyWorker, StartCopy(w)
  PROVE  CopyInv'
<1> USE CopyAssumption DEF CopyInv, CopyTypeOK, StartCopy,
      CpActive, cpData
<1>0. /\ cpHand[w] \in CopyJob /\ cpReq[cpHand[w]] = "over" /\ cpKind[cpHand[w]] # "none"
      /\ cpScope[cpHand[w]] # "none"
      /\ Hosts(cpScope[cpHand[w]]) \in SUBSET CopyHost
      /\ \A v \in CopyWorker \ {w} : cpHand[v] # cpHand[w]
  BY HostsTicked DEF RowsAsked, RowsHeld
<1>a. CASE CpActive(cpHand[w])
  <2> DEFINE j == cpHand[w]
  <2>1. /\ cpStatus' \in [CopyJob -> {"none", "pending", "running", "success", "failed", "cancelled"}]
        /\ \A k \in CopyJob \ {j} : cpStatus'[k] = cpStatus[k]
        /\ cpStatus'[j] = "running"
    BY <1>a, <1>0, CopyStatusWritten
  <2>2. /\ cpPc' = [cpPc EXCEPT ![w] = "copy"] /\ cpSeen' = [cpSeen EXCEPT ![w] = hostV]
        /\ UNCHANGED <<cpHand, cpCut>>
    BY <1>a
  <2>3. CopyTypeOK'
    <3>1. cpSeen' \in [CopyWorker -> [CopyHost -> 0 .. MaxVersion]]
      BY <2>2
    <3> QED BY <2>1, <2>2, <3>1
  <2>4. RowsAsked' /\ RowsHeld'
    BY <1>0, <1>a, <2>1, <2>2 DEF RowsAsked, RowsHeld
  <2>5. cpSeen'[w] = hostV /\ \A v \in CopyWorker \ {w} : cpSeen'[v] = cpSeen[v]
    BY <2>2
  <2>6. NoneAhead'
    BY <2>5 DEF NoneAhead
  <2>7. \A k \in CopyJob, h \in CopyHost : Serves(k, h) => Serves(k, h)'
    BY <2>1, <2>2, <2>5, <1>a, <1>0 DEF Serves, Hosts
  <2>8. BehindIsServed'
    BY <2>7 DEF BehindIsServed
  <2>9. EndFollows'
    BY <1>0, <2>1, <2>2 DEF EndFollows, StartsDirect
  <2> QED BY <2>3, <2>4, <2>6, <2>8, <2>9
<1>b. CASE ~CpActive(cpHand[w])
  <2>1. /\ cpHand' \in [CopyWorker -> CopyJob \union {NoCopy}]
        /\ cpPc' \in [CopyWorker -> {"idle", "check", "copy", "after"}]
        /\ cpSeen' \in [CopyWorker -> [CopyHost -> 0 .. MaxVersion]]
        /\ cpHand'[w] = NoCopy /\ cpPc'[w] = "idle" /\ cpSeen'[w] = NoVersions
        /\ \A v \in CopyWorker \ {w} : cpHand'[v] = cpHand[v] /\ cpPc'[v] = cpPc[v] /\ cpSeen'[v] = cpSeen[v]
        /\ cpCut' = cpCut \union {cpHand[w]} /\ UNCHANGED cpStatus
    BY <1>b, EndsWork
  <2>2. CopyTypeOK'
    BY <2>1, <1>0
  <2>3. RowsAsked' /\ RowsHeld'
    BY <1>0, <2>1 DEF RowsAsked, RowsHeld
  <2>4. NoneAhead'
    BY <2>1 DEF NoneAhead, NoVersions
  <2>5. \A k \in CopyJob, h \in CopyHost : Serves(k, h) => Serves(k, h)'
    BY <2>1 DEF Serves, Hosts
  <2>6. BehindIsServed'
    BY <2>5 DEF BehindIsServed
  <2>7. EndFollows'
    BY <1>0, <2>1 DEF EndFollows, StartsDirect
  <2> QED BY <2>2, <2>3, <2>4, <2>6, <2>7
<1> QED BY <1>a, <1>b

LEMMA CopyReturnsKeeps ==
  ASSUME CopyInv, NEW w \in CopyWorker, CopyReturns(w)
  PROVE  CopyInv'
<1> USE CopyAssumption DEF CopyInv, CopyTypeOK, CopyReturns,
      CpActive, Newer
<1>0. /\ cpHand[w] \in CopyJob /\ cpReq[cpHand[w]] = "over" /\ cpKind[cpHand[w]] # "none"
      /\ cpScope[cpHand[w]] # "none"
      /\ Hosts(cpScope[cpHand[w]]) \in SUBSET CopyHost
      /\ \A v \in CopyWorker \ {w} : cpHand[v] # cpHand[w]
  BY HostsTicked DEF RowsAsked, RowsHeld
<1> DEFINE j == cpHand[w]
<1>a. \E new \in {"success", "failed"} : CopyStatus(j, new)
  OBVIOUS
<1>b. /\ cpStatus' \in [CopyJob -> {"none", "pending", "running", "success", "failed", "cancelled"}]
      /\ \A k \in CopyJob \ {j} : cpStatus'[k] = cpStatus[k]
      /\ cpStatus'[j] \notin {"none", "pending"}
      /\ cpStatus[j] = "cancelled" => cpStatus'[j] = "cancelled"
  BY <1>a, <1>0, CopyStatusWritten
<1>c. \/ cpLost' = cpLost /\ destV' = IF cpKind[j] = "folder"
              THEN [h \in CopyHost |-> IF h \in Hosts(cpScope[j])
                                       THEN (IF destV[h] < cpSeen[w][h] THEN cpSeen[w][h] ELSE destV[h])
                                       ELSE destV[h]]
              ELSE destV
      \/ cpLost' = cpLost \union Hosts(cpScope[j]) /\ destV' = destV
  OBVIOUS
<1>d. /\ cpPc' = [cpPc EXCEPT ![w] = "after"]
      /\ UNCHANGED <<cpReq, cpKind, cpScope, cpKnown, cpStop, cpHand, cpSeen, hostV, cpFaults,
                     cpFollowed, cpCut>>
  OBVIOUS
<1>f. cpSeen[w] \in [CopyHost -> 0 .. MaxVersion]
  OBVIOUS
<1>1. CopyTypeOK'
  <2>1. destV' \in [CopyHost -> 0 .. MaxVersion] /\ cpLost' \in SUBSET CopyHost
    BY <1>0, <1>c, <1>f
  <2> QED BY <2>1, <1>b, <1>d
<1>2. RowsAsked' /\ RowsHeld'
  <2>1. RowsAsked'
    BY <1>0, <1>b, <1>d DEF RowsAsked
  <2>2. cpPc'[w] = "after" /\ \A v \in CopyWorker \ {w} : cpPc'[v] = cpPc[v]
    BY <1>d
  <2>3. ASSUME NEW v \in CopyWorker, v # w, cpPc[v] # "idle"
        PROVE  cpStatus'[cpHand[v]] = cpStatus[cpHand[v]]
    BY <1>0, <1>b, <2>3 DEF RowsHeld
  <2> QED BY <1>0, <1>b, <1>d, <2>1, <2>2, <2>3 DEF RowsHeld
<1>3. NoneAhead'
  <2>1. \A h \in CopyHost : destV'[h] <= hostV[h]
    BY <1>c, <1>f DEF NoneAhead
  <2> QED BY <2>1, <1>d DEF NoneAhead
<1>4. BehindIsServed'
  <2> SUFFICES ASSUME NEW h \in CopyHost \ cpLost', destV'[h] # hostV'[h]
               PROVE  \E k \in CopyJob : Serves(k, h)'
    BY DEF BehindIsServed
  <2>1. h \notin cpLost /\ destV[h] # hostV[h]
    <3>1. h \notin cpLost
      BY <1>c
    <3>2. destV[h] = hostV[h] => destV'[h] = hostV[h]
      BY <1>c, <1>f DEF NoneAhead
    <3> QED BY <3>1, <3>2, <1>d
  <2>2. PICK k \in CopyJob : Serves(k, h)
    BY <2>1 DEF BehindIsServed
  <2>3. k # j
    <3> SUFFICES ASSUME k = j PROVE FALSE
      OBVIOUS
    <3>1. cpSeen[w][h] = hostV[h] /\ cpKind[j] = "folder" /\ h \in Hosts(cpScope[j])
      BY <2>2 DEF Serves
    <3>2. h \in CopyHost /\ destV[h] < hostV[h] /\ h \notin cpLost'
      <4>1. destV[h] <= hostV[h] /\ destV[h] # hostV[h] /\ destV[h] \in Int /\ hostV[h] \in Int
        BY <2>1 DEF NoneAhead
      <4> HIDE DEF CopyInv, CopyTypeOK, CopyReturns
      <4> QED BY <4>1
    <3>3. destV'[h] = IF destV[h] < cpSeen[w][h] THEN cpSeen[w][h] ELSE destV[h]
      BY <3>1, <3>2, <1>c
    <3> QED BY <3>1, <3>2, <3>3, <1>d
  <2>4. Serves(k, h)'
    BY <2>2, <2>3, <1>b, <1>d DEF Serves, Hosts
  <2> QED BY <2>4
<1>5. EndFollows'
  BY <1>0, <1>b, <1>d DEF EndFollows, StartsDirect
<1> QED BY <1>1, <1>2, <1>3, <1>4, <1>5

LEMMA FinishCopyKeeps ==
  ASSUME CopyInv, NEW w \in CopyWorker, FinishCopy(w)
  PROVE  CopyInv'
<1> USE CopyAssumption DEF CopyInv, CopyTypeOK, FinishCopy,
      CpActive, StartsDirect, cpData
<1>0. /\ cpHand[w] \in CopyJob /\ cpReq[cpHand[w]] = "over" /\ cpKind[cpHand[w]] # "none"
      /\ cpScope[cpHand[w]] # "none"
      /\ Hosts(cpScope[cpHand[w]]) \in SUBSET CopyHost
      /\ \A v \in CopyWorker \ {w} : cpHand[v] # cpHand[w]
  BY HostsTicked DEF RowsAsked, RowsHeld
<1>a. /\ cpHand' \in [CopyWorker -> CopyJob \union {NoCopy}]
      /\ cpPc' \in [CopyWorker -> {"idle", "check", "copy", "after"}]
      /\ cpSeen' \in [CopyWorker -> [CopyHost -> 0 .. MaxVersion]]
      /\ cpHand'[w] = NoCopy /\ cpPc'[w] = "idle" /\ cpSeen'[w] = NoVersions
      /\ \A v \in CopyWorker \ {w} : cpHand'[v] = cpHand[v] /\ cpPc'[v] = cpPc[v] /\ cpSeen'[v] = cpSeen[v]
  BY EndsWork
<1>b. /\ cpFollowed \subseteq cpFollowed' /\ cpFollowed' \in SUBSET CopyJob
      /\ cpReq' \in [CopyJob -> {"new", "decided", "inserted", "sent", "over"}]
      /\ cpKind' \in [CopyJob -> {"none", "folder", "direct"}]
      /\ cpScope' \in [CopyJob -> CopyHost \union {"none", "all"}]
      /\ \A k \in CopyJob :
           \/ cpReq'[k] = cpReq[k] /\ cpKind'[k] = cpKind[k] /\ cpScope'[k] = cpScope[k]
           \/ /\ cpReq[k] = "new"
              /\ cpReq'[k] = "decided" /\ cpKind'[k] = "direct" /\ cpScope'[k] = "all"
      /\ StartsDirect(cpHand[w]) /\ cpStatus[cpHand[w]] # "cancelled" => cpHand[w] \in cpFollowed'
  <2>1. CASE StartsDirect(cpHand[w]) /\ cpStatus[cpHand[w]] # "cancelled" /\ Follow(cpHand[w])
    BY <2>1, <1>0, FollowTakes
  <2>2. CASE UNCHANGED <<cpReq, cpKind, cpScope, cpFollowed>> /\ (~StartsDirect(cpHand[w]) \/ cpStatus[cpHand[w]] = "cancelled")
    BY <2>2
  <2> QED BY <2>1, <2>2
<1>e. UNCHANGED <<cpStatus, cpKnown, cpStop, cpData, cpFaults, cpLost, cpCut>>
  OBVIOUS
<1> HIDE DEF FinishCopy, StartsDirect
<1>1. CopyTypeOK'
  BY <1>a, <1>b, <1>e
<1>2. RowsAsked' /\ RowsHeld'
  <2>1. RowsAsked'
    BY <1>0, <1>a, <1>b, <1>e DEF RowsAsked
  <2>2. ASSUME NEW v \in CopyWorker, v # w, cpPc[v] # "idle"
        PROVE  /\ cpReq'[cpHand[v]] = "over" /\ cpKind'[cpHand[v]] = cpKind[cpHand[v]]
               /\ cpScope'[cpHand[v]] = cpScope[cpHand[v]] /\ cpStatus'[cpHand[v]] = cpStatus[cpHand[v]]
               /\ \A u \in CopyWorker : cpHand'[u] = cpHand[v] => u = v
    BY <1>0, <1>a, <1>b, <1>e, <2>2 DEF RowsHeld
  <2>3. \A v \in CopyWorker \ {w} : cpHand'[v] = cpHand[v] /\ cpPc'[v] = cpPc[v]
    BY <1>a
  <2> QED BY <1>a, <2>1, <2>2, <2>3 DEF RowsHeld
<1>3. NoneAhead'
  BY <1>a, <1>e DEF NoneAhead, NoVersions
<1>4. BehindIsServed'
  <2>1. ASSUME NEW k \in CopyJob, NEW h \in CopyHost, Serves(k, h)
        PROVE  Serves(k, h)'
    <3>1. cpReq[k] # "new"
      BY <2>1 DEF Serves, RowsAsked
    <3>2. cpReq'[k] = cpReq[k] /\ cpKind'[k] = cpKind[k] /\ cpScope'[k] = cpScope[k]
      BY <3>1, <1>b
    <3>3. \A v \in CopyWorker : cpHand'[v] = k /\ cpPc'[v] = "copy" =>
            v # w /\ cpHand[v] = k /\ cpPc[v] = "copy" /\ cpSeen'[v] = cpSeen[v]
      BY <1>a
    <3> QED BY <3>2, <3>3, <1>e, <2>1 DEF Serves, Hosts
  <2> QED BY <2>1, <1>e DEF BehindIsServed
<1>5. EndFollows'
  BY <1>0, <1>a, <1>b, <1>e DEF RowsAsked, RowsHeld, EndFollows, StartsDirect
<1> QED BY <1>1, <1>2, <1>3, <1>4, <1>5

LEMMA CopyTerminatedKeeps ==
  ASSUME CopyInv, NEW w \in CopyWorker, CopyTerminated(w)
  PROVE  CopyInv'
<1> USE CopyAssumption DEF CopyInv, CopyTypeOK, CopyTerminated,
      CpActive, cpData
<1>0. /\ cpHand[w] \in CopyJob /\ cpReq[cpHand[w]] = "over" /\ cpKind[cpHand[w]] # "none"
      /\ cpScope[cpHand[w]] # "none"
      /\ Hosts(cpScope[cpHand[w]]) \in SUBSET CopyHost
      /\ \A v \in CopyWorker \ {w} : cpHand[v] # cpHand[w]
  BY HostsTicked DEF RowsAsked, RowsHeld
<1>a. CASE cpPc[w] = "copy" /\ cpPc' = [cpPc EXCEPT ![w] = "after"] /\ UNCHANGED <<cpHand, cpSeen>>
  <2>1. CopyTypeOK'
    BY <1>0, <1>a
  <2>2. RowsAsked' /\ RowsHeld' /\ NoneAhead' /\ EndFollows'
    BY <1>0, <1>a DEF RowsAsked, RowsHeld, NoneAhead, EndFollows, StartsDirect
  <2>3. \A k \in CopyJob, h \in CopyHost : Serves(k, h) => Serves(k, h)'
    BY <1>a DEF Serves, Hosts
  <2>4. BehindIsServed'
    BY <2>3, <1>a DEF BehindIsServed
  <2> QED BY <2>1, <2>2, <2>4
<1>b. CASE CopyEnds(w)
  <2>1. /\ cpHand' \in [CopyWorker -> CopyJob \union {NoCopy}]
        /\ cpPc' \in [CopyWorker -> {"idle", "check", "copy", "after"}]
        /\ cpSeen' \in [CopyWorker -> [CopyHost -> 0 .. MaxVersion]]
        /\ cpHand'[w] = NoCopy /\ cpPc'[w] = "idle" /\ cpSeen'[w] = NoVersions
        /\ \A v \in CopyWorker \ {w} : cpHand'[v] = cpHand[v] /\ cpPc'[v] = cpPc[v] /\ cpSeen'[v] = cpSeen[v]
    BY <1>b, EndsWork
  <2>2. CopyTypeOK'
    BY <1>0, <2>1
  <2>3. RowsAsked' /\ RowsHeld' /\ EndFollows'
    BY <1>0, <2>1 DEF RowsAsked, RowsHeld, EndFollows, StartsDirect
  <2>4. NoneAhead'
    BY <2>1 DEF NoneAhead, NoVersions
  <2>5. \A k \in CopyJob, h \in CopyHost : Serves(k, h) => Serves(k, h)'
    BY <2>1 DEF Serves, Hosts
  <2>6. BehindIsServed'
    BY <2>5 DEF BehindIsServed
  <2> QED BY <2>2, <2>3, <2>4, <2>6
<1> QED BY <1>a, <1>b

LEMMA CopyChildDiesKeeps ==
  ASSUME CopyInv, NEW w \in CopyWorker, CopyChildDies(w)
  PROVE  CopyInv'
<1> USE CopyAssumption DEF CopyInv, CopyTypeOK, CopyChildDies,
      CpActive, StartsDirect, CopyFault, cpData
<1>0. /\ cpHand[w] \in CopyJob /\ cpReq[cpHand[w]] = "over" /\ cpKind[cpHand[w]] # "none"
      /\ cpScope[cpHand[w]] # "none"
      /\ Hosts(cpScope[cpHand[w]]) \in SUBSET CopyHost
      /\ \A v \in CopyWorker \ {w} : cpHand[v] # cpHand[w]
  BY HostsTicked DEF RowsAsked, RowsHeld
<1>a. /\ cpHand' \in [CopyWorker -> CopyJob \union {NoCopy}]
      /\ cpPc' \in [CopyWorker -> {"idle", "check", "copy", "after"}]
      /\ cpSeen' \in [CopyWorker -> [CopyHost -> 0 .. MaxVersion]]
      /\ cpHand'[w] = NoCopy /\ cpPc'[w] = "idle" /\ cpSeen'[w] = NoVersions
      /\ \A v \in CopyWorker \ {w} : cpHand'[v] = cpHand[v] /\ cpPc'[v] = cpPc[v] /\ cpSeen'[v] = cpSeen[v]
  BY EndsWork
<1>b. /\ cpFollowed \subseteq cpFollowed' /\ cpFollowed' \in SUBSET CopyJob
      /\ cpReq' \in [CopyJob -> {"new", "decided", "inserted", "sent", "over"}]
      /\ cpKind' \in [CopyJob -> {"none", "folder", "direct"}]
      /\ cpScope' \in [CopyJob -> CopyHost \union {"none", "all"}]
      /\ \A k \in CopyJob :
           \/ cpReq'[k] = cpReq[k] /\ cpKind'[k] = cpKind[k] /\ cpScope'[k] = cpScope[k]
           \/ /\ cpReq[k] = "new"
              /\ cpReq'[k] = "decided" /\ cpKind'[k] = "direct" /\ cpScope'[k] = "all"
      /\ \/ StartsDirect(cpHand[w]) => cpHand[w] \in cpFollowed'
         \/ cpHand[w] \in cpCut'
  <2>1. CASE CpActive(cpHand[w]) /\ StartsDirect(cpHand[w]) /\ Follow(cpHand[w])
    BY <2>1, <1>0, FollowTakes
  <2>2. CASE ~CpActive(cpHand[w]) \/ ~StartsDirect(cpHand[w])
    BY <2>2, <1>0
  <2> QED BY <2>1, <2>2
<1>c. /\ \A k \in CopyJob \ {cpHand[w]} : cpStatus'[k] = cpStatus[k]
      /\ cpStatus'[cpHand[w]] = IF CpActive(cpHand[w]) THEN "failed" ELSE cpStatus[cpHand[w]]
      /\ cpStatus' \in [CopyJob -> {"none", "pending", "running", "success", "failed", "cancelled"}]
      /\ cpLost \subseteq cpLost' /\ cpLost' \in SUBSET CopyHost
      /\ CpActive(cpHand[w]) => Hosts(cpScope[cpHand[w]]) \subseteq cpLost'
      /\ cpCut \subseteq cpCut' /\ cpCut' \in SUBSET CopyJob
  BY <1>0
<1>d. UNCHANGED <<cpKnown, cpStop, cpData>> /\ cpFaults' \in 0 .. MaxCopyFaults
  OBVIOUS
<1> HIDE DEF CopyChildDies, CopyFault, StartsDirect
<1>1. CopyTypeOK'
  BY <1>a, <1>b, <1>c, <1>d
<1>2. RowsAsked' /\ RowsHeld'
  <2>1. RowsAsked'
    BY <1>0, <1>a, <1>b, <1>c, <1>d DEF RowsAsked
  <2>2. ASSUME NEW v \in CopyWorker, v # w, cpPc[v] # "idle"
        PROVE  /\ cpReq'[cpHand[v]] = "over" /\ cpKind'[cpHand[v]] = cpKind[cpHand[v]]
               /\ cpScope'[cpHand[v]] = cpScope[cpHand[v]] /\ cpStatus'[cpHand[v]] = cpStatus[cpHand[v]]
               /\ \A u \in CopyWorker : cpHand'[u] = cpHand[v] => u = v
    BY <1>0, <1>a, <1>b, <1>c, <1>d, <2>2 DEF RowsHeld
  <2>3. \A v \in CopyWorker \ {w} : cpHand'[v] = cpHand[v] /\ cpPc'[v] = cpPc[v]
    BY <1>a
  <2> QED BY <1>a, <2>1, <2>2, <2>3 DEF RowsHeld
<1>3. NoneAhead'
  BY <1>a, <1>d DEF NoneAhead, NoVersions
<1>4. BehindIsServed'
  <2>1. ASSUME NEW k \in CopyJob, NEW h \in CopyHost \ cpLost', Serves(k, h)
        PROVE  Serves(k, h)'
    <3>1. CASE k = cpHand[w]
      BY <1>0, <1>b, <1>c, <2>1, <3>1 DEF Serves
    <3>2. CASE k # cpHand[w]
      <4>1. cpReq[k] # "new"
        BY <2>1 DEF Serves, RowsAsked
      <4> QED BY <4>1, <1>a, <1>b, <1>c, <1>d, <2>1, <3>2 DEF Serves, Hosts
    <3> QED BY <3>1, <3>2
  <2> QED BY <2>1, <1>c, <1>d DEF BehindIsServed
<1>5. EndFollows'
  BY <1>0, <1>a, <1>b, <1>c DEF RowsAsked, RowsHeld, EndFollows, StartsDirect
<1> QED BY <1>1, <1>2, <1>3, <1>4, <1>5

LEMMA CopyWorkerDiesKeeps ==
  ASSUME CopyInv, NEW w \in CopyWorker, CopyWorkerDies(w)
  PROVE  CopyInv'
<1> USE CopyAssumption DEF CopyInv, CopyTypeOK, CopyWorkerDies,
      CpActive, CopyFault, CopyEnds, NoVersions, cpData
<1>0. /\ cpHand[w] \in CopyJob /\ cpReq[cpHand[w]] = "over" /\ cpKind[cpHand[w]] # "none"
      /\ cpScope[cpHand[w]] # "none"
      /\ Hosts(cpScope[cpHand[w]]) \in SUBSET CopyHost
      /\ \A v \in CopyWorker \ {w} : cpHand[v] # cpHand[w]
  BY HostsTicked DEF RowsAsked, RowsHeld
<1>1. CopyTypeOK'
  BY <1>0
<1>2. RowsAsked' /\ RowsHeld'
  BY <1>0 DEF RowsAsked, RowsHeld
<1>3. NoneAhead'
  BY <1>0 DEF NoneAhead
<1>4. BehindIsServed'
  BY <1>0 DEF RowsAsked, RowsHeld, NoneAhead, BehindIsServed, Serves, Hosts
<1>5. EndFollows'
  BY <1>0 DEF RowsAsked, RowsHeld, EndFollows, StartsDirect
<1> QED BY <1>1, <1>2, <1>3, <1>4, <1>5

LEMMA WebRestartsKeeps ==
  ASSUME CopyInv, WebRestarts
  PROVE  CopyInv'
<1> USE CopyAssumption DEF CopyInv, CopyTypeOK, WebRestarts,
      CpActive, CopyFault, cpWork, cpData
<1>0. \A j \in CopyJob : cpReq[j] \in {"decided", "inserted"} \/ CpActive(j) =>
        Hosts(cpScope[j]) \in SUBSET CopyHost
  BY HostsTicked
<1>1. CopyTypeOK'
  BY <1>0
<1>2. RowsAsked' /\ RowsHeld'
  BY <1>0 DEF RowsAsked, RowsHeld
<1>3. NoneAhead'
  BY <1>0 DEF NoneAhead
<1>4. BehindIsServed'
  BY <1>0 DEF RowsAsked, RowsHeld, NoneAhead, BehindIsServed, Serves, Hosts
<1>5. EndFollows'
  BY <1>0 DEF RowsAsked, RowsHeld, EndFollows, StartsDirect
<1> QED BY <1>1, <1>2, <1>3, <1>4, <1>5

LEMMA CopyInvStep == CopyInv /\ [CopyNext]_copyVars => CopyInv'
<1> SUFFICES ASSUME CopyInv, [CopyNext]_copyVars PROVE CopyInv'
  OBVIOUS
<1>1. ASSUME NEW j \in CopyJob,
             \/ AskAll(j) \/ InsertCopy(j) \/ SendCopy(j) \/ KeepCopyTask(j)
             \/ CancelCopyReads(j) \/ CancelCopyWrites(j) \/ ReconcileCopy(j)
      PROVE  CopyInv'
  BY <1>1, AskAllKeeps, InsertCopyKeeps, SendCopyKeeps, KeepCopyTaskKeeps, CancelCopyReadsKeeps,
     CancelCopyWritesKeeps, ReconcileCopyKeeps
<1>2. ASSUME NEW j \in CopyJob,
             \/ \E h \in CopyHost : HostBackedUp(h, j)
             \/ \E w \in CopyWorker : TakeCopy(w, j)
      PROVE  CopyInv'
  BY <1>2, HostBackedUpKeeps, TakeCopyKeeps
<1>3. ASSUME NEW w \in CopyWorker,
             CopyStep(w) \/ CopyTerminated(w) \/ CopyChildDies(w) \/ CopyWorkerDies(w)
      PROVE  CopyInv'
  BY <1>3, StartCopyKeeps, CopyReturnsKeeps, FinishCopyKeeps, CopyTerminatedKeeps, CopyChildDiesKeeps,
     CopyWorkerDiesKeeps DEF CopyStep
<1>4. CASE UNCHANGED copyVars
  BY <1>4 DEF copyVars, CopyInv, CopyTypeOK, RowsAsked, RowsHeld, NoneAhead, BehindIsServed, Serves,
     Hosts, CpActive, EndFollows, StartsDirect
<1> QED BY <1>1, <1>2, <1>3, <1>4, WebRestartsKeeps DEF CopyNext

\* The variables of the copies stay in their sets.
THEOREM CopyTypes == CopySpec => []CopyTypeOK
BY CopyInit0, CopyInvStep, PTL DEF CopySpec, CopyInv

\* Once every row is settled the destination has the last backup of every host, but for
\* those whose request found a copy that would not serve it and those whose copy failed
\* or was cancelled (enqueue, execute, enqueue_direct_followup).
THEOREM SettledIsCopied == CopySpec => []SettledMeansCopied
<1>1. CopyInv => SettledMeansCopied
  BY DEF CopyInv, BehindIsServed, Serves, SettledMeansCopied
<1> QED BY <1>1, CopyInit0, CopyInvStep, PTL DEF CopySpec

\* Every folder hop of a full copy that came to its own end has led to a direct hop.
THEOREM DirectHopFollows == CopySpec => []DirectFollowsFolder
<1>1. CopyInv => DirectFollowsFolder
  BY DEF CopyInv, EndFollows, DirectFollowsFolder
<1> QED BY <1>1, CopyInit0, CopyInvStep, PTL DEF CopySpec
------------------------------------------------------------------------------
(***************************************************************************)
(* PiHerder's own backups for any number of rows, workers, archives to     *)
(* keep and faults. A row is published once and taken once, so its archive *)
(* is begun once. As long as requests do not overlap and no row is settled *)
(* in a worker's hands, one row at most is active, so no second worker     *)
(* writes or prunes: a file is only cut off at the moment it is written,   *)
(* and pruning, which keeps the newest, never leaves the folder without a  *)
(* whole one.                                                              *)
(***************************************************************************)

\* A row that is not published has no message and no worker; a published one has one message
\* or one worker at most, and no archive is begun before a worker has taken it.
OneCopy ==
  /\ \A j \in SelfJob : sbSent[j] \in {0, 1}
  /\ \A j \in SelfJob : sbReq[j] \in {"new", "looked", "inserted"} => sbSent[j] = 0
  /\ \A w \in SelfWorker : sbPc[w] # "idle" =>
       /\ sbHand[w] \in SelfJob
       /\ sbReq[sbHand[w]] \in {"sent", "over"}
       /\ sbSent[sbHand[w]] = 0
  /\ \A v, w \in SelfWorker : sbPc[v] # "idle" /\ sbPc[w] # "idle" /\ sbHand[v] = sbHand[w] => v = w
  /\ \A w \in SelfWorker : sbPc[w] = "idle" => sbHand[w] = NoSelf
  /\ \A w \in SelfWorker : sbPc[w] # "finish" => ~sbOk[w]

\* A row with a run is past pending, and has a file only then.
BegunOnce ==
  /\ \A j \in SelfJob : sbRuns[j] \in {0, 1}
  /\ \A j \in SelfJob : sbReq[j] \in {"new", "looked"} => sbStatus[j] = "none" /\ sbStop[j] = "no"
  /\ \A j \in SelfJob : sbStatus[j] \in {"none", "pending"} => sbRuns[j] = 0
  /\ \A w \in SelfWorker : sbPc[w] = "start" => sbRuns[sbHand[w]] = 0
  /\ \A j \in SelfJob : sbRuns[j] = 0 => sbFile[j] = "none"
  /\ \A w \in SelfWorker : sbPc[w] \in {"dump", "write", "finish"} => sbRuns[sbHand[w]] = 1
  /\ \A w \in SelfWorker : sbPc[w] = "dump" => sbFile[sbHand[w]] = "none"

\* Unless requests looked at once or a row was settled in a worker's hands ...
RowFollows ==
  ~sbLoose =>
    /\ \A i, j \in SelfJob : (SbActive(i) \/ sbReq[i] = "looked") /\ (SbActive(j) \/ sbReq[j] = "looked")
         => i = j
    /\ \A w \in SelfWorker : sbPc[w] = "start" => sbStatus[sbHand[w]] = "pending"
    /\ \A w \in SelfWorker : sbPc[w] \in {"dump", "write", "finish"} => sbStatus[sbHand[w]] = "running"

\* ... one file at most is being written, and the newest is kept.
WholeStays ==
  ~sbLoose =>
    /\ \A j \in SelfJob : sbFile[j] = "writing" => \E w \in SelfWorker : sbPc[w] = "write" /\ sbHand[w] = j
    /\ \A w \in SelfWorker : sbPc[w] = "write" => sbFile[sbHand[w]] = "writing"
    /\ \A w \in SelfWorker : sbPc[w] = "finish" /\ sbOk[w] => \E j \in SelfJob : sbFile[j] = "whole"
    /\ (\E j \in SelfJob : sbStatus[j] = "success") => \E j \in SelfJob : sbFile[j] = "whole"

SelfInv == SelfTypeOK /\ OneCopy /\ BegunOnce /\ RowFollows /\ WholeStays
LEMMA SelfInit0 == SelfInit => SelfInv
<1> SUFFICES ASSUME SelfInit PROVE SelfInv
  OBVIOUS
<1> USE SelfAssumption DEF SelfInit
<1>1. /\ sbKnown \in [SelfJob -> BOOLEAN] /\ sbWatch \in [SelfJob -> BOOLEAN]
      /\ sbOk \in [SelfWorker -> BOOLEAN] /\ sbLoose \in BOOLEAN
  BY Zenon
<1>2. SelfTypeOK
  BY <1>1 DEF SelfTypeOK
<1>3. OneCopy /\ BegunOnce
  BY DEF OneCopy, BegunOnce
<1>4. RowFollows /\ WholeStays
  BY DEF RowFollows, WholeStays, SbActive
<1> QED BY <1>2, <1>3, <1>4 DEF SelfInv

\* A worker that is busy has a row, and nobody else has it.
LEMMA SelfBusy ==
  ASSUME SelfInv, NEW w \in SelfWorker, sbPc[w] # "idle"
  PROVE  /\ sbHand[w] \in SelfJob
         /\ \A v \in SelfWorker \ {w} : sbPc[v] # "idle" => sbHand[v] # sbHand[w]
BY DEF SelfInv, OneCopy

\* A prune that leaves a file leaves one that all others are known to be older than.
LEMMA NewestStays ==
  ASSUME NEW files \in SUBSET SelfJob, NEW older, NEW stay \in Newest(files, older),
         NEW j \in files, \A i \in files \ {j} : <<i, j>> \in older
  PROVE  j \in stay
<1>1. IsFiniteSet(files)
  BY SelfAssumption, FS_Subset
<1>2. Cardinality(files) \in Nat /\ Cardinality(files) # 0
  BY <1>1, FS_CardinalityType, FS_EmptySet
<1>3. Cardinality(stay) # 0
  BY <1>2, SelfAssumption DEF Newest
<1>4. PICK i \in stay : TRUE
  BY <1>3, FS_EmptySet
<1> QED BY <1>4 DEF Newest

LEMMA SelfLookKeeps ==
  ASSUME SelfInv, NEW j \in SelfJob, SelfLook(j)
  PROVE  SelfInv'
<1> USE SelfAssumption DEF SelfInv, SelfTypeOK, SelfLook,
      SbActive, sbTask, sbFolder
<1>1. SelfTypeOK'
  <2>1. sbLoose' \in BOOLEAN
    BY Zenon
  <2> QED BY <2>1
<1>2. OneCopy'
  BY DEF OneCopy
<1>3. BegunOnce'
  BY DEF OneCopy, BegunOnce
<1>4. RowFollows'
  <2>1. \A i \in SelfJob : ~SbActive(i)
    BY DEF ActiveSelfBackup
  <2>2. ~sbLoose' => ~sbLoose /\ \A i \in SelfJob : sbReq[i] # "looked"
    OBVIOUS
  <2>3. \A i \in SelfJob : sbStatus'[i] = sbStatus[i] /\ (sbReq'[i] = "looked" => i = j \/ sbReq[i] = "looked")
    OBVIOUS
  <2> QED BY <2>1, <2>2, <2>3 DEF RowFollows
<1>5. WholeStays'
  BY DEF OneCopy, BegunOnce, RowFollows, WholeStays
<1> QED BY <1>1, <1>2, <1>3, <1>4, <1>5

LEMMA SelfInsertKeeps ==
  ASSUME SelfInv, NEW j \in SelfJob, SelfInsert(j)
  PROVE  SelfInv'
<1> USE SelfAssumption DEF SelfInv, SelfTypeOK, SelfInsert,
      SbActive, sbTask, sbFolder
<1>1. SelfTypeOK'
  OBVIOUS
<1>2. OneCopy'
  BY DEF OneCopy
<1>3. BegunOnce'
  BY DEF OneCopy, BegunOnce
<1>4. RowFollows'
  BY DEF OneCopy, BegunOnce, RowFollows
<1>5. WholeStays'
  BY DEF OneCopy, BegunOnce, RowFollows, WholeStays
<1> QED BY <1>1, <1>2, <1>3, <1>4, <1>5

LEMMA SelfPublishKeeps ==
  ASSUME SelfInv, NEW j \in SelfJob, SelfPublish(j)
  PROVE  SelfInv'
<1> USE SelfAssumption DEF SelfInv, SelfTypeOK, SelfPublish,
      SbActive, SbFault, SbSettle, sbTask, sbFolder
<1>1. SelfTypeOK'
  OBVIOUS
<1>2. OneCopy'
  BY DEF OneCopy
<1>3. BegunOnce'
  BY DEF OneCopy, BegunOnce
<1>4. RowFollows'
  BY DEF OneCopy, BegunOnce, RowFollows
<1>5. WholeStays'
  BY DEF OneCopy, BegunOnce, RowFollows, WholeStays
<1> QED BY <1>1, <1>2, <1>3, <1>4, <1>5

LEMMA SelfKeepTaskIdKeeps ==
  ASSUME SelfInv, NEW j \in SelfJob, SelfKeepTaskId(j)
  PROVE  SelfInv'
<1> USE SelfAssumption DEF SelfInv, SelfTypeOK, SelfKeepTaskId,
      SbActive, sbTask, sbFolder
<1>1. SelfTypeOK'
  <2>1. sbKnown' \in [SelfJob -> BOOLEAN]
    BY Zenon
  <2> QED BY <2>1
<1>2. OneCopy'
  BY DEF OneCopy
<1>3. BegunOnce'
  BY DEF OneCopy, BegunOnce
<1>4. RowFollows'
  BY DEF OneCopy, BegunOnce, RowFollows
<1>5. WholeStays'
  BY DEF OneCopy, BegunOnce, RowFollows, WholeStays
<1> QED BY <1>1, <1>2, <1>3, <1>4, <1>5

LEMMA WatchReadsKeeps ==
  ASSUME SelfInv, NEW j \in SelfJob, WatchReads(j)
  PROVE  SelfInv'
<1> USE SelfAssumption DEF SelfInv, SelfTypeOK, WatchReads,
      SbActive, sbRequest, sbTask, sbFolder
<1>1. SelfTypeOK'
  <2>1. sbWatch' \in [SelfJob -> BOOLEAN]
    BY Zenon
  <2> QED BY <2>1
<1>2. OneCopy'
  BY DEF OneCopy
<1>3. BegunOnce'
  BY DEF OneCopy, BegunOnce
<1>4. RowFollows'
  BY DEF OneCopy, BegunOnce, RowFollows
<1>5. WholeStays'
  BY DEF OneCopy, BegunOnce, RowFollows, WholeStays
<1> QED BY <1>1, <1>2, <1>3, <1>4, <1>5

LEMMA WatchFailsKeeps ==
  ASSUME SelfInv, NEW j \in SelfJob, WatchFails(j)
  PROVE  SelfInv'
<1> USE SelfAssumption DEF SelfInv, SelfTypeOK, WatchFails,
      SbActive, SbHeld, SbSettle, sbRequest, sbTask, sbFolder
<1>1. SelfTypeOK'
  <2>1. sbWatch' \in [SelfJob -> BOOLEAN]
    BY Zenon
  <2>2. sbLoose' \in BOOLEAN
    BY Zenon
  <2> QED BY <2>1, <2>2
<1>2. OneCopy'
  BY DEF OneCopy
<1>3. BegunOnce'
  BY DEF OneCopy, BegunOnce
<1>4. RowFollows'
  BY DEF OneCopy, BegunOnce, RowFollows
<1>5. WholeStays'
  BY DEF OneCopy, BegunOnce, RowFollows, WholeStays
<1> QED BY <1>1, <1>2, <1>3, <1>4, <1>5

LEMMA SelfCancelReadsKeeps ==
  ASSUME SelfInv, NEW j \in SelfJob, SelfCancelReads(j)
  PROVE  SelfInv'
<1> USE SelfAssumption DEF SelfInv, SelfTypeOK, SelfCancelReads,
      SbActive, SbFault, sbRequest, sbTask, sbFolder
<1>1. SelfTypeOK'
  OBVIOUS
<1>2. OneCopy'
  BY DEF OneCopy
<1>3. BegunOnce'
  BY DEF OneCopy, BegunOnce
<1>4. RowFollows'
  BY DEF OneCopy, BegunOnce, RowFollows
<1>5. WholeStays'
  BY DEF OneCopy, BegunOnce, RowFollows, WholeStays
<1> QED BY <1>1, <1>2, <1>3, <1>4, <1>5

LEMMA SelfCancelWritesKeeps ==
  ASSUME SelfInv, NEW j \in SelfJob, SelfCancelWrites(j)
  PROVE  SelfInv'
<1> USE SelfAssumption DEF SelfInv, SelfTypeOK, SelfCancelWrites,
      SbActive, SbHeld, sbRequest, sbTask, sbFolder
<1>1. SelfTypeOK'
  <2>1. sbLoose' \in BOOLEAN
    BY Zenon
  <2> QED BY <2>1
<1>2. OneCopy'
  BY DEF OneCopy
<1>3. BegunOnce'
  BY DEF OneCopy, BegunOnce
<1>4. RowFollows'
  <2>1. ~sbLoose' => ~sbLoose /\ \A w \in SelfWorker : sbHand[w] # j
    OBVIOUS
  <2>2. /\ \A i \in SelfJob \ {j} : sbStatus'[i] = sbStatus[i]
        /\ sbStatus'[j] = "cancelled"
    OBVIOUS
  <2>3. \A w \in SelfWorker : sbPc[w] # "idle" => sbHand[w] \in SelfJob
    BY DEF OneCopy
  <2> QED BY <2>1, <2>2, <2>3 DEF RowFollows
<1>5. WholeStays'
  BY DEF OneCopy, BegunOnce, RowFollows, WholeStays
<1> QED BY <1>1, <1>2, <1>3, <1>4, <1>5

LEMMA SelfSweepKeeps ==
  ASSUME SelfInv, NEW j \in SelfJob, SelfSweep(j)
  PROVE  SelfInv'
<1> USE SelfAssumption DEF SelfInv, SelfTypeOK, SelfSweep,
      SbActive, SbHeld, SbFault, sbRequest, sbTask, sbFolder
<1>1. SelfTypeOK'
  <2>1. sbLoose' \in BOOLEAN
    BY Zenon
  <2> QED BY <2>1
<1>2. OneCopy'
  BY DEF OneCopy
<1>3. BegunOnce'
  BY DEF OneCopy, BegunOnce
<1>4. RowFollows'
  BY DEF OneCopy, BegunOnce, RowFollows
<1>5. WholeStays'
  BY DEF OneCopy, BegunOnce, RowFollows, WholeStays
<1> QED BY <1>1, <1>2, <1>3, <1>4, <1>5

LEMMA SelfTakeKeeps ==
  ASSUME SelfInv, NEW w \in SelfWorker, NEW j \in SelfJob, SelfTake(w, j)
  PROVE  SelfInv'
<1> USE SelfAssumption DEF SelfInv, SelfTypeOK, SelfTake,
      SbActive, sbRequest, sbFolder
<1>1. SelfTypeOK'
  OBVIOUS
<1>2. OneCopy'
  BY DEF OneCopy
<1>3. BegunOnce'
  BY DEF OneCopy, BegunOnce
<1>4. RowFollows'
  BY DEF OneCopy, BegunOnce, RowFollows
<1>5. WholeStays'
  BY DEF OneCopy, BegunOnce, RowFollows, WholeStays
<1> QED BY <1>1, <1>2, <1>3, <1>4, <1>5

LEMMA SelfCheckKeeps ==
  ASSUME SelfInv, NEW w \in SelfWorker, SelfCheck(w)
  PROVE  SelfInv'
<1> USE SelfAssumption DEF SelfInv, SelfTypeOK, SelfCheck,
      SbActive, SbGoto, SbSettle, SbEndTask, sbFolder
<1>0. /\ sbHand[w] \in SelfJob
      /\ \A v \in SelfWorker \ {w} : sbPc[v] # "idle" => sbHand[v] # sbHand[w]
  BY SelfBusy
<1>1. SelfTypeOK'
  <2>1. sbKnown' \in [SelfJob -> BOOLEAN]
    BY Zenon
  <2>2. sbOk' \in [SelfWorker -> BOOLEAN]
    BY Zenon
  <2> QED BY <2>1, <2>2
<1>2. OneCopy'
  BY DEF OneCopy
<1>3. BegunOnce'
  BY DEF OneCopy, BegunOnce
<1>4. RowFollows'
  BY DEF OneCopy, BegunOnce, RowFollows
<1>5. WholeStays'
  BY DEF OneCopy, BegunOnce, RowFollows, WholeStays
<1> QED BY <1>1, <1>2, <1>3, <1>4, <1>5

LEMMA SelfStartKeeps ==
  ASSUME SelfInv, NEW w \in SelfWorker, SelfStart(w)
  PROVE  SelfInv'
<1> USE SelfAssumption DEF SelfInv, SelfTypeOK, SelfStart,
      SbActive, SbGoto, sbRequest, sbFolder
<1>0. /\ sbHand[w] \in SelfJob
      /\ \A v \in SelfWorker \ {w} : sbPc[v] # "idle" => sbHand[v] # sbHand[w]
  BY SelfBusy
<1>1. SelfTypeOK'
  BY <1>0
<1>2. OneCopy'
  BY DEF OneCopy
<1>3. BegunOnce'
  BY DEF OneCopy, BegunOnce
<1>4. RowFollows'
  BY DEF OneCopy, BegunOnce, RowFollows
<1>5. WholeStays'
  BY DEF OneCopy, BegunOnce, RowFollows, WholeStays
<1> QED BY <1>1, <1>2, <1>3, <1>4, <1>5

LEMMA SelfDumpedKeeps ==
  ASSUME SelfInv, NEW w \in SelfWorker, SelfDumped(w)
  PROVE  SelfInv'
<1> USE SelfAssumption DEF SelfInv, SelfTypeOK, SelfDumped,
      SbActive, SbGoto, sbRequest, sbFolder
<1>0. /\ sbHand[w] \in SelfJob
      /\ \A v \in SelfWorker \ {w} : sbPc[v] # "idle" => sbHand[v] # sbHand[w]
  BY SelfBusy
<1>1. SelfTypeOK'
  BY <1>0
<1>2. OneCopy'
  BY DEF OneCopy
<1>3. BegunOnce'
  BY DEF OneCopy, BegunOnce
<1>4. RowFollows'
  BY DEF OneCopy, BegunOnce, RowFollows
<1>5. WholeStays'
  <2>1. CASE sbPc' = [sbPc EXCEPT ![w] = "finish"] /\ sbFile' = sbFile
    BY <1>0, <2>1 DEF OneCopy, BegunOnce, RowFollows, WholeStays
  <2>2. CASE sbPc' = [sbPc EXCEPT ![w] = "write"] /\ sbFile' = [sbFile EXCEPT ![sbHand[w]] = "writing"]
    <3>1. sbFile[sbHand[w]] = "none" /\ \A i \in SelfJob \ {sbHand[w]} : sbFile'[i] = sbFile[i]
      BY <1>0, <2>2 DEF BegunOnce
    <3>2. \A v \in SelfWorker \ {w} : sbPc'[v] = sbPc[v]
      BY <2>2
    <3>3. /\ \A i \in SelfJob : sbFile'[i] = "writing" =>
               \E v \in SelfWorker : sbPc'[v] = "write" /\ sbHand'[v] = i
          /\ \A v \in SelfWorker : sbPc'[v] = "write" /\ ~sbLoose => sbFile'[sbHand'[v]] = "writing"
          \/ sbLoose
      BY <1>0, <2>2, <3>1, <3>2 DEF WholeStays, OneCopy
    <3>4. \A i \in SelfJob : sbFile[i] = "whole" => sbFile'[i] = "whole"
      BY <3>1
    <3> QED BY <2>2, <3>2, <3>3, <3>4 DEF WholeStays
  <2> QED BY <2>1, <2>2
<1> QED BY <1>1, <1>2, <1>3, <1>4, <1>5

LEMMA SelfWrittenKeeps ==
  ASSUME SelfInv, NEW w \in SelfWorker, SelfWritten(w)
  PROVE  SelfInv'
<1> USE SelfAssumption DEF SelfInv, SelfTypeOK, SelfWritten,
      SbActive, LeavesFile, sbRequest
<1>0. /\ sbHand[w] \in SelfJob
      /\ \A v \in SelfWorker \ {w} : sbPc[v] # "idle" => sbHand[v] # sbHand[w]
  BY SelfBusy
<1>a. CASE LeavesFile(w) /\ UNCHANGED sbOk
  <2>1. SelfTypeOK'
    BY <1>a, <1>0
  <2>2. OneCopy' /\ BegunOnce' /\ RowFollows' /\ WholeStays'
    BY <1>a, <1>0 DEF OneCopy, BegunOnce, RowFollows, WholeStays
  <2> QED BY <2>1, <2>2
<1>b. CASE ~(LeavesFile(w) /\ UNCHANGED sbOk)
  <2> DEFINE j     == sbHand[w]
             files == {i \in SelfJob : SbPresent(i)}
             older == sbOlder \union ({i \in SelfJob : SbClosed(i)} \X {j})
  <2>1. PICK stay \in Newest(files, older) :
          /\ sbFile' = [i \in SelfJob |-> IF i \in files \ stay THEN "gone"
                                          ELSE IF i \in stay /\ i = j THEN "whole" ELSE sbFile[i]]
          /\ sbOlder' = older \intersect (stay \X stay)
          /\ sbOk' = [sbOk EXCEPT ![w] = TRUE]
    BY <1>b
  <2>2. stay \subseteq files /\ files \subseteq SelfJob
    BY DEF Newest
  <2>3. SelfTypeOK'
    <3>1. sbOk' \in [SelfWorker -> BOOLEAN]
      BY <2>1, Zenon
    <3>2. sbFile' \in [SelfJob -> {"none", "writing", "whole", "broken", "gone"}]
      BY <2>1
    <3>3. sbOlder' \in SUBSET (SelfJob \X SelfJob)
      BY <2>1, <2>2, <1>0
    <3> QED BY <3>1, <3>2, <3>3
  <2>4. OneCopy' /\ RowFollows'
    BY DEF OneCopy, RowFollows
  <2>5. BegunOnce'
    <3>1. \A i \in SelfJob : sbFile[i] = "none" /\ i # j => sbFile'[i] = "none"
      BY <2>1, <2>2 DEF SbPresent
    <3>2. \A i \in SelfJob : sbRuns[i] = 0 => sbFile'[i] = "none"
      BY <3>1 DEF BegunOnce
    <3>3. \A v \in SelfWorker : sbPc'[v] = "dump" => v # w /\ sbPc[v] = "dump"
      OBVIOUS
    <3>4. \A v \in SelfWorker : sbPc'[v] = "dump" => sbFile'[sbHand'[v]] = "none"
      BY <3>1, <3>3, <1>0 DEF BegunOnce, OneCopy
    <3> QED BY <3>2, <3>4 DEF BegunOnce
  <2>6. WholeStays'
    <3> SUFFICES ASSUME ~sbLoose PROVE WholeStays'
      BY DEF WholeStays
    <3>1. sbFile[j] = "writing" /\ j \in files
      BY <1>0 DEF WholeStays, SbPresent
    <3>2. \A i \in files \ {j} : SbClosed(i)
      BY <1>0 DEF SbPresent, SbClosed, WholeStays, RowFollows, OneCopy
    <3>3. j \in stay
      <4>1. \A i \in files \ {j} : <<i, j>> \in older
        BY <3>2
      <4> HIDE DEF files, older, j
      <4> QED BY <4>1, <3>1, <2>2, NewestStays
    <3>4. sbFile'[j] = "whole" /\ \A i \in SelfJob : sbFile'[i] # "writing"
      BY <2>1, <3>1, <3>2, <3>3, <1>0 DEF SbPresent, SbClosed
    <3>5. \A v \in SelfWorker : sbPc'[v] # "write"
      BY <1>0 DEF RowFollows, OneCopy
    <3> QED BY <3>4, <3>5, <1>0 DEF WholeStays
  <2> QED BY <2>3, <2>4, <2>5, <2>6
<1> QED BY <1>a, <1>b

LEMMA SelfFinishKeeps ==
  ASSUME SelfInv, NEW w \in SelfWorker, SelfFinish(w)
  PROVE  SelfInv'
<1> USE SelfAssumption DEF SelfInv, SelfTypeOK, SelfFinish,
      SbActive, SbSettle, SbEndTask, sbRequest, sbFolder
<1>0. /\ sbHand[w] \in SelfJob
      /\ \A v \in SelfWorker \ {w} : sbPc[v] # "idle" => sbHand[v] # sbHand[w]
  BY SelfBusy
<1>1. SelfTypeOK'
  <2>1. sbOk' \in [SelfWorker -> BOOLEAN]
    BY Zenon
  <2> QED BY <2>1
<1>2. OneCopy'
  BY DEF OneCopy
<1>3. BegunOnce'
  BY DEF OneCopy, BegunOnce
<1>4. RowFollows'
  BY DEF OneCopy, BegunOnce, RowFollows
<1>5. WholeStays'
  BY DEF OneCopy, BegunOnce, RowFollows, WholeStays
<1> QED BY <1>1, <1>2, <1>3, <1>4, <1>5

LEMMA SelfTerminatedKeeps ==
  ASSUME SelfInv, NEW w \in SelfWorker, SelfTerminated(w)
  PROVE  SelfInv'
<1> USE SelfAssumption DEF SelfInv, SelfTypeOK, SelfTerminated,
      SbActive, SbEndTask, LeavesFile, sbRequest
<1>0. /\ sbHand[w] \in SelfJob
      /\ \A v \in SelfWorker \ {w} : sbPc[v] # "idle" => sbHand[v] # sbHand[w]
  BY SelfBusy
<1>1. SelfTypeOK'
  <2>1. sbOk' \in [SelfWorker -> BOOLEAN]
    BY Zenon
  <2> QED BY <2>1, <1>0
<1>2. OneCopy'
  BY DEF OneCopy
<1>3. BegunOnce'
  BY DEF OneCopy, BegunOnce
<1>4. RowFollows'
  BY DEF OneCopy, BegunOnce, RowFollows
<1>5. WholeStays'
  BY DEF OneCopy, BegunOnce, RowFollows, WholeStays
<1> QED BY <1>1, <1>2, <1>3, <1>4, <1>5

LEMMA SelfChildDiesKeeps ==
  ASSUME SelfInv, NEW w \in SelfWorker, SelfChildDies(w)
  PROVE  SelfInv'
<1> USE SelfAssumption DEF SelfInv, SelfTypeOK, SelfChildDies,
      SbActive, SbFault, SbSettle, SbEndTask, LeavesFile, sbRequest
<1>0. /\ sbHand[w] \in SelfJob
      /\ \A v \in SelfWorker \ {w} : sbPc[v] # "idle" => sbHand[v] # sbHand[w]
  BY SelfBusy
<1>1. SelfTypeOK'
  <2>1. sbOk' \in [SelfWorker -> BOOLEAN]
    BY Zenon
  <2> QED BY <2>1, <1>0
<1>2. OneCopy'
  BY DEF OneCopy
<1>3. BegunOnce'
  BY DEF OneCopy, BegunOnce
<1>4. RowFollows'
  BY DEF OneCopy, BegunOnce, RowFollows
<1>5. WholeStays'
  BY DEF OneCopy, BegunOnce, RowFollows, WholeStays
<1> QED BY <1>1, <1>2, <1>3, <1>4, <1>5

LEMMA SelfWorkerDiesKeeps ==
  ASSUME SelfInv, NEW w \in SelfWorker, SelfWorkerDies(w)
  PROVE  SelfInv'
<1> USE SelfAssumption DEF SelfInv, SelfTypeOK, SelfWorkerDies,
      SbActive, SbFault, SbEndTask, LeavesFile, sbRequest
<1>0. /\ sbHand[w] \in SelfJob
      /\ \A v \in SelfWorker \ {w} : sbPc[v] # "idle" => sbHand[v] # sbHand[w]
  BY SelfBusy
<1>1. SelfTypeOK'
  <2>1. sbOk' \in [SelfWorker -> BOOLEAN]
    BY Zenon
  <2> QED BY <2>1, <1>0
<1>2. OneCopy'
  BY DEF OneCopy
<1>3. BegunOnce'
  BY DEF OneCopy, BegunOnce
<1>4. RowFollows'
  BY DEF OneCopy, BegunOnce, RowFollows
<1>5. WholeStays'
  BY DEF OneCopy, BegunOnce, RowFollows, WholeStays
<1> QED BY <1>1, <1>2, <1>3, <1>4, <1>5

LEMMA SelfStep == SelfInv /\ [SelfNext]_selfVars => SelfInv'
<1> SUFFICES ASSUME SelfInv, [SelfNext]_selfVars PROVE SelfInv'
  OBVIOUS
<1>1. ASSUME NEW j \in SelfJob,
             \/ SelfLook(j) \/ SelfInsert(j) \/ SelfPublish(j) \/ SelfKeepTaskId(j)
             \/ WatchReads(j) \/ WatchFails(j) \/ SelfCancelReads(j) \/ SelfCancelWrites(j)
             \/ SelfSweep(j)
      PROVE  SelfInv'
  BY <1>1, SelfLookKeeps, SelfInsertKeeps, SelfPublishKeeps, SelfKeepTaskIdKeeps, WatchReadsKeeps,
     WatchFailsKeeps, SelfCancelReadsKeeps, SelfCancelWritesKeeps, SelfSweepKeeps
<1>2. ASSUME NEW w \in SelfWorker, NEW j \in SelfJob, SelfTake(w, j)
      PROVE  SelfInv'
  BY <1>2, SelfTakeKeeps
<1>3. ASSUME NEW w \in SelfWorker,
             \/ SelfCheck(w) \/ SelfStart(w) \/ SelfDumped(w) \/ SelfWritten(w) \/ SelfFinish(w)
             \/ SelfTerminated(w) \/ SelfChildDies(w) \/ SelfWorkerDies(w)
      PROVE  SelfInv'
  BY <1>3, SelfCheckKeeps, SelfStartKeeps, SelfDumpedKeeps, SelfWrittenKeeps, SelfFinishKeeps,
     SelfTerminatedKeeps, SelfChildDiesKeeps, SelfWorkerDiesKeeps
<1>4. CASE UNCHANGED selfVars
  BY <1>4 DEF selfVars, SelfInv, SelfTypeOK, OneCopy, BegunOnce, RowFollows, WholeStays, SbActive,
     sbRequest, sbTask, sbFolder
<1> QED BY <1>1, <1>2, <1>3, <1>4 DEF SelfNext

\* The variables of PiHerder's own backups stay in their sets.
THEOREM SelfTypes == SelfSpec => []SelfTypeOK
BY SelfInit0, SelfStep, PTL DEF SelfSpec, SelfInv

\* One archive at a time, and a success leaves a whole archive in the folder, whatever is
\* cancelled, killed or pruned, unless two requests looked at once or a row was settled in a
\* worker's hands (create_herder_backup, prune_old_backups).
THEOREM SelfBackupIsKept == SelfSpec => []SelfBackupKept
<1>1. SelfInv => SelfBackupKept
  BY DEF SelfInv, OneCopy, RowFollows, WholeStays, SelfBackupKept, SbActive
<1> QED BY <1>1, SelfInit0, SelfStep, PTL DEF SelfSpec

\* An archive is begun once for a row (run_housekeeping_job).
THEOREM SelfArchivedOnce == SelfSpec => []ArchivedOnce
<1>1. SelfInv => ArchivedOnce
  BY DEF SelfInv, BegunOnce, ArchivedOnce
<1> QED BY <1>1, SelfInit0, SelfStep, PTL DEF SelfSpec
------------------------------------------------------------------------------
(***************************************************************************)
(* Backups as rows: what backup_server does to a row is what JobRow        *)
(* promises.  A worker has the row in hand from the moment it read it as   *)
(* active; its outcome may replace that of a sweep or another worker's,    *)
(* for _update_job_status never reopens a row and keeps a cancel.          *)
(***************************************************************************)
BackupInHand  == [w \in BackupWorker |-> IF bkPc[w] \in {"idle", "check"} THEN NoBackup ELSE bkHand[w]]
BackupOut     == {j \in BackupJob : bkReq[j] \in {"sent", "over"}}
BackupCancels == {j \in BackupJob : bkStop[j] # "no"}

BackupRows == INSTANCE JobRowProofs WITH
  Row <- BackupJob, RowWorker <- BackupWorker, NoRow <- NoBackup, Reopens <- FALSE, Rewrites <- TRUE,
  row <- bkStatus, out <- BackupOut, hand <- BackupInHand, cancels <- BackupCancels

\* A row is in from the insert on, and nobody has its message before it was sent.
BackupRowsIn ==
  \A j \in BackupJob :
    /\ bkReq[j] \in {"inserted", "sent", "over"} => bkStatus[j] # "none"
    /\ bkReq[j] \in {"new", "checked", "inserted"} => bkSent[j] = 0 /\ \A w \in BackupWorker : bkHand[w] # j

LEMMA BackupRowsInStep ==
  ASSUME BackupInv, BackupRowsIn, [BackupNext]_backupVars
  PROVE  BackupRowsIn'
<1> USE BackupAssumption DEF BackupInv, BackupTypeOK, BackupRowsIn, reqSide, sideVars
<1>1. ASSUME NEW k \in BackupJob, CheckRequest(k) \/ InsertRow(k) \/ Send(k) \/ KeepTaskId(k)
      PROVE  BackupRowsIn'
  BY <1>1 DEF CheckRequest, InsertRow, Send, KeepTaskId
<1>2. ASSUME NEW k \in BackupJob, CancelReads(k) \/ CancelWrites(k) \/ SweepFails(k)
      PROVE  BackupRowsIn'
  BY <1>2 DEF CancelReads, CancelWrites, SweepFails
<1>3. ASSUME NEW w \in BackupWorker, NEW k \in BackupJob, TakeTask(w, k)
      PROVE  BackupRowsIn'
  BY <1>3 DEF TakeTask
<1>4. ASSUME NEW w \in BackupWorker, WorkerStep(w)
      PROVE  BackupRowsIn'
  <2>1. bkHand[w] \in BackupJob /\ bkReq' = bkReq
    BY <1>4, BusyWorker
    DEF WorkerStep, CheckRow, TryLock, StartRun, RunReturns, RecordRun, SettleAlert, RunRaised
  <2>2. \A v \in BackupWorker : bkHand'[v] \in {bkHand[v], NoBackup}
    BY <1>4
    DEF WorkerStep, CheckRow, TryLock, StartRun, RunReturns, RecordRun, SettleAlert, RunRaised, EndTask, Goto
  <2>3. \A k \in BackupJob : bkSent'[k] = bkSent[k] \/ k = bkHand[w]
    BY <1>4
    DEF WorkerStep, CheckRow, TryLock, StartRun, RunReturns, RecordRun, SettleAlert, RunRaised
  <2>4. \A k \in BackupJob : bkStatus[k] # "none" => bkStatus'[k] # "none"
    BY <1>4, <2>1
    DEF WorkerStep, CheckRow, TryLock, StartRun, RunReturns, RecordRun, SettleAlert, RunRaised, WriteStatus,
        AlertFollows
  <2> QED BY <2>1, <2>2, <2>3, <2>4
<1>5. ASSUME NEW w \in BackupWorker, Terminated(w) \/ ChildDies(w) \/ WorkerDies(w)
      PROVE  BackupRowsIn'
  BY <1>5, BusyWorker DEF Terminated, ChildDies, WorkerDies, DropHand, EndTask
<1>6. CASE LockExpires \/ StrayEnds \/ UNCHANGED backupVars
  BY <1>6 DEF LockExpires, StrayEnds, backupVars
<1> QED BY <1>1, <1>2, <1>3, <1>4, <1>5, <1>6 DEF BackupNext

\* Ending a task lets go of the row, if it was in hand.
LEMMA BackupLetGo ==
  ASSUME BackupInv, NEW w \in BackupWorker,
         bkPc' = [bkPc EXCEPT ![w] = "idle"], bkHand' = [bkHand EXCEPT ![w] = NoBackup]
  PROVE  BackupInHand' = [BackupInHand EXCEPT ![w] = NoBackup]
BY DEF BackupInv, BackupTypeOK, BackupInHand

\* A worker goes on: what it has in hand stays.
LEMMA BackupGoesOn ==
  ASSUME BackupInv, NEW w \in BackupWorker, NEW l \in {"start", "rsync", "record", "alert", "raised"},
         bkPc[w] \notin {"idle", "check"}, bkPc' = [bkPc EXCEPT ![w] = l], bkHand' = bkHand
  PROVE  BackupInHand' = BackupInHand
BY DEF BackupInv, BackupTypeOK, BackupInHand

\* _update_job_status as a write of the worker, or none.
LEMMA BackupWrites ==
  ASSUME BackupInv, BackupRowsIn, NEW w \in BackupWorker, bkPc[w] \notin {"idle", "check"},
         NEW new \in {"pending", "running", "success", "failed"}, WriteStatus(bkHand[w], new),
         BackupInHand' \in {BackupInHand, [BackupInHand EXCEPT ![w] = NoBackup]},
         UNCHANGED <<bkReq, bkStop>>
  PROVE  [BackupRows!RowNext]_BackupRows!rowVars
<1> DEFINE j == bkHand[w]
<1>1. j \in BackupJob /\ BackupInHand[w] = j /\ j # NoBackup
  BY BusyWorker, BackupAssumption DEF BackupInHand
<1>2. bkStatus[j] # "none"
  BY <1>1, BusyWorker DEF BackupInv, BackupTypeOK, BackupRowsIn
<1>3. UNCHANGED <<BackupOut, BackupCancels>>
  BY DEF BackupOut, BackupCancels
<1>4. CASE bkStatus' = bkStatus
  <2>1. CASE BackupInHand' = BackupInHand
    BY <1>3, <1>4, <2>1 DEF BackupRows!rowVars
  <2>2. CASE BackupInHand' = [BackupInHand EXCEPT ![w] = NoBackup]
    BY <1>1, <1>3, <1>4, <2>2 DEF BackupRows!LetGo, BackupRows!RowNext
  <2> QED BY <2>1, <2>2
<1>5. CASE bkStatus' = [bkStatus EXCEPT ![j] = new] /\ BackupRows!MayWrite(bkStatus[j], new)
  BY <1>1, <1>3, <1>5 DEF BackupRows!Write, BackupRows!RowNext
<1>6. bkStatus' = bkStatus \/ (bkStatus' = [bkStatus EXCEPT ![j] = new] /\ BackupRows!MayWrite(bkStatus[j], new))
  <2>1. CASE bkStatus[j] = "cancelled" \/ (bkStatus[j] \in {"success", "failed"} /\ new \in {"pending", "running"})
    BY <1>1, <2>1 DEF WriteStatus, BackupInv, BackupTypeOK
  <2>2. CASE ~(bkStatus[j] = "cancelled" \/ (bkStatus[j] \in {"success", "failed"} /\ new \in {"pending", "running"}))
    BY <1>1, <1>2, <2>2 DEF WriteStatus, BackupInv, BackupTypeOK, BackupRows!MayWrite
  <2> QED BY <2>1, <2>2
<1> QED BY <1>4, <1>5, <1>6

LEMMA BackupRowStep ==
  ASSUME BackupInv, BackupRowsIn, [BackupNext]_backupVars
  PROVE  [BackupRows!RowNext]_BackupRows!rowVars
<1> USE DEF BackupInv, BackupTypeOK
<1>1. ASSUME NEW j \in BackupJob, CheckRequest(j) \/ KeepTaskId(j)
      PROVE  UNCHANGED BackupRows!rowVars
  BY <1>1 DEF CheckRequest, KeepTaskId, sideVars, BackupRows!rowVars, BackupOut, BackupInHand, BackupCancels
<1>2. ASSUME NEW j \in BackupJob, InsertRow(j)
      PROVE  BackupRows!Enter(j)
  BY <1>2 DEF InsertRow, NotInserted, BackupRows!Enter, BackupOut, BackupInHand, BackupCancels
<1>3. ASSUME NEW j \in BackupJob, Send(j)
      PROVE  BackupRows!RowNext
  <2>1. bkStatus[j] # "none" /\ j \notin BackupOut /\ BackupOut' = BackupOut \union {j}
        /\ BackupInHand' = BackupInHand /\ BackupCancels' = BackupCancels
    BY <1>3 DEF Send, BackupRowsIn, BackupOut, BackupInHand, BackupCancels, sideVars
  <2>2. bkStatus' = bkStatus \/ bkStatus' = [bkStatus EXCEPT ![j] = "failed"]
    BY <1>3 DEF Send
  <2>3. BackupRows!EndRequests({j}, {}) \/ BackupRows!EndRequests({j}, {j})
    BY <2>1, <2>2 DEF BackupRows!EndRequests
  <2> QED BY <2>3 DEF BackupRows!RowNext
<1>4. ASSUME NEW w \in BackupWorker, NEW j \in BackupJob, TakeTask(w, j)
      PROVE  UNCHANGED BackupRows!rowVars
  BY <1>4 DEF TakeTask, reqSide, sideVars, BackupRows!rowVars, BackupOut, BackupInHand, BackupCancels
<1>5. ASSUME NEW w \in BackupWorker, CheckRow(w)
      PROVE  [BackupRows!RowNext]_BackupRows!rowVars
  <2>1. bkHand[w] \in BackupJob /\ UNCHANGED <<bkStatus, BackupOut, BackupCancels>>
    BY <1>5, BusyWorker DEF CheckRow, reqSide, BackupOut, BackupCancels
  <2>2. CASE BkActive(bkHand[w]) /\ Goto(w, "lock")
    <3>1. BackupInHand[w] = NoBackup /\ BackupInHand' = [BackupInHand EXCEPT ![w] = bkHand[w]]
      BY <1>5, <2>2 DEF CheckRow, Goto, BackupInHand
    <3>2. bkHand[w] \in BackupOut
      BY <1>5, <2>1, BusyWorker DEF CheckRow, BackupRowsIn, BackupOut
    <3>3. BackupRows!Pick(w, bkHand[w])
      BY <2>1, <2>2, <3>1, <3>2 DEF BackupRows!Pick, BackupRows!RowActive, BkActive
    <3> QED BY <2>1, <3>3 DEF BackupRows!RowNext
  <2>3. CASE EndTask(w)
    <3>1. BackupInHand' = BackupInHand
      BY <1>5, <2>3 DEF CheckRow, EndTask, BackupInHand
    <3> QED BY <2>1, <3>1 DEF BackupRows!rowVars
  <2> QED BY <1>5, <2>2, <2>3 DEF CheckRow
<1>6. ASSUME NEW w \in BackupWorker, bkPc[w] \notin {"idle", "check"}, UNCHANGED <<bkStatus, bkReq, bkStop>>,
             BackupInHand' \in {BackupInHand, [BackupInHand EXCEPT ![w] = NoBackup]}
      PROVE  [BackupRows!RowNext]_BackupRows!rowVars
  <2>1. BackupInHand[w] # NoBackup /\ UNCHANGED <<BackupOut, BackupCancels>>
    BY <1>6, BusyWorker, BackupAssumption DEF BackupInHand, BackupOut, BackupCancels
  <2>2. CASE BackupInHand' = BackupInHand
    BY <1>6, <2>1, <2>2 DEF BackupRows!rowVars
  <2>3. CASE BackupInHand' = [BackupInHand EXCEPT ![w] = NoBackup]
    BY <1>6, <2>1, <2>3 DEF BackupRows!LetGo, BackupRows!RowNext
  <2> QED BY <1>6, <2>2, <2>3
<1>7. ASSUME NEW w \in BackupWorker, TryLock(w) \/ StartRun(w) \/ RunReturns(w) \/ RecordRun(w) \/ SettleAlert(w) \/ RunRaised(w)
      PROVE  [BackupRows!RowNext]_BackupRows!rowVars
  <2>1. bkPc[w] \notin {"idle", "check"} /\ UNCHANGED <<bkReq, bkStop>>
    BY <1>7 DEF TryLock, StartRun, RunReturns, RecordRun, SettleAlert, RunRaised, reqSide
  <2>2. BackupInHand' \in {BackupInHand, [BackupInHand EXCEPT ![w] = NoBackup]}
    BY <1>7, <2>1, BackupLetGo, BackupGoesOn
    DEF TryLock, StartRun, RunReturns, RecordRun, SettleAlert, RunRaised, EndTask, Goto
  <2>3. UNCHANGED bkStatus \/ \E new \in {"pending", "running", "success", "failed"} : WriteStatus(bkHand[w], new)
    BY <1>7 DEF TryLock, StartRun, RunReturns, RecordRun, SettleAlert, RunRaised, AlertFollows
  <2> QED BY <1>6, <2>1, <2>2, <2>3, BackupWrites
<1>8. ASSUME NEW w \in BackupWorker, Terminated(w) \/ ChildDies(w) \/ WorkerDies(w)
      PROVE  [BackupRows!RowNext]_BackupRows!rowVars
  <2>1. BackupInHand' = [BackupInHand EXCEPT ![w] = NoBackup] /\ UNCHANGED <<bkStatus, bkReq, bkStop>>
    BY <1>8, BackupLetGo DEF Terminated, ChildDies, WorkerDies, EndTask, DropHand, reqSide
  <2>2. CASE bkPc[w] \in {"idle", "check"}
    BY <2>1, <2>2 DEF BackupRows!rowVars, BackupInHand, BackupOut, BackupCancels
  <2> QED BY <1>6, <2>1, <2>2
<1>9. ASSUME NEW j \in BackupJob, CancelReads(j)
      PROVE  BackupRows!CancelRead(j)
  BY <1>9 DEF CancelReads, BkActive, BackupRows!CancelRead, BackupRows!RowActive, BackupOut, BackupInHand, BackupCancels
<1>10. ASSUME NEW j \in BackupJob, CancelWrites(j)
       PROVE  BackupRows!CancelWrite(j)
  BY <1>10 DEF CancelWrites, reqSide, BackupRows!CancelWrite, BackupOut, BackupInHand, BackupCancels
<1>11. ASSUME NEW j \in BackupJob, SweepFails(j)
       PROVE  BackupRows!RowNext
  <2>1. BackupRows!EndRequests({}, {j})
    BY <1>11 DEF SweepFails, BkActive, reqSide, BackupRows!EndRequests, BackupRows!RowActive,
       BackupOut, BackupInHand, BackupCancels
  <2> QED BY <2>1 DEF BackupRows!RowNext
<1>12. CASE LockExpires \/ StrayEnds \/ UNCHANGED backupVars
  BY <1>12 DEF LockExpires, StrayEnds, backupVars, reqSide, BackupRows!rowVars, BackupOut, BackupInHand, BackupCancels
<1> QED
  BY <1>1, <1>2, <1>3, <1>4, <1>5, <1>7, <1>8, <1>9, <1>10, <1>11, <1>12
  DEF BackupNext, WorkerStep, BackupRows!RowNext

\* The rows of backups keep JobRow's promise: none is reopened, a cancel is final once the
\* request is over, and a success comes from a worker that took the row while it was active.
THEOREM BackupRowsKeepPromise == BackupSpec => BackupRows!RowSpec
<1>1. BackupInit => BackupRows!RowInit /\ BackupRowsIn
  BY BackupAssumption DEF BackupInit, BackupRows!RowInit, BackupOut, BackupInHand, BackupCancels, BackupRowsIn
<1> QED BY <1>1, BackupInit0, BackupStep, BackupRowsInStep, BackupRowStep, PTL DEF BackupSpec, BackupRows!RowSpec
------------------------------------------------------------------------------
(***************************************************************************)
(* Copies as rows: the worker sets the row running in the commit that      *)
(* reads it as active, and its outcome may replace that of a sweep.        *)
(***************************************************************************)
CopyInHand  == [w \in CopyWorker |-> IF cpPc[w] \in {"idle", "check"} THEN NoCopy ELSE cpHand[w]]
CopyOut     == {j \in CopyJob : cpStatus[j] # "none" /\ cpReq[j] \in {"sent", "over"}}
CopyCancels == {j \in CopyJob : cpStop[j] # "no"}

CopyRows == INSTANCE JobRowProofs WITH
  Row <- CopyJob, RowWorker <- CopyWorker, NoRow <- NoCopy, Reopens <- FALSE, Rewrites <- TRUE,
  row <- cpStatus, out <- CopyOut, hand <- CopyInHand, cancels <- CopyCancels

\* A row is in from the insert on, and a worker has none that is not in.
CopyRowsIn ==
  /\ \A j \in CopyJob : cpReq[j] \in {"inserted", "sent"} => cpStatus[j] # "none"
  /\ \A j \in CopyJob : cpReq[j] \in {"new", "decided"} => cpStatus[j] = "none"
  /\ \A w \in CopyWorker : cpPc[w] # "idle" => cpStatus[cpHand[w]] # "none"

\* Asking for a copy, or for the direct hop, touches rows that are new, ...
LEMMA AsksNew ==
  ASSUME CopyInv, NEW j \in CopyJob, NEW s \in CopyHost \union {"all"}, AskCopy(j, s) \/ Follow(j)
  PROVE  \A k \in CopyJob : cpReq'[k] = cpReq[k] \/ (cpReq[k] = "new" /\ cpReq'[k] \in {"decided", "over"})
BY DEF AskCopy, Follow, NewCopy, Decide, CopyInv, CopyTypeOK

\* ... and publishes none.
LEMMA NoneGoesOut ==
  ASSUME CopyInv, CopyRowsIn,
         \A k \in CopyJob : cpReq'[k] = cpReq[k] \/ (cpReq[k] = "new" /\ cpReq'[k] \in {"decided", "over"}),
         \A k \in CopyJob : (cpStatus'[k] = "none") = (cpStatus[k] = "none")
  PROVE  CopyOut' = CopyOut
BY DEF CopyRowsIn, CopyOut

LEMMA CopyRowsInStep ==
  ASSUME CopyInv, CopyRowsIn, [CopyNext]_copyVars
  PROVE  CopyRowsIn'
<1> USE CopyAssumption DEF CopyInv, CopyTypeOK, CopyRowsIn, cpWork
<1>1. ASSUME NEW j \in CopyJob, InsertCopy(j) \/ SendCopy(j) \/ KeepCopyTask(j) \/ CancelCopyReads(j)
      PROVE  CopyRowsIn'
  <2>1. \A w \in CopyWorker : cpPc[w] # "idle" => cpHand[w] \in CopyJob
    BY DEF RowsHeld
  <2>2. CASE InsertCopy(j)
    BY <2>1, <2>2 DEF InsertCopy
  <2>3. CASE SendCopy(j)
    BY <2>1, <2>3 DEF SendCopy
  <2>4. CASE KeepCopyTask(j) \/ CancelCopyReads(j)
    BY <2>4 DEF KeepCopyTask, CancelCopyReads
  <2> QED BY <1>1, <2>2, <2>3, <2>4
<1>2. ASSUME NEW j \in CopyJob, CancelCopyWrites(j) \/ ReconcileCopy(j)
      PROVE  CopyRowsIn'
  BY <1>2 DEF CancelCopyWrites, ReconcileCopy, RowsHeld, RowsAsked
<1>3. ASSUME NEW j \in CopyJob, NEW s \in CopyHost \union {"all"}, AskCopy(j, s),
             UNCHANGED <<cpStatus, cpPc, cpHand>>
      PROVE  CopyRowsIn'
  <2>1. \A k \in CopyJob : cpReq'[k] = cpReq[k] \/ (cpReq[k] = "new" /\ cpReq'[k] \in {"decided", "over"})
    BY <1>3, AsksNew
  <2> QED BY <1>3, <2>1
<1>4. ASSUME NEW w \in CopyWorker, NEW j \in CopyJob, TakeCopy(w, j)
      PROVE  CopyRowsIn'
  BY <1>4 DEF TakeCopy
<1>5. ASSUME NEW w \in CopyWorker, cpPc[w] # "idle", NEW st, CopyStatus(cpHand[w], st) \/ UNCHANGED cpStatus,
             st \in {"running", "success", "failed"},
             UNCHANGED cpReq, \A v \in CopyWorker : cpPc'[v] = "idle" \/ (cpPc[v] # "idle" /\ cpHand'[v] = cpHand[v])
      PROVE  CopyRowsIn'
  BY <1>5 DEF CopyStatus, RowsHeld
<1>6. ASSUME NEW w \in CopyWorker, StartCopy(w) \/ CopyReturns(w) \/ CopyTerminated(w) \/ CopyWorkerDies(w)
      PROVE  CopyRowsIn'
  <2>1. cpPc[w] # "idle" /\ UNCHANGED cpReq
        /\ \A v \in CopyWorker : cpPc'[v] = "idle" \/ (cpPc[v] # "idle" /\ cpHand'[v] = cpHand[v])
    BY <1>6 DEF StartCopy, CopyReturns, CopyTerminated, CopyWorkerDies, CopyEnds
  <2>2. UNCHANGED cpStatus \/ \E st \in {"running", "success", "failed"} : CopyStatus(cpHand[w], st)
    BY <1>6 DEF StartCopy, CopyReturns, CopyTerminated, CopyWorkerDies
  <2> QED BY <2>1, <2>2, <1>5
<1>7. ASSUME NEW w \in CopyWorker, FinishCopy(w) \/ CopyChildDies(w)
      PROVE  CopyRowsIn'
  <2>1. cpHand[w] \in CopyJob /\ cpPc[w] # "idle"
    BY <1>7 DEF FinishCopy, CopyChildDies, RowsHeld
  <2>2. \A v \in CopyWorker : cpPc'[v] = "idle" \/ (cpPc[v] # "idle" /\ cpHand'[v] = cpHand[v])
    BY <1>7 DEF FinishCopy, CopyChildDies, CopyEnds
  <2>3. \A k \in CopyJob : (cpStatus'[k] = "none") = (cpStatus[k] = "none")
    BY <1>7, <2>1 DEF FinishCopy, CopyChildDies
  <2>4. UNCHANGED cpReq \/ Follow(cpHand[w])
    BY <1>7 DEF FinishCopy, CopyChildDies
  <2>5. \A k \in CopyJob : cpReq'[k] = cpReq[k] \/ (cpReq[k] = "new" /\ cpReq'[k] \in {"decided", "over"})
    BY <2>1, <2>4, AsksNew
  <2>6. \A v \in CopyWorker : cpPc[v] # "idle" => cpHand[v] \in CopyJob
    BY DEF RowsHeld
  <2> HIDE DEF CopyInv, CopyTypeOK, cpWork
  <2> QED BY <2>2, <2>3, <2>5, <2>6 DEF CopyRowsIn
<1>8. CASE WebRestarts
  <2>1. \A k \in CopyJob : cpReq'[k] = cpReq[k] \/ cpReq'[k] = "over"
    BY <1>8 DEF WebRestarts
  <2>2. \A k \in CopyJob : (cpStatus'[k] = "none") = (cpStatus[k] = "none")
    BY <1>8 DEF WebRestarts, CpActive
  <2> QED BY <1>8, <2>1, <2>2 DEF WebRestarts, RowsHeld
<1>9. CASE UNCHANGED copyVars
  BY <1>9 DEF copyVars
<1>10. ASSUME NEW j \in CopyJob, AskAll(j)
       PROVE  CopyRowsIn'
  BY <1>10, <1>3 DEF AskAll
<1>11. ASSUME NEW h \in CopyHost, NEW j \in CopyJob, HostBackedUp(h, j)
       PROVE  CopyRowsIn'
  BY <1>11, <1>3 DEF HostBackedUp
<1> QED BY <1>1, <1>2, <1>4, <1>6, <1>7, <1>8, <1>9, <1>10, <1>11 DEF CopyNext, CopyStep

\* Ending a task lets go of the row, if it was in hand.
LEMMA CopyLetGo ==
  ASSUME CopyInv, NEW w \in CopyWorker, CopyEnds(w)
  PROVE  CopyInHand' = [CopyInHand EXCEPT ![w] = NoCopy]
BY DEF CopyInv, CopyTypeOK, CopyEnds, CopyInHand

\* _update_job_status writes what a worker with the row in hand may write, or nothing.
LEMMA CopyWrites ==
  ASSUME CopyInv, NEW j \in CopyJob, NEW new \in {"pending", "running", "success", "failed"},
         CopyStatus(j, new), cpStatus[j] # "none"
  PROVE  \/ UNCHANGED cpStatus
         \/ cpStatus' = [cpStatus EXCEPT ![j] = new] /\ CopyRows!MayWrite(cpStatus[j], new)
<1>1. CASE cpStatus[j] = "cancelled" \/ (cpStatus[j] \in {"success", "failed"} /\ new \in {"pending", "running"})
  BY <1>1 DEF CopyStatus, CopyInv, CopyTypeOK
<1>2. CASE ~(cpStatus[j] = "cancelled" \/ (cpStatus[j] \in {"success", "failed"} /\ new \in {"pending", "running"}))
  BY <1>2 DEF CopyStatus, CopyInv, CopyTypeOK, CopyRows!MayWrite
<1> QED BY <1>1, <1>2

LEMMA CopyRowStep ==
  ASSUME CopyInv, CopyRowsIn, [CopyNext]_copyVars
  PROVE  [CopyRows!RowNext]_CopyRows!rowVars
<1> USE DEF CopyInv, CopyTypeOK
<1>1. ASSUME NEW j \in CopyJob, NEW s \in CopyHost \union {"all"}, AskCopy(j, s),
             UNCHANGED <<cpStatus, cpStop, cpHand, cpPc>>
      PROVE  UNCHANGED CopyRows!rowVars
  <2>1. \A k \in CopyJob : cpReq'[k] = cpReq[k] \/ (cpReq[k] = "new" /\ cpReq'[k] \in {"decided", "over"})
    BY <1>1, AsksNew
  <2>2. CopyOut' = CopyOut
    BY <1>1, <2>1, NoneGoesOut
  <2> QED BY <1>1, <2>2 DEF CopyRows!rowVars, CopyInHand, CopyCancels
<1>2. ASSUME NEW j \in CopyJob, AskAll(j)
      PROVE  UNCHANGED CopyRows!rowVars
  BY <1>1, <1>2 DEF AskAll, cpWork
<1>3. ASSUME NEW h \in CopyHost, NEW j \in CopyJob, HostBackedUp(h, j)
      PROVE  UNCHANGED CopyRows!rowVars
  BY <1>1, <1>3 DEF HostBackedUp, cpWork
<1>4. ASSUME NEW j \in CopyJob, InsertCopy(j)
      PROVE  CopyRows!Enter(j)
  BY <1>4 DEF InsertCopy, CopyRowsIn, cpWork, CopyRows!Enter, CopyOut, CopyInHand, CopyCancels
<1>5. ASSUME NEW j \in CopyJob, SendCopy(j)
      PROVE  CopyRows!RowNext
  <2>1. cpStatus[j] # "none" /\ j \notin CopyOut /\ CopyOut' = CopyOut \union {j}
        /\ CopyInHand' = CopyInHand /\ CopyCancels' = CopyCancels
    BY <1>5 DEF SendCopy, CopyRowsIn, cpWork, CopyOut, CopyInHand, CopyCancels
  <2>2. cpStatus' = cpStatus \/ cpStatus' = [cpStatus EXCEPT ![j] = "failed"]
    BY <1>5 DEF SendCopy
  <2>3. CopyRows!EndRequests({j}, {}) \/ CopyRows!EndRequests({j}, {j})
    BY <2>1, <2>2 DEF CopyRows!EndRequests
  <2> QED BY <2>3 DEF CopyRows!RowNext
<1>6. ASSUME NEW j \in CopyJob, KeepCopyTask(j)
      PROVE  UNCHANGED CopyRows!rowVars
  BY <1>6 DEF KeepCopyTask, cpWork, CopyRows!rowVars, CopyOut, CopyInHand, CopyCancels
<1>7. ASSUME NEW j \in CopyJob, CancelCopyReads(j)
      PROVE  CopyRows!CancelRead(j)
  BY <1>7 DEF CancelCopyReads, CpActive, cpWork, CopyRows!CancelRead, CopyRows!RowActive, CopyOut, CopyInHand,
              CopyCancels
<1>8. ASSUME NEW j \in CopyJob, CancelCopyWrites(j)
      PROVE  CopyRows!CancelWrite(j)
  BY <1>8 DEF CancelCopyWrites, RowsAsked, cpWork, CopyRows!CancelWrite, CopyOut, CopyInHand, CopyCancels
<1>9. ASSUME NEW j \in CopyJob, ReconcileCopy(j)
      PROVE  CopyRows!RowNext
  <2>1. CopyRows!EndRequests({}, {j})
    BY <1>9 DEF ReconcileCopy, cpWork, CopyRows!EndRequests, CopyRows!RowActive, CopyOut, CopyInHand, CopyCancels
  <2> QED BY <2>1 DEF CopyRows!RowNext
<1>10. ASSUME NEW w \in CopyWorker, NEW j \in CopyJob, TakeCopy(w, j)
       PROVE  UNCHANGED CopyRows!rowVars
  BY <1>10 DEF TakeCopy, cpWork, CopyRows!rowVars, CopyOut, CopyInHand, CopyCancels
<1>11. ASSUME NEW w \in CopyWorker, cpPc[w] # "idle"
       PROVE  cpHand[w] \in CopyJob /\ cpHand[w] # NoCopy /\ cpStatus[cpHand[w]] # "none" /\ cpHand[w] \in CopyOut
  BY <1>11, CopyAssumption DEF RowsHeld, CopyRowsIn, CopyOut
<1>12. ASSUME NEW w \in CopyWorker, StartCopy(w)
       PROVE  [CopyRows!RowNext]_CopyRows!rowVars
  <2>1. CopyInHand[w] = NoCopy /\ CopyCancels' = CopyCancels
    BY <1>12 DEF StartCopy, CopyInHand, CopyCancels
  <2>2. CASE CpActive(cpHand[w])
    <3>1. cpStatus' = [cpStatus EXCEPT ![cpHand[w]] = "running"]
      BY <1>11, <1>12, <2>2 DEF StartCopy, CopyStatus, CpActive
    <3>2. CopyInHand' = [CopyInHand EXCEPT ![w] = cpHand[w]] /\ CopyOut' = CopyOut
      BY <1>11, <1>12, <2>2, <3>1 DEF StartCopy, CopyInHand, CopyOut, CpActive
    <3>3. CopyRows!Pick(w, cpHand[w])
      BY <1>11, <1>12, <2>1, <2>2, <3>1, <3>2 DEF StartCopy, CpActive, CopyRows!Pick, CopyRows!RowActive
    <3> QED BY <1>11, <1>12, <3>3 DEF StartCopy, CopyRows!RowNext
  <2>3. CASE ~CpActive(cpHand[w])
    <3>1. CopyInHand' = CopyInHand
      BY <1>12, <2>3 DEF StartCopy, CopyEnds, CopyInHand
    <3> QED BY <1>12, <2>1, <2>3, <3>1 DEF StartCopy, CopyOut, CopyRows!rowVars
  <2> QED BY <2>2, <2>3
<1>13. ASSUME NEW w \in CopyWorker, CopyReturns(w)
       PROVE  [CopyRows!RowNext]_CopyRows!rowVars
  <2>1. cpPc[w] = "copy" /\ CopyInHand' = CopyInHand /\ CopyInHand[w] = cpHand[w] /\ CopyCancels' = CopyCancels
    BY <1>13 DEF CopyReturns, CopyInHand, CopyCancels
  <2>2. PICK new \in {"success", "failed"} : CopyStatus(cpHand[w], new)
    BY <1>13 DEF CopyReturns
  <2>3. CopyOut' = CopyOut
    BY <1>11, <1>13, <2>1, <2>2 DEF CopyReturns, CopyStatus, CopyOut
  <2>4. CASE UNCHANGED cpStatus
    BY <2>1, <2>3, <2>4 DEF CopyRows!rowVars
  <2>5. CASE cpStatus' = [cpStatus EXCEPT ![cpHand[w]] = new] /\ CopyRows!MayWrite(cpStatus[cpHand[w]], new)
    <3>1. CopyRows!Write(w, new)
      BY <1>11, <2>1, <2>3, <2>5 DEF CopyRows!Write
    <3> QED BY <2>2, <3>1 DEF CopyRows!RowNext
  <2> QED BY <1>11, <2>1, <2>2, <2>4, <2>5, CopyWrites
<1>14. ASSUME NEW w \in CopyWorker, cpPc[w] # "idle", UNCHANGED <<cpStatus, CopyOut, CopyCancels>>,
              CopyInHand' \in {CopyInHand, [CopyInHand EXCEPT ![w] = NoCopy]}
       PROVE  [CopyRows!RowNext]_CopyRows!rowVars
  <2>1. CASE CopyInHand' = CopyInHand
    BY <1>14, <2>1 DEF CopyRows!rowVars
  <2>2. CASE CopyInHand' # CopyInHand
    <3>1. CopyInHand[w] # NoCopy
      BY <1>14, <2>2 DEF CopyInHand
    <3> QED BY <1>14, <2>2, <3>1 DEF CopyRows!LetGo, CopyRows!RowNext
  <2> QED BY <2>1, <2>2
<1>15. ASSUME NEW w \in CopyWorker, FinishCopy(w)
       PROVE  [CopyRows!RowNext]_CopyRows!rowVars
  <2>1. cpPc[w] # "idle" /\ UNCHANGED cpStatus /\ CopyInHand' = [CopyInHand EXCEPT ![w] = NoCopy]
        /\ CopyCancels' = CopyCancels
    BY <1>15, CopyLetGo DEF FinishCopy, CopyCancels
  <2>2. \A k \in CopyJob : cpReq'[k] = cpReq[k] \/ (cpReq[k] = "new" /\ cpReq'[k] \in {"decided", "over"})
    BY <1>11, <1>15, <2>1, AsksNew DEF FinishCopy
  <2>3. CopyOut' = CopyOut
    BY <2>1, <2>2, NoneGoesOut
  <2> QED BY <1>14, <2>1, <2>3
<1>16. ASSUME NEW w \in CopyWorker, CopyTerminated(w) \/ CopyWorkerDies(w)
       PROVE  [CopyRows!RowNext]_CopyRows!rowVars
  <2>1. cpPc[w] # "idle" /\ UNCHANGED <<cpStatus, CopyOut, CopyCancels>>
    BY <1>16 DEF CopyTerminated, CopyWorkerDies, CopyOut, CopyCancels
  <2>2. CopyInHand' \in {CopyInHand, [CopyInHand EXCEPT ![w] = NoCopy]}
    <3>1. CASE CopyEnds(w)
      BY <3>1, CopyLetGo
    <3>2. CASE cpPc[w] = "copy" /\ cpPc' = [cpPc EXCEPT ![w] = "after"] /\ UNCHANGED cpHand
      BY <3>2 DEF CopyInHand
    <3> QED BY <1>16, <3>1, <3>2 DEF CopyTerminated, CopyWorkerDies
  <2> QED BY <1>14, <2>1, <2>2
<1>17. ASSUME NEW w \in CopyWorker, CopyChildDies(w)
       PROVE  [CopyRows!RowNext]_CopyRows!rowVars
  <2>1. cpPc[w] # "idle" /\ CopyInHand' = [CopyInHand EXCEPT ![w] = NoCopy] /\ CopyCancels' = CopyCancels
    BY <1>17, CopyLetGo DEF CopyChildDies, CopyCancels
  <2>2. CASE ~CpActive(cpHand[w])
    <3>1. UNCHANGED <<cpStatus, CopyOut>>
      BY <1>17, <2>2 DEF CopyChildDies, CopyOut
    <3> QED BY <1>14, <2>1, <3>1
  <2>3. CASE CpActive(cpHand[w])
    <3>1. cpStatus' = [cpStatus EXCEPT ![cpHand[w]] = "failed"]
      BY <1>17, <2>3 DEF CopyChildDies
    <3>2. CopyOut' = CopyOut
      <4>1. \A k \in CopyJob : (cpStatus'[k] = "none") = (cpStatus[k] = "none")
        BY <1>11, <2>1, <3>1
      <4>2. \A k \in CopyJob : cpReq'[k] = cpReq[k] \/ (cpReq[k] = "new" /\ cpReq'[k] \in {"decided", "over"})
        BY <1>11, <1>17, <2>1, AsksNew DEF CopyChildDies
      <4> QED BY <4>1, <4>2, NoneGoesOut
    <3>3. CASE cpPc[w] = "check"
      <4>1. CopyInHand' = CopyInHand
        BY <2>1, <3>3 DEF CopyInHand
      <4>2. CopyRows!EndRequests({}, {cpHand[w]})
        BY <1>11, <2>1, <2>3, <3>1, <3>2, <4>1 DEF CpActive, CopyRows!EndRequests, CopyRows!RowActive
      <4> QED BY <1>11, <2>1, <4>2 DEF CopyRows!RowNext
    <3>4. CASE cpPc[w] # "check"
      <4>1. CopyInHand[w] = cpHand[w] /\ CopyRows!MayWrite(cpStatus[cpHand[w]], "failed")
        BY <2>1, <2>3, <3>4 DEF CopyInHand, CpActive, CopyRows!MayWrite
      <4>2. CopyRows!Write(w, "failed")
        BY <1>11, <2>1, <3>1, <3>2, <4>1 DEF CopyRows!Write
      <4> QED BY <4>2 DEF CopyRows!RowNext
    <3> QED BY <3>3, <3>4
  <2> QED BY <2>2, <2>3
<1>18. CASE WebRestarts
  <2> DEFINE R == {j \in CopyJob : cpReq[j] = "inserted"}
             F == {j \in CopyJob : CpActive(j) /\ ~cpKnown[j]}
  <2>1. CopyInHand' = CopyInHand /\ CopyCancels' = CopyCancels
    BY <1>18 DEF WebRestarts, cpWork, CopyInHand, CopyCancels
  <2>2. cpStatus' = [j \in CopyJob |-> IF j \in F THEN "failed" ELSE cpStatus[j]]
    BY <1>18 DEF WebRestarts
  <2>3. CopyOut' = CopyOut \union R
    BY <1>18, <2>2 DEF WebRestarts, CopyOut, CopyRowsIn, CpActive
  <2>4. /\ \A j \in R : cpStatus[j] # "none" /\ j \notin CopyOut
        /\ \A j \in F : cpStatus[j] \in {"pending", "running"}
    BY DEF CopyRowsIn, CopyOut, CpActive
  <2>5. CopyRows!EndRequests(R, F)
    BY <2>1, <2>2, <2>3, <2>4 DEF CopyRows!EndRequests, CopyRows!RowActive
  <2> QED BY <2>5 DEF CopyRows!RowNext
<1>19. CASE UNCHANGED copyVars
  BY <1>19 DEF copyVars, CopyRows!rowVars, CopyOut, CopyInHand, CopyCancels
<1> QED
  BY <1>2, <1>3, <1>4, <1>5, <1>6, <1>7, <1>8, <1>9, <1>10, <1>12, <1>13, <1>15, <1>16, <1>17, <1>18, <1>19
  DEF CopyNext, CopyStep, CopyRows!RowNext

\* The rows of copies keep JobRow's promise, also when the web process is restarted between
\* the row and its message: none is reopened, and a cancel is final.
THEOREM CopyRowsKeepPromise == CopySpec => CopyRows!RowSpec
<1>1. CopyInit => CopyRows!RowInit /\ CopyRowsIn
  BY CopyAssumption DEF CopyInit, CopyRows!RowInit, CopyOut, CopyInHand, CopyCancels, CopyRowsIn
<1> QED BY <1>1, CopyInit0, CopyInvStep, CopyRowsInStep, CopyRowStep, PTL DEF CopySpec, CopyRows!RowSpec
------------------------------------------------------------------------------
(***************************************************************************)
(* PiHerder's own backups as rows: here a worker does reopen a row that    *)
(* was settled in its hands (_mark_housekeeping_running), and _finish      *)
(* leaves whatever is settled by then.                                     *)
(***************************************************************************)
SelfInHand  == [w \in SelfWorker |-> IF sbPc[w] \in {"idle", "check"} THEN NoSelf ELSE sbHand[w]]
SelfOut     == {j \in SelfJob : sbReq[j] \in {"sent", "over"}}
SelfCancels == {j \in SelfJob : sbStop[j] # "no"}

SelfRows == INSTANCE JobRowProofs WITH
  Row <- SelfJob, RowWorker <- SelfWorker, NoRow <- NoSelf, Reopens <- TRUE, Rewrites <- FALSE,
  row <- sbStatus, out <- SelfOut, hand <- SelfInHand, cancels <- SelfCancels

SelfRowsIn == \A j \in SelfJob : sbReq[j] \in {"inserted", "sent", "over"} => sbStatus[j] # "none"

LEMMA SelfRowsInStep ==
  ASSUME SelfInv, SelfRowsIn, [SelfNext]_selfVars
  PROVE  SelfRowsIn'
<1> USE SelfAssumption DEF SelfInv, SelfTypeOK, SelfRowsIn, sbRequest, sbTask, SbSettle, SbActive
<1>1. ASSUME NEW j \in SelfJob, SelfLook(j) \/ SelfInsert(j) \/ SelfPublish(j) \/ SelfKeepTaskId(j)
      PROVE  SelfRowsIn'
  BY <1>1 DEF SelfLook, SelfInsert, SelfPublish, SelfKeepTaskId
<1>2. ASSUME NEW j \in SelfJob,
             WatchReads(j) \/ WatchFails(j) \/ SelfCancelReads(j) \/ SelfCancelWrites(j) \/ SelfSweep(j)
      PROVE  SelfRowsIn'
  BY <1>2 DEF WatchReads, WatchFails, SelfCancelReads, SelfCancelWrites, SelfSweep
<1>3. ASSUME NEW w \in SelfWorker, NEW j \in SelfJob, SelfTake(w, j)
      PROVE  SelfRowsIn'
  BY <1>3 DEF SelfTake
<1>4. ASSUME NEW w \in SelfWorker,
             SelfCheck(w) \/ SelfStart(w) \/ SelfDumped(w) \/ SelfWritten(w) \/ SelfFinish(w)
      PROVE  SelfRowsIn'
  BY <1>4, SelfBusy DEF SelfCheck, SelfStart, SelfDumped, SelfWritten, SelfFinish
<1>5. ASSUME NEW w \in SelfWorker, SelfTerminated(w) \/ SelfChildDies(w) \/ SelfWorkerDies(w)
      PROVE  SelfRowsIn'
  BY <1>5, SelfBusy DEF SelfTerminated, SelfChildDies, SelfWorkerDies
<1>6. CASE UNCHANGED selfVars
  BY <1>6 DEF selfVars
<1> QED BY <1>1, <1>2, <1>3, <1>4, <1>5, <1>6 DEF SelfNext

\* Ending a task lets go of the row, if it was in hand.
LEMMA SelfLetGo ==
  ASSUME SelfInv, NEW w \in SelfWorker, SbEndTask(w)
  PROVE  SelfInHand' = [SelfInHand EXCEPT ![w] = NoSelf]
BY DEF SelfInv, SelfTypeOK, SbEndTask, SelfInHand

\* _finish and _fail_housekeeping_open at the end of a task that has the row in hand.
LEMMA SelfSettles ==
  ASSUME SelfInv, NEW w \in SelfWorker, sbPc[w] \notin {"idle", "check"},
         NEW outcome \in {"success", "failed"}, SbSettle(sbHand[w], outcome),
         SelfInHand' = [SelfInHand EXCEPT ![w] = NoSelf], UNCHANGED <<SelfOut, SelfCancels>>
  PROVE  SelfRows!RowNext
<1>1. sbHand[w] \in SelfJob /\ SelfInHand[w] = sbHand[w] /\ sbHand[w] # NoSelf
  BY SelfBusy, SelfAssumption DEF SelfInHand
<1>2. CASE SbActive(sbHand[w])
  <2>1. SelfRows!MayWrite(sbStatus[sbHand[w]], outcome)
    BY <1>2 DEF SbActive, SelfRows!MayWrite
  <2>2. SelfRows!Write(w, outcome)
    BY <1>1, <1>2, <2>1 DEF SbSettle, SelfRows!Write
  <2> QED BY <2>2 DEF SelfRows!RowNext
<1>3. CASE ~SbActive(sbHand[w])
  <2>1. SelfRows!LetGo(w)
    BY <1>1, <1>3 DEF SbSettle, SelfRows!LetGo
  <2> QED BY <2>1 DEF SelfRows!RowNext
<1> QED BY <1>2, <1>3

\* The same by someone who does not have it: only an active row is failed.
LEMMA SelfFailed ==
  ASSUME SelfInv, NEW j \in SelfJob, SbSettle(j, "failed"), UNCHANGED <<SelfOut, SelfInHand, SelfCancels>>
  PROVE  [SelfRows!RowNext]_SelfRows!rowVars
<1>1. CASE SbActive(j)
  <2>1. SelfRows!EndRequests({}, {j})
    BY <1>1 DEF SbSettle, SbActive, SelfInv, SelfTypeOK, SelfRows!EndRequests, SelfRows!RowActive
  <2> QED BY <2>1 DEF SelfRows!RowNext
<1>2. CASE ~SbActive(j)
  BY <1>2 DEF SbSettle, SelfRows!rowVars
<1> QED BY <1>1, <1>2

LEMMA SelfRowStep ==
  ASSUME SelfInv, SelfRowsIn, [SelfNext]_selfVars
  PROVE  [SelfRows!RowNext]_SelfRows!rowVars
<1> USE DEF SelfInv, SelfTypeOK
<1>1. ASSUME NEW j \in SelfJob, SelfLook(j) \/ SelfKeepTaskId(j) \/ WatchReads(j)
      PROVE  UNCHANGED SelfRows!rowVars
  BY <1>1 DEF SelfLook, SelfKeepTaskId, WatchReads, sbRequest, sbTask, SelfRows!rowVars, SelfOut, SelfInHand,
              SelfCancels
<1>2. ASSUME NEW j \in SelfJob, SelfInsert(j)
      PROVE  SelfRows!Enter(j)
  BY <1>2 DEF SelfInsert, BegunOnce, sbTask, SelfRows!Enter, SelfOut, SelfInHand, SelfCancels
<1>3. ASSUME NEW j \in SelfJob, SelfPublish(j)
      PROVE  SelfRows!RowNext
  <2>1. sbStatus[j] # "none" /\ j \notin SelfOut /\ SelfOut' = SelfOut \union {j}
        /\ SelfInHand' = SelfInHand /\ SelfCancels' = SelfCancels
    BY <1>3 DEF SelfPublish, SelfRowsIn, sbTask, SelfOut, SelfInHand, SelfCancels
  <2>2. sbStatus' = sbStatus \/ sbStatus' = [sbStatus EXCEPT ![j] = "failed"]
    BY <1>3 DEF SelfPublish, SbSettle
  <2>3. SelfRows!EndRequests({j}, {}) \/ SelfRows!EndRequests({j}, {j})
    BY <2>1, <2>2 DEF SelfRows!EndRequests
  <2> QED BY <2>3 DEF SelfRows!RowNext
<1>4. ASSUME NEW w \in SelfWorker, NEW j \in SelfJob, SelfTake(w, j)
      PROVE  UNCHANGED SelfRows!rowVars
  BY <1>4 DEF SelfTake, sbRequest, SelfRows!rowVars, SelfOut, SelfInHand, SelfCancels
<1>5. ASSUME NEW w \in SelfWorker, SelfCheck(w)
      PROVE  [SelfRows!RowNext]_SelfRows!rowVars
  <2>1. sbHand[w] \in SelfJob /\ sbHand[w] \in SelfOut /\ UNCHANGED <<SelfOut, SelfCancels>>
    BY <1>5, SelfBusy DEF SelfCheck, OneCopy, SelfOut, SelfCancels
  <2>2. CASE sbStatus[sbHand[w]] = "pending" /\ SbGoto(w, "start") /\ UNCHANGED sbStatus
    <3>1. SelfInHand[w] = NoSelf /\ SelfInHand' = [SelfInHand EXCEPT ![w] = sbHand[w]]
      BY <1>5, <2>2 DEF SelfCheck, SbGoto, SelfInHand
    <3>2. SelfRows!Pick(w, sbHand[w])
      BY <2>1, <2>2, <3>1 DEF SelfRows!Pick, SelfRows!RowActive
    <3> QED BY <2>1, <3>2 DEF SelfRows!RowNext
  <2>3. CASE SbEndTask(w) /\ SbSettle(sbHand[w], "failed")
    <3>1. SelfInHand' = SelfInHand
      BY <1>5, <2>3 DEF SelfCheck, SbEndTask, SelfInHand
    <3> QED BY <2>1, <2>3, <3>1, SelfFailed
  <2> QED BY <1>5, <2>2, <2>3 DEF SelfCheck
<1>6. ASSUME NEW w \in SelfWorker, SelfStart(w)
      PROVE  SelfRows!Write(w, "running")
  BY <1>6, SelfBusy, SelfAssumption
  DEF SelfStart, SbGoto, sbRequest, SelfRows!Write, SelfRows!MayWrite, SelfOut, SelfInHand, SelfCancels
<1>7. ASSUME NEW w \in SelfWorker, SelfDumped(w) \/ SelfWritten(w)
      PROVE  UNCHANGED SelfRows!rowVars
  BY <1>7 DEF SelfDumped, SelfWritten, SbGoto, sbRequest, SelfRows!rowVars, SelfOut, SelfInHand, SelfCancels
<1>8. ASSUME NEW w \in SelfWorker, SelfFinish(w)
      PROVE  SelfRows!RowNext
  <2>1. UNCHANGED <<SelfOut, SelfCancels>> /\ SelfInHand' = [SelfInHand EXCEPT ![w] = NoSelf]
    BY <1>8, SelfLetGo DEF SelfFinish, sbRequest, SelfOut, SelfCancels
  <2> QED BY <1>8, <2>1, SelfSettles DEF SelfFinish
<1>9. ASSUME NEW w \in SelfWorker, SelfTerminated(w) \/ SelfChildDies(w) \/ SelfWorkerDies(w)
      PROVE  [SelfRows!RowNext]_SelfRows!rowVars
  <2>1. /\ UNCHANGED <<SelfOut, SelfCancels>> /\ SelfInHand' = [SelfInHand EXCEPT ![w] = NoSelf]
        /\ sbHand[w] \in SelfJob /\ sbPc[w] # "idle"
        /\ UNCHANGED sbStatus \/ SbSettle(sbHand[w], "failed")
    BY <1>9, SelfLetGo, SelfBusy DEF SelfTerminated, SelfChildDies, SelfWorkerDies, sbRequest, SelfOut, SelfCancels
  <2>2. CASE sbPc[w] = "check"
    <3>1. SelfInHand' = SelfInHand
      BY <2>1, <2>2 DEF SelfInHand
    <3> QED BY <2>1, <3>1, SelfFailed DEF SelfRows!rowVars
  <2>3. CASE sbPc[w] # "check" /\ UNCHANGED sbStatus
    <3>1. SelfInHand[w] # NoSelf
      BY <2>1, <2>3, SelfAssumption DEF SelfInHand
    <3> QED BY <2>1, <2>3, <3>1 DEF SelfRows!LetGo, SelfRows!RowNext
  <2>4. CASE sbPc[w] # "check" /\ SbSettle(sbHand[w], "failed")
    BY <2>1, <2>4, SelfSettles
  <2> QED BY <2>1, <2>2, <2>3, <2>4
<1>10. ASSUME NEW j \in SelfJob, WatchFails(j)
       PROVE  [SelfRows!RowNext]_SelfRows!rowVars
  <2>1. UNCHANGED <<SelfOut, SelfInHand, SelfCancels>>
    BY <1>10 DEF WatchFails, sbRequest, sbTask, SelfOut, SelfInHand, SelfCancels
  <2> QED BY <1>10, <2>1, SelfFailed DEF WatchFails
<1>11. ASSUME NEW j \in SelfJob, SelfCancelReads(j)
       PROVE  SelfRows!CancelRead(j)
  BY <1>11 DEF SelfCancelReads, SbActive, sbRequest, sbTask, SelfRows!CancelRead, SelfRows!RowActive, SelfOut,
               SelfInHand, SelfCancels
<1>12. ASSUME NEW j \in SelfJob, SelfCancelWrites(j)
       PROVE  SelfRows!CancelWrite(j)
  BY <1>12 DEF SelfCancelWrites, sbRequest, sbTask, SelfRows!CancelWrite, SelfOut, SelfInHand, SelfCancels
<1>13. ASSUME NEW j \in SelfJob, SelfSweep(j)
       PROVE  [SelfRows!RowNext]_SelfRows!rowVars
  <2>1. SbSettle(j, "failed") /\ UNCHANGED <<SelfOut, SelfInHand, SelfCancels>>
    BY <1>13 DEF SelfSweep, SbSettle, SbActive, sbRequest, sbTask, SelfOut, SelfInHand, SelfCancels
  <2> QED BY <2>1, SelfFailed
<1>14. CASE UNCHANGED selfVars
  BY <1>14 DEF selfVars, sbRequest, sbTask, SelfRows!rowVars, SelfOut, SelfInHand, SelfCancels
<1> QED
  BY <1>1, <1>2, <1>3, <1>4, <1>5, <1>6, <1>7, <1>8, <1>9, <1>10, <1>11, <1>12, <1>13, <1>14
  DEF SelfNext, SelfRows!RowNext

\* The rows of PiHerder's own backups keep JobRow's promise: a settled row is set running
\* again only by the worker that read it as pending, and no outcome is written over another.
THEOREM SelfRowsKeepPromise == SelfSpec => SelfRows!RowSpec
<1>1. SelfInit => SelfRows!RowInit /\ SelfRowsIn
  BY SelfAssumption DEF SelfInit, SelfRows!RowInit, SelfOut, SelfInHand, SelfCancels, SelfRowsIn
<1> QED BY <1>1, SelfInit0, SelfStep, SelfRowsInStep, SelfRowStep, PTL DEF SelfSpec, SelfRows!RowSpec
------------------------------------------------------------------------------
\* Backups, their copies and PiHerder's own backups: once the row is settled, its request over
\* and neither a worker nor a cancel left with what it read, no redelivery, sweep or restart
\* writes it again; and where no task reopens a row, a cancel is final before that.
THEOREM BackupRowsComeToRest ==
  /\ BackupSpec => BackupRows!RestsForGood /\ BackupRows!CancelsStand
  /\ CopySpec => CopyRows!RestsForGood /\ CopyRows!CancelsStand
  /\ SelfSpec => SelfRows!RestsForGood
<1>1. BackupRows!RowSpec => BackupRows!RestsForGood /\ BackupRows!CancelsStand
  BY BackupRows!RowsComeToRest, BackupRows!CancelsAreFinal, BackupAssumption
<1>2. CopyRows!RowSpec => CopyRows!RestsForGood /\ CopyRows!CancelsStand
  BY CopyRows!RowsComeToRest, CopyRows!CancelsAreFinal, CopyAssumption
<1>3. SelfRows!RowSpec => SelfRows!RestsForGood
  BY SelfRows!RowsComeToRest, SelfAssumption
<1> QED BY <1>1, <1>2, <1>3, BackupRowsKeepPromise, CopyRowsKeepPromise, SelfRowsKeepPromise, PTL
==============================================================================
