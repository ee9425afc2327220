------------------------------ MODULE BackupCopies ------------------------------
(***************************************************************************)
(* Copies of the backups to one off-site destination                       *)
(* (services/backup_replicate.py, tasks.py replicate_backup).  A run of    *)
(* the schedule or of a user asks for everything that is ticked; a backup  *)
(* that succeeded asks for its host's folder.  What is ticked has a part   *)
(* under /backups (the folder hop) and a part pushed from the hosts        *)
(* themselves (the direct hop): the folder hop of a full copy starts the   *)
(* direct hop when it ends, whatever it came to, unless it was cancelled.  *)
(* A request that finds a copy of the destination active is not queued.    *)
(*                                                                         *)
(* The task is acknowledged on receipt: a message is never delivered       *)
(* again.  Data is a version per host: how often it was backed up, and     *)
(* which of these the destination has.                                     *)
(***************************************************************************)
EXTENDS Integers, FiniteSets

CONSTANTS
  CopyJob,       \* rows that may be created
  CopyWorker,    \* Celery child processes
  CopyHost,      \* hosts whose folders are ticked
  MaxVersion,    \* bound: backups of each host
  MaxCopyFaults, \* bound: cancels, deaths, restarts and refusals of the broker
  NoCopy

ASSUME CopyAssumption ==
  /\ NoCopy \notin CopyJob /\ {"none", "all"} \intersect CopyHost = {}
  /\ MaxVersion \in Nat /\ MaxCopyFaults \in Nat

VARIABLES
  cpReq,      \* how far the request of each row has come
  cpStatus,   \* Job.status
  cpKind,     \* folder hop or direct hop (details.direct_host)
  cpScope,    \* a host's folder, or "all"
  cpKnown,    \* Job.celery_task_id is committed
  cpStop,     \* a cancel has read the row and not written it; its task was revoked
  cpHand, cpPc,
  cpSeen,     \* the versions the worker's copy started with
  hostV,      \* version of each host's folder under /backups
  destV,      \* version of it at the destination
  cpFaults,
  cpLost,     \* history: hosts a request for which was not served
  cpFollowed, \* history: folder hops whose end led to a direct hop
  cpCut       \* history: rows whose task did not come to its own end

copyVars == <<cpReq, cpStatus, cpKind, cpScope, cpKnown, cpStop, cpHand, cpPc, cpSeen, hostV,
              destV, cpFaults, cpLost, cpFollowed, cpCut>>

CopyTypeOK ==
  /\ cpReq \in [CopyJob -> {"new", "decided", "inserted", "sent", "over"}]
  /\ cpStatus \in [CopyJob -> {"none", "pending", "running", "success", "failed", "cancelled"}]
  /\ cpKind \in [CopyJob -> {"none", "folder", "direct"}]
  /\ cpScope \in [CopyJob -> CopyHost \union {"none", "all"}]
  /\ cpKnown \in [CopyJob -> BOOLEAN]
  /\ cpStop \in [CopyJob -> {"no", "read", "revoked"}]
  /\ cpHand \in [CopyWorker -> CopyJob \union {NoCopy}]
  /\ cpPc \in [CopyWorker -> {"idle", "check", "copy", "after"}]
  /\ cpSeen \in [CopyWorker -> [CopyHost -> 0 .. MaxVersion]]
  /\ hostV \in [CopyHost -> 0 .. MaxVersion]
  /\ destV \in [CopyHost -> 0 .. MaxVersion]
  /\ cpFaults \in 0 .. MaxCopyFaults
  /\ cpLost \in SUBSET CopyHost
  /\ cpFollowed \in SUBSET CopyJob
  /\ cpCut \in SUBSET CopyJob

NoVersions == [h \in CopyHost |-> 0]

CopyInit ==
  /\ cpReq = [j \in CopyJob |-> "new"]
  /\ cpStatus = [j \in CopyJob |-> "none"]
  /\ cpKind = [j \in CopyJob |-> "none"]
  /\ cpScope = [j \in CopyJob |-> "none"]
  /\ cpKnown = [j \in CopyJob |-> FALSE]
  /\ cpStop = [j \in CopyJob |-> "no"]
  /\ cpHand = [w \in CopyWorker |-> NoCopy]
  /\ cpPc = [w \in CopyWorker |-> "idle"]
  /\ cpSeen = [w \in CopyWorker |-> NoVersions]
  /\ hostV = NoVersions
  /\ destV = NoVersions
  /\ cpFaults = 0
  /\ cpLost = {}
  /\ cpFollowed = {}
  /\ cpCut = {}

cpWork == <<cpHand, cpPc, cpSeen>>
cpData == <<hostV, destV>>
------------------------------------------------------------------------------
CpActive(j)   == cpStatus[j] \in {"pending", "running"}
ActiveOf(k)   == {j \in CopyJob : CpActive(j) /\ cpKind[j] = k}
Hosts(scope)  == IF scope = "all" THEN CopyHost ELSE {scope}
StartsDirect(j) == cpKind[j] = "folder" /\ cpScope[j] = "all"
CopyFault     == cpFaults < MaxCopyFaults /\ cpFaults' = cpFaults + 1

\* Mutant: an active copy, even one that has begun, is taken to serve every request.
UnservedIfNone(scope) == {}

\* The hosts of a request that an active row will not serve: its folder hop has
\* begun or is for another folder.
Unserved(scope) ==
  {h \in Hosts(scope) :
     ~ \E j \in ActiveOf("folder") : cpStatus[j] = "pending" /\ h \in Hosts(cpScope[j])}

\* The next row: rows are taken in a fixed order, they differ in name alone.
NewCopy(j) == cpReq[j] = "new" /\ j = CHOOSE k \in CopyJob : cpReq[k] = "new"

\* _update_job_status: a cancelled row is left, a finished one is not reopened.
CopyStatus(j, new) ==
  cpStatus' = [cpStatus EXCEPT ![j] =
    IF @ = "cancelled" \/ (@ \in {"success", "failed"} /\ new \in {"pending", "running"})
    THEN @ ELSE new]

Decide(j, kind, scope) ==
  /\ cpReq' = [cpReq EXCEPT ![j] = "decided"]
  /\ cpKind' = [cpKind EXCEPT ![j] = kind]
  /\ cpScope' = [cpScope EXCEPT ![j] = scope]

\* enqueue: a folder hop when nothing is active; beside a folder hop, a full copy
\* queues its direct hop alone; otherwise the active row is the answer.  Of a
\* folder and a direct hop the direct one is the newer, which is looked at first.
AskCopy(j, scope) ==
  /\ NewCopy(j)
  /\ \/ /\ ActiveOf("folder") \union ActiveOf("direct") = {}
        /\ Decide(j, "folder", scope)
        /\ UNCHANGED cpLost
     \/ /\ ActiveOf("folder") # {}
        /\ ActiveOf("direct") = {}
        /\ scope = "all"
        /\ Decide(j, "direct", scope)
        /\ cpLost' = cpLost \union Unserved(scope)
     \/ /\ ActiveOf("direct") # {} \/ (ActiveOf("folder") # {} /\ scope # "all")
        /\ cpReq' = [cpReq EXCEPT ![j] = "over"]
        /\ cpLost' = cpLost \union Unserved(scope)
        /\ UNCHANGED <<cpKind, cpScope>>

\* The schedule or a user asks for everything that is ticked.
AskAll(j) ==
  /\ AskCopy(j, "all")
  /\ UNCHANGED <<cpStatus, cpKnown, cpStop, cpWork, cpData, cpFaults, cpFollowed, cpCut>>

\* A backup succeeded: enqueue_after_host_backup asks for its folder.
HostBackedUp(h, j) ==
  /\ hostV[h] < MaxVersion
  /\ hostV' = [hostV EXCEPT ![h] = @ + 1]
  /\ AskCopy(j, h)
  /\ UNCHANGED <<cpStatus, cpKnown, cpStop, cpWork, destV, cpFaults, cpFollowed, cpCut>>

\* _create_replicate_job: the row is committed, ...
InsertCopy(j) ==
  /\ cpReq[j] = "decided"
  /\ cpReq' = [cpReq EXCEPT ![j] = "inserted"]
  /\ cpStatus' = [cpStatus EXCEPT ![j] = "pending"]
  /\ UNCHANGED <<cpKind, cpScope, cpKnown, cpStop, cpWork, cpData, cpFaults, cpLost,
                 cpFollowed, cpCut>>

\* ... its task published, or the row failed as it stands when the broker refuses, ...
SendCopy(j) ==
  /\ cpReq[j] = "inserted"
  /\ \/ /\ cpReq' = [cpReq EXCEPT ![j] = "sent"]
        /\ UNCHANGED <<cpStatus, cpCut, cpLost, cpFaults>>
     \/ /\ CopyFault
        /\ cpReq' = [cpReq EXCEPT ![j] = "over"]
        /\ cpStatus' = [cpStatus EXCEPT ![j] = "failed"]
        /\ cpCut' = cpCut \union {j}
        /\ cpLost' = cpLost \union Hosts(cpScope[j])
  /\ UNCHANGED <<cpKind, cpScope, cpKnown, cpStop, cpWork, cpData, cpFollowed>>

\* ... and the task's id kept in the row.
KeepCopyTask(j) ==
  /\ cpReq[j] \in {"sent", "over"}
  /\ cpStatus[j] # "none"
  /\ ~cpKnown[j]
  /\ j \notin cpCut
  /\ cpKnown' = [cpKnown EXCEPT ![j] = TRUE]
  /\ UNCHANGED <<cpReq, cpStatus, cpKind, cpScope, cpStop, cpWork, cpData, cpFaults, cpLost,
                 cpFollowed, cpCut>>
------------------------------------------------------------------------------
CopyEnds(w) ==
  /\ cpHand' = [cpHand EXCEPT ![w] = NoCopy]
  /\ cpPc' = [cpPc EXCEPT ![w] = "idle"]
  /\ cpSeen' = [cpSeen EXCEPT ![w] = NoVersions]

\* The message is acknowledged as it is taken; a revoked one is dropped.
TakeCopy(w, j) ==
  /\ cpPc[w] = "idle"
  /\ cpReq[j] = "sent"
  /\ cpReq' = [cpReq EXCEPT ![j] = "over"]
  /\ \/ /\ cpStop[j] # "revoked"
        /\ cpHand' = [cpHand EXCEPT ![w] = j]
        /\ cpPc' = [cpPc EXCEPT ![w] = "check"]
        /\ UNCHANGED cpCut
     \/ /\ cpStop[j] = "revoked"
        /\ cpCut' = cpCut \union {j}
        /\ UNCHANGED <<cpHand, cpPc>>
  /\ UNCHANGED <<cpStatus, cpKind, cpScope, cpKnown, cpStop, cpSeen, cpData, cpFaults, cpLost,
                 cpFollowed>>

\* An active row is set to running and rclone reads the folders; a settled one is skipped.
StartCopy(w) ==
  LET j == cpHand[w]
  IN  /\ cpPc[w] = "check"
      /\ \/ /\ CpActive(j)
            /\ CopyStatus(j, "running")
            /\ cpPc' = [cpPc EXCEPT ![w] = "copy"]
            /\ cpSeen' = [cpSeen EXCEPT ![w] = hostV]
            /\ UNCHANGED <<cpHand, cpCut>>
         \/ /\ ~CpActive(j)
            /\ CopyEnds(w)
            /\ cpCut' = cpCut \union {j}
            /\ UNCHANGED cpStatus
      /\ UNCHANGED <<cpReq, cpKind, cpScope, cpKnown, cpStop, cpData, cpFaults, cpLost, cpFollowed>>

Newer(a, b) == IF a < b THEN b ELSE a

\* execute or execute_direct returned; the outcome is written.
CopyReturns(w) ==
  LET j == cpHand[w]
  IN  /\ cpPc[w] = "copy"
      /\ cpPc' = [cpPc EXCEPT ![w] = "after"]
      /\ \/ /\ CopyStatus(j, "success")
            /\ destV' = IF cpKind[j] = "folder"
                        THEN [h \in CopyHost |-> IF h \in Hosts(cpScope[j])
                                                 THEN Newer(destV[h], cpSeen[w][h]) ELSE destV[h]]
                        ELSE destV
            /\ UNCHANGED cpLost
         \/ /\ CopyStatus(j, "failed")
            /\ cpLost' = cpLost \union Hosts(cpScope[j])
            /\ UNCHANGED destV
      /\ UNCHANGED <<cpReq, cpKind, cpScope, cpKnown, cpStop, cpHand, cpSeen, hostV, cpFaults,
                     cpFollowed, cpCut>>

\* enqueue_direct_followup after folder hop j: a direct hop that is active will
\* do, otherwise a new row k is created.
Follow(j) ==
  /\ cpFollowed' = cpFollowed \union {j}
  /\ \/ ActiveOf("direct") # {} /\ UNCHANGED <<cpReq, cpKind, cpScope>>
     \/ /\ ActiveOf("direct") = {}
        /\ \E k \in CopyJob : NewCopy(k) /\ Decide(k, "direct", "all")

\* Mutant: the direct hop starts after a folder hop that succeeded.
FollowSuccess(w) ==
  LET j == cpHand[w]
  IN  /\ cpPc[w] = "after"
      /\ CopyEnds(w)
      /\ \/ StartsDirect(j) /\ cpStatus[j] = "success" /\ Follow(j)
         \/ /\ ~StartsDirect(j) \/ cpStatus[j] # "success"
            /\ UNCHANGED <<cpReq, cpKind, cpScope, cpFollowed>>
      /\ UNCHANGED <<cpStatus, cpKnown, cpStop, cpData, cpFaults, cpLost, cpCut>>

\* The task's finally: the direct hop starts unless the folder hop is cancelled by now.
FinishCopy(w) ==
  LET j == cpHand[w]
  IN  /\ cpPc[w] = "after"
      /\ CopyEnds(w)
      /\ \/ StartsDirect(j) /\ cpStatus[j] # "cancelled" /\ Follow(j)
         \/ /\ ~StartsDirect(j) \/ cpStatus[j] = "cancelled"
            /\ UNCHANGED <<cpReq, cpKind, cpScope, cpFollowed>>
      /\ UNCHANGED <<cpStatus, cpKnown, cpStop, cpData, cpFaults, cpLost, cpCut>>
------------------------------------------------------------------------------
\* cancel_job reads an active row and revokes its task, if it has the task's id.
CancelCopyReads(j) ==
  /\ CopyFault
  /\ CpActive(j)
  /\ cpStop[j] = "no"
  /\ cpStop' = [cpStop EXCEPT ![j] = IF cpKnown[j] THEN "revoked" ELSE "read"]
  /\ UNCHANGED <<cpReq, cpStatus, cpKind, cpScope, cpKnown, cpWork, cpData, cpLost, cpFollowed,
                 cpCut>>

CancelCopyWrites(j) ==
  /\ cpStop[j] # "no"
  /\ cpStatus[j] # "cancelled"
  /\ cpStatus' = [cpStatus EXCEPT ![j] = "cancelled"]
  /\ cpLost' = cpLost \union Hosts(cpScope[j])
  /\ UNCHANGED <<cpReq, cpKind, cpScope, cpKnown, cpStop, cpWork, cpData, cpFaults, cpFollowed,
                 cpCut>>

\* SIGTERM of a revoked task: rclone is killed and finally runs, before or after
\* the cancel is written.
CopyTerminated(w) ==
  /\ cpPc[w] \in {"check", "copy"}
  /\ cpStop[cpHand[w]] = "revoked"
  /\ \/ cpPc[w] = "copy" /\ cpPc' = [cpPc EXCEPT ![w] = "after"] /\ UNCHANGED <<cpHand, cpSeen>>
     \/ cpPc[w] = "check" /\ CopyEnds(w)
  /\ cpCut' = cpCut \union {cpHand[w]}
  /\ UNCHANGED <<cpReq, cpStatus, cpKind, cpScope, cpKnown, cpStop, cpData, cpFaults, cpLost,
                 cpFollowed>>

\* SIGKILL or the time limit of a child: its parent's task_failure signal fails an
\* unfinished row and starts the direct hop; a finished one is left as it is.
CopyChildDies(w) ==
  LET j == cpHand[w]
  IN  /\ CopyFault
      /\ cpPc[w] # "idle"
      /\ CopyEnds(w)
      /\ \/ /\ CpActive(j)
            /\ cpStatus' = [cpStatus EXCEPT ![j] = "failed"]
            /\ cpLost' = cpLost \union Hosts(cpScope[j])
            /\ \/ StartsDirect(j) /\ Follow(j)
               \/ ~StartsDirect(j) /\ UNCHANGED <<cpReq, cpKind, cpScope, cpFollowed>>
            /\ UNCHANGED cpCut
         \/ /\ ~CpActive(j)
            /\ cpCut' = cpCut \union {j}
            /\ UNCHANGED <<cpReq, cpStatus, cpKind, cpScope, cpLost, cpFollowed>>
      /\ UNCHANGED <<cpKnown, cpStop, cpData>>

\* The container stops once the row is running: nothing is delivered again.
CopyWorkerDies(w) ==
  /\ CopyFault
  /\ cpPc[w] \in {"copy", "after"}
  /\ cpCut' = cpCut \union {cpHand[w]}
  /\ CopyEnds(w)
  /\ UNCHANGED <<cpReq, cpStatus, cpKind, cpScope, cpKnown, cpStop, cpData, cpLost, cpFollowed>>

\* reconcile_orphaned_running_jobs: a running row with a task no worker lists.
\* Without a task id the row has the grace alone.
ReconcileCopy(j) ==
  /\ cpStatus[j] = "running"
  /\ cpKnown[j]
  /\ \A w \in CopyWorker : cpHand[w] # j
  /\ cpStatus' = [cpStatus EXCEPT ![j] = "failed"]
  /\ cpLost' = cpLost \union Hosts(cpScope[j])
  /\ UNCHANGED <<cpReq, cpKind, cpScope, cpKnown, cpStop, cpWork, cpData, cpFaults, cpFollowed,
                 cpCut>>

\* The web process starts again: the requests it had are gone, and active rows
\* without a task id are failed (cleanup_orphan_web_jobs), taken up or not.
WebRestarts ==
  LET unsent == {j \in CopyJob : cpReq[j] \in {"decided", "inserted"}}
      orphan == {j \in CopyJob : CpActive(j) /\ ~cpKnown[j]}
  IN  /\ CopyFault
      /\ cpReq' = [j \in CopyJob |-> IF j \in unsent THEN "over" ELSE cpReq[j]]
      /\ cpStatus' = [j \in CopyJob |-> IF j \in orphan THEN "failed" ELSE cpStatus[j]]
      /\ cpCut' = cpCut \union unsent \union orphan
      /\ cpLost' = cpLost \union UNION {Hosts(cpScope[j]) : j \in unsent \union orphan}
      /\ UNCHANGED <<cpKind, cpScope, cpKnown, cpStop, cpWork, cpData, cpFollowed>>

CopyStep(w) == StartCopy(w) \/ CopyReturns(w) \/ FinishCopy(w)

CopyNext ==
  \/ \E j \in CopyJob :
       \/ AskAll(j) \/ InsertCopy(j) \/ SendCopy(j) \/ KeepCopyTask(j)
       \/ CancelCopyReads(j) \/ CancelCopyWrites(j) \/ ReconcileCopy(j)
  \/ \E h \in CopyHost, j \in CopyJob : HostBackedUp(h, j)
  \/ \E w \in CopyWorker, j \in CopyJob : TakeCopy(w, j)
  \/ \E w \in CopyWorker :
       CopyStep(w) \/ CopyTerminated(w) \/ CopyChildDies(w) \/ CopyWorkerDies(w)
  \/ WebRestarts

CopySpec == CopyInit /\ [][CopyNext]_copyVars
------------------------------------------------------------------------------
\* Once every row is settled, the destination has the last backup of every host,
\* unless a request for it found a copy that would not serve it, or a copy of it
\* failed or was cancelled: nothing else loses a backup on its way off site.
SettledMeansCopied ==
  (\A j \in CopyJob : cpReq[j] \in {"new", "over"} /\ ~CpActive(j))
    => \A h \in CopyHost \ cpLost : destV[h] = hostV[h]

\* tasks.py:1098 "A failed folder hop still starts the direct hop for that tick":
\* the end of a full copy's folder hop, good or bad, or the death of its process,
\* has led to a direct hop, unless its task was cut off before its own end.
DirectFollowsFolder ==
  \A j \in CopyJob \ cpCut :
    /\ StartsDirect(j)
    /\ cpStatus[j] \in {"success", "failed"}
    /\ cpReq[j] = "over"
    /\ \A w \in CopyWorker : cpHand[w] # j
    => j \in cpFollowed
==============================================================================
