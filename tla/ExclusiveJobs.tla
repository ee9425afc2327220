----------------------------- MODULE ExclusiveJobs -----------------------------
(***************************************************************************)
(* Exclusive host jobs (services/jobs_exclusive.py, services/jobs): a web  *)
(* thread or the scheduler looks for an active job in the host's lane,     *)
(* inserts a pending row and its audit row and publishes a Celery message; *)
(* a worker takes the message, probes the host and works.  Meanwhile users *)
(* cancel, and two sweeps fail rows they believe dead.                     *)
(*                                                                         *)
(* Nothing but the row connects these actors.  Each step below is one      *)
(* database session of one of them; a worker keeps what it read in pc.     *)
(* A message is acknowledged when the task is over, so a dead worker's     *)
(* message may come back; host_bootstrap is acknowledged on receipt.       *)
(***************************************************************************)
EXTENDS Integers, FiniteSets

CONSTANTS
  Job,         \* rows that may be requested
  Worker,      \* Celery child processes
  Host,
  JobType,     \* the job types requested
  NoJob,
  WaitLimit,   \* host-wait retries until the wait limit has passed
  MaxFaults    \* bound: deaths, cancels and worker checks that miss a live worker

StackTypes == {"docker_stack_deploy", "docker_stack_stop", "docker_stack_start",
               "docker_stack_restart", "docker_stack_down", "docker_stack_remove",
               "container_start", "container_stop", "container_restart",
               "container_redeploy", "template_deploy", "template_redeploy"}

ASSUME TypeAssumption  == "none" \notin JobType
ASSUME NoJobAssumption == NoJob \notin Job
ASSUME LimitAssumption ==
  WaitLimit \in Nat /\ MaxFaults \in Nat

VARIABLES
  req,        \* where the request for each job is
  type, host,
  status,     \* Job.status
  audit,      \* status of the job's AuditLog row
  taskId,     \* Job.celery_task_id is set
  waits,      \* host waits since host_wait_started
  queue,      \* messages of the job in the broker
  task,       \* the job whose message each worker has in hand
  pc,
  result,     \* the status a worker is about to pass to _finish
  cancelling, \* a cancel read the row as active and has not written yet
  revoked,    \* the cancel revoked the task
  faults,     \* deaths, cancels and misses so far
  raced,      \* history: lane mates whose checks both came before either insert
  abandoned,  \* history: the row was settled while a worker had its message
  starts,     \* history: how often the job's work started
  doubled     \* history: a message came back beside its own retry

reqVars  == <<req, type, host>>
rowVars  == <<status, audit, taskId, waits>>
workVars == <<task, pc, result>>
cancelVars == <<cancelling, revoked>>
history  == <<raced, abandoned, starts, doubled>>
vars == <<reqVars, rowVars, queue, workVars, cancelVars, faults, history>>

Terminal == {"success", "failed", "cancelled"}
Phase == {"idle", "lane", "probe", "wait", "start", "work", "fail", "finish", "ack"}

TypeOK ==
  /\ req \in [Job -> {"new", "checked", "inserted", "audited", "published", "over"}]
  /\ type \in [Job -> JobType \union {"none"}]
  /\ host \in [Job -> Host \union {"none"}]
  /\ status \in [Job -> {"none", "pending", "running"} \union Terminal]
  /\ audit \in [Job -> {"none", "running"} \union Terminal]
  /\ taskId \in [Job -> BOOLEAN]
  /\ waits \in [Job -> 0 .. WaitLimit]
  /\ queue \in [Job -> Nat]
  /\ task \in [Worker -> Job \union {NoJob}]
  /\ pc \in [Worker -> Phase]
  /\ result \in [Worker -> {"none", "success", "failed"}]
  /\ cancelling \in [Job -> BOOLEAN]
  /\ revoked \in [Job -> BOOLEAN]
  /\ faults \in 0 .. MaxFaults
  /\ raced \subseteq SUBSET Job
  /\ abandoned \in [Job -> BOOLEAN]
  /\ starts \in [Job -> Nat]
  /\ doubled \in [Job -> BOOLEAN]

Init ==
  /\ req = [j \in Job |-> "new"]
  /\ type = [j \in Job |-> "none"]
  /\ host = [j \in Job |-> "none"]
  /\ status = [j \in Job |-> "none"]
  /\ audit = [j \in Job |-> "none"]
  /\ taskId = [j \in Job |-> FALSE]
  /\ waits = [j \in Job |-> 0]
  /\ queue = [j \in Job |-> 0]
  /\ task = [w \in Worker |-> NoJob]
  /\ pc = [w \in Worker |-> "idle"]
  /\ result = [w \in Worker |-> "none"]
  /\ cancelling = [j \in Job |-> FALSE]
  /\ revoked = [j \in Job |-> FALSE]
  /\ faults = 0
  /\ raced = {}
  /\ abandoned = [j \in Job |-> FALSE]
  /\ starts = [j \in Job |-> 0]
  /\ doubled = [j \in Job |-> FALSE]
------------------------------------------------------------------------------
Active(j)  == status[j] \in {"pending", "running"}
Settled(j) == status[j] \in Terminal

\* Mutant: patches do not wait for a reboot.
BlocksOneWay(t, u) ==
  \/ t = u /\ t # "host_bootstrap"
  \/ t \in StackTypes /\ u \in StackTypes
  \/ t = "host_reboot" /\ u \in {"os_patch", "container_patch"}

\* The checks of the enqueue functions: an active u keeps a new t off the host.
\* host_bootstrap is the one type checked later, by its worker.
Blocks(t, u) ==
  \/ t = u /\ t # "host_bootstrap"
  \/ t \in StackTypes /\ u \in StackTypes
  \/ t = "host_reboot" /\ u \in {"os_patch", "container_patch"}
  \/ t \in {"os_patch", "container_patch"} /\ u = "host_reboot"

LaneMates(i, j) == i # j /\ host[i] = host[j] /\ Blocks(type[i], type[j])

\* A worker of W is past reading the row of j as pending, and may be working.
Busy(W, j) == \E w \in W : task[w] = j /\ pc[w] \in {"lane", "probe", "start", "work"}

\* The query of _active_job_of_type and _active_stack_mutating_job; refused
\* requests leave no trace.
Check(j, t, h) ==
  /\ req[j] = "new"
  /\ ~\E i \in Job : Active(i) /\ host[i] = h /\ Blocks(t, type[i])
  /\ req' = [req EXCEPT ![j] = "checked"]
  /\ type' = [type EXCEPT ![j] = t]
  /\ host' = [host EXCEPT ![j] = h]
  /\ UNCHANGED <<rowVars, queue, workVars, cancelVars, faults, history>>

\* _create_queued_job_with_audit, first commit
Insert(j) ==
  /\ req[j] = "checked"
  /\ req' = [req EXCEPT ![j] = "inserted"]
  /\ status' = [status EXCEPT ![j] = "pending"]
  /\ raced' = raced \union
       {{i, j} : i \in {i \in Job : req[i] = "checked" /\ LaneMates(i, j)}}
  /\ UNCHANGED <<type, host, audit, taskId, waits, queue, workVars, cancelVars, faults,
                 abandoned, starts, doubled>>

\* _create_queued_job_with_audit, second commit
OpenAudit(j) ==
  /\ req[j] = "inserted"
  /\ req' = [req EXCEPT ![j] = "audited"]
  /\ audit' = [audit EXCEPT ![j] = "running"]
  /\ UNCHANGED <<type, host, status, taskId, waits, queue, workVars, cancelVars, faults,
                 history>>

Publish(j) ==
  /\ req[j] = "audited"
  /\ req' = [req EXCEPT ![j] = "published"]
  /\ queue' = [queue EXCEPT ![j] = @ + 1]
  /\ UNCHANGED <<type, host, rowVars, workVars, cancelVars, faults, history>>

\* Failing rows and closing their running audit rows in one commit.
FailRows(J) ==
  /\ status' = [j \in Job |-> IF j \in J THEN "failed" ELSE status[j]]
  /\ audit' = [j \in Job |-> IF j \in J /\ audit[j] = "running" THEN "failed" ELSE audit[j]]
  /\ abandoned' = [j \in Job |-> abandoned[j] \/ (j \in J /\ Busy(Worker, j))]

\* The broker refuses the message: _fail_enqueue.
PublishFails(j) ==
  /\ req[j] = "audited"
  /\ req' = [req EXCEPT ![j] = "over"]
  /\ FailRows(IF Active(j) THEN {j} ELSE {})
  /\ UNCHANGED <<type, host, taskId, waits, queue, workVars, cancelVars, faults,
                 raced, starts, doubled>>

\* _enqueue_celery after publish()
StoreTaskId(j) ==
  /\ req[j] = "published"
  /\ req' = [req EXCEPT ![j] = "over"]
  /\ taskId' = [taskId EXCEPT ![j] = TRUE]
  /\ UNCHANGED <<type, host, status, audit, waits, queue, workVars, cancelVars, faults,
                 history>>

\* The web process or the scheduler dies in the middle of a request.
RequesterDies(j) ==
  /\ req[j] \notin {"new", "over"} /\ faults < MaxFaults
  /\ req' = [req EXCEPT ![j] = "over"]
  /\ faults' = faults + 1
  /\ UNCHANGED <<type, host, rowVars, queue, workVars, cancelVars, history>>
------------------------------------------------------------------------------
\* Mutant: a running row is worked on again.
AfterReadResumes(j) ==
  IF Settled(j) THEN "ack"
  ELSE IF type[j] = "host_bootstrap" THEN "lane" ELSE "probe"

\* Mutant: only a cancelled row is left alone, a failed one is run.
AfterReadRetries(j) ==
  IF status[j] = "cancelled" THEN "ack"
  ELSE IF status[j] = "running" THEN "fail"
  ELSE IF type[j] = "host_bootstrap" THEN "lane" ELSE "probe"

\* run_exclusive_job's first session: what the worker does after reading the row.
AfterRead(j) ==
  IF Settled(j) THEN "ack"
  ELSE IF status[j] = "running" THEN "fail"
  ELSE IF type[j] = "host_bootstrap" THEN "lane" ELSE "probe"

Take(w, j) ==
  /\ pc[w] = "idle" /\ queue[j] > 0
  /\ queue' = [queue EXCEPT ![j] = @ - 1]
  /\ task' = [task EXCEPT ![w] = j]
  /\ pc' = [pc EXCEPT ![w] = AfterRead(j)]
  /\ taskId' = [taskId EXCEPT ![j] = @ \/ Active(j)]
  /\ UNCHANGED <<reqVars, status, audit, waits, result, cancelVars, faults, history>>

Goto(w, p) ==
  /\ pc' = [pc EXCEPT ![w] = p]
  /\ UNCHANGED <<reqVars, rowVars, queue, task, result, cancelVars, faults, history>>

\* Mutant: a pending bootstrap is not looked at.
OtherActiveRunning(j) ==
  \E i \in Job \ {j} : type[i] = type[j] /\ host[i] = host[j] /\ status[i] = "running"

\* _other_active_job
OtherActive(j) ==
  \E i \in Job \ {j} : type[i] = type[j] /\ host[i] = host[j] /\ Active(i)

\* host_bootstrap: "A busy exclusive slot fails at once."
CheckLane(w) ==
  /\ pc[w] = "lane"
  /\ Goto(w, IF OtherActive(task[w]) THEN "fail" ELSE "start")

\* _ssh_ready; the host may or may not answer.
Probe(w) ==
  /\ pc[w] = "probe"
  /\ \E p \in {"start", "wait"} : Goto(w, p)

\* Mutant: no wait limit.
WaitOverNever(j) == FALSE

WaitOver(j) == waits[j] = WaitLimit

\* Mutant: the wait starts anew at each retry.
WaitedAfresh(j) == 1

\* One more HOST_WAIT_COUNTDOWN_SEC since host_wait_started.
Waited(j) == waits[j] + 1

\* _wait_for_host when there is nothing to wait for any more
WaitEnds(w) ==
  /\ pc[w] = "wait"
  /\ LET j == task[w] IN
       \/ status[j] # "pending" /\ Goto(w, "ack")
       \/ status[j] = "pending" /\ WaitOver(j) /\ Goto(w, "fail")

\* _wait_for_host: the row stays pending and task.retry publishes the message again;
\* the message in hand is acknowledged later.
Retry(w) ==
  /\ pc[w] = "wait"
  /\ LET j == task[w] IN
       /\ status[j] = "pending" /\ ~WaitOver(j)
       /\ waits' = [waits EXCEPT ![j] = Waited(j)]
       /\ queue' = [queue EXCEPT ![j] = @ + 1]
  /\ pc' = [pc EXCEPT ![w] = "ack"]
  /\ UNCHANGED <<reqVars, status, audit, taskId, task, result, cancelVars, faults, history>>

\* Every _execute_* begins so, whatever the row says by now.
Start(w) ==
  /\ pc[w] = "start"
  /\ status' = [status EXCEPT ![task[w]] = "running"]
  /\ starts' = [starts EXCEPT ![task[w]] = @ + 1]
  /\ pc' = [pc EXCEPT ![w] = "work"]
  /\ UNCHANGED <<reqVars, audit, taskId, waits, queue, task, result, cancelVars, faults,
                 raced, abandoned, doubled>>

\* The remote commands ended.
Work(w) ==
  /\ pc[w] = "work"
  /\ pc' = [pc EXCEPT ![w] = "finish"]
  /\ \E r \in {"success", "failed"} : result' = [result EXCEPT ![w] = r]
  /\ UNCHANGED <<reqVars, rowVars, queue, task, cancelVars, faults, history>>

\* An exception none of the steps expects, or MaxRetriesExceededError.
Unexpected(w) ==
  /\ pc[w] \in {"lane", "probe", "wait", "start", "work"}
  /\ Goto(w, "fail")

\* _fail_message: only an active row is failed.
FailMessage(w) ==
  /\ pc[w] = "fail"
  /\ IF Active(task[w])
     THEN /\ pc' = [pc EXCEPT ![w] = "finish"]
          /\ result' = [result EXCEPT ![w] = "failed"]
     ELSE pc' = [pc EXCEPT ![w] = "ack"] /\ UNCHANGED result
  /\ UNCHANGED <<reqVars, rowVars, queue, task, cancelVars, faults, history>>

\* Mutant: the audit row is not written when the job succeeds.
FinishedAuditOpen(j, r) ==
  IF status[j] # "cancelled" THEN (IF r = "success" THEN audit[j] ELSE r)
  ELSE IF audit[j] = "running" THEN "cancelled" ELSE audit[j]

\* _finish: a cancelled job's audit row is closed as cancelled, any other is written.
FinishedAudit(j, r) ==
  IF status[j] # "cancelled" THEN r
  ELSE IF audit[j] = "running" THEN "cancelled" ELSE audit[j]

\* _finish: a settled row keeps its status.
Finish(w) ==
  /\ pc[w] = "finish"
  /\ LET j == task[w] IN
       /\ status' = [status EXCEPT ![j] = IF Settled(j) THEN @ ELSE result[w]]
       /\ audit' = [audit EXCEPT ![j] = FinishedAudit(j, result[w])]
       /\ abandoned' = [abandoned EXCEPT ![j] = @ \/ (~Settled(j) /\ Busy(Worker \ {w}, j))]
  /\ pc' = [pc EXCEPT ![w] = "ack"]
  /\ result' = [result EXCEPT ![w] = "none"]
  /\ UNCHANGED <<reqVars, taskId, waits, queue, task, cancelVars, faults,
                 raced, starts, doubled>>

WorkerFree(w) ==
  /\ task' = [task EXCEPT ![w] = NoJob]
  /\ pc' = [pc EXCEPT ![w] = "idle"]
  /\ result' = [result EXCEPT ![w] = "none"]

\* The task body returned: Celery acknowledges the message (late).
Ack(w) ==
  /\ pc[w] = "ack"
  /\ WorkerFree(w)
  /\ UNCHANGED <<reqVars, rowVars, queue, cancelVars, faults, history>>
------------------------------------------------------------------------------
\* A worker node dies: an unacknowledged message comes back after the visibility
\* timeout.  A child that dies alone, or runs into the hard time limit, loses it.
WorkerDies(w) ==
  /\ pc[w] # "idle" /\ faults < MaxFaults
  /\ faults' = faults + 1
  /\ WorkerFree(w)
  /\ LET j == task[w] IN
       \/ /\ type[j] # "host_bootstrap"
          /\ queue' = [queue EXCEPT ![j] = @ + 1]
          /\ doubled' = [doubled EXCEPT ![j] =
               @ \/ queue[j] > 0 \/ \E v \in Worker \ {w} : task[v] = j]
       \/ UNCHANGED <<queue, doubled>>
  /\ UNCHANGED <<reqVars, rowVars, cancelVars, raced, abandoned, starts>>

\* cancel_job: the row, as the route read it, is active; the task is revoked.
Cancel(j) ==
  /\ Active(j) /\ ~cancelling[j] /\ faults < MaxFaults
  /\ faults' = faults + 1
  /\ cancelling' = [cancelling EXCEPT ![j] = TRUE]
  /\ revoked' = [revoked EXCEPT ![j] = @ \/ taskId[j]]
  /\ UNCHANGED <<reqVars, rowVars, queue, workVars, history>>

\* _mark_job_cancelled writes the row the route read; its audit row stays as it is.
CancelCommit(j) ==
  /\ cancelling[j]
  /\ cancelling' = [cancelling EXCEPT ![j] = FALSE]
  /\ status' = [status EXCEPT ![j] = "cancelled"]
  /\ abandoned' = [abandoned EXCEPT ![j] = @ \/ Busy(Worker, j)]
  /\ UNCHANGED <<reqVars, audit, taskId, waits, queue, workVars, revoked, faults,
                 raced, starts, doubled>>

\* revoke(terminate=True) reaches the worker: it drops the message, or is killed
\* and the message acknowledged.
RevokeArrives(j) ==
  /\ revoked[j]
  /\ \/ queue[j] > 0 /\ queue' = [queue EXCEPT ![j] = @ - 1] /\ UNCHANGED workVars
     \/ \E w \in Worker : task[w] = j /\ WorkerFree(w) /\ UNCHANGED queue
  /\ UNCHANGED <<reqVars, rowVars, cancelVars, faults, history>>

\* Mutant: the stale sweep looks at running rows only.
StaleRunningOnly(j) == status[j] = "running"

\* cleanup_stale_backup_jobs picks an active row; any of them may be two hours old.
Stale(j) == Active(j)

\* The audit row stays open.
StaleSweep(j) ==
  /\ Stale(j)
  /\ status' = [status EXCEPT ![j] = "failed"]
  /\ abandoned' = [abandoned EXCEPT ![j] = @ \/ Busy(Worker, j)]
  /\ UNCHANGED <<reqVars, audit, taskId, waits, queue, workVars, cancelVars, faults,
                 raced, starts, doubled>>

\* reconcile_orphaned_running_jobs: running rows of no task seen active are failed.
\* inspect() waits a second: a worker that does not answer in time is not seen.
Reconcile(seen) ==
  LET InHand  == {j \in Job : \E w \in Worker : task[w] = j}
      Orphans == {j \in Job : status[j] = "running"} \ seen
  IN  /\ seen \subseteq InHand /\ Orphans # {}
      /\ IF Orphans \intersect InHand = {} THEN UNCHANGED faults
         ELSE faults < MaxFaults /\ faults' = faults + 1
      /\ FailRows(Orphans)
      /\ UNCHANGED <<reqVars, taskId, waits, queue, workVars, cancelVars,
                     raced, starts, doubled>>

\* _fail_expired_pending_host_bootstrap: the message may have expired, or wait in a worker.
ExpireBootstrap(j) ==
  /\ type[j] = "host_bootstrap" /\ status[j] = "pending"
  /\ FailRows({j})
  /\ \E n \in {0, queue[j]} : queue' = [queue EXCEPT ![j] = n]
  /\ UNCHANGED <<reqVars, taskId, waits, workVars, cancelVars, faults,
                 raced, starts, doubled>>
------------------------------------------------------------------------------
Request(j) ==
  \/ \E t \in JobType, h \in Host : Check(j, t, h)
  \/ Insert(j) \/ OpenAudit(j) \/ Publish(j) \/ PublishFails(j) \/ StoreTaskId(j)

Serve(w) ==
  \/ \E j \in Job : Take(w, j)
  \/ CheckLane(w) \/ Probe(w) \/ WaitEnds(w) \/ Retry(w) \/ Start(w) \/ Work(w)
  \/ FailMessage(w) \/ Finish(w) \/ Ack(w)

Sweep(j) == StaleSweep(j) \/ ExpireBootstrap(j)

Next ==
  \/ \E j \in Job : \/ Request(j) \/ RequesterDies(j) \/ Cancel(j) \/ CancelCommit(j)
                    \/ RevokeArrives(j) \/ Sweep(j)
  \/ \E w \in Worker : Serve(w) \/ Unexpected(w) \/ WorkerDies(w)
  \/ \E seen \in SUBSET Job : Reconcile(seen)

Spec == Init /\ [][Next]_vars

\* Workers keep serving; a request and a cancel once begun go on; nobody need
\* request, cancel, die or miss an answer.
Fairness ==
  /\ \A w \in Worker : WF_vars(Serve(w))
  /\ \A j \in Job : WF_vars(req[j] # "new" /\ Request(j)) /\ WF_vars(CancelCommit(j))

\* scheduler.py: both sweeps run every 15 minutes.
SweepFairness ==
  /\ \A j \in Job : WF_vars(StaleSweep(j))
  /\ WF_vars(\E seen \in SUBSET Job : Reconcile(seen))

FairSpec  == Spec /\ Fairness
SweptSpec == Spec /\ Fairness /\ SweepFairness
------------------------------------------------------------------------------
(***************************************************************************)
(* Properties                                                              *)
(***************************************************************************)
\* JobAlreadyActive, services/jobs/service.py:45: jobs "must not stack on the same
\* host".  Two rows of one lane are active together only if both requests looked
\* before either wrote, or a worker went on with a row settled behind its back.
LaneExclusive ==
  \A i, j \in Job :
    LaneMates(i, j) /\ Active(i) /\ Active(j) =>
      {i, j} \in raced \/ abandoned[i] \/ abandoned[j]

\* host_bootstrap looks after its own row is in, so its requests cannot race: two
\* bootstraps never work on one host unless a sweep or a cancel settled a live one.
BootstrapAlone ==
  \A v, w \in Worker :
    LET i == task[v]  j == task[w] IN
      /\ v # w /\ pc[v] = "work" /\ pc[w] = "work"
      /\ type[i] = "host_bootstrap" /\ type[j] = "host_bootstrap" /\ host[i] = host[j]
      => abandoned[i] \/ abandoned[j]

\* jobs_exclusive.py:13: "A redelivery that finds the job already running fails it.
\* Pending waits redeliver": the remote work of a job starts at most once, whatever
\* dies, unless a message came back beside its own retry.
WorkOnce == \A j \in Job : starts[j] <= 1 \/ doubled[j]

\* A settled row is set running again only by a worker that had read it as pending
\* before it was settled; a redelivered or retried message of a settled row is dropped.
ReviveOnlyInHand ==
  [][\A j \in Job : Settled(j) /\ status'[j] \notin Terminal => abandoned[j]]_vars

\* Row and audit of a success agree, however sweeps, cancels and workers interleave,
\* unless two messages of the job were out at once.
SuccessAudited ==
  \A j \in Job : status[j] = "success" => audit[j] = "success" \/ doubled[j]

\* cancel_job, services/jobs/service.py:630: "in-flight BackgroundTasks may still
\* run briefly -- _finish will not overwrite cancelled status".
CancelledStays ==
  [][\A j \in Job : status[j] = "cancelled" => status'[j] = "cancelled"]_vars

\* The row as the pages see it: out once its request is over, in hand from the read that
\* found it active to the last write.
JobsOut   == {j \in Job : status[j] # "none" /\ req[j] \in {"published", "over"}}
RowInHand == [w \in Worker |-> IF pc[w] \in {"idle", "ack"} THEN NoJob ELSE task[w]]
Cancelled == {j \in Job : cancelling[j]}

Rows == INSTANCE JobRow WITH
  Row <- Job, RowWorker <- Worker, NoRow <- NoJob, Reopens <- TRUE, Rewrites <- FALSE,
  row <- status, out <- JobsOut, hand <- RowInHand, cancels <- Cancelled

\* jobs_exclusive.py:13 and _finish: whatever is redelivered, retried or swept, a row goes on
\* only in the hands of a worker that read it as active, and what was settled is written again
\* only by a worker that first sets it running, or by a cancel, that had read it before.
RefinesJobRow == Rows!RowSpec

\* With the sweeps, no row blocks its lane for ever: whoever died at whichever step,
\* a row that is in gets settled for good, a revived one too.
Settles == \A j \in Job : status[j] = "pending" ~> []Settled(j)

\* A published job whose host never answers leaves the queue by itself, without the
\* sweeps: the retries end with the wait limit.
WaitIsBounded == \A j \in Job : queue[j] > 0 ~> Settled(j)
==============================================================================
