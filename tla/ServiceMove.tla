------------------------------ MODULE ServiceMove ------------------------------
(***************************************************************************)
(* Moving one compose project from a source host to a destination host     *)
(* (services/jobs_migrate.py, services/service_migrate), and the jobs a    *)
(* failed Move offers: Start source, Stop dest and start source, Undo.     *)
(*                                                                         *)
(* Every job is a row and a Celery task.  A Move, an undo and a recover    *)
(* work under the lock of both hosts (module ServerLock); Start source is  *)
(* an exclusive job (module ExclusiveJobs) and takes no lock.  What keeps  *)
(* it apart from them is that requests look for an active row first; here  *)
(* that look and the insert are one step.  Meanwhile workers die with a    *)
(* remote command under way, messages come back, sweeps fail rows and      *)
(* users cancel.                                                           *)
(***************************************************************************)
EXTENDS Integers, FiniteSets

CONSTANTS
  Job,        \* rows that may be requested
  NoJob,
  MaxFaults   \* bound: deaths, rows settled while their task runs, and looks that fail

ASSUME NoJobAssumption == NoJob \notin Job
ASSUME FaultAssumption == MaxFaults \in Nat

VARIABLES
  src, dst,    \* the project's containers on the two hosts
  names,       \* the host its DNS names and proxy hosts lead to
  rows,        \* the host its control-plane rows are bound to
  kind, parent, status,
  step,        \* migrate_step of a Move
  failedStep,  \* failed_step of a Move
  offers,      \* recover_source and dest_up_recover stored on a Move
  undoSteps,   \* undo_steps of a Move, and the steps an undo has behind it
  pc,          \* where the job's task is; "queued" is in the broker
  error,       \* the failed_step of the exception a task is handling
  holder,      \* the job whose token locks both hosts
  last,        \* the last Move requested
  faults,
  abandoned,   \* history: jobs whose row was settled while their task ran
  blind        \* history: Moves whose look at dest failed

hosts    == <<src, dst, names, rows>>
requests == <<kind, parent, last>>
records  == <<step, failedStep, offers, undoSteps>>
history  == <<abandoned, blind>>
vars == <<hosts, requests, status, records, pc, error, holder, faults, history>>

Terminal  == {"success", "failed", "cancelled"}
MoveStep  == {"preflight", "stop", "copy", "dest_up", "cutover", "rebind", "validate",
              "leftover"}
ChildStep == {"u_stop", "u_dns", "u_back", "u_rebind", "u_certs", "u_start",
              "r_stop", "r_start", "start"}
Working   == MoveStep \union ChildStep \union {"begin", "payload", "close", "done"}
Stack     == {"up", "partial", "down", "gone"}

TypeOK ==
  /\ src \in Stack /\ dst \in Stack \ {"gone"}
  /\ names \in {"src", "mixed", "dst"} /\ rows \in {"src", "dst"}
  /\ kind \in [Job -> {"none", "move", "undo", "recover", "start"}]
  /\ parent \in [Job -> Job \union {NoJob}]
  /\ status \in [Job -> {"none", "pending", "running"} \union Terminal]
  /\ step \in [Job -> MoveStep \union {"none"}]
  /\ failedStep \in [Job -> MoveStep \union {"none", "worker_restart"}]
  /\ offers \in [Job -> SUBSET {"recover_source", "dest_up_recover"}]
  /\ undoSteps \in [Job -> SUBSET {"stop", "dns", "rebind", "certs"}]
  /\ pc \in [Job -> Working \union {"none", "queued", "over"}]
  /\ error \in [Job -> MoveStep \union {"none"}]
  /\ holder \in Job \union {NoJob} /\ last \in Job \union {NoJob}
  /\ faults \in 0 .. MaxFaults
  /\ abandoned \subseteq Job /\ blind \subseteq Job

Init ==
  /\ src = "up" /\ dst = "down" /\ names = "src" /\ rows = "src"
  /\ kind = [j \in Job |-> "none"]
  /\ parent = [j \in Job |-> NoJob]
  /\ status = [j \in Job |-> "none"]
  /\ step = [j \in Job |-> "none"]
  /\ failedStep = [j \in Job |-> "none"]
  /\ offers = [j \in Job |-> {}]
  /\ undoSteps = [j \in Job |-> {}]
  /\ pc = [j \in Job |-> "none"]
  /\ error = [j \in Job |-> "none"]
  /\ holder = NoJob /\ last = NoJob
  /\ faults = 0
  /\ abandoned = {} /\ blind = {}
------------------------------------------------------------------------------
Active(j)  == status[j] \in {"pending", "running"}
Settled(j) == status[j] \in Terminal
Runs(j)    == pc[j] \in Working

\* _active_stack_mutating_job and _active_migrate_as_dest, on either host.
HostsFree == \A j \in Job : ~Active(j)

\* An active row, its audit row and its message.
Queue(j, k, m) ==
  /\ kind[j] = "none" /\ HostsFree
  /\ kind' = [kind EXCEPT ![j] = k]
  /\ parent' = [parent EXCEPT ![j] = m]
  /\ status' = [status EXCEPT ![j] = "pending"]
  /\ pc' = [pc EXCEPT ![j] = "queued"]
  /\ UNCHANGED <<hosts, records, error, holder, faults, history>>

RequestMove(j) == Queue(j, "move", NoJob) /\ last' = j

\* Operators use what the last Move offers.  (The page of an older one still shows its
\* Undo.)
Shown(m) == m = last /\ status[m] = "failed"

\* _parent_has_child
HasChild(m, k) ==
  \E j \in Job :
    parent[j] = m /\ kind[j] = k /\ status[j] \in {"success", "pending", "running"}

\* Mutant: a Move that failed in its leftover step is undone as well.
UndoStepsLeftover == {"cutover", "rebind", "validate", "leftover"}

\* undo.py UNDO_STEPS
UndoSteps == {"cutover", "rebind", "validate"}

\* eligible_undo: read off failed_step.
EligibleUndo(m) == status[m] = "failed" /\ failedStep[m] \in UndoSteps

\* eligible_dest_up_recover
EligibleRecover(m) ==
  /\ status[m] = "failed" /\ failedStep[m] = "worker_restart" /\ step[m] = "dest_up"
  /\ offers[m] = {"dest_up_recover"}

RequestUndo(j, m) ==
  /\ Shown(m) /\ EligibleUndo(m) /\ ~HasChild(m, "undo")
  /\ Queue(j, "undo", m) /\ UNCHANGED last

RequestRecover(j, m) ==
  /\ Shown(m) /\ EligibleRecover(m) /\ ~HasChild(m, "recover")
  /\ Queue(j, "recover", m) /\ UNCHANGED last

\* recover_source: a plain docker_stack_start of the source project.
RequestStart(j, m) ==
  /\ Shown(m) /\ "recover_source" \in offers[m]
  /\ Queue(j, "start", m) /\ UNCHANGED last
------------------------------------------------------------------------------
Goto(j, p) == pc' = [pc EXCEPT ![j] = p]

FirstStep ==
  [move |-> "preflight", undo |-> "u_stop", recover |-> "r_stop", start |-> "start"]

\* A settled row: the message is dropped.
Skip(j) ==
  /\ pc[j] = "queued" /\ Settled(j)
  /\ Goto(j, "over")
  /\ UNCHANGED <<hosts, requests, status, records, error, holder, faults, history>>

\* The task reads its row and gets the lock of both hosts, or needs none.
Take(j) ==
  /\ pc[j] = "queued" /\ status[j] = "pending"
  /\ IF kind[j] = "start" THEN UNCHANGED holder ELSE holder = NoJob /\ holder' = j
  /\ Goto(j, "begin")
  /\ UNCHANGED <<hosts, requests, status, records, error, faults, history>>

\* _execute_*: the row is set running, whatever it says by now.
Begin(j) ==
  /\ pc[j] = "begin"
  /\ Goto(j, FirstStep[kind[j]])
  /\ status' = [status EXCEPT ![j] = "running"]
  /\ step' = [step EXCEPT ![j] = IF kind[j] = "move" THEN "preflight" ELSE @]
  /\ undoSteps' = [undoSteps EXCEPT ![j] =
                     IF kind[j] = "undo" THEN undoSteps[parent[j]] ELSE @]
  /\ UNCHANGED <<hosts, requests, failedStep, offers, error, holder, faults, history>>

\* The last of _LOCK_MAX_RETRIES tries finds the lock taken.
GiveUp(j) ==
  /\ pc[j] = "queued" /\ status[j] = "pending" /\ kind[j] # "start" /\ holder # NoJob
  /\ Goto(j, "over")
  /\ status' = [status EXCEPT ![j] = "failed"]
  /\ UNCHANGED <<hosts, requests, records, error, holder, faults, history>>

\* Mutant: Start source is offered after a death in dest_up, too.
RestartOfferAlone(s) ==
  IF s \in {"stop", "copy", "dest_up"} THEN {"recover_source"} ELSE {}

\* WORKER_RESTART_RECOVER_STEPS, and the inspect payload of dest_up.
RestartOffer(s) ==
  IF s \in {"stop", "copy"} THEN {"recover_source"}
  ELSE IF s = "dest_up" THEN {"dest_up_recover"} ELSE {}

\* A message that came back finds its row running: fail_migrate_worker_restart, and
\* the like of undo and recover.  Nothing is run again.
Redelivered(j) ==
  /\ pc[j] = "queued" /\ status[j] = "running"
  /\ Goto(j, "over")
  /\ status' = [status EXCEPT ![j] = "failed"]
  /\ IF kind[j] = "move"
     THEN /\ failedStep' = [failedStep EXCEPT ![j] = "worker_restart"]
          /\ offers' = [offers EXCEPT ![j] = @ \union RestartOffer(step[j])]
     ELSE UNCHANGED <<failedStep, offers>>
  /\ UNCHANGED <<hosts, requests, step, undoSteps, error, holder, faults, history>>
------------------------------------------------------------------------------
(***************************************************************************)
(* What a remote command leaves behind when it fails, or when its worker   *)
(* dies and nobody hears of it: an exit code (-1 once the SSH session has  *)
(* dropped) does not tell how far compose came.                            *)
(***************************************************************************)
StopLeaves(s)  == IF s \in {"up", "partial"} THEN {s, "partial", "down"} ELSE {s}
StartLeaves(s) == IF s = "gone" THEN {s} ELSE {s, "partial", "up"}
WipeLeaves(s)  == IF s = "gone" THEN {s} ELSE {s, "down", "gone"}
FlipLeaves(h)  == IF names = h THEN {h} ELSE {names, "mixed", h}

SrcAfter(p) ==
  IF p = "stop" THEN StopLeaves(src)
  ELSE IF p \in {"u_start", "r_start", "start"} THEN StartLeaves(src)
  ELSE IF p = "leftover" THEN WipeLeaves(src) ELSE {src}

DstAfter(p) ==
  IF p \in {"u_stop", "r_stop"} THEN StopLeaves(dst)
  ELSE IF p \in {"dest_up", "u_back"} THEN StartLeaves(dst)
  ELSE IF p = "copy" THEN {dst, "down"} ELSE {dst}

NamesAfter(p) ==
  IF p = "cutover" THEN FlipLeaves("dst")
  ELSE IF p = "u_dns" THEN FlipLeaves("src") ELSE {names}

HostsAfter(p) ==
  /\ src' \in SrcAfter(p) /\ dst' \in DstAfter(p) /\ names' \in NamesAfter(p)

\* The next step; on_step records it, but for the rebind.
Enter(j, p) ==
  /\ Goto(j, p)
  /\ step' = [step EXCEPT ![j] = IF p \in MoveStep \ {"rebind"} THEN p ELSE @]
  /\ UNCHANGED <<requests, status, failedStep, offers, undoSteps, error, holder, faults,
                 history>>

\* An exception; S holds the failed_steps it may carry ("none": it is no MigrateError).
Raise(j, S) ==
  /\ Goto(j, "payload")
  /\ \E s \in S : error' = [error EXCEPT ![j] = s]
  /\ UNCHANGED <<requests, status, records, holder, faults, history>>

DestRuns == dst \in {"up", "partial"}

\* _busy_jobs: STACK_BUSY_TYPES has neither undo nor recover.
BusyWith(j) == \E i \in Job \ {j} : Active(i) /\ kind[i] \in {"move", "start"}

\* Mutant: a destination that runs the project does not block.
BlockedByJobs(j) == BusyWith(j)

\* run_preflight, as far as it looks at this project.
Blocked(j) == DestRuns \/ BusyWith(j)

Preflight(j) ==
  /\ pc[j] = "preflight"
  /\ \/ ~Blocked(j) /\ Enter(j, "stop")
     \/ Raise(j, {"preflight"})
  /\ UNCHANGED hosts

\* probe_dest_occupancy shows no containers when its docker ps fails.
PreflightBlind(j) ==
  /\ pc[j] = "preflight" /\ DestRuns /\ ~BusyWith(j) /\ faults < MaxFaults
  /\ faults' = faults + 1
  /\ blind' = blind \union {j}
  /\ Goto(j, "stop")
  /\ step' = [step EXCEPT ![j] = "stop"]
  /\ UNCHANGED <<hosts, requests, status, failedStep, offers, undoSteps, error, holder,
                 abandoned>>

StopSource(j) ==
  /\ pc[j] = "stop"
  /\ \/ src # "gone" /\ src' = "down" /\ UNCHANGED <<dst, names>> /\ Enter(j, "copy")
     \/ HostsAfter("stop") /\ Raise(j, {"stop", "none"})
  /\ UNCHANGED rows

\* The project tree, its volumes and binds; then dest's old containers are removed.
Copy(j) ==
  /\ pc[j] = "copy"
  /\ \/ src # "gone" /\ dst' = "down" /\ UNCHANGED <<src, names>> /\ Enter(j, "dest_up")
     \/ HostsAfter("copy") /\ Raise(j, {"copy", "dest_up", "none"})
  /\ UNCHANGED rows

DestUp(j) ==
  /\ pc[j] = "dest_up"
  /\ \/ dst' = "up" /\ UNCHANGED <<src, names>> /\ Enter(j, "cutover")
     \/ HostsAfter("dest_up") /\ Raise(j, {"dest_up", "none"})
  /\ UNCHANGED rows

\* Mutant: a record that could not be flipped is only logged.
CutoverGoesOn(j) ==
  /\ pc[j] = "cutover"
  /\ HostsAfter("cutover") /\ Enter(j, "rebind")
  /\ UNCHANGED rows

\* retarget_dns_npm, record by record, and restartdns once all have flipped.
Cutover(j) ==
  /\ pc[j] = "cutover"
  /\ \/ names' = "dst" /\ UNCHANGED <<src, dst>> /\ Enter(j, "rebind")
     \/ HostsAfter("cutover") /\ Raise(j, {"cutover", "none"})
  /\ UNCHANGED rows

\* rebind_control_plane, one commit
Rebind(j) ==
  /\ pc[j] = "rebind"
  /\ \/ rows' = "dst" /\ Enter(j, "validate")
     \/ UNCHANGED rows /\ Raise(j, {"rebind"})
  /\ UNCHANGED <<src, dst, names>>

Validate(j) ==
  /\ pc[j] = "validate"
  /\ Enter(j, "leftover") \/ Raise(j, {"validate", "none"})
  /\ UNCHANGED hosts

\* Mutant: the leftover of the wrong host is removed.
LeftoverOfDest(j) ==
  /\ pc[j] = "leftover"
  /\ dst' \in WipeLeaves(dst) /\ UNCHANGED <<src, names>>
  /\ Enter(j, "done") \/ Raise(j, {"leftover", "none"})
  /\ UNCHANGED rows

\* apply_leftover: the source stays stopped, goes down, or is removed.
Leftover(j) ==
  /\ pc[j] = "leftover"
  /\ HostsAfter("leftover")
  /\ Enter(j, "done") \/ Raise(j, {"leftover", "none"})
  /\ UNCHANGED rows

\* pipeline.py RECOVER_SOURCE_STEPS
RecoverSourceSteps == {"stop", "copy", "dest_up"}

\* _run_service_migrate_pipeline, the commit before _finish: what the failed Move offers.
\* A failed step of neither kind leaves no trace.
StoreOffer(j) ==
  /\ pc[j] = "payload" /\ kind[j] = "move"
  /\ Goto(j, "close")
  /\ failedStep' = [failedStep EXCEPT ![j] =
       IF error[j] \in RecoverSourceSteps \union UndoSteps THEN error[j] ELSE @]
  /\ offers' = [offers EXCEPT ![j] =
       IF error[j] \in RecoverSourceSteps THEN @ \union {"recover_source"} ELSE @]
  /\ UNCHANGED <<hosts, requests, status, step, undoSteps, error, holder, faults, history>>

\* _finish, which leaves a settled row alone; then the locks are given back.
Close(j) ==
  /\ pc[j] \in {"close", "done"}
  /\ status' = [status EXCEPT ![j] =
       IF Settled(j) THEN @ ELSE IF pc[j] = "done" THEN "success" ELSE "failed"]
  /\ Goto(j, "over")
  /\ error' = [error EXCEPT ![j] = "none"]
  /\ holder' = IF holder = j THEN NoJob ELSE holder
  /\ UNCHANGED <<hosts, requests, records, faults, history>>
------------------------------------------------------------------------------
(***************************************************************************)
(* Undo, recover and Start source.                                         *)
(***************************************************************************)
ChildUnchanged ==
  UNCHANGED <<requests, status, step, failedStep, error, holder, faults, history>>

\* An UndoError carries the steps that stay committed; another exception does not.
UndoFails(j) == (Goto(j, "payload") \/ Goto(j, "close")) /\ UNCHANGED undoSteps

Undone(j, s, p) == Goto(j, p) /\ undoSteps' = [undoSteps EXCEPT ![j] = @ \union {s}]

\* A previous undo of this Move got past this step: run_undo_pipeline's done.
SkipDone(j) ==
  /\ \/ pc[j] = "u_stop" /\ "stop" \in undoSteps[j] /\ Goto(j, "u_dns")
     \/ pc[j] = "u_dns" /\ "dns" \in undoSteps[j] /\ Goto(j, "u_rebind")
     \/ pc[j] = "u_rebind" /\ "rebind" \in undoSteps[j] /\ Goto(j, "u_certs")
     \/ pc[j] = "u_certs" /\ "certs" \in undoSteps[j] /\ Goto(j, "u_start")
  /\ UNCHANGED <<hosts, offers, undoSteps>> /\ ChildUnchanged

UndoStop(j) ==
  /\ pc[j] = "u_stop" /\ "stop" \notin undoSteps[j]
  /\ \/ dst' = "down" /\ UNCHANGED <<src, names>> /\ Undone(j, "stop", "u_dns")
     \/ HostsAfter("u_stop") /\ UndoFails(j)
  /\ UNCHANGED <<rows, offers>> /\ ChildUnchanged

UndoDns(j) ==
  /\ pc[j] = "u_dns" /\ "dns" \notin undoSteps[j]
  /\ \/ names' = "src" /\ UNCHANGED <<src, dst>> /\ Undone(j, "dns", "u_rebind")
     \/ HostsAfter("u_dns") /\ Goto(j, "u_back") /\ UNCHANGED undoSteps
  /\ UNCHANGED <<rows, offers>> /\ ChildUnchanged

\* _fail(restart_dest=True): "Names were not moved; starting dest again".
UndoBack(j) ==
  /\ pc[j] = "u_back"
  /\ \/ /\ dst' = "up" /\ UNCHANGED <<src, names>> /\ Goto(j, "payload")
        /\ undoSteps' = [undoSteps EXCEPT ![j] = @ \ {"stop"}]
     \/ HostsAfter("u_back") /\ UndoFails(j)
  /\ UNCHANGED <<rows, offers>> /\ ChildUnchanged

\* Mutant: the step is noted before it is taken.
UndoRebindNotedFirst(j) ==
  /\ pc[j] = "u_rebind" /\ "rebind" \notin undoSteps[j]
  /\ \/ rows' = "src" /\ Undone(j, "rebind", "u_certs")
     \/ UNCHANGED rows /\ Undone(j, "rebind", "payload")
  /\ UNCHANGED <<src, dst, names, offers>> /\ ChildUnchanged

UndoRebind(j) ==
  /\ pc[j] = "u_rebind" /\ "rebind" \notin undoSteps[j]
  /\ \/ rows' = "src" /\ Undone(j, "rebind", "u_certs")
     \/ UNCHANGED rows /\ Goto(j, "payload") /\ UNCHANGED undoSteps
  /\ UNCHANGED <<src, dst, names, offers>> /\ ChildUnchanged

\* reenable_source_certs; what it switches back on is not part of the model.
UndoCerts(j) ==
  /\ pc[j] = "u_certs" /\ "certs" \notin undoSteps[j]
  /\ Undone(j, "certs", "u_start") \/ (Goto(j, "payload") /\ UNCHANGED undoSteps)
  /\ UNCHANGED <<hosts, offers>> /\ ChildUnchanged

UndoStart(j) ==
  /\ pc[j] = "u_start"
  /\ \/ src # "gone" /\ src' = "up" /\ UNCHANGED <<dst, names, undoSteps>> /\ Goto(j, "done")
     \/ HostsAfter("u_start") /\ UndoFails(j)
  /\ UNCHANGED <<rows, offers>> /\ ChildUnchanged

\* The failed undo leaves its steps on the Move.
StoreSteps(j) ==
  /\ pc[j] = "payload" /\ kind[j] = "undo"
  /\ Goto(j, "close")
  /\ undoSteps' = [undoSteps EXCEPT ![parent[j]] = undoSteps[j]]
  /\ UNCHANGED <<hosts, offers>> /\ ChildUnchanged

\* "A stop failure does not start source."
RecoverStop(j) ==
  /\ pc[j] = "r_stop"
  /\ \/ dst' = "down" /\ UNCHANGED <<src, names>> /\ Goto(j, "r_start")
     \/ HostsAfter("r_stop") /\ Goto(j, "close")
  /\ UNCHANGED <<rows, offers, undoSteps>> /\ ChildUnchanged

\* dest_up_recovered goes to the Move before the job's own _finish.
RecoverStart(j) ==
  /\ pc[j] = "r_start"
  /\ \/ /\ src # "gone" /\ src' = "up" /\ UNCHANGED <<dst, names>> /\ Goto(j, "done")
        /\ offers' = [offers EXCEPT ![parent[j]] = @ \ {"dest_up_recover"}]
     \/ HostsAfter("r_start") /\ Goto(j, "close") /\ UNCHANGED offers
  /\ UNCHANGED <<rows, undoSteps>> /\ ChildUnchanged

\* _execute_docker_stack_lifecycle
StartStack(j) ==
  /\ pc[j] = "start"
  /\ \/ src # "gone" /\ src' = "up" /\ UNCHANGED <<dst, names>> /\ Goto(j, "done")
     \/ HostsAfter("start") /\ Goto(j, "close")
  /\ UNCHANGED <<rows, offers, undoSteps>> /\ ChildUnchanged
------------------------------------------------------------------------------
\* The worker dies: the remote command under way may still have its effect, a row may
\* have been committed.  The message comes back, or is lost with the child process.
WorkerDies(j) ==
  /\ Runs(j) /\ faults < MaxFaults
  /\ faults' = faults + 1
  /\ Goto(j, "queued") \/ Goto(j, "over")
  /\ HostsAfter(pc[j])
  /\ rows' \in {rows} \union (IF pc[j] = "rebind" THEN {"dst"} ELSE {})
                      \union (IF pc[j] = "u_rebind" THEN {"src"} ELSE {})
  /\ error' = [error EXCEPT ![j] = "none"]
  /\ UNCHANGED <<requests, status, records, holder, history>>

\* The token of a dead job runs out.
LeaseExpires ==
  /\ holder # NoJob /\ ~Runs(holder)
  /\ holder' = NoJob
  /\ UNCHANGED <<hosts, requests, status, records, pc, error, faults, history>>

\* cancel_job, cleanup_stale_backup_jobs or reconcile_orphaned_running_jobs settle the
\* row.  A live task is met only by a cancel that does not reach its worker, a sweep
\* two hours after the request, or a worker check that got no answer.
SettleRow(j, s) ==
  /\ Active(j) /\ s \in {"failed", "cancelled"}
  /\ status' = [status EXCEPT ![j] = s]
  /\ IF Runs(j) THEN /\ faults < MaxFaults /\ faults' = faults + 1
                     /\ abandoned' = abandoned \union {j}
     ELSE UNCHANGED <<faults, abandoned>>
  /\ UNCHANGED <<hosts, requests, records, pc, error, holder, blind>>
------------------------------------------------------------------------------
Request(j) ==
  \/ RequestMove(j)
  \/ \E m \in Job : RequestUndo(j, m) \/ RequestRecover(j, m) \/ RequestStart(j, m)

Deliver(j) == Skip(j) \/ Take(j) \/ Begin(j) \/ GiveUp(j) \/ Redelivered(j)

MoveStepDone(j) ==
  \/ Preflight(j) \/ PreflightBlind(j) \/ StopSource(j) \/ Copy(j) \/ DestUp(j)
  \/ Cutover(j) \/ Rebind(j) \/ Validate(j) \/ Leftover(j) \/ StoreOffer(j)

ChildStepDone(j) ==
  \/ SkipDone(j) \/ UndoStop(j) \/ UndoDns(j) \/ UndoBack(j) \/ UndoRebind(j)
  \/ UndoCerts(j) \/ UndoStart(j) \/ StoreSteps(j) \/ RecoverStop(j) \/ RecoverStart(j) \/ StartStack(j)

Next ==
  \/ \E j \in Job : \/ Request(j) \/ Deliver(j) \/ MoveStepDone(j) \/ ChildStepDone(j)
                    \/ Close(j) \/ WorkerDies(j)
                    \/ \E s \in {"failed", "cancelled"} : SettleRow(j, s)
  \/ LeaseExpires

Spec == Init /\ [][Next]_vars
------------------------------------------------------------------------------
(***************************************************************************)
(* Properties                                                              *)
(***************************************************************************)
\* A Start source job whose row was settled while it ran: it is outside the lock, and
\* nothing keeps a new Move away from it.
StrayStart == \E j \in abandoned : kind[j] = "start"

\* "Stop-first": whatever died and whatever was started, cancelled or undone before, a
\* Move copies a stopped project over a stopped one, if it could look at dest.
StopFirst ==
  \A j \in Job : pc[j] = "copy" =>
    \/ src \in {"down", "gone"} /\ (dst = "down" \/ j \in blind)
    \/ StrayStart

\* A dest_up that reported a failure offers Start source, whatever runs on dest by then.
UpFailed(m) ==
  /\ step[m] = "dest_up" /\ "recover_source" \in offers[m]
  /\ failedStep[m] = "dest_up" \/ "dest_up_recover" \in offers[m]

\* jobs_migrate.py:167: "dest may already be up, so Start source alone would dual-run".
\* The project never runs on both hosts, but for a dest_up that failed, an undo whose
\* restart of dest did, or a Move that could not look at dest.
NoDualRun ==
  src = "up" /\ dst = "up" =>
    \/ \E m \in Job : UpFailed(m)
    \/ \E j \in Job : kind[j] = "undo" /\ "stop" \in undoSteps[j]
    \/ blind # {} \/ StrayStart

\* Undo is "fail-path only": as long as a Move can be undone its source has not been
\* removed, so the undo has something to start.
UndoHasSource == \A m \in Job : Shown(m) /\ EligibleUndo(m) => src # "gone"

\* A Move that turns green has moved: its project runs on dest alone, and both its
\* names and its control-plane rows are there.
GreenMeansMoved ==
  [][\A m \in Job : kind[m] = "move" /\ status[m] # "success" /\ status'[m] = "success" =>
       \/ (src \in {"down", "gone"} /\ dst = "up" /\ names = "dst" /\ rows = "dst")
       \/ StrayStart]_vars

\* An undo that turns green is complete, even one that took several jobs, each skipping
\* what the ones before it had committed: names and rows are back and source is up, if no
\* stray Start source died in its compose up.
UndoneMeansBack ==
  [][\A j \in Job : kind[j] = "undo" /\ status[j] # "success" /\ status'[j] = "success" =>
       names = "src" /\ rows = "src" /\ (src = "up" \/ StrayStart)]_vars

\* run_undo_pipeline: "Stop dest, then revert names, then start source".  When an undo
\* starts source, dest is stopped.
UndoStopsDest == \A j \in Job : pc[j] = "u_start" => dst = "down"

\* docs/QA_v1.8.0.md:88: "A Move that dies during dest_up offers inspect, then stop dest
\* and start source".  A Move whose worker died there and that has been failed since
\* offers it, or it has been taken up.
DeadMoveOffersRecovery ==
  \A m \in Job :
    /\ kind[m] = "move" /\ status[m] = "failed" /\ pc[m] = "over" /\ step[m] = "dest_up"
    /\ faults > 0 /\ m \notin abandoned
    => offers[m] # {} \/ \E j \in Job : parent[j] = m
==============================================================================
