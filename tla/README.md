# PiHerder: TLA+ models of its concurrent parts

PiHerder manages a fleet of Docker hosts over SSH. Its web process, its scheduler and its
Celery workers share one database and one Redis; what takes long on a host is a *job*, and
what a user does in the browser runs beside the jobs. This directory models the parts of the
program where those actors can get into each other's way, or where a failure in the middle
leaves something behind: the lock of a host, exclusive jobs, the Move of a compose project
with its undo and recovery, backups of hosts and of PiHerder itself, the copies of backups,
web consoles, SSH keys, the SFTP pool, certificates, DNS records, and the alerts of Uptime
Kuma.

All paths below are relative to the repository. `PROJECT.json` maps every definition to the
lines it models, and lists the runs, mutants, hazards, findings and theorems.

## 1. Inventory

### Components in the models

| Component | State | Operations | Hard behaviour |
|---|---|---|---|
| Per-host lock (`app/services/server_job_lock.py`) | Redis keys `piherder:server_lock:backup:{id}` with token and TTL; in each process the Redis client or a "failed" latch, and a map of local locks | acquire, dual acquire (lower id first), release, refresh | owners die; leases end; Redis comes and goes; half a dual acquire |
| Exclusive host jobs (`jobs_exclusive.py`, `jobs/service.py`, `tasks.py`, `celery_app.py`) | Job row (status, task id, host-wait start), AuditLog row, message in the broker, task in a worker | look for an active lane mate, insert row, insert audit, publish, store task id; deliver, probe, wait and retry, set running, work, finish; cancel, revoke; stale sweep, orphan sweep, expiry of bootstrap messages | nothing but the row connects the actors, and each step is a session of its own; messages come back |
| Move, undo, recover (`jobs_migrate.py`, `service_migrate/*`) | containers on two hosts, DNS/proxy names, control-plane rows; on the Move's row its step, failed step, recovery offers and undo steps | the eight steps of the pipeline; the five of the undo; stop dest and start source; Start source | commands whose effect is unknown; deaths in the middle; retried undos; requests in any order |
| Backup of a host (`tasks.py` `backup_server`, `jobs/service.py`, `backup.py`) | Job row per source, message, the host's lock, rsync on the host, last outcome, the one `backup_failed` alert | request; take, lock or wait, run, record, settle the alert, hand over to the copies; the extra attempt; cancel, both sweeps | retry and redelivery beside a cancel; a killed task leaves its rsync; record and alert are two commits |
| Copies of backups (`backup_replicate.py`, `tasks.py` `replicate_backup`) | rows of one destination (folder hop, direct hop), messages, what each host has backed up and what the destination has | ask for everything, for one host, after a backup; take, start, copy, follow up, finish; cancel, dead child, sweep, restart of the web process | acknowledged on receipt, so nothing comes back; a request is answered with a copy already under way |
| Backup of PiHerder itself (`jobs/service.py`, `tasks.py` `housekeeping_job`, `herder_backup.py`) | rows, messages, the archives in the folder with their age | request; check, start, dump, write and prune, finish; the watch for pending rows; cancel, sweep | archives are written in place and pruned by age, broken and unfinished ones included |
| Web consoles (`ssh_console.py`, `routers/server_console.py`) | tickets, slots per user and in all, attached and parked PTYs, the user's session version, the audit row of each shell | mint, open, drop, park, claim, resume, drain, expire, bye, discard; logout and revoke | a browser that is gone; two tabs with one token; a limit that passes between two awaits |
| SSH keys and logins (`ssh_onboarding.py`, `ssh_identities.py`, `routers/server_ssh.py`) | identities (login, key) in the database, authorized keys per login on the host | rotate, deploy, provision the least-privilege login, set the login's name | the work interleaves and uses the row it read at its start; old key off before the new one is saved |
| SFTP pool (`host_files.py`) | pool lock, a lease with its own lock and connection per host and identity | sweep and get, open, put, acquire, use, evict, drop | two locks taken in both orders; connections closed by somebody else |
| Certificates (`certificates.py` and its routers) | the vault's material, what each target has and has on record, the alerts | pull, upload, renew with polls, redistribute, deploy, verify, edit a target | scheduler and requests are kept apart by nothing; a deploy takes minutes |
| DNS fabric (`dns_fabric/core.py`, `integrations/pihole.py`, `routers/dns.py`) | rows of hosts and of a service, records on every Pi-hole | save, sync and delete A records; upsert, sync, delete the service | the row is committed first, then each Pi-hole is written by a call of its own |
| Kuma alerts (`integrations/poll.py`, `registry.py`, `notifications.py`) | binding with its last state, the notice, Redis key and process lock of a poll | poll (loud or quiet), bind, unbind, dismiss, mute | two polls compare with the same old state |

How they interact: a request inserts rows and publishes a message; a worker takes the
message, reads the row, and (backup, Move, undo, recover) takes the lock of the hosts, or
(exclusive jobs) relies on the check made when the row was requested. Web routes, sweeps and
workers write the same row and do not lock it. A backup that succeeded asks for copies; a copy's
folder hop starts its direct hop, which takes the lock of the hosts. Consoles, keys, files,
certificates and DNS have no job rows: their handlers run in the web process, on the event
loop (consoles, DNS, certificates) or in its thread pool (keys, SFTP), beside the scheduler's
threads.

### Components left out, and why

`PROJECT.json` lists them one by one, and says of each component in a model what of it is left
out. In short: scheduler triggers, reports, insights, settings and routers keep no state that the
models read, or only ask for what the models begin with; SSH transport, Docker inventory and
stacks, nmap, patching and templates are I/O, parsing and rendering whose effect on the models
appears as "a command succeeded, failed, or nobody knows how far it came"; accounts and tokens
authorize one request at a time, and what a revocation does to open shells is modelled.

### What makes each component correct

* Lock: two tasks never hold one host; a task only ever gives back what is its own; a
  failed dual acquire leaves nothing behind; tasks do not block each other, and the dead do
  not block the living, for ever.
* Exclusive jobs: one active job in a lane of a host; remote work is done at most once; a
  settled row stays settled; row and audit agree; no row blocks its lane for ever.
* Move: source is stopped before it is copied, dest is not running when it is overwritten;
  the project never runs on both hosts; a green Move has moved and a green undo is back; an
  offered recovery can work and is there when it is needed.
* Host backups: one run per host; the alert tells the last run; a cancel is final.
* Copies: once every row is settled the destination has every backup that was not openly refused
  or failed; the direct hop follows the folder hop, good or bad.
* Self-backups: one at a time, once per row; a later run never leaves the folder without a whole
  archive.
* Consoles: slots are exactly the shells that hold them; a PTY is in one place; what is closed is
  audited; a revoked login's shells close.
* Keys: the saved key opens the saved login. Pool: a connection has one user and nobody closes it
  under that user; nobody waits for everybody.
* Certificates: the deploy record tells the truth; a renewal reaches every target or alerts. DNS:
  "ok" means the Pi-holes serve the rows. Kuma: the notice is open exactly while the binding is down.

## 2. Modules

| Module | Models | Composition |
|---|---|---|
| `HostMutex` | the promise of the lock: at most one holder per host until the broker was away | abstract specification |
| `JobRow` | the promise of a Job row, for whatever kind of task: who may set it running, settle it, or write it again once settled | abstract specification |
| `ServerLock` | `server_job_lock.py` as `backup_server`, `_migrate_dual_lock_task` and the Direct copy use it | `INSTANCE HostMutex`, refined |
| `ServerLockProofs` | theorems about `ServerLock` | extends it |
| `ExclusiveJobs` | one row's life, for several rows, workers and sweeps | `INSTANCE JobRow`, refined |
| `ServiceMove` | Moves, undos, recovers and Start source of one project | takes the mutual exclusion of the dual lock as one variable `holder`, which `ServerLock` justifies |
| `ConsoleSessions`, `HostBackup`, `BackupCopies`, `SelfBackup`, `KeyRotation`, `SftpPool`, `CertRenewal`, `DnsFabric`, `KumaAlerts` | one component each, as in the inventory | `HostBackup` takes the lock of `ServerLock` as one value |
| `JobRowProofs` | what every component that keeps `JobRow` gets from it | extends it |
| `ExclusiveJobsProofs`, `ServiceMoveProofs` | theorems about the module of that name | extend it and instantiate `JobRowProofs`; `ServiceMove` refines `INSTANCE HostMutex` and `INSTANCE JobRowProofs` |
| `BackupsProofs` | theorems about `HostBackup`, `BackupCopies`, `SelfBackup` | extends the three; `HostBackup` refines `INSTANCE HostMutex`, all three refine `INSTANCE JobRowProofs` |
| `HostAccessProofs` | theorems about `KeyRotation`, `SftpPool`, `ConsoleSessions` | extends the three |
| `IntegrationsProofs` | theorems about `KumaAlerts`, `CertRenewal`, `DnsFabric` | extends the three |
| `FleetProofs` | theorems about `MCFleet` | extends it and the three modules above that are about its components |
| `MCFleet` | instances of the nine components | one per behaviour (`focus`) |
| `MC*` | model values and symmetry for TLC | |

### ServerLock

`key` and `lease` are Redis, `client` and `local` the module globals `_redis_client` /
`_redis_failed` / `_local` of each process, `held`, `want`, `pc`, `direct`, `ran` the running
task. Each call of Redis is one action. A token is a process, a host and a uuid; `Fresh` says
what uuid4 promises. Time is counted in ticks: `Tick` shortens every lease and lengthens every
run, so the TTL and the hard task limit are measured with the same clock and the assumption
`RunLimit <= Ttl` is the code's "must cover".  The run time counts from the lock, later than
Celery's own count from the delivery, which can only let a task run longer than it really does.
`Tick` does not fall between the two calls of one dual acquire (milliseconds against hours),
and does not let the lease of a live Direct copy end, which refreshes every 30 s.

### ExclusiveJobs

Every action is one database session, or one call of the broker, of one actor. `pc` of a
worker is where it is in `run_exclusive_job`: `lane` (bootstrap's own check), `probe`,
`wait`, `start`, `work`, `fail`, `finish`, `ack`. What a worker read before is kept in `pc`
only, so anything may happen to the row before it writes. `Blocks` is the whole table of the
checks of the enqueue functions. A message is acknowledged when the task is over; `WorkerDies`
returns it or (a lone child, the hard limit, `host_bootstrap`) loses it. The four history
variables record which named race happened; properties that cannot hold after such a race
name it, and are unconditional otherwise.

### ServiceMove

`src` and `dst` are the project's containers ("partial": some of them), `names` and `rows` the
two things a Move flips. One action per step of `run_copy_and_start`, `run_undo_pipeline`,
`run_dest_up_recover`; each either succeeds, or leaves anything between nothing and all of
its effect and raises (`*Leaves`). `WorkerDies` leaves the same. `StoreOffer` and `Close` are the
two commits at the end of a failed Move; the death of the worker may fall between them.
`SettleRow` stands for a cancel, the stale sweep and the orphan sweep.

Abstractions, and what they could hide:

* The look for an active row and the insert are one step; the race between them is the
  subject of `ExclusiveJobs`.
* One project moves in one direction, and operators use the offers of the last Move only.
  Stale offers of older Moves are a listed hazard without a property.
* The certificate step of an undo is a step, its effect is not state.
* Start source does not wait for its host, and on_step's own failure (logged by the code)
  does not happen.

### HostBackup

One action per database session, lock call or rsync of `backup_server`; the request is four steps
(look, insert, publish, store the task's id), the cancel two (read and revoke, write).
`bkLock` is free, a worker's, or a dead worker's until its TTL. A killed child's rsync goes on
(`strays`), which is what the promise at `tasks.py:194-195` does not cover. `cut` says that a task was lost between record and alert,
when nobody settles the alert. Progress buffers, audit phases, ownership, retention and the look at a host that
reboots (`jobs/service.py:1483`) are left out.

### BackupCopies

One destination. Data is a version per host: `hostV` what was backed up, `destV` what arrived.
`Unserved` is the rule by which a request is answered with an active copy, `Follow` the direct
hop. `cpLost` collects the hosts whose request was answered by a copy that does not serve it, or whose
copy failed or was cancelled. rclone and the Direct push are one step.

### SelfBackup

`sbFile` is the archive of each row, `sbOlder` the pairs of rows whose archives were last written one before
the other. Two files that are written at the same time are in no pair until one of them is closed; `Newest` gives every
choice of files to keep that the pairs leave open. Clocks are left out, so a pending row may be half an hour old. The alert, fallback folders, what is in an archive,
deletion by hand and restore are left out.

### ConsoleSessions

Everything runs on one event loop: a step is the code between two awaits. `ws` is a WebSocket handler,
`wsShell` its shell, `parked` the `_held_sessions`, `watchers` the drain tasks. The limits on idle and total time
may pass at any moment. What the recorder stores, policies and rate limits of the mint are left out.

### KeyRotation

`authorized` is the host, `idUser` and `idKey` the identities; an operation keeps the login and key it read
(`kyUser`, `kyOld`) and the key it made (`kyNew`). A death, a failure, and a change of login
without a check are named in `unsafe`.

### SftpPool

`poolLock`, `leaseLock`, `pool` and `conn` are the locks, the dictionary and the connections; a call goes
through `sftp_session` by `sfPc`. The sweep tries all locks
of leases in one step, under the pool's lock.

### CertRenewal

Material is a number. `vault` is the row, `onHost` the files of a target, `dep` and `depFp` its record.
The web process runs one handler at a time; the scheduler renews beside it. Expiry notices, the Caddy
copy, export and deletion are left out.

### DnsFabric

`hostRow` and `svcRow` are the database, `holeA` and `holeCname` the Pi-holes. Each delete or add is
one step over all Pi-holes, of which any may not answer. `keptA` and `keptCname` name the records no row
accounts for any more. The DNS steps of a Move are in `ServiceMove`; services of record type a, adoption
and import are left out.

### KumaAlerts

One monitor, its binding and its notice. "other" is every state but up and down. `astray` says that the
last to touch state or notice was not a poll that notifies.

## 3. Runs

`tlc -workers 2 -config R.cfg M` in this directory.

| Run | Properties | Shows | Distinct states |
|---|---|---|---|
| `ServerLock_safety` | TypeOK, MutualExclusion, OwnKeyOnly, NothingLeftBehind, RefinesMutex | the lock is safe until Redis was away; release is always safe; implements `HostMutex` | 376 k |
| `ServerLock_liveness` | SomeTaskRuns, KeysAreFreed | no deadlock or livelock of dual acquires; dead owners' keys go | 8.6 k |
| `ServerLock_outage` | AtMostOnePerServer *(violated)* | finding 1 | |
| `ExclusiveJobs_lanes` | TypeOK, LaneExclusive, BootstrapAlone | lanes of one host | 4.3 M |
| `ExclusiveJobs_faults` | WorkOnce, SuccessAudited | redelivery, retry, cancel, sweeps | 5.6 M |
| `ExclusiveJobs_settles` | Settles, RefinesJobRow | every row settles with the sweeps; implements `JobRow` | 20 k |
| `ExclusiveJobs_wait` | WaitIsBounded | the host wait ends without them | 94 k |
| `ExclusiveJobs_cancel` | CancelledStays *(violated)* | finding 2 | |
| `ServiceMove_safety` | TypeOK, StopFirst, NoDualRun, UndoHasSource, GreenMeansMoved, UndoneMeansBack | Moves, undos, recovers, Start source with two faults | 2.7 M |
| `ServiceMove_died` | DeadMoveOffersRecovery *(violated)* | finding 3 | |
| `ServiceMove_undo` | UndoStopsDest *(violated)* | finding 4 | |
| `Fleet` | TypesOK and the 18 properties of the table below | nine components, one per behaviour | 1.07 M |

`Fleet` is one run because the components share no variable: `focus` picks one and the others stay in an
initial state, so the state space is the sum of theirs, and nothing is said of two of them together.

| Component | Properties | What is excused by name |
|---|---|---|
| `ConsoleSessions` | SlotsCounted, OneHolder, ClosedIsAudited, RevokedShellCloses | close row of a shell that was resumed |
| `HostBackup` | OneRunPerHost, AlertTellsLastRun, CancelIsFinal | an rsync left by a killed task; a run that raised or was cut off before its alert |
| `BackupCopies` | SettledMeansCopied, DirectFollowsFolder | requests answered by a copy that does not serve them; copies that failed |
| `SelfBackup` | SelfBackupKept, ArchivedOnce | two requests that look at once; a row settled in a worker's hands |
| `KeyRotation` | SavedKeyOpens | deaths between removal and save; logins changed without a check |
| `SftpPool` | UseIsExclusive, SomeCallMoves | nothing |
| `CertRenewal` | DeployRecordHolds, RenewalReachesTargets | deaths, overlaps, edits, changes by hand, a Verify that closed the alert |
| `DnsFabric` | DnsServesRows | records whose deleting failed, or that an edit of the row forgot |
| `KumaAlerts` | AlertMatchesBinding | quiet polls, dismissals, mutes, edits, a write from an outdated state |

**Bounds.** `ServerLock`: two processes and two hosts are the smallest instance with a
contended dual acquire in both orders; one outage and one death are enough for a latched
process next to a working one and for a key without owner; a TTL of one tick equal to the
limit is the tightest the assumption allows. `ExclusiveJobs`: properties relate at most two
rows and two workers; one wait before the limit lets a retry meet every fault; two faults let
a message come back beside its retry. `ServiceMove`: three jobs are a Move, its undo (or
recover, or Start source) and a second one or a second Move; two faults let a death meet a
settled row. `Fleet`: two of whatever can meet (shells with one slot per user, rows,
workers, key operations, callers of the pool, pollers, hosts with a DNS name) and one fault, two
for the copies; one user, one destination, one target, one Pi-hole, since properties speak of each by itself;
`Keep` is one, where a prune hurts most. Two faults and three rows of `SelfBackup`, tried apart
from the run, find nothing more. Each bound is a constant; `MaxOutages`,
`MaxKills`, `MaxFaults` and the other `Max...Faults`, `WaitLimit`, `MaxLockWaits`, `MaxRevokes`,
`MaxWatchers`, `MaxVersion`, `MaxMaterial`, `MaxPolls`, `MaxKey`, `MaxCalls` are guards of the actions they count.
What of this is a bound of the checker only is lifted by the proofs.

`CHECK_DEADLOCK FALSE` is set where the system may stop: all rows requested and settled.

**Fairness.** `ServerLock`: Celery delivers and runs tasks, the hard limit strikes, and time
passes. Strong fairness of `Tick` because a task that tries again waits 20 s
(`tasks.py:46`), so trying does not stop the clock. Deaths and outages are owed to nobody.
`ExclusiveJobs`: workers go on with what they have (`Serve`), a request or cancel once begun
goes on. `Settles` also assumes the sweeps, which the scheduler runs every 15 minutes
(`scheduler.py:620`); `WaitIsBounded` does not. `Fleet`: the event loop runs console handlers and
watchers (`ConsoleFairness`), and browsers owe nothing; the other components have no fairness and no
liveness property.

Every property of a passing run has a mutant: a changed definition (named after the one it
replaces, with a comment "Mutant:") under which the run finds the property violated.

### Findings

1. `ServerLock_outage`. The lock "guarantees at most one active backup (or patch) per
   server across workers"; a process whose first ping of Redis failed uses its local map for
   the rest of its life, next to processes that use Redis.
2. `ExclusiveJobs_cancel`. A cancelled row is not overwritten by `_finish`, but it is by the
   start of the work, when the worker had read the row before: the job runs on and ends as a
   success or a failure.
3. `ServiceMove_died`. After a death in `dest_up` the recovery offer is stored by the
   redelivered message. The orphan sweep of the next worker to come up, or of the scheduler,
   fails the row long before the message comes back, and the message is then skipped.
4. `ServiceMove_undo`. When the DNS revert fails and the restart of dest reports a failure,
   the stop stays recorded as done although the restart may have had its effect; the next
   undo skips the stop and starts source.
5. No run (`HostBackup` has the step). The "one extra attempt" of a backup (`tasks.py:437`) finds the row
   its first attempt has failed, and is skipped.
6. No run (`CertRenewal`). A Verify closes `cert_deploy_failed` although nothing was deployed since
   (`notifications.py:580` says "after a successful follow-up deploy").
7. No run (`DnsFabric`). Both forms commit a host's new address before `update_server_dns` compares it with
   the old one, so the old A record stays.
8. No run (`SelfBackup`). A failed self-backup leaves its broken archive under its final name; the failure
   notice may give that file's time as the "Last successful self-backup".

Smaller divergences met on the way:

* Consoles: a shell with continuous output is never held to its idle and total limits while attached. A revoked
  shell whose browser drops before the handler noticed is parked until it is idle (`auth.py:841` says about 10 s).
* Host backups: the except branch opens no alert; a success of one source closes the alert
  another source's failure opened; a broker that refuses writes failed over cancelled.
* Copies: `tasks.py:951` says a cancel keeps the direct hop away, which may be queued before the cancel is committed;
  a container that dies between receipt and first write leaves the row pending.
* Certificates: a pull or replacement by hand leaves targets stale without a word; editing a target
  keeps its last deploy record; two deploys at once may record the older material last.
* Keys: operations on one key overlap freely (a change of login, provisioning, a key two identities share).
* Pool: `DropKey` removes whatever lease is pooled under the key, also a newer one.
* Kuma: quiet polls (Test, a Move's validation) swallow transitions. The wiki's "re-alert 24h"
  (`wiki/operations/alerts-email-webhooks.md:27`) does not happen for a monitor that stays down, since the emitter notifies of transitions only.
  Unbinding leaves the alert open.
* DNS: after a rename of the target host "duplicate" counts as success while the Pi-hole keeps the old target; an
  unsynced upsert keeps the last sync's ok; failed deletes are ignored.
* Self-backups: a dead child, a redelivery, the orphan sweep and a refusal on an admin's request fail the row without
  the alert; the pending watch may alert about a run that started just then and succeeds.

## 4. Proofs

`tlapm <module>Proofs.tla`. The theorems hold for any workers, rows, hosts, keys, callers and pollers and every
bound, from the modules' named assumptions alone (below). Where a property has a theorem, the run that checks it is the
small instance of it.

| Module | Theorems (property) |
|---|---|
| `ServerLockProofs` | TypeCorrect, MutualExclusionHolds, NothingLeftBehindHolds (NothingLeftBehind), OwnKeyOnlyHolds, Refinement (RefinesMutex) |
| `ExclusiveJobsProofs` | JobTypeCorrect, LanesAreExclusive (LaneExclusive), BootstrapsAreAlone (BootstrapAlone), WorkStartsOnce (WorkOnce), SuccessIsAudited (SuccessAudited), RevivedOnlyInHand, RowsKeepPromise (RefinesJobRow), JobRowsComeToRest |
| `ServiceMoveProofs` | MoveTypeCorrect, CopiesAreStopFirst (StopFirst), NeverRunsTwice (NoDualRun), UndoCanStart (UndoHasSource), MovesFinishWhole (GreenMeansMoved), UndosFinishWhole (UndoneMeansBack), MovesHoldPair (refines `HostMutex`), MoveRowsKeepPromise (refines `JobRow`), MoveRowsComeToRest |
| `JobRowProofs` | RowsComeToRest, CancelsAreFinal |
| `BackupsProofs` | `HostBackup`: BackupTypeCorrect, BackupsExcludeEachOther (OneRunPerHost), AlertIsLastRuns (AlertTellsLastRun), CancelStands (CancelIsFinal), BackupsHoldHost (refines `HostMutex`); `BackupCopies`: CopyTypes, SettledIsCopied (SettledMeansCopied), DirectHopFollows (DirectFollowsFolder); `SelfBackup`: SelfTypes, SelfBackupIsKept (SelfBackupKept), SelfArchivedOnce (ArchivedOnce); BackupRowsKeepPromise, CopyRowsKeepPromise, SelfRowsKeepPromise (each refines `JobRow`), BackupRowsComeToRest |
| `HostAccessProofs` | `KeyRotation`: KeyTypeCorrect, RotationKeepsAccess (SavedKeyOpens); `SftpPool`: SftpTypeCorrect, ConnectionsAreExclusive (UseIsExclusive), LocksNeverCircular; `ConsoleSessions`: ConsoleTypeCorrect, SlotsNeverLeak (SlotsCounted), PtyHasOneHolder (OneHolder), CloseIsRecorded (ClosedIsAudited) |
| `IntegrationsProofs` | `KumaAlerts`: KumaTypeCorrect, AlertsFollowBinding (AlertMatchesBinding); `CertRenewal`: CertTypes, DeployRecordIsTrue (DeployRecordHolds), RenewalIsDistributed (RenewalReachesTargets); `DnsFabric`: DnsTypes, PiHolesServeRows (DnsServesRows) |
| `FleetProofs` | FleetIsEach, FleetTypes (TypesOK), FleetAccess, FleetBackups, FleetIntegrations, FleetRows |

Each proof goes by an inductive invariant, `IInv` or one named after the component (`BackupInv`, `CopyInv`, ...): it holds
initially, every action keeps it, and it implies the property.

*ServerLock.* Mutual exclusion is not inductive: a state in which a task holds a token that
is not the one in Redis satisfies it and allows a second task in. The invariant `IInv` adds
what rules that out: while Redis has always answered, no process is latched (`NeverAway`), a
held token is the stored one (`Owned`), and the lease outlasts what is left of its holder's
run time (`Leased`), so that time cannot take a key from a live task; `OneOwner`
says that no token is held twice, which freshness preserves and which makes two holders of one
stored token the same task; `IdleHoldsNothing` makes a task that starts hold nothing, which the
clock of `Leased` needs. `OwnKeyOnly` needs types only: it holds during outages as well, since
release compares the token. `NothingLeftBehind` follows from looking at the ways to the end of a task
(`WaysToIdle`): the task held nothing, or the step is its last release, and a release with Redis there deletes the
key it compares. The refinement maps holders to the tasks whose token for the host
is set; each step is a take, a drop or an outage of `HostMutex`, or none.

*ExclusiveJobs.* "Settled stays settled" and "once" say nothing of who is on the way. Two additions carry
the rest: a row that is settled while a worker may be at work on it is in `abandoned`, so a worker that
starts or goes on has an active row or an abandoned one (`InHand`, `WorksOnActive`); and while no message
came back beside its own retry, a row has one message, in the queue or with one worker (`OneMessage`), so
work cannot start twice (`StartedOnce`).

*ServiceMove.* Three layers. Who runs: one job has the locks, a job that runs is active or abandoned, and it belongs to the
last Move unless that has not begun; Start source, which takes no lock, runs beside none of them unless it is a
stray (`RowForm`, `RunForm`, `ParentForm`). What the records of a failed Move say about how far it came
(`RecordForm`, `StartedBack`). What each step may so rely on of hosts, names and rows (`MoveForm`,
`UndoForm`, `DualForm`). The proof found the exception in `UndoneMeansBack` that two-fault
instances do not reach: a Start source that is still at work after its row was settled may leave source half
up under an undo.

*HostBackup.* Who works has the lock (`LockOfWork`), a row that is not in was touched by nobody (`NotInserted`), and
the alert tells the last record whenever no worker stands between the two (`AlertFollows`).

*The lock, from both sides.* `ServerLock` implements `HostMutex` (Refinement), and so do the two modules that put one
value in place of it: the workers at work on a backup (BackupsHoldHost) and the jobs at work on a pair of hosts
(MovesHoldPair) are holders of a `HostMutex` whose broker answers. A task that begins its work is a Take, its end, a cancel
or its death a Drop; the lease of a dead task, a Start source and all other steps stutter. Each proof says of a
step whose task it moves (`OneMoves`, `OneJobMoves`) and that only free locks are taken; that nobody is at work while
they are free is in the component's invariant. What happens while the broker is away is left to `ServerLock`.

*The row, from five sides.* Requests, workers, cancels and sweeps of a job meet in its row alone, each with what it read
some time ago. `JobRow` says what such a row promises, and `ExclusiveJobs`, `ServiceMove`, `HostBackup`, `BackupCopies` and
`SelfBackup` implement it for any rows, workers and faults (RowsKeepPromise, MoveRowsKeepPromise, BackupRowsKeepPromise,
CopyRowsKeepPromise, SelfRowsKeepPromise). Each maps its own status to `row`; a row is `out` once its request is over,
whether its message was sent or not; a worker has it in `hand` from the read that finds it active to its last write; a cancel is
in `cancels` from its read to its write (exclusive jobs, backups, copies, self-backups), or the two are one step (Moves).
What a worker writes over a row that was settled behind its back is where the code differs, and the two constants of `JobRow` say
how: exclusive jobs, Moves and self-backups set the row running whatever it says (`_execute_*`,
`_mark_housekeeping_running`) but `_finish` replaces no outcome (Reopens, not Rewrites); host backups and copies
go through `_update_job_status`, which never reopens and keeps a cancel but may replace a failure by a success (Rewrites, not
Reopens). Finding 2 is in the promise as Reopens; that it is needed, and which of the components get on without it, is what the proofs
say. A step of a component is one step of the row or none; the
lemmas about a task say what its pc does to `hand` (`AtWork`, `RowUnwritten`, `MoveGoesOn`), and the only addition to the components'
invariants is that nobody touches a row before it is in (`BackupRowsIn`, `CopyRowsIn`, `SelfRowsIn`).

What follows from the promise is proved once, in `JobRowProofs`, and taken by instance. RowsComeToRest: a settled row whose request is over
and that neither a worker nor a cancel still has in hand is never written again, by no redelivery, retry, sweep or restart (`RestsForGood`).
CancelsAreFinal: where tasks do not reopen, a cancel stands as soon as the request is over, even while a worker is still
busy (`CancelsStand`: backups and copies). The invariant is small (`RowForm`: who has a row in hand
or is about to cancel it found it in and published). TLC checks the refinement of `ExclusiveJobs` in
`ExclusiveJobs_settles`; the other four hold on the instances of their components' runs too and are no run's property.

*BackupCopies.* "Once every row is settled" says nothing of the way there. The invariant says it of every moment: a
copy that is behind its host, and not excused, is *served* (`BehindIsServed`): some row will still copy it, being asked for and
not yet begun, or begun after the host's last backup. A backup asks for a row or is answered by one that has not begun, a
copy that ends brings what it read, and a copy that fails or is cut off excuses its hosts. That a row in a worker's hands is
nobody else's and its message gone (`RowsHeld`) keeps a row from being copied twice, the second time from older data;
versions never run ahead (`NoneAhead`). For the direct hop, `EndFollows` says the same of every
row whose task is over, whoever wrote its status last.

*SelfBackup.* A row has one message or one worker (`OneCopy`) and a run behind it only past pending (`BegunOnce`), which is
`ArchivedOnce` with redelivery and sweeps. As long as nobody looked at once and no row was settled in a worker's hands, one
row is active (`RowFollows`), so one file at most is being written, by a worker that is there, and a success leaves a whole
archive (`WholeStays`): the archive just closed is newer than all others, and pruning keeps at least
one of the newest (`NewestStays`).

*ConsoleSessions.* The counters are the cardinalities of a set of shells; each action adds one shell that was not in it,
takes some out, or leaves it, and changes the counters by as much. That nothing is added or taken twice is `OneHolder`.

*KeyRotation.* A key that is not saved yet is nobody's: no row's and no old key some request read, so no removal
hits it (`NewIsFresh`); and it opened the login before the removal (`NewOpens`).

*SftpPool.* A lease's lock says who may use it, but a loser of the race to make a lease closes its own without the lock:
a fresh lease is known to nobody else (`FreshIsOwn`), and a lease anybody knows was opened (`PoolOpened`). `LocksNeverCircular`
is `SomeCallMoves` without ENABLED: it says for each place of a call which lock its next step waits for (`CanGoOn`) and that
one call under way has what it wants. Who waits for a lease waits for a call that waits for the pool at
most, and who has the pool waits for nobody. That `CanGoOn` is exactly when the step is enabled has been checked
with TLC for two callers, two hosts and three leases.

*KumaAlerts.* The property is inductive but for the binding that is gone (`GoneIsOther`).

*CertRenewal.* The history variables mark what overlaps, so the argument is about those who believe they are alone: a deploy
that calls its view its own is alone at its target and finds there what it wrote (`OwnIsAlone`); of those that are not,
one at least is still to record or the target is marked (`SharedIsMarked`). A recorded success is then what the
host has, or somebody there still has an outcome to record (`RecordHolds`); and a target without the vault's material and without
alert is on the list of a renewal, or being deployed to (`TargetReached`).

*DnsFabric.* The property speaks of an idle handler; the invariant of every step of one. A record on a Pi-hole that is not
excused belongs to a host as its row is now, or is the record the handler is about to delete (`RecordsKnown`), and since one host
has a name, the two cannot mix (`DnsPhases`, which also says that what a handler will write is in the rows).
`CnamesKnown` says it of the service, and that a Pi-hole noted as done has its CNAME.

*Fleet.* A step of the fleet is a step of one component and leaves the others' variables alone, so the fleet implements all
nine specifications (`FleetIsEach`), and every invariant the run checks but `SomeCallMoves` follows from the
components' theorems, for all values of the constants.

*Assumptions.* `HostAssumption`, `TokenAssumption`, `TtlAssumption` (`RunLimit <= Ttl`, the
comment at `server_job_lock.py:22`), `BoundAssumption`; of the other modules, that markers such as
`NoJob`, `NoShell`, `"free"` are no members of the sets they mark, that shells are finitely many and each has an owner,
that the three logins differ, that no host is called "none" or "all" (the scopes of a copy), and that bounds are naturals. TLC evaluates all of them in the runs.

*Only model-checked.* All liveness (`SomeTaskRuns`, `KeysAreFreed`, `Settles`, `WaitIsBounded`,
`RevokedShellCloses`) and `SomeCallMoves`, since fairness and ENABLED are out of the prover's
reach; every other property of a passing run has its theorem.

## 5. Not modelled

* What the inventory leaves out: I/O, parsing, rendering, authorization. These modules are most of the
  source's lines; their state is a request's own and no property would say more than a unit test.
* Two components together, except where the models say so: a Move's DNS steps beside the DNS forms, a console
  on a host whose keys rotate, a stack action on the dest host of a Move (its row names the source).
* Offers of older Moves than the last, and a second project (`undo.py:82`, a listed hazard).
* The clock shared by the two-hour sweep and the 24-hour host wait (`jobs/service.py:769`): here the sweep may
  come at any time, which covers it but does not show which comes first.

What would come next: two hosts and all lanes with the dest of a Move; the offers of older Moves; and the row's promise to
the audit log, of which `SuccessAudited` is the part for successes.
