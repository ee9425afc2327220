------------------------------ MODULE CertRenewal ------------------------------
(***************************************************************************)
(* One managed certificate (services/certificates.py): its material is     *)
(* pulled from NPM, or uploaded, into the vault and installed on target    *)
(* hosts over SSH.  The scheduler renews a certificate that nears its end  *)
(* and redistributes it, in a thread of its own; requests do the same, one *)
(* at a time, for their handlers block the event loop.  Nothing keeps the  *)
(* two apart.                                                              *)
(*                                                                         *)
(* Material is a number.  The Caddy edge copy, the expiry notices and the  *)
(* deletion of rows are left out.                                          *)
(***************************************************************************)
EXTENDS Integers, FiniteSets

CONSTANTS
  CertTarget,    \* rows of CertificateTarget
  MaxMaterial,   \* bound: materials ever issued or uploaded
  MaxPolls,      \* poll_attempts
  MaxCertFaults, \* bound: deaths of the process and edits of targets
  NoTarget

ASSUME CertAssumption ==
  /\ NoTarget \notin CertTarget
  /\ MaxMaterial \in Nat /\ MaxPolls \in Nat /\ MaxCertFaults \in Nat

CertActor == {"web", "scheduler"}
NoMat == -1   \* nothing there
Mixed == -2   \* files of two materials

VARIABLES
  vault,     \* ManagedCertificate's material
  npmMat,    \* NPM's
  newest,    \* the last material made
  onHost,    \* the material at each target
  dep,       \* last_deploy_status
  depFp,     \* last_deploy_fingerprint
  depAlert,  \* targets with cert_deploy_failed open
  verAlert,  \* targets with cert_verify_failed open
  ctPc,
  ctTodo,    \* targets the actor has yet to deploy to
  ctAt,      \* the target it is at
  ctMat,     \* the material it read for it
  ctOk,      \* what verify_deploy_target said
  ctView,    \* whether its target was deployed to by the other, or edited, since
  ctOld,     \* the renewal's old_fp
  ctPolls,
  ctFaults,
  behind,    \* history: targets a change of the vault has not been sent to
  unsure,    \* history: targets whose last deploy was not left in peace
  hushed     \* history: targets whose failed deploy a Verify has closed the alert of

vaultVars  == <<vault, npmMat, newest>>
targetVars == <<onHost, dep, depFp, depAlert, verAlert>>
actorVars  == <<ctPc, ctTodo, ctAt, ctMat, ctOk, ctView, ctOld, ctPolls>>
certHist   == <<behind, unsure, hushed>>
certVars   == <<vaultVars, targetVars, actorVars, ctFaults, certHist>>

Material == 0 .. MaxMaterial

CertTypeOK ==
  /\ vault \in Material /\ npmMat \in Material /\ newest \in Material
  /\ onHost \in [CertTarget -> Material \union {NoMat, Mixed}]
  /\ dep \in [CertTarget -> {"none", "success", "failed"}]
  /\ depFp \in [CertTarget -> Material \union {NoMat}]
  /\ depAlert \subseteq CertTarget /\ verAlert \subseteq CertTarget
  /\ ctPc \in [CertActor -> {"idle", "prepull", "request", "poll", "next", "write", "verify",
                             "record", "alert", "failed", "alarm", "check"}]
  /\ ctTodo \in [CertActor -> SUBSET CertTarget]
  /\ ctAt \in [CertActor -> CertTarget \union {NoTarget}]
  /\ ctMat \in [CertActor -> Material \union {NoMat}]
  /\ ctOk \in [CertActor -> BOOLEAN]
  /\ ctView \in [CertActor -> {"own", "shared", "moved"}]
  /\ ctOld \in [CertActor -> Material \union {NoMat}]
  /\ ctPolls \in [CertActor -> 0 .. MaxPolls]
  /\ ctFaults \in 0 .. MaxCertFaults
  /\ behind \subseteq CertTarget /\ unsure \subseteq CertTarget /\ hushed \subseteq CertTarget

CertInit ==
  /\ vault = 0 /\ npmMat = 0 /\ newest = 0
  /\ onHost = [t \in CertTarget |-> NoMat]
  /\ dep = [t \in CertTarget |-> "none"]
  /\ depFp = [t \in CertTarget |-> NoMat]
  /\ depAlert = {} /\ verAlert = {}
  /\ ctPc = [a \in CertActor |-> "idle"]
  /\ ctTodo = [a \in CertActor |-> {}]
  /\ ctAt = [a \in CertActor |-> NoTarget]
  /\ ctMat = [a \in CertActor |-> NoMat]
  /\ ctOk = [a \in CertActor |-> FALSE]
  /\ ctView = [a \in CertActor |-> "own"]
  /\ ctOld = [a \in CertActor |-> NoMat]
  /\ ctPolls = [a \in CertActor |-> 0]
  /\ ctFaults = 0
  /\ behind = CertTarget /\ unsure = {} /\ hushed = {}
------------------------------------------------------------------------------
CertFault   == ctFaults < MaxCertFaults /\ ctFaults' = ctFaults + 1
Renewing(a) == ctOld[a] # NoMat
Deploying(a, t) ==
  ctAt[a] = t /\ ctPc[a] \in {"write", "verify", "record", "alert", "failed", "alarm"}

\* The actor is done: nothing it read outlives it.
CertIdle(S) ==
  /\ ctPc' = [a \in CertActor |-> IF a \in S THEN "idle" ELSE ctPc[a]]
  /\ ctTodo' = [a \in CertActor |-> IF a \in S THEN {} ELSE ctTodo[a]]
  /\ ctAt' = [a \in CertActor |-> IF a \in S THEN NoTarget ELSE ctAt[a]]
  /\ ctMat' = [a \in CertActor |-> IF a \in S THEN NoMat ELSE ctMat[a]]
  /\ ctOk' = [a \in CertActor |-> IF a \in S THEN FALSE ELSE ctOk[a]]
  /\ ctView' = [a \in CertActor |-> IF a \in S THEN "own" ELSE ctView[a]]
  /\ ctOld' = [a \in CertActor |-> IF a \in S THEN NoMat ELSE ctOld[a]]
  /\ ctPolls' = [a \in CertActor |-> IF a \in S THEN 0 ELSE ctPolls[a]]

\* On to the next target.
CertNextTarget(a) ==
  /\ ctPc' = [ctPc EXCEPT ![a] = "next"]
  /\ ctAt' = [ctAt EXCEPT ![a] = NoTarget]
  /\ ctMat' = [ctMat EXCEPT ![a] = NoMat]
  /\ ctOk' = [ctOk EXCEPT ![a] = FALSE]
  /\ ctView' = [ctView EXCEPT ![a] = "own"]
  /\ UNCHANGED <<ctTodo, ctOld, ctPolls>>

CertGoto(a, label) ==
  /\ ctPc' = [ctPc EXCEPT ![a] = label]
  /\ UNCHANGED <<ctTodo, ctAt, ctMat, ctView, ctOld, ctPolls>>

\* redistribute_after_renew: every target, whatever was deployed before.
Redistribute(a) ==
  /\ ctPc' = [ctPc EXCEPT ![a] = "next"]
  /\ ctTodo' = [ctTodo EXCEPT ![a] = CertTarget]
  /\ ctPolls' = [ctPolls EXCEPT ![a] = 0]
  /\ UNCHANGED <<ctAt, ctMat, ctOk, ctView, ctOld>>
------------------------------------------------------------------------------
\* NPM's own renewal, or the one it was asked for.
NpmRenews ==
  /\ newest < MaxMaterial
  /\ newest' = newest + 1
  /\ npmMat' = newest + 1
  /\ UNCHANGED <<vault, targetVars, actorVars, ctFaults, certHist>>

\* pull-cert by hand: new material is in the vault and is sent nowhere.
PullByHand ==
  /\ ctPc["web"] = "idle"
  /\ vault' = npmMat
  /\ behind' = IF npmMat = vault THEN behind ELSE CertTarget
  /\ UNCHANGED <<npmMat, newest, targetVars, actorVars, ctFaults, unsure, hushed>>

\* replace-pem: uploaded material.
ReplacePem ==
  /\ ctPc["web"] = "idle"
  /\ newest < MaxMaterial
  /\ newest' = newest + 1
  /\ vault' = newest + 1
  /\ behind' = CertTarget
  /\ UNCHANGED <<npmMat, targetVars, actorVars, ctFaults, unsure, hushed>>

\* update_target to another host or directory: the record of the last deploy stays.
EditTarget(t) ==
  /\ CertFault
  /\ ctPc["web"] = "idle"
  /\ onHost' = [onHost EXCEPT ![t] = NoMat]
  /\ ctView' = [a \in CertActor |-> IF ctAt[a] = t THEN "moved" ELSE ctView[a]]
  /\ behind' = behind \union {t}
  /\ unsure' = unsure \union {t}
  /\ UNCHANGED <<vaultVars, dep, depFp, depAlert, verAlert, ctPc, ctTodo, ctAt, ctMat, ctOk,
                 ctOld, ctPolls, hushed>>
------------------------------------------------------------------------------
\* check_expiring_and_renew, at any time for the clocks are left out, or a request.
RenewStarts(a) ==
  /\ ctPc[a] = "idle"
  /\ ctPc' = [ctPc EXCEPT ![a] = "prepull"]
  /\ ctOld' = [ctOld EXCEPT ![a] = vault]
  /\ UNCHANGED <<vaultVars, targetVars, ctTodo, ctAt, ctMat, ctOk, ctView, ctPolls, ctFaults,
                 certHist>>

\* What a pull that does not end in a redistribution leaves behind.
PulledUnsent(a) ==
  behind' = IF npmMat = ctOld[a] /\ npmMat # vault THEN CertTarget ELSE behind

\* Mutant: what the first pull brings is taken for the material to replace.
PullAndGoOn(a) ==
  /\ ctPc[a] = "prepull"
  /\ vault' = npmMat
  /\ ctPc' = [ctPc EXCEPT ![a] = "request"]
  /\ ctOld' = [ctOld EXCEPT ![a] = npmMat]
  /\ PulledUnsent(a)
  /\ UNCHANGED <<npmMat, newest, targetVars, ctTodo, ctAt, ctMat, ctOk, ctView, ctPolls,
                 ctFaults, unsure, hushed>>

\* The pull before the request: NPM may have renewed by itself.  A failed pull is passed over.
PullFirst(a) ==
  /\ ctPc[a] = "prepull"
  /\ \/ /\ vault' = npmMat
        /\ PulledUnsent(a)
        /\ \/ npmMat # ctOld[a] /\ Redistribute(a)
           \/ npmMat = ctOld[a] /\ CertGoto(a, "request") /\ UNCHANGED ctOk
     \/ /\ CertGoto(a, "request")
        /\ UNCHANGED <<vault, ctOk, behind>>
  /\ UNCHANGED <<npmMat, newest, targetVars, ctFaults, unsure, hushed>>

\* NPM takes the request, or the renewal ends.  (A login that NPM refuses ends it before.)
RequestRenew(a) ==
  /\ \/ /\ ctPc[a] = "request"
        /\ ctPc' = [ctPc EXCEPT ![a] = "poll"]
        /\ ctPolls' = [ctPolls EXCEPT ![a] = MaxPolls]
        /\ UNCHANGED <<ctTodo, ctAt, ctMat, ctOk, ctView, ctOld>>
     \/ /\ ctPc[a] \in {"prepull", "request"}
        /\ CertIdle({a})
  /\ UNCHANGED <<vaultVars, targetVars, ctFaults, certHist>>

\* Mutant: a poll that brings nothing does not look at how many are left.
PollWithoutLimit(a) ==
  /\ ctPc[a] = "poll"
  /\ ctPolls' = [ctPolls EXCEPT ![a] = @ - 1]
  /\ UNCHANGED <<vaultVars, targetVars, ctPc, ctTodo, ctAt, ctMat, ctOk, ctView, ctOld, ctFaults,
                 certHist>>

\* A poll: pulled, failed, or the polls are over.
PollNpm(a) ==
  /\ ctPc[a] = "poll"
  /\ \/ /\ ctPolls[a] > 0
        /\ vault' = npmMat
        /\ PulledUnsent(a)
        /\ \/ npmMat # ctOld[a] /\ Redistribute(a)
           \/ /\ npmMat = ctOld[a]
              /\ ctPolls' = [ctPolls EXCEPT ![a] = @ - 1]
              /\ UNCHANGED <<ctPc, ctTodo, ctAt, ctMat, ctOk, ctView, ctOld>>
     \/ /\ ctPolls[a] > 0
        /\ ctPolls' = [ctPolls EXCEPT ![a] = @ - 1]
        /\ UNCHANGED <<vault, ctPc, ctTodo, ctAt, ctMat, ctOk, ctView, ctOld, behind>>
     \/ /\ ctPolls[a] = 0
        /\ CertIdle({a})
        /\ UNCHANGED <<vault, behind>>
  /\ UNCHANGED <<npmMat, newest, targetVars, ctFaults, unsure, hushed>>
------------------------------------------------------------------------------
\* The deploy buttons: one target or all, forced or not.
DeployRequested(S) ==
  /\ ctPc["web"] = "idle"
  /\ ctPc' = [ctPc EXCEPT !["web"] = "next"]
  /\ ctTodo' = [ctTodo EXCEPT !["web"] = S]
  /\ UNCHANGED <<vaultVars, targetVars, ctAt, ctMat, ctOk, ctView, ctOld, ctPolls, ctFaults,
                 certHist>>

\* deploy_target reads the row and the vault.  Without force, what was deployed is skipped.
DeployReads(a, t) ==
  /\ ctPc[a] = "next"
  /\ t \in ctTodo[a]
  /\ ctTodo' = [ctTodo EXCEPT ![a] = @ \ {t}]
  /\ \/ /\ ~Renewing(a)
        /\ dep[t] = "success" /\ depFp[t] = vault
        /\ UNCHANGED <<ctPc, ctAt, ctMat, ctView>>
     \/ /\ ctPc' = [ctPc EXCEPT ![a] = "write"]
        /\ ctAt' = [ctAt EXCEPT ![a] = t]
        /\ ctMat' = [ctMat EXCEPT ![a] = vault]
        /\ LET others == {b \in CertActor \ {a} : Deploying(b, t)}
           IN  ctView' = [b \in CertActor |->
                 IF b = a THEN (IF others = {} THEN "own" ELSE "shared")
                 ELSE IF b \in others /\ ctView[b] = "own" THEN "shared" ELSE ctView[b]]
  /\ UNCHANGED <<vaultVars, targetVars, ctOk, ctOld, ctPolls, ctFaults, certHist>>

DeployDone(a) ==
  /\ ctPc[a] = "next"
  /\ ctTodo[a] = {}
  /\ CertIdle({a})
  /\ UNCHANGED <<vaultVars, targetVars, ctFaults, certHist>>

\* The files are written and the service restarted.  A deploy that fails has written
\* nothing, some files or all of them.
HostWrites(a) ==
  LET t == ctAt[a]
  IN  /\ ctPc[a] = "write"
      /\ \/ /\ CertGoto(a, "verify")
            /\ onHost' = [onHost EXCEPT ![t] = IF ctView[a] = "moved" THEN @ ELSE ctMat[a]]
         \/ /\ CertGoto(a, "failed")
            /\ \E m \in {onHost[t], Mixed, ctMat[a]} :
                 onHost' = [onHost EXCEPT ![t] = IF ctView[a] = "moved" THEN @ ELSE m]
      /\ UNCHANGED <<vaultVars, dep, depFp, depAlert, verAlert, ctOk, ctFaults, certHist>>

\* verify_deploy_target: what a host that has m may answer to who expects e.  It
\* compares the certificate, not the key; the service may still present another.
VerifyMaySay(m, e) ==
  IF m = e \/ m = Mixed THEN BOOLEAN ELSE {FALSE}

HostVerifies(a) ==
  /\ ctPc[a] = "verify"
  /\ CertGoto(a, "record")
  /\ \E ok \in IF ctView[a] = "moved" THEN BOOLEAN
               ELSE VerifyMaySay(onHost[ctAt[a]], ctMat[a]) :
       ctOk' = [ctOk EXCEPT ![a] = ok]
  /\ UNCHANGED <<vaultVars, targetVars, ctFaults, certHist>>

\* Mutant: the fingerprint is the vault's, as it is by now.
RecordVaults(a) ==
  LET t == ctAt[a]
  IN  /\ ctPc[a] = "record"
      /\ CertGoto(a, "alert")
      /\ dep' = [dep EXCEPT ![t] = "success"]
      /\ depFp' = [depFp EXCEPT ![t] = vault]
      /\ unsure' = IF ctView[a] = "own" THEN unsure \ {t} ELSE unsure \union {t}
      /\ behind' = IF ctView[a] # "own" THEN behind \union {t} ELSE behind \ {t}
      /\ hushed' = hushed \ {t}
      /\ UNCHANGED <<vaultVars, onHost, depAlert, verAlert, ctOk, ctFaults>>

\* The deploy is recorded as a success with the fingerprint it read, verified or not.
DeployRecords(a) ==
  LET t == ctAt[a]
  IN  /\ ctPc[a] = "record"
      /\ CertGoto(a, "alert")
      /\ dep' = [dep EXCEPT ![t] = "success"]
      /\ depFp' = [depFp EXCEPT ![t] = ctMat[a]]
      /\ unsure' = IF ctView[a] = "own" THEN unsure \ {t} ELSE unsure \union {t}
      /\ behind' = IF ctView[a] # "own" THEN behind \union {t}
                   ELSE IF ctMat[a] = vault THEN behind \ {t} ELSE behind
      /\ hushed' = hushed \ {t}
      /\ UNCHANGED <<vaultVars, onHost, depAlert, verAlert, ctOk, ctFaults>>

\* _apply_cert_target_alerts for a deploy that was made.
SettleTargetAlerts(t, ok) ==
  /\ depAlert' = depAlert \ {t}
  /\ verAlert' = IF ok THEN verAlert \ {t} ELSE verAlert \union {t}

DeploySettles(a) ==
  /\ ctPc[a] = "alert"
  /\ SettleTargetAlerts(ctAt[a], ctOk[a])
  /\ CertNextTarget(a)
  /\ UNCHANGED <<vaultVars, onHost, dep, depFp, ctFaults, certHist>>

DeployFails(a) ==
  /\ ctPc[a] = "failed"
  /\ CertGoto(a, "alarm")
  /\ dep' = [dep EXCEPT ![ctAt[a]] = "failed"]
  /\ UNCHANGED <<vaultVars, onHost, depFp, depAlert, verAlert, ctOk, ctFaults, certHist>>

\* Only cert_deploy_failed is opened; a verify alert is left as it is.
DeployAlarms(a) ==
  LET t == ctAt[a]
  IN  /\ ctPc[a] = "alarm"
      /\ depAlert' = depAlert \union {t}
      /\ CertNextTarget(a)
      /\ behind' = IF ctView[a] = "own" THEN behind ELSE behind \union {t}
      /\ hushed' = hushed \ {t}
      /\ UNCHANGED <<vaultVars, onHost, dep, depFp, verAlert, ctFaults, unsure>>
------------------------------------------------------------------------------
\* The Verify button reads the vault, ...
VerifyRequested(t) ==
  /\ ctPc["web"] = "idle"
  /\ ctPc' = [ctPc EXCEPT !["web"] = "check"]
  /\ ctAt' = [ctAt EXCEPT !["web"] = t]
  /\ ctMat' = [ctMat EXCEPT !["web"] = vault]
  /\ UNCHANGED <<vaultVars, targetVars, ctTodo, ctOk, ctView, ctOld, ctPolls, ctFaults, certHist>>

\* ... asks the host, and settles both alerts as after a deploy; or SSH fails.
VerifyEnds ==
  LET t == ctAt["web"]
  IN  /\ ctPc["web"] = "check"
      /\ CertIdle({"web"})
      /\ \/ /\ \E ok \in VerifyMaySay(onHost[t], ctMat["web"]) : SettleTargetAlerts(t, ok)
            /\ hushed' = IF t \in depAlert THEN hushed \union {t} ELSE hushed
         \/ UNCHANGED <<depAlert, verAlert, hushed>>
      /\ UNCHANGED <<vaultVars, onHost, dep, depFp, ctFaults, behind, unsure>>

\* The web process stops with whatever both were at.
CertProcessDies ==
  /\ CertFault
  /\ CertIdle(CertActor)
  /\ LET at == {t \in CertTarget : \E a \in CertActor : Deploying(a, t)}
     IN  /\ behind' = behind \union at
                        \union UNION {ctTodo[a] : a \in {b \in CertActor : Renewing(b)}}
         /\ unsure' = unsure \union at
  /\ UNCHANGED <<vaultVars, targetVars, hushed>>

CertNext ==
  \/ NpmRenews \/ PullByHand \/ ReplacePem \/ VerifyEnds \/ CertProcessDies
  \/ DeployRequested(CertTarget)
  \/ \E t \in CertTarget : EditTarget(t) \/ DeployRequested({t}) \/ VerifyRequested(t)
  \/ \E a \in CertActor, t \in CertTarget : DeployReads(a, t)
  \/ \E a \in CertActor :
       \/ RenewStarts(a) \/ PullFirst(a) \/ RequestRenew(a) \/ PollNpm(a)
       \/ DeployDone(a) \/ HostWrites(a) \/ HostVerifies(a) \/ DeployRecords(a)
       \/ DeploySettles(a) \/ DeployFails(a) \/ DeployAlarms(a)

CertSpec == CertInit /\ [][CertNext]_certVars
------------------------------------------------------------------------------
\* "skip -- already deployed same fingerprint": a target recorded as deployed has
\* that material, so skipping it is right, unless it was edited, the process died
\* at it, or the scheduler and a request deployed to it at the same time.
DeployRecordHolds ==
  \A t \in CertTarget \ unsure :
    (dep[t] = "success" /\ \A a \in CertActor : ~Deploying(a, t)) => onHost[t] = depFp[t]

\* When nothing is under way, every target of a renewal either has the vault's
\* material on record or shows cert_deploy_failed, however pulls, polls, deploys
\* and verifies of the scheduler and of requests interleave; the exceptions are
\* a change by hand that nobody deployed, a death, an overlap, an edit, and a Verify
\* that closed the alert.
RenewalReachesTargets ==
  (\A a \in CertActor : ctPc[a] = "idle")
    => \A t \in CertTarget \ (behind \union hushed) :
         (dep[t] = "success" /\ depFp[t] = vault) \/ t \in depAlert
==============================================================================
