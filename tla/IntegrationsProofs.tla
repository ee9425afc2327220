-------------------------- MODULE IntegrationsProofs --------------------------
(***************************************************************************)
(* What is proved of the integrations: Uptime Kuma's alerts, certificates  *)
(* from Nginx Proxy Manager, and names on the Pi-holes.                    *)
(***************************************************************************)
EXTENDS KumaAlerts, CertRenewal, DnsFabric, TLAPS
------------------------------------------------------------------------------
(***************************************************************************)
(* Down alerts for any number of pollers and processes.  The invariant is  *)
(* inductive beside the type: every action that sets the binding's state   *)
(* or its notice also says in astray whether a poll that notifies did it.  *)
(* The one step that needs an argument is the poll's write, whose previous *)
(* state may no longer be the binding's.                                   *)
(***************************************************************************)

\* A binding that is gone has no state: clear_binding leaves none behind.
GoneIsOther == ~bound => bindState = "other"

KumaInv == KumaTypeOK /\ GoneIsOther /\ AlertMatchesBinding
LEMMA KumaInit0 == KumaInit => KumaInv
<1> SUFFICES ASSUME KumaInit PROVE KumaInv
  OBVIOUS
<1>1. KumaTypeOK
  <2>1. kmNotify \in [Poller -> BOOLEAN]
    BY Zenon DEF KumaInit
  <2>2. kmFaults \in 0 .. MaxKumaFaults
    BY KumaAssumption DEF KumaInit
  <2>3. /\ bound \in BOOLEAN /\ downAlert \in BOOLEAN /\ muted \in BOOLEAN /\ astray \in BOOLEAN
        /\ bindState \in MonState /\ kmKey \in Poller \union {NoPoller}
        /\ kmPc \in [Poller -> {"idle", "fetch", "load", "write", "unlock"}]
        /\ kmSeen \in [Poller -> MonState] /\ kmPrev \in [Poller -> MonState]
    BY Zenon DEF KumaInit, MonState
  <2> QED BY <2>1, <2>2, <2>3 DEF KumaTypeOK
<1>2. GoneIsOther /\ AlertMatchesBinding
  BY Zenon DEF KumaInit, GoneIsOther, AlertMatchesBinding
<1> QED BY <1>1, <1>2 DEF KumaInv

LEMMA KumaTypeStep == KumaTypeOK /\ [KumaNext]_kumaVars => KumaTypeOK'
<1> SUFFICES ASSUME KumaTypeOK, [KumaNext]_kumaVars PROVE KumaTypeOK'
  OBVIOUS
<1> USE KumaAssumption DEF KumaTypeOK, MonState, KumaGoto, KumaFault
<1>1. ASSUME NEW p \in Poller, NEW notify \in MayNotify[p], PollStarts(p, notify)
      PROVE  KumaTypeOK'
  <2>1. notify \in BOOLEAN
    OBVIOUS
  <2> QED BY <1>1, <2>1 DEF PollStarts
<1>2. ASSUME NEW p \in Poller, FetchMetrics(p) PROVE KumaTypeOK'
  BY <1>2 DEF FetchMetrics
<1>3. ASSUME NEW p \in Poller, LoadBinding(p) PROVE KumaTypeOK'
  BY <1>3 DEF LoadBinding
<1>4. ASSUME NEW p \in Poller, WriteBinding(p) PROVE KumaTypeOK'
  <2>1. bindState' \in MonState /\ downAlert' \in BOOLEAN
    BY <1>4 DEF WriteBinding, NotifyTransition, OpenNotice
  <2>2. CASE bound
    <3>1. astray' = Strays(p, kmPrev[p], kmSeen[p])
      BY <1>4, <2>2 DEF WriteBinding
    <3>2. astray' \in BOOLEAN
      BY <3>1 DEF Strays
    <3> QED BY <1>4, <2>1, <3>2 DEF WriteBinding
  <2>3. CASE ~bound
    BY <1>4, <2>3 DEF WriteBinding
  <2> QED BY <2>2, <2>3
<1>5. ASSUME NEW p \in Poller, PollEnds(p) PROVE KumaTypeOK'
  BY <1>5 DEF PollEnds
<1>6. ASSUME NEW s \in MonState, SetBinding(s) PROVE KumaTypeOK'
  <2>1. bound' = TRUE /\ astray' \in BOOLEAN
    BY <1>6, Zenon DEF SetBinding
  <2> QED BY <1>6, <2>1 DEF SetBinding, pollVars
<1>7. CASE KeyExpires \/ ClearBinding \/ Dismiss \/ Mute
  <2>1. CASE KeyExpires
    BY <2>1 DEF KeyExpires, pollVars
  <2>2. CASE ClearBinding
    BY <2>2 DEF ClearBinding, pollVars
  <2>3. CASE Dismiss
    BY <2>3 DEF Dismiss, pollVars
  <2>4. CASE Mute
    <3>1. muted' \in BOOLEAN
      BY <2>4, Zenon DEF Mute
    <3> QED BY <2>4, <3>1 DEF Mute, pollVars
  <2> QED BY <1>7, <2>1, <2>2, <2>3, <2>4
<1>8. CASE UNCHANGED kumaVars
  BY <1>8 DEF kumaVars, pollVars
<1> QED BY <1>1, <1>2, <1>3, <1>4, <1>5, <1>6, <1>7, <1>8 DEF KumaNext

\* The poll's write: what it read may be stale and it may be quiet; either way it
\* leaves notice and state in agreement or says that it did not.
LEMMA KumaWriteStep ==
  ASSUME KumaInv, NEW p \in Poller, WriteBinding(p)
  PROVE  GoneIsOther' /\ AlertMatchesBinding'
<1> USE DEF KumaInv, KumaTypeOK, GoneIsOther, AlertMatchesBinding, MonState
<1>0. UNCHANGED bound /\ kmSeen[p] \in MonState /\ kmPrev[p] \in MonState
  BY DEF WriteBinding
<1>1. CASE ~bound
  BY <1>1, <1>0 DEF WriteBinding
<1>2. CASE bound /\ kmNotify[p]
  <2>1. /\ bindState' = kmSeen[p] /\ NotifyTransition(kmPrev[p], kmSeen[p])
        /\ astray' = Strays(p, kmPrev[p], kmSeen[p])
    BY <1>2 DEF WriteBinding
  <2>2. CASE bindState # kmPrev[p]
    <3>1. astray'
      BY <1>2, <2>1, <2>2 DEF Strays
    <3> QED BY <1>0, <1>2, <3>1
  <2>3. CASE bindState = kmPrev[p] /\ (kmSeen[p] = "down" <=> kmPrev[p] = "down")
    <3>1. downAlert' = downAlert
      BY <2>1, <2>3 DEF NotifyTransition
    <3>2. astray' = astray
      BY <1>2, <2>1, <2>3, Zenon DEF Strays
    <3> QED BY <1>0, <1>2, <2>1, <2>3, <3>1, <3>2
  <2>4. CASE bindState = kmPrev[p] /\ kmSeen[p] = "down" /\ kmPrev[p] # "down"
    <3>1. astray' = ~downAlert' /\ downAlert' \in BOOLEAN
      BY <1>2, <2>1, <2>4 DEF Strays, NotifyTransition, OpenNotice
    <3> QED BY <1>0, <1>2, <2>1, <2>4, <3>1
  <2>5. CASE bindState = kmPrev[p] /\ kmSeen[p] # "down" /\ kmPrev[p] = "down"
    <3>1. downAlert' = FALSE
      BY <2>1, <2>5 DEF NotifyTransition
    <3> QED BY <1>0, <1>2, <2>1, <2>5, <3>1
  <2> QED BY <2>2, <2>3, <2>4, <2>5
<1>3. CASE bound /\ ~kmNotify[p]
  <2>1. /\ bindState' = kmSeen[p] /\ downAlert' = downAlert
        /\ astray' = (astray \/ (kmSeen[p] = "down") # (bindState = "down") \/ kmNotify[p])
    BY <1>3 DEF WriteBinding, Strays
  <2>2. ASSUME ~astray' PROVE ~astray /\ (kmSeen[p] = "down" <=> bindState = "down")
    BY <2>1, <2>2, Zenon
  <2> QED BY <1>0, <1>3, <2>1, <2>2
<1> QED BY <1>1, <1>2, <1>3

LEMMA KumaStep == KumaInv /\ [KumaNext]_kumaVars => KumaInv'
<1> SUFFICES ASSUME KumaInv, [KumaNext]_kumaVars PROVE GoneIsOther' /\ AlertMatchesBinding'
  BY KumaTypeStep DEF KumaInv
<1> USE DEF KumaInv, KumaTypeOK, GoneIsOther, AlertMatchesBinding, MonState
<1>1. ASSUME NEW p \in Poller, NEW notify \in MayNotify[p], PollStarts(p, notify)
      PROVE  GoneIsOther' /\ AlertMatchesBinding'
  BY <1>1 DEF PollStarts
<1>2. ASSUME NEW p \in Poller, FetchMetrics(p) \/ LoadBinding(p) \/ PollEnds(p)
      PROVE  GoneIsOther' /\ AlertMatchesBinding'
  BY <1>2 DEF FetchMetrics, LoadBinding, PollEnds
<1>3. ASSUME NEW s \in MonState, SetBinding(s) PROVE GoneIsOther' /\ AlertMatchesBinding'
  BY <1>3 DEF SetBinding
<1>4. CASE KeyExpires \/ ClearBinding \/ Dismiss \/ Mute
  BY <1>4 DEF KeyExpires, ClearBinding, Dismiss, Mute
<1>5. CASE UNCHANGED kumaVars
  BY <1>5 DEF kumaVars
<1> QED BY <1>1, <1>2, <1>3, <1>4, <1>5, KumaWriteStep DEF KumaNext

\* The bindings and polls of poll.py keep their state in its sets.
THEOREM KumaTypeCorrect == KumaSpec => []KumaTypeOK
<1>1. KumaInv => KumaTypeOK
  BY DEF KumaInv
<1> QED BY KumaInit0, KumaStep, <1>1, PTL DEF KumaSpec

\* _notify_transition: for any number of pollers in any processes, with or without the
\* Redis key, the notice is open exactly while the binding is down, unless the last to
\* touch either was not a poll that notifies.
THEOREM AlertsFollowBinding == KumaSpec => []AlertMatchesBinding
<1>1. KumaInv => AlertMatchesBinding
  BY DEF KumaInv
<1> QED BY KumaInit0, KumaStep, <1>1, PTL DEF KumaSpec
------------------------------------------------------------------------------
(***************************************************************************)
(* Certificates for any number of targets, requests, pulls and faults.     *)
(* Deploys to one target that overlap are what makes the record doubtful,  *)
(* and the history variables mark the targets where they did: who still    *)
(* calls a deploy its own is alone at the target. A target that has        *)
(* neither the vault's material nor an alert is on the list of a renewal,  *)
(* or a deploy is under way at it.                                         *)
(***************************************************************************)

\* The phases in which a deploy still has the outcome to record.
Unrecorded(a, t) == ctAt[a] = t /\ ctPc[a] \in {"write", "verify", "record", "failed"}

\* A renewal will still come to the target.
Queued(t) == \E b \in CertActor : Renewing(b) /\ t \in ctTodo[b]

CertPhases ==
  \A a \in CertActor :
    /\ ctPc[a] \in {"write", "verify", "record", "alert", "failed", "alarm", "check"} => ctAt[a] \in CertTarget
    /\ ctPc[a] \in {"prepull", "request", "poll"} => Renewing(a)
    /\ ctPc[a] \in {"idle", "prepull", "request", "poll", "check"} => ctTodo[a] = {}

\* Who calls a deploy its own is alone at the target, and finds there what it wrote.
OwnIsAlone ==
  \A a \in CertActor, t \in CertTarget : Deploying(a, t) /\ ctView[a] = "own" =>
    /\ \A b \in CertActor \ {a} : ~Deploying(b, t)
    /\ ctPc[a] \in {"verify", "record"} => onHost[t] = ctMat[a]
    /\ ctPc[a] = "alert" => dep[t] = "success" /\ depFp[t] = ctMat[a]
    /\ ctMat[a] = vault \/ t \in behind \/ Queued(t)

\* A record that is not one's own marks its target, and so does the last to leave it.
SharedIsMarked ==
  \A a \in CertActor, t \in CertTarget :
    Deploying(a, t) /\ ctPc[a] = "alert" /\ ctView[a] # "own" =>
      t \in behind \/ \E b \in CertActor \ {a} : Deploying(b, t) /\ ctPc[b] # "alert"

RecordHolds ==
  \A t \in CertTarget \ unsure :
    dep[t] = "success" => onHost[t] = depFp[t] \/ \E a \in CertActor : Unrecorded(a, t)

TargetReached ==
  \A t \in CertTarget \ (behind \union hushed) :
    \/ dep[t] = "success" /\ depFp[t] = vault
    \/ t \in depAlert
    \/ Queued(t)
    \/ \E a \in CertActor : Deploying(a, t)

CertInv ==
  CertTypeOK /\ CertPhases /\ OwnIsAlone /\ SharedIsMarked /\ RecordHolds /\ TargetReached
LEMMA CertInit0 == CertInit => CertInv
<1> SUFFICES ASSUME CertInit PROVE CertInv
  OBVIOUS
<1> USE CertAssumption DEF CertInit
<1>1. ctOk \in [CertActor -> BOOLEAN]
  BY Zenon
<1>2. CertTypeOK
  BY <1>1 DEF CertTypeOK, Material, NoMat
<1>3. CertPhases /\ OwnIsAlone /\ SharedIsMarked
  BY DEF CertPhases, OwnIsAlone, SharedIsMarked, Deploying
<1>4. RecordHolds /\ TargetReached
  BY DEF RecordHolds, TargetReached
<1> QED BY <1>2, <1>3, <1>4 DEF CertInv

\* Actors that are done keep nothing.
LEMMA IdleType ==
  ASSUME CertTypeOK, NEW S, CertIdle(S)
  PROVE  /\ ctPc' \in [CertActor -> {"idle", "prepull", "request", "poll", "next", "write", "verify",
                                      "record", "alert", "failed", "alarm", "check"}]
         /\ ctTodo' \in [CertActor -> SUBSET CertTarget]
         /\ ctAt' \in [CertActor -> CertTarget \union {NoTarget}]
         /\ ctMat' \in [CertActor -> Material \union {NoMat}]
         /\ ctOk' \in [CertActor -> BOOLEAN]
         /\ ctView' \in [CertActor -> {"own", "shared", "moved"}]
         /\ ctOld' \in [CertActor -> Material \union {NoMat}]
         /\ ctPolls' \in [CertActor -> 0 .. MaxPolls]
<1>1. ctOk' \in [CertActor -> BOOLEAN]
  BY Zenon DEF CertTypeOK, CertIdle
<1>2. ctPolls' \in [CertActor -> 0 .. MaxPolls]
  BY CertAssumption DEF CertTypeOK, CertIdle
<1> QED BY <1>1, <1>2 DEF CertTypeOK, CertIdle

\* An actor with no target to come and none at hand may be done.
LEMMA RestStep ==
  ASSUME CertInv, NEW a \in CertActor, CertIdle({a}), ctTodo[a] = {},
         ctPc[a] \in {"prepull", "request", "poll", "next"},
         UNCHANGED <<vaultVars, targetVars, ctFaults, certHist>>
  PROVE  CertInv'
<1> USE DEF CertInv, Renewing, Deploying, vaultVars, targetVars, certHist
<1>1. CertTypeOK'
  BY IdleType DEF CertTypeOK
<1> USE DEF CertIdle
<1>2. CertPhases'
  BY DEF CertTypeOK, CertPhases
<1>3. OwnIsAlone'
  BY DEF CertTypeOK, OwnIsAlone, Queued
<1>4. SharedIsMarked'
  BY DEF CertTypeOK, SharedIsMarked
<1>5. RecordHolds'
  BY DEF CertTypeOK, RecordHolds, Unrecorded
<1>6. TargetReached'
  BY DEF CertTypeOK, TargetReached, Queued
<1> QED BY <1>1, <1>2, <1>3, <1>4, <1>5, <1>6

\* A pull that brings what the renewal wants sends it to every target.
LEMMA PullSends ==
  ASSUME CertInv, NEW a \in CertActor, ctPc[a] \in {"prepull", "poll"}, Redistribute(a),
         vault' = npmMat, UNCHANGED <<npmMat, newest, targetVars, ctFaults, certHist>>
  PROVE  CertInv'
<1> USE CertAssumption DEF CertInv, Renewing, Deploying, Redistribute, targetVars, certHist
<1>1. CertTypeOK'
  BY DEF CertTypeOK, Material
<1>2. CertPhases'
  BY DEF CertTypeOK, CertPhases
<1>3. \A t \in CertTarget : Queued(t)'
  BY DEF CertTypeOK, CertPhases, Queued
<1>4. OwnIsAlone'
  BY <1>3 DEF CertTypeOK, OwnIsAlone
<1>5. SharedIsMarked'
  BY DEF CertTypeOK, SharedIsMarked
<1>6. RecordHolds'
  BY DEF CertTypeOK, RecordHolds, Unrecorded
<1>7. TargetReached'
  BY <1>3 DEF TargetReached
<1> QED BY <1>1, <1>2, <1>4, <1>5, <1>6, <1>7

\* A pull that does not leaves the vault as it was, or marks every target.
LEMMA PullKeeps ==
  ASSUME CertInv, NEW a \in CertActor, ctPc[a] \in {"prepull", "poll"},
         ctPc' = [ctPc EXCEPT ![a] = "request"] \/ UNCHANGED ctPc,
         vault' \in Material, vault' = vault \/ behind' = CertTarget,
         behind' \in {behind, CertTarget}, ctPolls' \in [CertActor -> 0 .. MaxPolls],
         UNCHANGED <<npmMat, newest, targetVars, ctTodo, ctAt, ctMat, ctOk, ctView, ctOld, ctFaults,
                     unsure, hushed>>
  PROVE  CertInv'
<1> USE DEF CertInv, Renewing, Deploying, targetVars
<1>1. CertTypeOK'
  BY DEF CertTypeOK
<1>2. CertPhases'
  BY DEF CertTypeOK, CertPhases
<1>3. behind \subseteq behind'
  BY DEF CertTypeOK
<1>4. OwnIsAlone'
  BY <1>3 DEF CertTypeOK, OwnIsAlone, Queued
<1>5. SharedIsMarked'
  BY <1>3 DEF CertTypeOK, SharedIsMarked
<1>6. RecordHolds'
  BY DEF CertTypeOK, RecordHolds, Unrecorded
<1>7. TargetReached'
  BY <1>3 DEF CertTypeOK, TargetReached, Queued
<1> QED BY <1>1, <1>2, <1>4, <1>5, <1>6, <1>7

LEMMA PullFirstKeeps ==
  ASSUME CertInv, NEW a \in CertActor, PullFirst(a)
  PROVE  CertInv'
<1>0. npmMat \in Material /\ vault \in Material /\ ctPc[a] = "prepull"
      /\ ctPolls \in [CertActor -> 0 .. MaxPolls]
  BY DEF CertInv, CertTypeOK, PullFirst
<1>1. CASE vault' = npmMat /\ npmMat # ctOld[a] /\ Redistribute(a) /\ behind' = behind
  BY <1>0, <1>1, PullSends DEF PullFirst, certHist
<1>2. CASE /\ CertGoto(a, "request") /\ UNCHANGED ctOk
           /\ \/ vault' = npmMat /\ PulledUnsent(a) /\ npmMat = ctOld[a]
              \/ UNCHANGED <<vault, behind>>
  BY <1>0, <1>2, PullKeeps DEF PullFirst, CertGoto, PulledUnsent
<1> QED BY <1>1, <1>2 DEF PullFirst, PulledUnsent

LEMMA PollNpmKeeps ==
  ASSUME CertInv, NEW a \in CertActor, PollNpm(a)
  PROVE  CertInv'
<1>0. npmMat \in Material /\ vault \in Material /\ ctPc[a] = "poll" /\ ctTodo[a] = {}
  BY DEF CertInv, CertTypeOK, CertPhases, PollNpm
<1>1. CASE vault' = npmMat /\ npmMat # ctOld[a] /\ Redistribute(a) /\ behind' = behind
  BY <1>0, <1>1, PullSends DEF PollNpm, certHist
<1>2. CASE /\ ctPolls[a] > 0 /\ ctPolls' = [ctPolls EXCEPT ![a] = @ - 1]
           /\ UNCHANGED <<ctPc, ctTodo, ctAt, ctMat, ctOk, ctView, ctOld>>
           /\ \/ vault' = npmMat /\ PulledUnsent(a) /\ npmMat = ctOld[a]
              \/ UNCHANGED <<vault, behind>>
  <2>1. ctPolls' \in [CertActor -> 0 .. MaxPolls]
    BY <1>2, CertAssumption DEF CertInv, CertTypeOK
  <2> QED BY <1>0, <1>2, <2>1, PullKeeps DEF PollNpm, PulledUnsent
<1>3. CASE CertIdle({a}) /\ UNCHANGED <<vault, behind>>
  BY <1>0, <1>3, RestStep DEF PollNpm, vaultVars, certHist
<1> QED BY <1>1, <1>2, <1>3 DEF PollNpm, PulledUnsent

LEMMA NpmRenewsKeeps ==
  ASSUME CertInv, NpmRenews
  PROVE  CertInv'
<1> USE CertAssumption DEF CertInv, NpmRenews,
      Renewing, Deploying, targetVars, actorVars, certHist
<1>1. CertTypeOK'
  BY DEF CertTypeOK, Material
<1>2. CertPhases'
  BY DEF CertTypeOK, CertPhases
<1>3. OwnIsAlone'
  BY DEF CertTypeOK, CertPhases, OwnIsAlone, Queued
<1>4. SharedIsMarked'
  BY DEF CertTypeOK, CertPhases, OwnIsAlone, SharedIsMarked
<1>5. RecordHolds'
  BY DEF CertTypeOK, CertPhases, OwnIsAlone, RecordHolds, Unrecorded
<1>6. TargetReached'
  BY DEF CertTypeOK, CertPhases, OwnIsAlone, SharedIsMarked, TargetReached, Queued
<1> QED BY <1>1, <1>2, <1>3, <1>4, <1>5, <1>6

LEMMA PullByHandKeeps ==
  ASSUME CertInv, PullByHand
  PROVE  CertInv'
<1> USE CertAssumption DEF CertInv, PullByHand,
      Renewing, Deploying, targetVars, actorVars
<1>1. CertTypeOK'
  BY DEF CertTypeOK, Material
<1>2. CertPhases'
  BY DEF CertTypeOK, CertPhases
<1>3. OwnIsAlone'
  BY DEF CertTypeOK, CertPhases, OwnIsAlone, Queued
<1>4. SharedIsMarked'
  BY DEF CertTypeOK, CertPhases, OwnIsAlone, SharedIsMarked
<1>5. RecordHolds'
  BY DEF CertTypeOK, CertPhases, OwnIsAlone, RecordHolds, Unrecorded
<1>6. TargetReached'
  BY DEF CertTypeOK, CertPhases, OwnIsAlone, SharedIsMarked, TargetReached, Queued
<1> QED BY <1>1, <1>2, <1>3, <1>4, <1>5, <1>6

LEMMA ReplacePemKeeps ==
  ASSUME CertInv, ReplacePem
  PROVE  CertInv'
<1> USE CertAssumption DEF CertInv, ReplacePem,
      Renewing, Deploying, targetVars, actorVars
<1>1. CertTypeOK'
  BY DEF CertTypeOK, Material
<1>2. CertPhases'
  BY DEF CertTypeOK, CertPhases
<1>3. OwnIsAlone'
  BY DEF CertTypeOK, CertPhases, OwnIsAlone, Queued
<1>4. SharedIsMarked'
  BY DEF CertTypeOK, CertPhases, OwnIsAlone, SharedIsMarked
<1>5. RecordHolds'
  BY DEF CertTypeOK, CertPhases, OwnIsAlone, RecordHolds, Unrecorded
<1>6. TargetReached'
  BY DEF CertTypeOK, CertPhases, OwnIsAlone, SharedIsMarked, TargetReached, Queued
<1> QED BY <1>1, <1>2, <1>3, <1>4, <1>5, <1>6

LEMMA VerifyEndsKeeps ==
  ASSUME CertInv, VerifyEnds
  PROVE  CertInv'
<1> USE CertAssumption DEF CertInv, VerifyEnds,
      Renewing, Deploying, CertIdle, VerifyMaySay, SettleTargetAlerts, vaultVars
<1>0. "web" \in CertActor
  BY DEF CertActor
<1> HIDE DEF VerifyMaySay
<1>a. ctAt["web"] \in CertTarget /\ ctTodo["web"] = {}
  BY <1>0 DEF CertPhases
<1>1. CertTypeOK'
  <2>1. depAlert' \subseteq CertTarget /\ verAlert' \subseteq CertTarget /\ hushed' \subseteq CertTarget
    BY <1>a DEF CertTypeOK
  <2> QED BY <2>1, IdleType DEF CertTypeOK
<1>2. CertPhases'
  BY <1>0, <1>a DEF CertTypeOK, CertPhases
<1>3. OwnIsAlone'
  BY <1>0, <1>a DEF CertTypeOK, CertPhases, OwnIsAlone, Queued
<1>4. SharedIsMarked'
  BY <1>0, <1>a DEF CertTypeOK, CertPhases, OwnIsAlone, SharedIsMarked
<1>5. RecordHolds'
  BY <1>0, <1>a DEF CertTypeOK, CertPhases, OwnIsAlone, RecordHolds, Unrecorded
<1>6. TargetReached'
  <2>1. \A t \in CertTarget : t \in depAlert \/ t \in hushed => t \in depAlert' \/ t \in hushed'
    BY <1>a
  <2>2. hushed \subseteq hushed'
    BY <1>a
  <2>3. \A t \in CertTarget : (Queued(t) => Queued(t)') /\ \A b \in CertActor : Deploying(b, t) => Deploying(b, t)'
    BY <1>0, <1>a DEF CertTypeOK, Queued
  <2> QED BY <2>1, <2>2, <2>3 DEF TargetReached
<1> QED BY <1>1, <1>2, <1>3, <1>4, <1>5, <1>6

LEMMA CertProcessDiesKeeps ==
  ASSUME CertInv, CertProcessDies
  PROVE  CertInv'
<1> USE CertAssumption DEF CertInv, CertProcessDies,
      CertFault, Renewing, Deploying, CertIdle, vaultVars, targetVars
<1>1. CertTypeOK'
  BY IdleType DEF CertTypeOK, Material
<1>2. CertPhases'
  BY DEF CertTypeOK, CertPhases
<1>3. OwnIsAlone'
  BY DEF CertTypeOK, CertPhases, OwnIsAlone, Queued
<1>4. SharedIsMarked'
  BY DEF CertTypeOK, CertPhases, OwnIsAlone, SharedIsMarked
<1>5. RecordHolds'
  BY DEF CertTypeOK, CertPhases, OwnIsAlone, RecordHolds, Unrecorded
<1>6. TargetReached'
  BY DEF CertTypeOK, CertPhases, OwnIsAlone, SharedIsMarked, TargetReached, Queued
<1> QED BY <1>1, <1>2, <1>3, <1>4, <1>5, <1>6

LEMMA DeployRequestedKeeps ==
  ASSUME CertInv, NEW S \in SUBSET CertTarget, DeployRequested(S)
  PROVE  CertInv'
<1> USE CertAssumption DEF CertInv, DeployRequested,
      Renewing, Deploying, vaultVars, targetVars, certHist
<1>1. CertTypeOK'
  BY DEF CertTypeOK, Material
<1>2. CertPhases'
  BY DEF CertTypeOK, CertPhases
<1>3. OwnIsAlone'
  BY DEF CertTypeOK, CertPhases, OwnIsAlone, Queued
<1>4. SharedIsMarked'
  BY DEF CertTypeOK, CertPhases, OwnIsAlone, SharedIsMarked
<1>5. RecordHolds'
  BY DEF CertTypeOK, CertPhases, OwnIsAlone, RecordHolds, Unrecorded
<1>6. TargetReached'
  BY DEF CertTypeOK, CertPhases, OwnIsAlone, SharedIsMarked, TargetReached, Queued
<1> QED BY <1>1, <1>2, <1>3, <1>4, <1>5, <1>6

LEMMA EditTargetKeeps ==
  ASSUME CertInv, NEW t \in CertTarget, EditTarget(t)
  PROVE  CertInv'
<1> USE CertAssumption DEF CertInv, EditTarget,
      CertFault, Renewing, Deploying, vaultVars
<1>1. CertTypeOK'
  BY DEF CertTypeOK, Material
<1>2. CertPhases'
  BY DEF CertTypeOK, CertPhases
<1>3. OwnIsAlone'
  BY DEF CertTypeOK, CertPhases, OwnIsAlone, Queued
<1>4. SharedIsMarked'
  BY DEF CertTypeOK, CertPhases, OwnIsAlone, SharedIsMarked
<1>5. RecordHolds'
  BY DEF CertTypeOK, CertPhases, OwnIsAlone, RecordHolds, Unrecorded
<1>6. TargetReached'
  BY DEF CertTypeOK, CertPhases, OwnIsAlone, SharedIsMarked, TargetReached, Queued
<1> QED BY <1>1, <1>2, <1>3, <1>4, <1>5, <1>6

LEMMA VerifyRequestedKeeps ==
  ASSUME CertInv, NEW t \in CertTarget, VerifyRequested(t)
  PROVE  CertInv'
<1> USE CertAssumption DEF CertInv, VerifyRequested,
      Renewing, Deploying, vaultVars, targetVars, certHist
<1>1. CertTypeOK'
  BY DEF CertTypeOK, Material
<1>2. CertPhases'
  BY DEF CertTypeOK, CertPhases
<1>3. OwnIsAlone'
  BY DEF CertTypeOK, CertPhases, OwnIsAlone, Queued
<1>4. SharedIsMarked'
  BY DEF CertTypeOK, CertPhases, OwnIsAlone, SharedIsMarked
<1>5. RecordHolds'
  BY DEF CertTypeOK, CertPhases, OwnIsAlone, RecordHolds, Unrecorded
<1>6. TargetReached'
  BY DEF CertTypeOK, CertPhases, OwnIsAlone, SharedIsMarked, TargetReached, Queued
<1> QED BY <1>1, <1>2, <1>3, <1>4, <1>5, <1>6

LEMMA DeployReadsKeeps ==
  ASSUME CertInv, NEW a \in CertActor, NEW t \in CertTarget, DeployReads(a, t)
  PROVE  CertInv'
<1> USE CertAssumption DEF CertInv, DeployReads,
      Renewing, Deploying, vaultVars, targetVars, certHist
<1>1. CertTypeOK'
  BY DEF CertTypeOK, Material
<1>2. CertPhases'
  BY DEF CertTypeOK, CertPhases
<1>3. OwnIsAlone'
  BY DEF CertTypeOK, CertPhases, OwnIsAlone, Queued
<1>4. SharedIsMarked'
  BY DEF CertTypeOK, CertPhases, OwnIsAlone, SharedIsMarked
<1>5. RecordHolds'
  BY DEF CertTypeOK, CertPhases, OwnIsAlone, RecordHolds, Unrecorded
<1>6. TargetReached'
  BY DEF CertTypeOK, CertPhases, OwnIsAlone, SharedIsMarked, TargetReached, Queued
<1> QED BY <1>1, <1>2, <1>3, <1>4, <1>5, <1>6

LEMMA RenewStartsKeeps ==
  ASSUME CertInv, NEW a \in CertActor, RenewStarts(a)
  PROVE  CertInv'
<1> USE CertAssumption DEF CertInv, RenewStarts,
      Renewing, Deploying, vaultVars, targetVars, certHist
<1>1. CertTypeOK'
  BY DEF CertTypeOK, Material
<1>2. CertPhases'
  <2>1. vault # NoMat
    BY DEF CertTypeOK, Material, NoMat
  <2> QED BY <2>1 DEF CertTypeOK, CertPhases
<1>3. OwnIsAlone'
  BY DEF CertTypeOK, CertPhases, OwnIsAlone, Queued
<1>4. SharedIsMarked'
  BY DEF CertTypeOK, CertPhases, OwnIsAlone, SharedIsMarked
<1>5. RecordHolds'
  BY DEF CertTypeOK, CertPhases, OwnIsAlone, RecordHolds, Unrecorded
<1>6. TargetReached'
  BY DEF CertTypeOK, CertPhases, OwnIsAlone, SharedIsMarked, TargetReached, Queued
<1> QED BY <1>1, <1>2, <1>3, <1>4, <1>5, <1>6

LEMMA RequestRenewKeeps ==
  ASSUME CertInv, NEW a \in CertActor, RequestRenew(a)
  PROVE  CertInv'
<1>1. CASE CertIdle({a})
  <2>1. ctTodo[a] = {} /\ ctPc[a] \in {"prepull", "request"}
    BY <1>1 DEF CertInv, CertPhases, RequestRenew
  <2> QED BY <1>1, <2>1, RestStep DEF RequestRenew
<1>2. CASE /\ ctPc[a] = "request"
           /\ ctPc' = [ctPc EXCEPT ![a] = "poll"]
           /\ ctPolls' = [ctPolls EXCEPT ![a] = MaxPolls]
           /\ UNCHANGED <<ctTodo, ctAt, ctMat, ctOk, ctView, ctOld>>
  <2> USE <1>2 DEF CertInv, Renewing, Deploying, RequestRenew, vaultVars, targetVars, certHist
  <2>1. CertTypeOK'
    BY CertAssumption DEF CertTypeOK
  <2>2. CertPhases'
    BY DEF CertTypeOK, CertPhases
  <2>3. OwnIsAlone' /\ SharedIsMarked'
    BY DEF CertTypeOK, OwnIsAlone, SharedIsMarked, Queued
  <2>4. RecordHolds' /\ TargetReached'
    BY DEF CertTypeOK, RecordHolds, Unrecorded, TargetReached, Queued
  <2> QED BY <2>1, <2>2, <2>3, <2>4
<1> QED BY <1>1, <1>2 DEF RequestRenew

LEMMA DeployDoneKeeps ==
  ASSUME CertInv, NEW a \in CertActor, DeployDone(a)
  PROVE  CertInv'
BY RestStep DEF DeployDone

LEMMA HostWritesKeeps ==
  ASSUME CertInv, NEW a \in CertActor, HostWrites(a)
  PROVE  CertInv'
<1> USE CertAssumption DEF CertInv, HostWrites,
      Renewing, Deploying, CertGoto, vaultVars, certHist
<1>1. CertTypeOK'
  BY DEF CertTypeOK, Material
<1>2. CertPhases'
  BY DEF CertTypeOK, CertPhases
<1>3. OwnIsAlone'
  BY DEF CertTypeOK, CertPhases, OwnIsAlone, Queued
<1>4. SharedIsMarked'
  BY DEF CertTypeOK, CertPhases, OwnIsAlone, SharedIsMarked
<1>5. RecordHolds'
  BY DEF CertTypeOK, CertPhases, OwnIsAlone, RecordHolds, Unrecorded
<1>6. TargetReached'
  BY DEF CertTypeOK, CertPhases, OwnIsAlone, SharedIsMarked, TargetReached, Queued
<1> QED BY <1>1, <1>2, <1>3, <1>4, <1>5, <1>6

LEMMA HostVerifiesKeeps ==
  ASSUME CertInv, NEW a \in CertActor, HostVerifies(a)
  PROVE  CertInv'
<1> USE CertAssumption DEF CertInv, HostVerifies,
      Renewing, Deploying, CertGoto, VerifyMaySay, vaultVars, targetVars, certHist
<1>1. CertTypeOK'
  <2>1. ctOk' \in [CertActor -> BOOLEAN]
    BY Zenon DEF CertTypeOK
  <2> QED BY <2>1 DEF CertTypeOK, Material
<1>2. CertPhases'
  BY DEF CertTypeOK, CertPhases
<1>3. OwnIsAlone'
  BY DEF CertTypeOK, CertPhases, OwnIsAlone, Queued
<1>4. SharedIsMarked'
  BY DEF CertTypeOK, CertPhases, OwnIsAlone, SharedIsMarked
<1>5. RecordHolds'
  BY DEF CertTypeOK, CertPhases, OwnIsAlone, RecordHolds, Unrecorded
<1>6. TargetReached'
  BY DEF CertTypeOK, CertPhases, OwnIsAlone, SharedIsMarked, TargetReached, Queued
<1> QED BY <1>1, <1>2, <1>3, <1>4, <1>5, <1>6

LEMMA DeployRecordsKeeps ==
  ASSUME CertInv, NEW a \in CertActor, DeployRecords(a)
  PROVE  CertInv'
<1> USE CertAssumption DEF CertInv, DeployRecords,
      Renewing, Deploying, CertGoto, vaultVars
<1>0. ctAt[a] \in CertTarget
  BY DEF CertPhases
<1>1. CertTypeOK'
  <2>1. depFp' \in [CertTarget -> Material \union {NoMat}]
    BY <1>0 DEF CertTypeOK
  <2> QED BY <2>1, <1>0 DEF CertTypeOK
<1>2. CertPhases'
  BY DEF CertTypeOK, CertPhases
<1>3. OwnIsAlone'
  BY DEF CertTypeOK, CertPhases, OwnIsAlone, Queued
<1>4. SharedIsMarked'
  BY DEF CertTypeOK, CertPhases, OwnIsAlone, SharedIsMarked
<1>5. RecordHolds'
  BY DEF CertTypeOK, CertPhases, OwnIsAlone, RecordHolds, Unrecorded
<1>6. TargetReached'
  BY DEF CertTypeOK, CertPhases, OwnIsAlone, SharedIsMarked, TargetReached, Queued
<1> QED BY <1>1, <1>2, <1>3, <1>4, <1>5, <1>6

LEMMA DeploySettlesKeeps ==
  ASSUME CertInv, NEW a \in CertActor, DeploySettles(a)
  PROVE  CertInv'
<1> USE CertAssumption DEF CertInv, DeploySettles,
      Renewing, Deploying, CertNextTarget, SettleTargetAlerts, vaultVars, certHist
<1>0. ctAt[a] \in CertTarget
  BY DEF CertPhases
<1>1. CertTypeOK'
  <2>1. ctOk' \in [CertActor -> BOOLEAN]
    BY Zenon DEF CertTypeOK
  <2> QED BY <2>1, <1>0 DEF CertTypeOK, Material
<1>2. CertPhases'
  BY DEF CertTypeOK, CertPhases
<1>3. OwnIsAlone'
  BY DEF CertTypeOK, CertPhases, OwnIsAlone, Queued
<1>4. SharedIsMarked'
  BY DEF CertTypeOK, CertPhases, OwnIsAlone, SharedIsMarked
<1>5. RecordHolds'
  BY DEF CertTypeOK, CertPhases, OwnIsAlone, RecordHolds, Unrecorded
<1>6. TargetReached'
  BY DEF CertTypeOK, CertPhases, OwnIsAlone, SharedIsMarked, TargetReached, Queued
<1> QED BY <1>1, <1>2, <1>3, <1>4, <1>5, <1>6

LEMMA DeployFailsKeeps ==
  ASSUME CertInv, NEW a \in CertActor, DeployFails(a)
  PROVE  CertInv'
<1> USE CertAssumption DEF CertInv, DeployFails,
      Renewing, Deploying, CertGoto, vaultVars, certHist
<1>1. CertTypeOK'
  BY DEF CertTypeOK, Material
<1>2. CertPhases'
  BY DEF CertTypeOK, CertPhases
<1>3. OwnIsAlone'
  BY DEF CertTypeOK, CertPhases, OwnIsAlone, Queued
<1>4. SharedIsMarked'
  BY DEF CertTypeOK, CertPhases, OwnIsAlone, SharedIsMarked
<1>5. RecordHolds'
  BY DEF CertTypeOK, CertPhases, OwnIsAlone, RecordHolds, Unrecorded
<1>6. TargetReached'
  BY DEF CertTypeOK, CertPhases, OwnIsAlone, SharedIsMarked, TargetReached, Queued
<1> QED BY <1>1, <1>2, <1>3, <1>4, <1>5, <1>6

LEMMA DeployAlarmsKeeps ==
  ASSUME CertInv, NEW a \in CertActor, DeployAlarms(a)
  PROVE  CertInv'
<1> USE CertAssumption DEF CertInv, DeployAlarms,
      Renewing, Deploying, CertNextTarget, vaultVars
<1>0. ctAt[a] \in CertTarget
  BY DEF CertPhases
<1>1. CertTypeOK'
  <2>1. ctOk' \in [CertActor -> BOOLEAN]
    BY Zenon DEF CertTypeOK
  <2> QED BY <2>1, <1>0 DEF CertTypeOK, Material
<1>2. CertPhases'
  BY DEF CertTypeOK, CertPhases
<1>3. OwnIsAlone'
  BY DEF CertTypeOK, CertPhases, OwnIsAlone, Queued
<1>4. SharedIsMarked'
  BY DEF CertTypeOK, CertPhases, OwnIsAlone, SharedIsMarked
<1>5. RecordHolds'
  BY DEF CertTypeOK, CertPhases, OwnIsAlone, RecordHolds, Unrecorded
<1>6. TargetReached'
  BY DEF CertTypeOK, CertPhases, OwnIsAlone, SharedIsMarked, TargetReached, Queued
<1> QED BY <1>1, <1>2, <1>3, <1>4, <1>5, <1>6

LEMMA CertInvStep == CertInv /\ [CertNext]_certVars => CertInv'
<1> SUFFICES ASSUME CertInv, [CertNext]_certVars PROVE CertInv'
  OBVIOUS
<1>1. CASE NpmRenews \/ PullByHand \/ ReplacePem \/ VerifyEnds \/ CertProcessDies
  BY <1>1, NpmRenewsKeeps, PullByHandKeeps, ReplacePemKeeps, VerifyEndsKeeps, CertProcessDiesKeeps
<1>2. ASSUME NEW S \in SUBSET CertTarget, DeployRequested(S) PROVE CertInv'
  BY <1>2, DeployRequestedKeeps
<1>3. ASSUME NEW t \in CertTarget, EditTarget(t) \/ VerifyRequested(t) PROVE CertInv'
  BY <1>3, EditTargetKeeps, VerifyRequestedKeeps
<1>4. ASSUME NEW a \in CertActor, NEW t \in CertTarget, DeployReads(a, t) PROVE CertInv'
  BY <1>4, DeployReadsKeeps
<1>5. ASSUME NEW a \in CertActor,
             \/ RenewStarts(a) \/ PullFirst(a) \/ RequestRenew(a) \/ PollNpm(a)
             \/ DeployDone(a) \/ HostWrites(a) \/ HostVerifies(a) \/ DeployRecords(a)
             \/ DeploySettles(a) \/ DeployFails(a) \/ DeployAlarms(a)
      PROVE  CertInv'
  BY <1>5, RenewStartsKeeps, PullFirstKeeps, RequestRenewKeeps, PollNpmKeeps, DeployDoneKeeps,
     HostWritesKeeps, HostVerifiesKeeps, DeployRecordsKeeps, DeploySettlesKeeps, DeployFailsKeeps,
     DeployAlarmsKeeps
<1>6. CASE UNCHANGED certVars
  BY <1>6 DEF certVars, vaultVars, targetVars, actorVars, certHist, CertInv, CertTypeOK, CertPhases,
     OwnIsAlone, SharedIsMarked, RecordHolds, TargetReached, Renewing, Deploying, Unrecorded, Queued
<1>7. \A t \in CertTarget : {t} \in SUBSET CertTarget
  OBVIOUS
<1> QED BY <1>1, <1>2, <1>3, <1>4, <1>5, <1>6, <1>7 DEF CertNext

\* The variables of the certificate stay in their sets.
THEOREM CertTypes == CertSpec => []CertTypeOK
BY CertInit0, CertInvStep, PTL DEF CertSpec, CertInv

\* A target that is recorded as deployed has the recorded material when no deploy to it is
\* under way, but for edits, deaths at it and overlaps (deploy_target, record_deploy).
THEOREM DeployRecordIsTrue == CertSpec => []DeployRecordHolds
<1>1. CertInv => DeployRecordHolds
  BY DEF CertInv, RecordHolds, Unrecorded, DeployRecordHolds, Deploying
<1> QED BY <1>1, CertInit0, CertInvStep, PTL DEF CertSpec

\* A renewal brings every target the vault's material or an open cert_deploy_failed, however
\* its pulls and deploys interleave with those of requests (redistribute_after_renew).
THEOREM RenewalIsDistributed == CertSpec => []RenewalReachesTargets
<1>1. CertInv => RenewalReachesTargets
  BY DEF CertInv, CertPhases, TargetReached, Queued, Deploying, RenewalReachesTargets
<1> QED BY <1>1, CertInit0, CertInvStep, PTL DEF CertSpec
------------------------------------------------------------------------------
(***************************************************************************)
(* DNS records for any number of Pi-holes, hosts, names and faults. A Pi-  *)
(* hole's A record of a name is the address of the host that has the name, *)
(* or the record that the handler at work is about to delete; only one     *)
(* host has a name, so the addresses do not mix. A service's CNAME points  *)
(* to its target's name except while the handler deletes the old one.      *)
(***************************************************************************)

\* Only one host has a name, and what a handler is about to write is in the rows.
DnsPhases ==
  /\ \A s, r \in DnsHost : hostName[s] # NoName /\ hostName[s] = hostName[r] => s = r
  /\ dnPc = "idle" => dnNew = NoRecord
  /\ dnPc = "deleteA" => dnOld \in ARecord
  /\ dnPc \in {"deleteA", "addA"} =>
       \/ dnPc = "deleteA" /\ dnNew = NoRecord
       \/ \E s \in DnsHost : hostName[s] \in HostName /\ dnNew = <<hostName[s], hostIp[s]>>
  /\ dnPc \in {"deleteC", "addC", "status"} =>
       \/ dnPc = "deleteC" /\ dnNew = NoRecord
       \/ TargetName \in HostName /\ dnNew = <<TargetName>>

\* A record on a Pi-hole is a host's own, or the one about to be deleted.
RecordsKnown ==
  \A h \in Hole : \A r \in holeA[h] : <<h, r[1]>> \notin keptA =>
    \/ \E s \in DnsHost : hostName[s] = r[1] /\ hostIp[s] = r[2]
    \/ dnPc = "deleteA" /\ r = dnOld

\* So is a CNAME; and it is everywhere once the service's sync says ok.
CnamesKnown ==
  \A h \in Hole \ keptCname :
    /\ holeCname[h] \subseteq IF dnPc = "deleteC" THEN {dnOld[1]} ELSE {TargetName}
    /\ dnPc = "status" /\ h \in dnDone => holeCname[h] = {TargetName}
    /\ svcStatus = "ok" /\ ~dirty => dnPc # "deleteC" /\ holeCname[h] = {TargetName}

DnsInv == DnsTypeOK /\ DnsPhases /\ RecordsKnown /\ CnamesKnown
LEMMA DnsInit0 == DnsInit => DnsInv
<1> SUFFICES ASSUME DnsInit PROVE DnsInv
  OBVIOUS
<1> USE DnsAssumption DEF DnsInit
<1>1. manageA \in [DnsHost -> BOOLEAN] /\ dirty \in BOOLEAN
  BY Zenon
<1>2. DnsTypeOK
  BY <1>1 DEF DnsTypeOK
<1>3. DnsPhases /\ RecordsKnown /\ CnamesKnown
  BY DEF DnsPhases, RecordsKnown, CnamesKnown
<1> QED BY <1>2, <1>3 DEF DnsInv

LEMMA SaveHostDnsKeeps ==
  ASSUME DnsInv, NEW s \in DnsHost, NEW name \in HostName \union {NoName},
         NEW edit \in BOOLEAN, NEW manage \in BOOLEAN, NEW force \in BOOLEAN, NEW ip \in HostAddrs[s], SaveHostDns(s, name, ip, edit, manage, force)
  PROVE  DnsInv'
<1> USE DnsAssumption DEF DnsInv, SaveHostDns,
      WithCname, NoRecord, svcRow
<1> DEFINE old    == hostName[s]
           oldIp  == IF edit THEN ip ELSE hostIp[s]
           owned  == manage /\ name # NoName
           drops  == manageA[s] /\ old # NoName /\ (~owned \/ old # name \/ oldIp # ip)
           pushes == owned \/ (force /\ name # NoName /\ ~drops)
<1>a. old \in HostName \union {NoName} /\ ip \in Addr /\ oldIp \in Addr
  BY DEF DnsTypeOK
<1>b. /\ hostName' = [hostName EXCEPT ![s] = name] /\ hostIp' = [hostIp EXCEPT ![s] = ip]
      /\ dnPc = "idle" /\ name # NoName => \A r \in DnsHost \ {s} : hostName[r] # name
      /\ UNCHANGED <<svcRow, holeA, holeCname, dnDone, dnFaults>>
  OBVIOUS
<1>c. /\ dnOld' = IF drops THEN <<old, oldIp>> ELSE NoRecord
      /\ dnNew' = IF pushes THEN <<name, ip>> ELSE NoRecord
      /\ dnPc' = IF drops THEN "deleteA" ELSE IF pushes THEN "addA" ELSE "idle"
  OBVIOUS
<1>d. keptA' = IF old # NoName /\ (oldIp # hostIp[s] \/ (~drops /\ (old # name \/ ip # hostIp[s])))
               THEN keptA \union (With(old) \X {old}) ELSE keptA
  OBVIOUS
<1>e. /\ keptCname' = IF s = svcTarget /\ old # name THEN keptCname \union WithCname ELSE keptCname
      /\ dirty' = (dirty \/ (s = svcTarget /\ old # name))
  OBVIOUS
<1>1. DnsTypeOK'
  <2>1. manageA' \in [DnsHost -> BOOLEAN]
    BY Zenon DEF DnsTypeOK
  <2>2. dirty' \in BOOLEAN
    BY Zenon DEF DnsTypeOK
  <2>3. dnOld' \in ARecord \union {NoRecord} /\ dnNew' \in ARecord \union {NoRecord}
    BY <1>a, <1>c DEF ARecord
  <2>4. keptA' \subseteq Hole \X HostName /\ keptCname' \subseteq Hole
    BY <1>a, <1>d, <1>e DEF DnsTypeOK, With
  <2>5. hostName' \in [DnsHost -> HostName \union {NoName}] /\ hostIp' \in [DnsHost -> Addr]
    BY <1>a, <1>b DEF DnsTypeOK
  <2>6. dnPc' \in {"idle", "deleteA", "addA"}
    BY <1>c
  <2> QED BY <1>b, <2>1, <2>2, <2>3, <2>4, <2>5, <2>6 DEF DnsTypeOK
<1>2. DnsPhases'
  <2>1. hostName'[s] = name /\ hostIp'[s] = ip /\ \A r \in DnsHost \ {s} : hostName'[r] = hostName[r]
    BY <1>b DEF DnsTypeOK
  <2>2. \A r, q \in DnsHost : hostName'[r] # NoName /\ hostName'[r] = hostName'[q] => r = q
    BY <1>b, <2>1 DEF DnsPhases
  <2>3. pushes => name \in HostName
    OBVIOUS
  <2>4. drops => old \in HostName /\ <<old, oldIp>> \in ARecord
    BY <1>a DEF ARecord
  <2> HIDE DEF SaveHostDns, drops, pushes
  <2> QED BY <1>c, <2>1, <2>2, <2>3, <2>4 DEF DnsPhases
<1>3. RecordsKnown'
  <2> SUFFICES ASSUME NEW h \in Hole, NEW r \in holeA[h], <<h, r[1]>> \notin keptA'
               PROVE  \/ \E q \in DnsHost : hostName'[q] = r[1] /\ hostIp'[q] = r[2]
                      \/ dnPc' = "deleteA" /\ r = dnOld'
    BY <1>b DEF RecordsKnown
  <2>1. r \in ARecord /\ r = <<r[1], r[2]>> /\ r[1] \in HostName /\ r[2] \in Addr
    BY DEF DnsTypeOK, ARecord
  <2>2. <<h, r[1]>> \notin keptA
    BY <1>d
  <2>3. PICK q \in DnsHost : hostName[q] = r[1] /\ hostIp[q] = r[2]
    BY <1>b, <2>2 DEF RecordsKnown
  <2>4. CASE q # s
    BY <1>b, <2>3, <2>4 DEF DnsTypeOK
  <2>5. CASE q = s
    <3>1. h \in With(old) /\ old # NoName
      BY <2>1, <2>3, <2>5 DEF With
    <3>2. ~(oldIp # hostIp[s] \/ (~drops /\ (old # name \/ ip # hostIp[s])))
      BY <1>d, <2>3, <2>5, <3>1
    <3>3. drops => dnPc' = "deleteA" /\ dnOld' = <<r[1], r[2]>>
      BY <1>c, <2>3, <2>5, <3>2
    <3>4. ~drops => hostName'[s] = r[1] /\ hostIp'[s] = r[2]
      BY <1>b, <2>3, <2>5, <3>2 DEF DnsTypeOK
    <3> QED BY <2>1, <3>3, <3>4
  <2> QED BY <2>4, <2>5
<1>4. CnamesKnown'
  <2>1. TargetName' # TargetName => s = svcTarget /\ old # name
    BY <1>b DEF DnsTypeOK, TargetName
  <2>2. CASE s = svcTarget /\ old # name
    <3>1. \A h \in Hole \ keptCname' : h \notin keptCname /\ holeCname'[h] = {}
      BY <1>b, <1>e, <2>2 DEF WithCname
    <3> QED BY <1>c, <1>e, <2>2, <3>1, <1>b DEF CnamesKnown
  <2>3. CASE ~(s = svcTarget /\ old # name)
    <3>1. TargetName' = TargetName /\ keptCname' = keptCname /\ dirty' = dirty
      BY <1>e, <2>1, <2>3 DEF DnsTypeOK
    <3>2. dnPc' \notin {"deleteC", "status"}
      BY <1>c
    <3> QED BY <1>b, <3>1, <3>2 DEF CnamesKnown
  <2> QED BY <2>2, <2>3
<1> QED BY <1>1, <1>2, <1>3, <1>4

LEMMA SyncHostAKeeps ==
  ASSUME DnsInv, NEW s \in DnsHost, SyncHostA(s)
  PROVE  DnsInv'
<1> USE DnsAssumption DEF DnsInv, SyncHostA,
      TargetName, svcRow
<1>1. DnsTypeOK'
  <2>1. manageA' \in [DnsHost -> BOOLEAN]
    BY Zenon DEF DnsTypeOK
  <2>2. dnNew' \in ARecord
    BY DEF DnsTypeOK, ARecord
  <2> QED BY <2>1, <2>2 DEF DnsTypeOK
<1>2. DnsPhases'
  BY DEF DnsTypeOK, DnsPhases
<1>3. RecordsKnown'
  BY DEF DnsTypeOK, DnsPhases, RecordsKnown
<1>4. CnamesKnown'
  BY DEF DnsTypeOK, DnsPhases, CnamesKnown
<1> QED BY <1>1, <1>2, <1>3, <1>4

LEMMA UpsertServiceKeeps ==
  ASSUME DnsInv, NEW t \in DnsHost, NEW managed \in BOOLEAN, NEW push \in BOOLEAN, UpsertService(t, managed, push)
  PROVE  DnsInv'
<1> USE DnsAssumption DEF DnsInv, UpsertService,
      TargetName, WithCname, FirstSvcStep, NoRecord, hostRow
<1>1. DnsTypeOK'
  BY DEF DnsTypeOK
<1>2. DnsPhases'
  BY DEF DnsTypeOK, DnsPhases
<1>3. RecordsKnown'
  BY DEF DnsTypeOK, DnsPhases, RecordsKnown
<1>4. CnamesKnown'
  <2>1. TargetName' = hostName[t] /\ hostName[t] \in HostName
    BY DEF DnsTypeOK
  <2>2. CASE push /\ managed
    <3>1. TargetName # NoName /\ TargetName # hostName[t] => dnPc' = "deleteC" /\ dnOld'[1] = TargetName
      BY <2>2
    <3>2. \A h \in Hole \ keptCname : holeCname[h] \subseteq {TargetName} /\ holeCname[h] \subseteq HostName
      BY DEF DnsTypeOK, CnamesKnown
    <3>3. CASE TargetName # NoName /\ TargetName # hostName[t]
      BY <2>2, <3>1, <3>2, <3>3 DEF CnamesKnown
    <3>4. CASE ~(TargetName # NoName /\ TargetName # hostName[t])
      <4>1. \A h \in Hole \ keptCname : holeCname[h] \subseteq {hostName[t]}
        BY <3>2, <3>4
      <4>2. dnPc' = "addC" /\ keptCname' = keptCname /\ dirty'
        BY <2>2, <3>4
      <4> QED BY <2>1, <4>1, <4>2 DEF CnamesKnown
    <3> QED BY <3>3, <3>4
  <2>3. CASE ~(push /\ managed)
    BY <2>1, <2>3 DEF DnsTypeOK, CnamesKnown
  <2> QED BY <2>2, <2>3
<1> QED BY <1>1, <1>2, <1>3, <1>4

LEMMA DeleteServiceKeeps ==
  ASSUME DnsInv, NEW remove \in BOOLEAN, DeleteService(remove)
  PROVE  DnsInv'
<1> USE DnsAssumption DEF DnsInv, DeleteService,
      TargetName, WithCname, hostRow
<1>1. DnsTypeOK'
  BY DEF DnsTypeOK
<1>2. DnsPhases'
  BY DEF DnsTypeOK, DnsPhases
<1>3. RecordsKnown'
  BY DEF DnsTypeOK, DnsPhases, RecordsKnown
<1>4. CnamesKnown'
  BY DEF DnsTypeOK, DnsPhases, CnamesKnown
<1> QED BY <1>1, <1>2, <1>3, <1>4

LEMMA DeleteAKeeps ==
  ASSUME DnsInv, NEW up \in SUBSET Hole, DeleteA(up)
  PROVE  DnsInv'
<1> USE DnsAssumption DEF DnsInv, DeleteA,
      Reaches, TargetName, DnsIdle, NoRecord, hostRow, svcRow, dnOp
<1>0. dnOld \in ARecord /\ dnOld[1] \in HostName
  BY DEF DnsPhases, ARecord
<1>1. DnsTypeOK'
  <2>1. holeA' \in [Hole -> SUBSET ARecord] /\ keptA' \subseteq Hole \X HostName
    BY <1>0 DEF DnsTypeOK
  <2> QED BY <2>1 DEF DnsTypeOK
<1>2. DnsPhases'
  BY <1>0 DEF DnsTypeOK, DnsPhases
<1>3. RecordsKnown'
  BY <1>0 DEF DnsTypeOK, DnsPhases, RecordsKnown
<1>4. CnamesKnown'
  BY <1>0 DEF DnsTypeOK, DnsPhases, CnamesKnown
<1> QED BY <1>1, <1>2, <1>3, <1>4

LEMMA AddAKeeps ==
  ASSUME DnsInv, NEW up \in SUBSET Hole, AddA(up)
  PROVE  DnsInv'
<1> USE DnsAssumption DEF DnsInv, AddA,
      Reaches, TargetName, DnsIdle, NoRecord, hostRow, svcRow
<1>0. PICK s \in DnsHost : hostName[s] \in HostName /\ dnNew = <<hostName[s], hostIp[s]>>
  BY DEF DnsPhases
<1>a. dnNew \in ARecord /\ dnNew[1] = hostName[s] /\ dnNew[2] = hostIp[s]
  BY <1>0 DEF DnsTypeOK
<1>1. DnsTypeOK'
  <2>1. holeA' \in [Hole -> SUBSET ARecord]
    BY <1>a DEF DnsTypeOK
  <2> QED BY <2>1 DEF DnsTypeOK
<1>2. DnsPhases'
  BY DEF DnsTypeOK, DnsPhases
<1>3. RecordsKnown'
  BY <1>0, <1>a DEF DnsTypeOK, RecordsKnown
<1>4. CnamesKnown'
  BY DEF DnsTypeOK, DnsPhases, CnamesKnown
<1> QED BY <1>1, <1>2, <1>3, <1>4

LEMMA DeleteCnameKeeps ==
  ASSUME DnsInv, NEW up \in SUBSET Hole, DeleteCname(up)
  PROVE  DnsInv'
<1> USE DnsAssumption DEF DnsInv, DeleteCname,
      Reaches, TargetName, DnsIdle, NoRecord, hostRow, svcRow, dnOp
<1>1. DnsTypeOK'
  BY DEF DnsTypeOK
<1>2. DnsPhases'
  BY DEF DnsTypeOK, DnsPhases
<1>3. RecordsKnown'
  BY DEF DnsTypeOK, DnsPhases, RecordsKnown
<1>4. CnamesKnown'
  BY DEF DnsTypeOK, DnsPhases, CnamesKnown
<1> QED BY <1>1, <1>2, <1>3, <1>4

LEMMA AddCnameKeeps ==
  ASSUME DnsInv, NEW up \in SUBSET Hole, AddCname(up)
  PROVE  DnsInv'
<1> USE DnsAssumption DEF DnsInv, AddCname,
      Reaches, TargetName, hostRow, svcRow
<1>0. dnNew = <<TargetName>> /\ TargetName \in HostName /\ dnNew[1] = TargetName
  BY DEF DnsPhases
<1> HIDE DEF TargetName
<1>1. DnsTypeOK'
  <2>1. holeCname' \in [Hole -> SUBSET HostName]
    BY <1>0 DEF DnsTypeOK
  <2> QED BY <2>1 DEF DnsTypeOK
<1>2. DnsPhases'
  BY DEF DnsPhases, TargetName
<1>3. RecordsKnown'
  BY <1>0 DEF DnsTypeOK, DnsPhases, RecordsKnown
<1>4. CnamesKnown'
  BY <1>0 DEF DnsTypeOK, CnamesKnown, TargetName
<1> QED BY <1>1, <1>2, <1>3, <1>4

LEMMA SyncServiceKeeps ==
  ASSUME DnsInv, SyncService
  PROVE  DnsInv'
<1> USE DnsAssumption DEF DnsInv, SyncService,
      TargetName, hostRow, svcRow
<1>1. DnsTypeOK'
  BY DEF DnsTypeOK
<1>2. DnsPhases'
  BY DEF DnsTypeOK, DnsPhases
<1>3. RecordsKnown'
  BY DEF DnsTypeOK, DnsPhases, RecordsKnown
<1>4. CnamesKnown'
  BY DEF DnsTypeOK, DnsPhases, CnamesKnown
<1> QED BY <1>1, <1>2, <1>3, <1>4

LEMMA SaveSvcStatusKeeps ==
  ASSUME DnsInv, SaveSvcStatus
  PROVE  DnsInv'
<1> USE DnsAssumption DEF DnsInv, SaveSvcStatus,
      TargetName, DnsIdle, NoRecord, hostRow
<1>1. DnsTypeOK'
  BY DEF DnsTypeOK
<1>2. DnsPhases'
  BY DEF DnsTypeOK, DnsPhases
<1>3. RecordsKnown'
  BY DEF DnsTypeOK, DnsPhases, RecordsKnown
<1>4. CnamesKnown'
  BY DEF DnsTypeOK, DnsPhases, CnamesKnown
<1> QED BY <1>1, <1>2, <1>3, <1>4

LEMMA DnsProcessDiesKeeps ==
  ASSUME DnsInv, DnsProcessDies
  PROVE  DnsInv'
<1> USE DnsAssumption DEF DnsInv, DnsProcessDies,
      TargetName, With, WithCname, DnsIdle, NoRecord, hostRow, svcRow
<1>0. dnPc = "deleteA" => dnOld \in ARecord /\ dnOld[1] \in HostName /\ dnOld[2] \in Addr
  BY DEF DnsPhases, ARecord
<1>1. DnsTypeOK'
  <2>1. keptA' \subseteq Hole \X HostName
    BY <1>0 DEF DnsTypeOK
  <2> QED BY <2>1 DEF DnsTypeOK
<1>2. DnsPhases'
  BY DEF DnsTypeOK, DnsPhases
<1>3. RecordsKnown'
  <2>1. /\ UNCHANGED <<hostName, hostIp, holeA>> /\ dnPc' = "idle"
        /\ keptA \subseteq keptA'
        /\ dnPc = "deleteA" => keptA' = keptA \union (With(dnOld[1]) \X {dnOld[1]})
    OBVIOUS
  <2> HIDE DEF DnsProcessDies, With
  <2> SUFFICES ASSUME NEW h \in Hole, NEW r \in holeA[h], <<h, r[1]>> \notin keptA'
               PROVE  \E s \in DnsHost : hostName[s] = r[1] /\ hostIp[s] = r[2]
    BY <2>1 DEF RecordsKnown
  <2>2. r \in ARecord /\ <<h, r[1]>> \notin keptA
    BY <2>1 DEF DnsTypeOK
  <2>3. h \in With(r[1])
    BY <2>2 DEF With, ARecord
  <2>4. ~(dnPc = "deleteA" /\ r = dnOld)
    BY <2>1, <2>3
  <2> QED BY <2>2, <2>4 DEF RecordsKnown
<1>4. CnamesKnown'
  BY DEF DnsTypeOK, DnsPhases, CnamesKnown
<1> QED BY <1>1, <1>2, <1>3, <1>4

LEMMA DnsInvStep == DnsInv /\ [DnsNext]_dnsVars => DnsInv'
<1> SUFFICES ASSUME DnsInv, [DnsNext]_dnsVars PROVE DnsInv'
  OBVIOUS
<1>1. ASSUME NEW s \in DnsHost, NEW name \in HostName \union {NoName},
             NEW edit \in BOOLEAN, NEW manage \in BOOLEAN, NEW force \in BOOLEAN,
             NEW ip \in HostAddrs[s], SaveHostDns(s, name, ip, edit, manage, force)
      PROVE  DnsInv'
  BY <1>1, SaveHostDnsKeeps
<1>2. ASSUME NEW s \in DnsHost, SyncHostA(s) PROVE DnsInv'
  BY <1>2, SyncHostAKeeps
<1>3. ASSUME NEW t \in DnsHost, NEW managed \in BOOLEAN, NEW push \in BOOLEAN,
             UpsertService(t, managed, push)
      PROVE  DnsInv'
  BY <1>3, UpsertServiceKeeps
<1>4. ASSUME NEW remove \in BOOLEAN, DeleteService(remove) PROVE DnsInv'
  BY <1>4, DeleteServiceKeeps
<1>5. ASSUME NEW up \in SUBSET Hole, DeleteA(up) \/ AddA(up) \/ DeleteCname(up) \/ AddCname(up)
      PROVE  DnsInv'
  BY <1>5, DeleteAKeeps, AddAKeeps, DeleteCnameKeeps, AddCnameKeeps
<1>6. CASE UNCHANGED dnsVars
  BY <1>6 DEF dnsVars, hostRow, svcRow, dnOp, DnsInv, DnsTypeOK, DnsPhases, RecordsKnown,
     CnamesKnown, TargetName
<1> QED
  BY <1>1, <1>2, <1>3, <1>4, <1>5, <1>6, SyncServiceKeeps, SaveSvcStatusKeeps, DnsProcessDiesKeeps
  DEF DnsNext

\* The variables of the DNS records stay in their sets.
THEOREM DnsTypes == DnsSpec => []DnsTypeOK
BY DnsInit0, DnsInvStep, PTL DEF DnsSpec, DnsInv

\* With no handler at work, the Pi-holes serve what the rows say, but for rows changed since
\* and records that no row accounts for (update_server_dns, upsert_service_record,
\* fanout_pihole_dns).
THEOREM PiHolesServeRows == DnsSpec => []DnsServesRows
<1>1. DnsInv => DnsServesRows
  BY DEF DnsInv, DnsTypeOK, ARecord, DnsPhases, RecordsKnown, CnamesKnown, DnsServesRows
<1> QED BY <1>1, DnsInit0, DnsInvStep, PTL DEF DnsSpec
==============================================================================
