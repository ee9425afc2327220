------------------------------- MODULE KumaAlerts -------------------------------
(***************************************************************************)
(* Down alerts of one Uptime Kuma monitor bound to a host or a service     *)
(* (services/integrations/poll.py, services/notifications.py).  A poll     *)
(* fetches all metrics, reads the bindings, and for each commits its new   *)
(* state together with the notice its transition calls for.  The scheduler *)
(* polls; a user may poll, and the Test button and a Move poll quietly.  A *)
(* key in Redis keeps polls of two processes apart while Redis answers and *)
(* the key lives, a lock those of one process.                             *)
(*                                                                         *)
(* "other" stands for every state but up and down: pending, maintenance,   *)
(* and unknown, which a poll that cannot reach Kuma writes.                *)
(***************************************************************************)
EXTENDS Naturals, FiniteSets

CONSTANTS
  Poller,        \* threads that poll
  PollProcess,   \* the process each runs in
  MayNotify,     \* the notify argument each may pass
  MaxKumaFaults, \* bound: polls without the Redis key, or past its TTL
  NoPoller

ASSUME KumaAssumption ==
  /\ NoPoller \notin Poller
  /\ MayNotify \in [Poller -> SUBSET BOOLEAN]
  /\ MaxKumaFaults \in Nat

MonState == {"up", "down", "other"}

VARIABLES
  bound,     \* the binding exists
  bindState, \* its last_state
  downAlert, \* its kuma_down notice is open
  muted,     \* the type's alert policy is off
  kmKey,     \* who holds the Redis key
  kmPc, kmNotify,
  kmSeen,    \* what a poll fetched
  kmPrev,    \* the last_state it read
  kmFaults,
  astray     \* history: state and alert were last set by something other than a poll that notifies

pollVars == <<kmPc, kmNotify, kmSeen, kmPrev>>
kumaVars == <<bound, bindState, downAlert, muted, kmKey, pollVars, kmFaults, astray>>

KumaTypeOK ==
  /\ bound \in BOOLEAN
  /\ bindState \in MonState
  /\ downAlert \in BOOLEAN
  /\ muted \in BOOLEAN
  /\ kmKey \in Poller \union {NoPoller}
  /\ kmPc \in [Poller -> {"idle", "fetch", "load", "write", "unlock"}]
  /\ kmNotify \in [Poller -> BOOLEAN]
  /\ kmSeen \in [Poller -> MonState]
  /\ kmPrev \in [Poller -> MonState]
  /\ kmFaults \in 0 .. MaxKumaFaults
  /\ astray \in BOOLEAN

KumaInit ==
  /\ bound = FALSE
  /\ bindState = "other"
  /\ downAlert = FALSE
  /\ muted = FALSE
  /\ kmKey = NoPoller
  /\ kmPc = [p \in Poller |-> "idle"]
  /\ kmNotify = [p \in Poller |-> FALSE]
  /\ kmSeen = [p \in Poller |-> "other"]
  /\ kmPrev = [p \in Poller |-> "other"]
  /\ kmFaults = 0
  /\ astray = FALSE
------------------------------------------------------------------------------
KumaFault == kmFaults < MaxKumaFaults /\ kmFaults' = kmFaults + 1

KumaGoto(p, label) == kmPc' = [kmPc EXCEPT ![p] = label]

\* poll_integration: the Redis key, then the process's lock; a poll that finds either
\* taken is skipped.  When Redis does not answer there is no key.
PollStarts(p, notify) ==
  /\ kmPc[p] = "idle"
  /\ \A q \in Poller : kmPc[q] # "idle" => PollProcess[q] # PollProcess[p]
  /\ \/ kmKey = NoPoller /\ kmKey' = p /\ UNCHANGED kmFaults
     \/ KumaFault /\ UNCHANGED kmKey
  /\ KumaGoto(p, "fetch")
  /\ kmNotify' = [kmNotify EXCEPT ![p] = notify]
  /\ UNCHANGED <<bound, bindState, downAlert, muted, kmSeen, kmPrev, astray>>

\* The metrics: whatever the monitor's status is by now, or nothing when Kuma
\* cannot be reached or does not list it.
FetchMetrics(p) ==
  /\ kmPc[p] = "fetch"
  /\ \E s \in MonState : kmSeen' = [kmSeen EXCEPT ![p] = s]
  /\ KumaGoto(p, "load")
  /\ UNCHANGED <<bound, bindState, downAlert, muted, kmKey, kmNotify, kmPrev, kmFaults,
                 astray>>

\* The bindings are read.
LoadBinding(p) ==
  /\ kmPc[p] = "load"
  /\ kmPrev' = [kmPrev EXCEPT ![p] = bindState]
  /\ KumaGoto(p, IF bound THEN "write" ELSE "unlock")
  /\ UNCHANGED <<bound, bindState, downAlert, muted, kmKey, kmNotify, kmSeen, kmFaults,
                 astray>>

\* upsert_notification: a muted type closes the notice; one that was closed within
\* the debounce window, at any time here, is not opened again.
OpenNotice ==
  downAlert' \in IF muted THEN {FALSE} ELSE {TRUE, downAlert}

\* Mutant: only a monitor that is up again closes its notice.
TransitionToUp(prev, new) ==
  \/ new = "down" /\ prev # "down" /\ OpenNotice
  \/ new = "up" /\ prev = "down" /\ downAlert' = FALSE
  \/ /\ ~(new = "down" /\ prev # "down")
     /\ ~(new = "up" /\ prev = "down")
     /\ UNCHANGED downAlert

\* _notify_transition: going down opens the notice, any other state closes it.
NotifyTransition(prev, new) ==
  \/ new = "down" /\ prev # "down" /\ OpenNotice
  \/ new # "down" /\ prev = "down" /\ downAlert' = FALSE
  \/ (new = "down") = (prev = "down") /\ UNCHANGED downAlert

\* What becomes of astray when a poll takes the binding from prev to new.
Strays(p, prev, new) ==
  IF ~kmNotify[p] \/ bindState # prev THEN astray \/ (new = "down") # (bindState = "down") \/ kmNotify[p]
  ELSE IF (new = "down") = (prev = "down") THEN astray
  ELSE new = "down" /\ ~downAlert'

\* The binding's new state and the notice are committed together, from the state
\* that was read; a quiet poll leaves notices alone; a binding deleted meanwhile
\* fails the poll.
WriteBinding(p) ==
  /\ kmPc[p] = "write"
  /\ KumaGoto(p, "unlock")
  /\ \/ /\ bound
        /\ bindState' = kmSeen[p]
        /\ \/ kmNotify[p] /\ NotifyTransition(kmPrev[p], kmSeen[p])
           \/ ~kmNotify[p] /\ UNCHANGED downAlert
        /\ astray' = Strays(p, kmPrev[p], kmSeen[p])
     \/ ~bound /\ UNCHANGED <<bindState, downAlert, astray>>
  /\ UNCHANGED <<bound, muted, kmKey, kmNotify, kmSeen, kmPrev, kmFaults>>

\* The process's lock is released, and the Redis key if it is still this poll's.
PollEnds(p) ==
  /\ kmPc[p] = "unlock"
  /\ kmPc' = [kmPc EXCEPT ![p] = "idle"]
  /\ kmNotify' = [kmNotify EXCEPT ![p] = FALSE]
  /\ kmSeen' = [kmSeen EXCEPT ![p] = "other"]
  /\ kmPrev' = [kmPrev EXCEPT ![p] = "other"]
  /\ kmKey' = IF kmKey = p THEN NoPoller ELSE kmKey
  /\ UNCHANGED <<bound, bindState, downAlert, muted, kmFaults, astray>>

\* The key's 45 seconds pass during a poll.
KeyExpires ==
  /\ KumaFault
  /\ kmKey # NoPoller
  /\ kmKey' = NoPoller
  /\ UNCHANGED <<bound, bindState, downAlert, muted, pollVars, astray>>
------------------------------------------------------------------------------
\* set_binding: the form's state, from the last metrics, is written without a notice.
SetBinding(s) ==
  /\ bound' = TRUE
  /\ bindState' = s
  /\ astray' = (downAlert # (s = "down"))
  /\ UNCHANGED <<downAlert, muted, kmKey, pollVars, kmFaults>>

\* clear_binding: the notice stays.
ClearBinding ==
  /\ bound
  /\ bound' = FALSE
  /\ bindState' = "other"
  /\ astray' = downAlert
  /\ UNCHANGED <<downAlert, muted, kmKey, pollVars, kmFaults>>

Dismiss ==
  /\ downAlert
  /\ downAlert' = FALSE
  /\ astray' = TRUE
  /\ UNCHANGED <<bound, bindState, muted, kmKey, pollVars, kmFaults>>

\* The policy is switched; what is open stays open.
Mute ==
  /\ muted' = ~muted
  /\ UNCHANGED <<bound, bindState, downAlert, kmKey, pollVars, kmFaults, astray>>

KumaNext ==
  \/ \E p \in Poller : \E notify \in MayNotify[p] : PollStarts(p, notify)
  \/ \E p \in Poller : FetchMetrics(p) \/ LoadBinding(p) \/ WriteBinding(p) \/ PollEnds(p)
  \/ \E s \in MonState : SetBinding(s)
  \/ KeyExpires \/ ClearBinding \/ Dismiss \/ Mute

KumaSpec == KumaInit /\ [][KumaNext]_kumaVars
------------------------------------------------------------------------------
\* "When that monitor goes down, Alerts opens host_down": the notice is open exactly
\* while the binding is down, through up, pending, unknown and unreachable, unless
\* the last to touch either was not a poll that notifies: a quiet poll that saw
\* the transition, a dismissal, a muted or debounced notice, an edit of the binding,
\* or a write from a state that was no longer the binding's.
AlertMatchesBinding ==
  ~astray => (downAlert <=> (bound /\ bindState = "down"))
==============================================================================
