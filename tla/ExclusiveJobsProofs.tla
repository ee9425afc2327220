--------------------------- MODULE ExclusiveJobsProofs ---------------------------
(***************************************************************************)
(* Exclusive jobs for any number of rows, workers and hosts, any job types *)
(* and any number of faults.                                               *)
(*                                                                         *)
(* Two arguments carry the rest.  A row that is settled while a worker may *)
(* be at work on it is abandoned; so a worker that starts, or goes on, has *)
(* an active row or an abandoned one.  And while no message came back      *)
(* beside its own retry, one message of a row is out, in the queue or with *)
(* a worker that is not only waiting to acknowledge it.                    *)
(***************************************************************************)
EXTENDS ExclusiveJobs, TLAPS

\* What a row looks like before its message is out.
RowBefore ==
  \A j \in Job :
    /\ req[j] \in {"new", "checked"} => status[j] = "none"
    /\ req[j] \in {"new", "checked", "inserted", "audited"} =>
         /\ queue[j] = 0 /\ ~doubled[j] /\ status[j] \notin {"running", "success"}
         /\ \A w \in Worker : task[w] # j
    /\ req[j] \in {"inserted", "audited", "published"} => status[j] # "none"
    /\ queue[j] > 0 => status[j] # "none"
    /\ cancelling[j] => status[j] # "none"

\* What a worker has in hand.
InHand ==
  \A w \in Worker :
    /\ pc[w] = "idle" <=> task[w] = NoJob
    /\ task[w] \in Job => status[task[w]] # "none"
    /\ pc[w] = "finish" => result[w] \in {"success", "failed"}
    /\ pc[w] \in {"probe", "wait"} => type[task[w]] # "host_bootstrap"

\* One message of a row is out, and none of host_bootstrap comes back.
OneMessage ==
  \A j \in Job :
    /\ type[j] = "host_bootstrap" => ~doubled[j]
    /\ ~doubled[j] =>
         /\ queue[j] <= 1
         /\ queue[j] > 0 => \A w \in Worker : task[w] = j => pc[w] = "ack"
         /\ \A v, w \in Worker : v # w /\ task[v] = j /\ task[w] = j => pc[v] = "ack" \/ pc[w] = "ack"

\* Once the work has started nobody is on the way to start it, and no reader of the
\* row will be.
StartedOnce ==
  \A j \in Job : ~doubled[j] =>
    /\ starts[j] <= 1
    /\ starts[j] > 0 =>
         /\ status[j] \notin {"none", "pending"}
         /\ \A w \in Worker : task[w] = j => pc[w] \notin {"lane", "probe", "wait", "start"}

\* A success is written with its audit row, and nobody is left to write either again.
SuccessLeft ==
  \A j \in Job : status[j] = "success" /\ ~doubled[j] =>
    /\ audit[j] = "success"
    /\ \A w \in Worker : task[w] = j => pc[w] = "ack"

\* Whoever may be at work has an active row or an abandoned one.
WorksOnActive ==
  \A w \in Worker : pc[w] \in {"lane", "probe", "start", "work"} =>
    Active(task[w]) \/ abandoned[task[w]]

\* A request that has looked, or written, meets no active lane mate it does not know of.
LaneLooked ==
  \A i, j \in Job :
    LaneMates(i, j) /\ Active(i) /\ (req[j] = "checked" \/ Active(j)) =>
      {i, j} \in raced \/ abandoned[i] \/ abandoned[j]

\* BootstrapAlone from the moment the lane was found free.
BootLooked ==
  \A v, w \in Worker :
    LET i == task[v]  j == task[w] IN
      /\ v # w /\ pc[v] \in {"start", "work"} /\ pc[w] \in {"start", "work"}
      /\ type[i] = "host_bootstrap" /\ type[j] = "host_bootstrap" /\ host[i] = host[j]
      => abandoned[i] \/ abandoned[j]

IInv ==
  /\ TypeOK /\ RowBefore /\ InHand /\ OneMessage /\ StartedOnce /\ SuccessLeft
  /\ WorksOnActive /\ LaneLooked /\ BootLooked
------------------------------------------------------------------------------
LEMMA BlocksBothWays == \A t, u : Blocks(t, u) <=> Blocks(u, t)
BY DEF Blocks

LEMMA MatesBothWays == \A i, j \in Job : LaneMates(i, j) <=> LaneMates(j, i)
BY BlocksBothWays DEF LaneMates

LEMMA CheckStep ==
  ASSUME IInv, NEW j \in Job, NEW t \in JobType, NEW h \in Host, Check(j, t, h)
  PROVE  IInv'
<1> USE NoJobAssumption, LimitAssumption, TypeAssumption
    DEF IInv, TypeOK, RowBefore, InHand, Active, Settled, Terminal, Phase, Check,
        reqVars, rowVars, workVars, cancelVars, history
<1>1. TypeOK'
  BY DEF TypeOK
<1>2. RowBefore' /\ InHand'
  BY DEF RowBefore, InHand
<1>3. OneMessage'
  BY DEF OneMessage
<1>4. StartedOnce' /\ SuccessLeft'
  BY DEF OneMessage, StartedOnce, SuccessLeft
<1>5. WorksOnActive'
  BY DEF WorksOnActive
<1>6. LaneLooked'
  <2> SUFFICES ASSUME NEW a \in Job, NEW b \in Job, LaneMates(a, b)', Active(a)', req'[b] = "checked" \/ Active(b)'
               PROVE  {a, b} \in raced \/ abandoned[a] \/ abandoned[b]
    BY DEF LaneLooked
  <2>1. a # j /\ Active(a) /\ (b # j => LaneMates(a, b))
    BY DEF LaneMates
  <2>2. CASE b = j
    <3>1. host[a] = h /\ Blocks(type[a], t)
      BY <2>1, <2>2 DEF LaneMates
    <3> QED BY <2>1, <3>1, BlocksBothWays
  <2>3. CASE b # j
    BY <2>1, <2>3 DEF LaneLooked
  <2> QED BY <2>2, <2>3
<1>7. BootLooked'
  BY DEF BootLooked, OneMessage, WorksOnActive
<1> QED BY <1>1, <1>2, <1>3, <1>4, <1>5, <1>6, <1>7

LEMMA InsertStep ==
  ASSUME IInv, NEW j \in Job, Insert(j)
  PROVE  IInv'
<1> USE NoJobAssumption, LimitAssumption, TypeAssumption
    DEF IInv, TypeOK, RowBefore, InHand, Active, Settled, Terminal, Phase, Insert,
        reqVars, rowVars, workVars, cancelVars, history
<1>1. TypeOK'
  BY DEF TypeOK
<1>2. RowBefore' /\ InHand'
  BY DEF RowBefore, InHand
<1>3. OneMessage'
  BY DEF OneMessage
<1>4. StartedOnce' /\ SuccessLeft'
  BY DEF OneMessage, StartedOnce, SuccessLeft
<1>5. WorksOnActive'
  BY DEF WorksOnActive
<1>6. LaneLooked'
  <2> SUFFICES ASSUME NEW a \in Job, NEW b \in Job, LaneMates(a, b)', Active(a)', req'[b] = "checked" \/ Active(b)'
               PROVE  {a, b} \in raced' \/ abandoned[a] \/ abandoned[b]
    BY DEF LaneLooked
  <2>1. LaneMates(a, b) /\ LaneMates(b, a) /\ a # b
    BY MatesBothWays DEF LaneMates
  <2>2. CASE a = j /\ req[b] = "checked"
    BY <2>1, <2>2
  <2>3. CASE a = j /\ req[b] # "checked"
    <3>1. Active(b)
      BY <2>1, <2>3
    <3>2. {b, a} \in raced \/ abandoned[b] \/ abandoned[a]
      BY <2>1, <2>3, <3>1 DEF LaneLooked
    <3>3. {b, a} = {a, b}
      OBVIOUS
    <3> QED BY <3>2, <3>3
  <2>4. CASE a # j
    BY <2>1, <2>4 DEF LaneLooked
  <2> QED BY <2>2, <2>3, <2>4
<1>7. BootLooked'
  BY DEF BootLooked, OneMessage, WorksOnActive
<1> QED BY <1>1, <1>2, <1>3, <1>4, <1>5, <1>6, <1>7

LEMMA AuditStep ==
  ASSUME IInv, NEW j \in Job, OpenAudit(j)
  PROVE  IInv'
<1> USE NoJobAssumption, LimitAssumption, TypeAssumption
    DEF IInv, TypeOK, RowBefore, InHand, Active, Settled, Terminal, Phase, OpenAudit,
        reqVars, rowVars, workVars, cancelVars, history
<1>1. TypeOK'
  BY DEF TypeOK
<1>2. RowBefore' /\ InHand'
  BY DEF RowBefore, InHand
<1>3. OneMessage'
  BY DEF OneMessage
<1>4. StartedOnce' /\ SuccessLeft'
  BY DEF OneMessage, StartedOnce, SuccessLeft
<1>5. WorksOnActive'
  BY DEF WorksOnActive
<1>6. LaneLooked'
  BY DEF LaneLooked, LaneMates
<1>7. BootLooked'
  BY DEF BootLooked, OneMessage, WorksOnActive
<1> QED BY <1>1, <1>2, <1>3, <1>4, <1>5, <1>6, <1>7

LEMMA PublishStep ==
  ASSUME IInv, NEW j \in Job, Publish(j) \/ StoreTaskId(j) \/ RequesterDies(j)
  PROVE  IInv'
<1>0. taskId' \in [Job -> BOOLEAN]
  BY Zenon DEF IInv, TypeOK, Publish, StoreTaskId, RequesterDies, rowVars
<1> USE NoJobAssumption, LimitAssumption, TypeAssumption
    DEF IInv, TypeOK, RowBefore, InHand, Active, Settled, Terminal, Phase, Publish, StoreTaskId, RequesterDies,
        reqVars, rowVars, workVars, cancelVars, history
<1>1. TypeOK'
  BY <1>0 DEF TypeOK
<1>2. RowBefore' /\ InHand'
  BY <1>0 DEF RowBefore, InHand
<1>3. OneMessage'
  BY <1>0 DEF OneMessage
<1>4. StartedOnce' /\ SuccessLeft'
  BY <1>0 DEF OneMessage, StartedOnce, SuccessLeft
<1>5. WorksOnActive'
  BY <1>0 DEF WorksOnActive
<1>6. LaneLooked'
  BY <1>0 DEF LaneLooked, LaneMates
<1>7. BootLooked'
  BY <1>0 DEF BootLooked, OneMessage, WorksOnActive
<1> QED BY <1>1, <1>2, <1>3, <1>4, <1>5, <1>6, <1>7

LEMMA TakeStep ==
  ASSUME IInv, NEW w \in Worker, NEW j \in Job, Take(w, j)
  PROVE  IInv'
<1> USE NoJobAssumption, LimitAssumption, TypeAssumption
    DEF IInv, TypeOK, RowBefore, InHand, Active, Settled, Terminal, Phase, Take, AfterRead,
        reqVars, rowVars, workVars, cancelVars, history
<1>1. TypeOK'
  BY DEF TypeOK
<1>2. RowBefore' /\ InHand'
  BY DEF RowBefore, InHand
<1>3. OneMessage'
  BY DEF OneMessage
<1>4. StartedOnce' /\ SuccessLeft'
  BY DEF OneMessage, StartedOnce, SuccessLeft
<1>5. WorksOnActive'
  BY DEF WorksOnActive
<1>6. LaneLooked'
  BY DEF LaneLooked, LaneMates
<1>7. BootLooked'
  BY DEF BootLooked, OneMessage, WorksOnActive
<1> QED BY <1>1, <1>2, <1>3, <1>4, <1>5, <1>6, <1>7

LEMMA LaneStep ==
  ASSUME IInv, NEW w \in Worker, CheckLane(w)
  PROVE  IInv'
<1> USE NoJobAssumption, LimitAssumption, TypeAssumption
    DEF IInv, TypeOK, RowBefore, InHand, Active, Settled, Terminal, Phase, CheckLane, Goto, OtherActive,
        reqVars, rowVars, workVars, cancelVars, history
<1>1. TypeOK'
  BY DEF TypeOK
<1>2. RowBefore' /\ InHand'
  BY DEF RowBefore, InHand
<1>3. OneMessage'
  BY DEF OneMessage
<1>4. StartedOnce' /\ SuccessLeft'
  BY DEF OneMessage, StartedOnce, SuccessLeft
<1>5. WorksOnActive'
  BY DEF WorksOnActive
<1>6. LaneLooked'
  BY DEF LaneLooked, LaneMates
<1>7. BootLooked'
  BY DEF BootLooked, OneMessage, WorksOnActive
<1> QED BY <1>1, <1>2, <1>3, <1>4, <1>5, <1>6, <1>7

LEMMA MoveStep ==
  ASSUME IInv, NEW w \in Worker, Probe(w) \/ WaitEnds(w) \/ Unexpected(w)
  PROVE  IInv'
<1> USE NoJobAssumption, LimitAssumption, TypeAssumption
    DEF IInv, TypeOK, RowBefore, InHand, Active, Settled, Terminal, Phase, Probe, WaitEnds, Unexpected, Goto,
        reqVars, rowVars, workVars, cancelVars, history
<1>1. TypeOK'
  BY DEF TypeOK
<1>2. RowBefore' /\ InHand'
  BY DEF RowBefore, InHand
<1>3. OneMessage'
  BY DEF OneMessage
<1>4. StartedOnce' /\ SuccessLeft'
  BY DEF OneMessage, StartedOnce, SuccessLeft
<1>5. WorksOnActive'
  BY DEF WorksOnActive
<1>6. LaneLooked'
  BY DEF LaneLooked, LaneMates
<1>7. BootLooked'
  BY DEF BootLooked, OneMessage, WorksOnActive
<1> QED BY <1>1, <1>2, <1>3, <1>4, <1>5, <1>6, <1>7

LEMMA RetryStep ==
  ASSUME IInv, NEW w \in Worker, Retry(w)
  PROVE  IInv'
<1>0. task[w] \in Job /\ waits'[task[w]] \in 0 .. WaitLimit /\ waits' \in [Job -> 0 .. WaitLimit]
  <2>1. pc[w] = "wait" /\ task[w] \in Job
    BY DEF IInv, TypeOK, InHand, Retry
  <2>2. waits[task[w]] \in 0 .. WaitLimit /\ waits[task[w]] # WaitLimit
    BY <2>1 DEF IInv, TypeOK, Retry, WaitOver
  <2>3. waits' = [waits EXCEPT ![task[w]] = waits[task[w]] + 1]
    BY DEF Retry, Waited
  <2>4. waits \in [Job -> 0 .. WaitLimit]
    BY DEF IInv, TypeOK
  <2>5. waits[task[w]] + 1 \in 0 .. WaitLimit
    BY <2>2, LimitAssumption
  <2> QED BY <2>1, <2>3, <2>4, <2>5
<1> USE NoJobAssumption, LimitAssumption, TypeAssumption
    DEF IInv, TypeOK, RowBefore, InHand, Active, Settled, Terminal, Phase, Retry, WaitOver, Waited,
        reqVars, rowVars, workVars, cancelVars, history
<1>1. TypeOK'
  BY <1>0 DEF TypeOK
<1>2. RowBefore' /\ InHand'
  BY <1>0 DEF RowBefore, InHand
<1>3. OneMessage'
  BY <1>0 DEF OneMessage
<1>4. StartedOnce' /\ SuccessLeft'
  BY <1>0 DEF OneMessage, StartedOnce, SuccessLeft
<1>5. WorksOnActive'
  BY <1>0 DEF WorksOnActive
<1>6. LaneLooked'
  BY <1>0 DEF LaneLooked, LaneMates
<1>7. BootLooked'
  BY <1>0 DEF BootLooked, OneMessage, WorksOnActive
<1> QED BY <1>1, <1>2, <1>3, <1>4, <1>5, <1>6, <1>7

LEMMA StartStep ==
  ASSUME IInv, NEW w \in Worker, Start(w)
  PROVE  IInv'
<1> USE NoJobAssumption, LimitAssumption, TypeAssumption
    DEF IInv, TypeOK, RowBefore, InHand, Active, Settled, Terminal, Phase, Start,
        reqVars, rowVars, workVars, cancelVars, history
<1>1. TypeOK'
  BY DEF TypeOK
<1>2. RowBefore' /\ InHand'
  BY DEF RowBefore, InHand
<1>3. OneMessage'
  BY DEF OneMessage
<1>4. StartedOnce' /\ SuccessLeft'
  BY DEF OneMessage, StartedOnce, SuccessLeft
<1>5. WorksOnActive'
  BY DEF WorksOnActive
<1>6. LaneLooked'
  <2>1. \A k \in Job : Active(k)' => Active(k) \/ abandoned[k]
    BY DEF WorksOnActive
  <2>2. \A a, b \in Job : LaneMates(a, b)' <=> LaneMates(a, b)
    BY DEF LaneMates
  <2> QED BY <2>1, <2>2 DEF LaneLooked
<1>7. BootLooked'
  BY DEF BootLooked, OneMessage, WorksOnActive
<1> QED BY <1>1, <1>2, <1>3, <1>4, <1>5, <1>6, <1>7

LEMMA WorkStep ==
  ASSUME IInv, NEW w \in Worker, Work(w) \/ FailMessage(w)
  PROVE  IInv'
<1> USE NoJobAssumption, LimitAssumption, TypeAssumption
    DEF IInv, TypeOK, RowBefore, InHand, Active, Settled, Terminal, Phase, Work, FailMessage,
        reqVars, rowVars, workVars, cancelVars, history
<1>1. TypeOK'
  BY DEF TypeOK
<1>2. RowBefore' /\ InHand'
  BY DEF RowBefore, InHand
<1>3. OneMessage'
  BY DEF OneMessage
<1>4. StartedOnce' /\ SuccessLeft'
  BY DEF OneMessage, StartedOnce, SuccessLeft
<1>5. WorksOnActive'
  BY DEF WorksOnActive
<1>6. LaneLooked'
  BY DEF LaneLooked, LaneMates
<1>7. BootLooked'
  BY DEF BootLooked, OneMessage, WorksOnActive
<1> QED BY <1>1, <1>2, <1>3, <1>4, <1>5, <1>6, <1>7

LEMMA FinishStep ==
  ASSUME IInv, NEW w \in Worker, Finish(w)
  PROVE  IInv'
<1>0. /\ abandoned' \in [Job -> BOOLEAN]
      /\ \A k \in Job : abandoned[k] => abandoned'[k]
      /\ ~Settled(task[w]) /\ Busy(Worker \ {w}, task[w]) /\ task[w] \in Job => abandoned'[task[w]]
  BY Zenon DEF IInv, TypeOK, Finish
<1> USE NoJobAssumption, LimitAssumption, TypeAssumption
    DEF IInv, TypeOK, RowBefore, InHand, Active, Settled, Terminal, Phase, Finish, FinishedAudit, Busy,
        reqVars, rowVars, workVars, cancelVars, history
<1>1. TypeOK'
  BY <1>0 DEF TypeOK
<1>2. RowBefore' /\ InHand'
  BY <1>0 DEF RowBefore, InHand
<1>3. OneMessage'
  BY <1>0 DEF OneMessage
<1>4. StartedOnce' /\ SuccessLeft'
  BY <1>0 DEF OneMessage, StartedOnce, SuccessLeft
<1>5. WorksOnActive'
  BY <1>0 DEF WorksOnActive
<1>6. LaneLooked'
  BY <1>0 DEF LaneLooked, LaneMates
<1>7. BootLooked'
  BY <1>0 DEF BootLooked, OneMessage, WorksOnActive
<1> QED BY <1>1, <1>2, <1>3, <1>4, <1>5, <1>6, <1>7

LEMMA AckStep ==
  ASSUME IInv, NEW w \in Worker, Ack(w)
  PROVE  IInv'
<1> USE NoJobAssumption, LimitAssumption, TypeAssumption
    DEF IInv, TypeOK, RowBefore, InHand, Active, Settled, Terminal, Phase, Ack, WorkerFree,
        reqVars, rowVars, workVars, cancelVars, history
<1>1. TypeOK'
  BY DEF TypeOK
<1>2. RowBefore' /\ InHand'
  BY DEF RowBefore, InHand
<1>3. OneMessage'
  BY DEF OneMessage
<1>4. StartedOnce' /\ SuccessLeft'
  BY DEF OneMessage, StartedOnce, SuccessLeft
<1>5. WorksOnActive'
  BY DEF WorksOnActive
<1>6. LaneLooked'
  BY DEF LaneLooked, LaneMates
<1>7. BootLooked'
  BY DEF BootLooked, OneMessage, WorksOnActive
<1> QED BY <1>1, <1>2, <1>3, <1>4, <1>5, <1>6, <1>7

LEMMA DeathStep ==
  ASSUME IInv, NEW w \in Worker, WorkerDies(w)
  PROVE  IInv'
<1> DEFINE j == task[w]
<1>0. /\ doubled' \in [Job -> BOOLEAN] /\ j \in Job
      /\ \A k \in Job : doubled[k] => doubled'[k]
      /\ \A k \in Job \ {j} : doubled'[k] = doubled[k]
      /\ \/ UNCHANGED <<queue, doubled>>
         \/ /\ type[j] # "host_bootstrap"
            /\ queue' = [queue EXCEPT ![j] = @ + 1]
            /\ ~doubled'[j] => ~(queue[j] > 0) /\ \A v \in Worker \ {w} : task[v] # j
  <2>1. j \in Job /\ doubled \in [Job -> BOOLEAN]
    BY DEF IInv, TypeOK, InHand, WorkerDies
  <2> HIDE DEF j
  <2>2. CASE UNCHANGED <<queue, doubled>>
    BY <2>1, <2>2
  <2>3. CASE /\ type[j] # "host_bootstrap"
             /\ queue' = [queue EXCEPT ![j] = @ + 1]
             /\ doubled' = [doubled EXCEPT ![j] =
                  @ \/ queue[j] > 0 \/ \E v \in Worker \ {w} : task[v] = j]
    BY <2>1, <2>3, Zenon
  <2> QED BY <2>2, <2>3 DEF WorkerDies, j
<1> USE NoJobAssumption, LimitAssumption, TypeAssumption
    DEF IInv, TypeOK, RowBefore, InHand, Active, Settled, Terminal, Phase, WorkerDies, WorkerFree,
        reqVars, rowVars, workVars, cancelVars, history
<1>1. TypeOK'
  BY <1>0 DEF TypeOK
<1>2. RowBefore' /\ InHand'
  BY <1>0 DEF RowBefore, InHand
<1>3. OneMessage'
  BY <1>0 DEF OneMessage
<1>4. StartedOnce' /\ SuccessLeft'
  BY <1>0 DEF OneMessage, StartedOnce, SuccessLeft
<1>5. WorksOnActive'
  BY <1>0 DEF WorksOnActive
<1>6. LaneLooked'
  BY <1>0 DEF LaneLooked, LaneMates
<1>7. BootLooked'
  BY <1>0 DEF BootLooked, OneMessage, WorksOnActive
<1> QED BY <1>1, <1>2, <1>3, <1>4, <1>5, <1>6, <1>7

LEMMA CancelStep ==
  ASSUME IInv, NEW j \in Job, Cancel(j)
  PROVE  IInv'
<1> USE NoJobAssumption, LimitAssumption, TypeAssumption
    DEF IInv, TypeOK, RowBefore, InHand, Active, Settled, Terminal, Phase, Cancel,
        reqVars, rowVars, workVars, cancelVars, history
<1>1. TypeOK'
  BY DEF TypeOK
<1>2. RowBefore' /\ InHand'
  BY DEF RowBefore, InHand
<1>3. OneMessage'
  BY DEF OneMessage
<1>4. StartedOnce' /\ SuccessLeft'
  BY DEF OneMessage, StartedOnce, SuccessLeft
<1>5. WorksOnActive'
  BY DEF WorksOnActive
<1>6. LaneLooked'
  BY DEF LaneLooked, LaneMates
<1>7. BootLooked'
  BY DEF BootLooked, OneMessage, WorksOnActive
<1> QED BY <1>1, <1>2, <1>3, <1>4, <1>5, <1>6, <1>7

LEMMA SettleStep ==
  ASSUME IInv, NEW j \in Job, CancelCommit(j) \/ StaleSweep(j)
  PROVE  IInv'
<1>0. /\ abandoned' \in [Job -> BOOLEAN] /\ cancelling' \in [Job -> BOOLEAN]
      /\ \A k \in Job : abandoned[k] => abandoned'[k]
      /\ Busy(Worker, j) => abandoned'[j]
  BY Zenon DEF IInv, TypeOK, CancelCommit, StaleSweep, cancelVars
<1> USE NoJobAssumption, LimitAssumption, TypeAssumption
    DEF IInv, TypeOK, RowBefore, InHand, Active, Settled, Terminal, Phase, CancelCommit, StaleSweep, Stale, Busy,
        reqVars, rowVars, workVars, cancelVars, history
<1>1. TypeOK'
  BY <1>0 DEF TypeOK
<1>2. RowBefore' /\ InHand'
  BY <1>0 DEF RowBefore, InHand
<1>3. OneMessage'
  BY <1>0 DEF OneMessage
<1>4. StartedOnce' /\ SuccessLeft'
  BY <1>0 DEF OneMessage, StartedOnce, SuccessLeft
<1>5. WorksOnActive'
  BY <1>0 DEF WorksOnActive
<1>6. LaneLooked'
  BY <1>0 DEF LaneLooked, LaneMates
<1>7. BootLooked'
  BY <1>0 DEF BootLooked, OneMessage, WorksOnActive
<1> QED BY <1>1, <1>2, <1>3, <1>4, <1>5, <1>6, <1>7

LEMMA FailStep ==
  ASSUME IInv, NEW j \in Job, PublishFails(j) \/ ExpireBootstrap(j)
  PROVE  IInv'
<1>0. /\ abandoned' \in [Job -> BOOLEAN]
      /\ \A k \in Job : abandoned[k] => abandoned'[k]
      /\ status'[j] # status[j] /\ Busy(Worker, j) => abandoned'[j]
  <2>1. ASSUME NEW J \in SUBSET Job, FailRows(J)
        PROVE  /\ abandoned' \in [Job -> BOOLEAN]
               /\ \A k \in Job : abandoned[k] => abandoned'[k]
               /\ \A k \in Job : k \notin J => status'[k] = status[k]
               /\ \A k \in Job : k \in J /\ Busy(Worker, k) => abandoned'[k]
    BY <2>1, Zenon DEF IInv, TypeOK, FailRows
  <2>2. CASE PublishFails(j)
    <3>1. (IF Active(j) THEN {j} ELSE {}) \in SUBSET Job
      OBVIOUS
    <3> QED BY <2>1, <2>2, <3>1 DEF PublishFails
  <2>3. CASE ExpireBootstrap(j)
    BY <2>1, <2>3 DEF ExpireBootstrap
  <2> QED BY <2>2, <2>3
<1> USE NoJobAssumption, LimitAssumption, TypeAssumption
    DEF IInv, TypeOK, RowBefore, InHand, Active, Settled, Terminal, Phase, PublishFails, ExpireBootstrap, FailRows, Busy,
        reqVars, rowVars, workVars, cancelVars, history
<1>1. TypeOK'
  BY <1>0 DEF TypeOK
<1>2. RowBefore' /\ InHand'
  BY <1>0 DEF RowBefore, InHand
<1>3. OneMessage'
  BY <1>0 DEF OneMessage
<1>4. StartedOnce' /\ SuccessLeft'
  BY <1>0 DEF OneMessage, StartedOnce, SuccessLeft
<1>5. WorksOnActive'
  BY <1>0 DEF WorksOnActive
<1>6. LaneLooked'
  BY <1>0 DEF LaneLooked, LaneMates
<1>7. BootLooked'
  BY <1>0 DEF BootLooked, OneMessage, WorksOnActive
<1> QED BY <1>1, <1>2, <1>3, <1>4, <1>5, <1>6, <1>7

LEMMA ReconcileStep ==
  ASSUME IInv, NEW seen \in SUBSET Job, Reconcile(seen)
  PROVE  IInv'
<1> USE NoJobAssumption, LimitAssumption, TypeAssumption
    DEF IInv, TypeOK, RowBefore, InHand, Active, Settled, Terminal, Phase, Reconcile, FailRows, Busy,
        reqVars, rowVars, workVars, cancelVars, history
<1>1. TypeOK'
  BY DEF TypeOK
<1>2. RowBefore' /\ InHand'
  BY DEF RowBefore, InHand
<1>3. OneMessage'
  BY DEF OneMessage
<1>4. StartedOnce' /\ SuccessLeft'
  BY DEF OneMessage, StartedOnce, SuccessLeft
<1>5. WorksOnActive'
  BY DEF WorksOnActive
<1>6. LaneLooked'
  BY DEF LaneLooked, LaneMates
<1>7. BootLooked'
  BY DEF BootLooked, OneMessage, WorksOnActive
<1> QED BY <1>1, <1>2, <1>3, <1>4, <1>5, <1>6, <1>7

LEMMA RevokeStep ==
  ASSUME IInv, NEW j \in Job, RevokeArrives(j)
  PROVE  IInv'
<1> USE NoJobAssumption, LimitAssumption, TypeAssumption
    DEF IInv, TypeOK, RowBefore, InHand, Active, Settled, Terminal, Phase, RevokeArrives, WorkerFree,
        reqVars, rowVars, workVars, cancelVars, history
<1>1. TypeOK'
  BY DEF TypeOK
<1>2. RowBefore' /\ InHand'
  BY DEF RowBefore, InHand
<1>3. OneMessage'
  BY DEF OneMessage
<1>4. StartedOnce' /\ SuccessLeft'
  <2>1. /\ UNCHANGED <<status, audit, starts, doubled>>
        /\ \A w \in Worker : /\ task'[w] \in {task[w], NoJob}
                            /\ task'[w] # NoJob => pc'[w] = pc[w]
    OBVIOUS
  <2>2. \A k \in Job, w \in Worker : task'[w] = k => task[w] = k /\ pc'[w] = pc[w]
    BY <2>1
  <2> QED BY <2>1, <2>2 DEF StartedOnce, SuccessLeft
<1>5. WorksOnActive'
  BY DEF WorksOnActive
<1>6. LaneLooked'
  BY DEF LaneLooked, LaneMates
<1>7. BootLooked'
  BY DEF BootLooked, OneMessage, WorksOnActive
<1> QED BY <1>1, <1>2, <1>3, <1>4, <1>5, <1>6, <1>7

LEMMA Init0 == Init => IInv
<1> SUFFICES ASSUME Init PROVE IInv
  OBVIOUS
<1>1. TypeOK
  <2>1. /\ taskId \in [Job -> BOOLEAN] /\ cancelling \in [Job -> BOOLEAN]
        /\ revoked \in [Job -> BOOLEAN] /\ abandoned \in [Job -> BOOLEAN]
        /\ doubled \in [Job -> BOOLEAN]
    BY Zenon DEF Init
  <2>2. /\ waits \in [Job -> 0 .. WaitLimit] /\ queue \in [Job -> Nat]
        /\ faults \in 0 .. MaxFaults /\ starts \in [Job -> Nat] /\ raced \subseteq SUBSET Job
    BY LimitAssumption DEF Init
  <2>3. /\ req \in [Job -> {"new", "checked", "inserted", "audited", "published", "over"}]
        /\ type \in [Job -> JobType \union {"none"}]
        /\ host \in [Job -> Host \union {"none"}]
        /\ status \in [Job -> {"none", "pending", "running"} \union Terminal]
        /\ audit \in [Job -> {"none", "running"} \union Terminal]
    BY DEF Init
  <2>4. /\ task \in [Worker -> Job \union {NoJob}]
        /\ pc \in [Worker -> Phase]
        /\ result \in [Worker -> {"none", "success", "failed"}]
    BY DEF Init, Phase
  <2> QED BY <2>1, <2>2, <2>3, <2>4 DEF TypeOK
<1>2. RowBefore /\ InHand
  BY NoJobAssumption DEF Init, RowBefore, InHand
<1>3. OneMessage /\ StartedOnce /\ SuccessLeft
  BY NoJobAssumption DEF Init, OneMessage, StartedOnce, SuccessLeft
<1>4. WorksOnActive /\ LaneLooked /\ BootLooked
  BY DEF Init, WorksOnActive, LaneLooked, BootLooked, Active
<1> QED BY <1>1, <1>2, <1>3, <1>4 DEF IInv

LEMMA Step == IInv /\ [Next]_vars => IInv'
<1>1. IInv /\ UNCHANGED vars => IInv'
  BY DEF vars, reqVars, rowVars, workVars, cancelVars, history, IInv, TypeOK, RowBefore, InHand,
     OneMessage, StartedOnce, SuccessLeft, WorksOnActive, LaneLooked, LaneMates, BootLooked, Active
<1> QED
  BY <1>1, CheckStep, InsertStep, AuditStep, PublishStep, TakeStep, LaneStep, MoveStep, RetryStep,
     StartStep, WorkStep, FinishStep, AckStep, DeathStep, CancelStep, SettleStep, FailStep,
     ReconcileStep, RevokeStep
  DEF Next, Request, Serve, Sweep

LEMMA SafetyFollows == IInv => LaneExclusive /\ BootstrapAlone /\ WorkOnce /\ SuccessAudited
<1> SUFFICES ASSUME IInv PROVE LaneExclusive /\ BootstrapAlone /\ WorkOnce /\ SuccessAudited
  OBVIOUS
<1>1. LaneExclusive
  BY DEF IInv, LaneLooked, LaneExclusive
<1>2. BootstrapAlone
  BY DEF IInv, BootLooked, BootstrapAlone
<1>3. WorkOnce /\ SuccessAudited
  BY DEF IInv, StartedOnce, SuccessLeft, WorkOnce, SuccessAudited
<1> QED BY <1>1, <1>2, <1>3

\* A settled row leaves its status only by Start, whose worker works on it.
LEMMA ReviveStep ==
  ASSUME IInv, [Next]_vars, NEW j \in Job, Settled(j), status'[j] \notin Terminal
  PROVE  abandoned[j]
<1> USE DEF IInv, TypeOK, Settled, Terminal
<1>1. ASSUME NEW k \in Job, Insert(k) PROVE abandoned[j]
  BY <1>1 DEF Insert, RowBefore
<1>2. ASSUME NEW w \in Worker, Start(w) PROVE abandoned[j]
  BY <1>2 DEF Start, WorksOnActive, Active
<1>3. ASSUME NEW w \in Worker, Finish(w) PROVE abandoned[j]
  BY <1>3 DEF Finish, InHand
<1>4. ASSUME NEW k \in Job, CancelCommit(k) \/ StaleSweep(k) PROVE abandoned[j]
  BY <1>4 DEF CancelCommit, StaleSweep
<1>5. ASSUME NEW J \in SUBSET Job, FailRows(J) PROVE abandoned[j]
  BY <1>5 DEF FailRows
<1>6. ASSUME NEW k \in Job, PublishFails(k) PROVE abandoned[j]
  <2>1. (IF Active(k) THEN {k} ELSE {}) \in SUBSET Job
    OBVIOUS
  <2> QED BY <1>5, <1>6, <2>1 DEF PublishFails
<1>7. ASSUME NEW k \in Job, ExpireBootstrap(k) PROVE abandoned[j]
  BY <1>5, <1>7 DEF ExpireBootstrap
<1>8. ASSUME NEW seen \in SUBSET Job, Reconcile(seen) PROVE abandoned[j]
  BY <1>5, <1>8 DEF Reconcile
<1>9. CASE UNCHANGED status
  BY <1>9
<1> HIDE DEF IInv, TypeOK, Settled, Terminal
<1>10. ASSUME NEW k \in Job,
              \/ \E t \in JobType, h \in Host : Check(k, t, h)
              \/ OpenAudit(k) \/ Publish(k) \/ StoreTaskId(k) \/ RequesterDies(k) \/ Cancel(k) \/ RevokeArrives(k)
       PROVE  UNCHANGED status
  BY <1>10 DEF Check, OpenAudit, Publish, StoreTaskId, RequesterDies, Cancel, RevokeArrives, rowVars
<1>11. ASSUME NEW w \in Worker,
              \/ \E k \in Job : Take(w, k)
              \/ CheckLane(w) \/ Probe(w) \/ WaitEnds(w) \/ Retry(w) \/ Work(w) \/ FailMessage(w)
              \/ Ack(w) \/ Unexpected(w) \/ WorkerDies(w)
       PROVE  UNCHANGED status
  BY <1>11 DEF Take, CheckLane, Probe, WaitEnds, Retry, Work, FailMessage, Ack, Unexpected, WorkerDies,
     Goto, rowVars
<1>12. CASE UNCHANGED vars
  BY <1>9, <1>12 DEF vars, rowVars
<1> QED
  BY <1>1, <1>2, <1>3, <1>4, <1>6, <1>7, <1>8, <1>9, <1>10, <1>11, <1>12 DEF Next, Request, Serve, Sweep
------------------------------------------------------------------------------
\* Rows, messages and workers keep their state in its sets.
THEOREM JobTypeCorrect == Spec => []TypeOK
<1>1. IInv => TypeOK
  BY DEF IInv
<1> QED BY Init0, Step, <1>1, PTL DEF Spec

\* JobAlreadyActive: for any rows, types, hosts, workers and faults, two rows of one lane
\* are active together only after a race of their checks or behind a worker's back.
THEOREM LanesAreExclusive == Spec => []LaneExclusive
BY Init0, Step, SafetyFollows, PTL DEF Spec

\* host_bootstrap, checked after its row is in, has no race: two never work on one host
\* unless a sweep or a cancel settled a live one.
THEOREM BootstrapsAreAlone == Spec => []BootstrapAlone
BY Init0, Step, SafetyFollows, PTL DEF Spec

\* run_exclusive_job: the remote work of a job starts once, whatever dies, for any number
\* of deaths and host waits, while no message came back beside its own retry.
THEOREM WorkStartsOnce == Spec => []WorkOnce
BY Init0, Step, SafetyFollows, PTL DEF Spec

\* _finish: a successful row has a successful audit row.
THEOREM SuccessIsAudited == Spec => []SuccessAudited
BY Init0, Step, SafetyFollows, PTL DEF Spec

\* A settled row runs again only in the hands of a worker that had read it before.
THEOREM RevivedOnlyInHand == Spec => ReviveOnlyInHand
<1>1. IInv /\ [Next]_vars =>
        [\A j \in Job : Settled(j) /\ status'[j] \notin Terminal => abandoned[j]]_vars
  BY ReviveStep
<1> QED BY Init0, Step, <1>1, PTL DEF Spec, ReviveOnlyInHand
------------------------------------------------------------------------------
(***************************************************************************)
(* What run_exclusive_job and its neighbours do to a row is what JobRow    *)
(* promises.  A worker has the row in hand until it has only its message   *)
(* to acknowledge.                                                         *)
(***************************************************************************)
LEMMA RowsInit == Init => Rows!RowInit
BY NoJobAssumption DEF Init, Rows!RowInit, JobsOut, RowInHand, Cancelled

\* A worker at work has a row that is in, and nobody has one that is not out.
LEMMA AtWork ==
  ASSUME IInv, NEW w \in Worker, pc[w] # "idle"
  PROVE  /\ task[w] \in Job /\ task[w] # NoJob /\ status[task[w]] # "none"
         /\ pc[w] # "ack" => RowInHand[w] = task[w]
BY NoJobAssumption DEF IInv, TypeOK, InHand, RowInHand

\* A worker goes on, or lets go of its row, without writing it.
LEMMA RowUnwritten ==
  ASSUME IInv, NEW w \in Worker, pc[w] # "idle", NEW p \in Phase \ {"idle"},
         \/ pc' = [pc EXCEPT ![w] = p] /\ task' = task /\ (pc[w] = "ack" => p = "ack")
         \/ WorkerFree(w),
         UNCHANGED <<req, status, cancelling>>
  PROVE  [Rows!RowNext]_Rows!rowVars
<1>1. UNCHANGED <<JobsOut, Cancelled>>
  BY DEF JobsOut, Cancelled
<1>2. RowInHand' \in {RowInHand, [RowInHand EXCEPT ![w] = NoJob]}
  <2> USE DEF IInv, TypeOK, Phase
  <2>1. CASE WorkerFree(w)
    BY <2>1 DEF WorkerFree, RowInHand
  <2>2. CASE pc' = [pc EXCEPT ![w] = p] /\ task' = task /\ p = "ack"
    BY <2>2 DEF RowInHand
  <2>3. CASE pc' = [pc EXCEPT ![w] = p] /\ task' = task /\ p # "ack" /\ pc[w] # "ack"
    BY <2>3 DEF RowInHand
  <2> QED BY <2>1, <2>2, <2>3
<1>3. CASE RowInHand' = RowInHand
  BY <1>1, <1>3 DEF Rows!rowVars
<1>4. CASE RowInHand' # RowInHand
  <2>1. RowInHand[w] # NoJob
    BY <1>2, <1>4 DEF RowInHand
  <2>2. Rows!LetGo(w)
    BY <1>1, <1>2, <1>4, <2>1 DEF Rows!LetGo
  <2> QED BY <2>2 DEF Rows!RowNext
<1> QED BY <1>3, <1>4

\* Somebody else fails rows that are active.
LEMMA RowsFailed ==
  ASSUME IInv, NEW J \in SUBSET Job, \A j \in J : Active(j),
         status' = [j \in Job |-> IF j \in J THEN "failed" ELSE status[j]],
         UNCHANGED <<req, workVars, cancelling>>
  PROVE  Rows!RowNext
<1>1. UNCHANGED <<JobsOut, RowInHand, Cancelled>>
  BY DEF Active, workVars, JobsOut, RowInHand, Cancelled
<1>2. Rows!EndRequests({}, J)
  BY <1>1 DEF Active, Rows!EndRequests, Rows!RowActive
<1> QED BY <1>2 DEF Rows!RowNext

LEMMA RowStep ==
  ASSUME IInv, [Next]_vars
  PROVE  [Rows!RowNext]_Rows!rowVars
<1> USE DEF IInv, TypeOK
<1>1. ASSUME NEW j \in Job, (\E t \in JobType, h \in Host : Check(j, t, h)) \/ OpenAudit(j) \/ StoreTaskId(j)
      PROVE  UNCHANGED Rows!rowVars
  BY <1>1
  DEF Check, OpenAudit, StoreTaskId, rowVars, workVars, cancelVars, Rows!rowVars, JobsOut, RowInHand, Cancelled
<1>2. ASSUME NEW j \in Job, Insert(j)
      PROVE  Rows!Enter(j)
  BY <1>2 DEF Insert, RowBefore, workVars, cancelVars, Rows!Enter, JobsOut, RowInHand, Cancelled
<1>3. ASSUME NEW j \in Job, Publish(j) \/ PublishFails(j)
      PROVE  Rows!RowNext
  <2>1. status[j] # "none" /\ j \notin JobsOut /\ JobsOut' = JobsOut \union {j}
        /\ RowInHand' = RowInHand /\ Cancelled' = Cancelled
    BY <1>3
    DEF Publish, PublishFails, FailRows, RowBefore, rowVars, workVars, cancelVars, JobsOut, RowInHand, Cancelled
  <2>2. status' = status \/ status' = [status EXCEPT ![j] = "failed"]
    BY <1>3 DEF Publish, PublishFails, FailRows, rowVars
  <2>3. Rows!EndRequests({j}, {}) \/ Rows!EndRequests({j}, {j})
    BY <2>1, <2>2 DEF Rows!EndRequests
  <2> QED BY <2>3 DEF Rows!RowNext
<1>4. ASSUME NEW j \in Job, RequesterDies(j)
      PROVE  [Rows!RowNext]_Rows!rowVars
  <2>1. RowInHand' = RowInHand /\ Cancelled' = Cancelled /\ status' = status
    BY <1>4 DEF RequesterDies, rowVars, workVars, cancelVars, RowInHand, Cancelled
  <2>2. CASE status[j] = "none" \/ req[j] = "published"
    <3>1. JobsOut' = JobsOut
      BY <1>4, <2>1, <2>2 DEF RequesterDies, JobsOut
    <3> QED BY <2>1, <3>1 DEF Rows!rowVars
  <2>3. CASE status[j] # "none" /\ req[j] # "published"
    <3>1. j \notin JobsOut /\ JobsOut' = JobsOut \union {j}
      BY <1>4, <2>1, <2>3 DEF RequesterDies, JobsOut
    <3>2. Rows!EndRequests({j}, {})
      BY <2>1, <2>3, <3>1 DEF Rows!EndRequests
    <3> QED BY <3>2 DEF Rows!RowNext
  <2> QED BY <2>2, <2>3
<1>5. ASSUME NEW w \in Worker, NEW j \in Job, Take(w, j)
      PROVE  [Rows!RowNext]_Rows!rowVars
  <2>1. RowInHand[w] = NoJob /\ UNCHANGED <<status, JobsOut, Cancelled>>
    BY <1>5 DEF Take, reqVars, cancelVars, RowInHand, JobsOut, Cancelled
  <2>2. CASE Active(j)
    <3>1. AfterRead(j) \notin {"idle", "ack"}
      BY <2>2 DEF AfterRead, Active, Settled, Terminal
    <3>2. RowInHand' = [RowInHand EXCEPT ![w] = j]
      BY <1>5, <3>1 DEF Take, RowInHand
    <3>3. j \in JobsOut
      BY <1>5, <2>2 DEF Take, RowBefore, Active, JobsOut
    <3>4. Rows!Pick(w, j)
      BY <2>1, <2>2, <3>2, <3>3 DEF Active, Rows!Pick, Rows!RowActive
    <3> QED BY <3>4 DEF Rows!RowNext
  <2>3. CASE ~Active(j)
    <3>1. AfterRead(j) = "ack"
      BY <1>5, <2>3 DEF Take, RowBefore, AfterRead, Active, Settled, Terminal
    <3>2. RowInHand' = RowInHand
      BY <1>5, <3>1 DEF Take, RowInHand
    <3> QED BY <2>1, <3>2 DEF Rows!rowVars
  <2> QED BY <2>2, <2>3
<1>6. ASSUME NEW w \in Worker,
             \/ CheckLane(w) \/ Probe(w) \/ WaitEnds(w) \/ Retry(w) \/ Work(w) \/ FailMessage(w)
             \/ Ack(w) \/ Unexpected(w) \/ WorkerDies(w)
      PROVE  [Rows!RowNext]_Rows!rowVars
  <2>1. /\ pc[w] # "idle" /\ UNCHANGED <<req, status, cancelling>>
        /\ \/ WorkerFree(w)
           \/ \E p \in Phase \ {"idle"} :
                pc' = [pc EXCEPT ![w] = p] /\ task' = task /\ (pc[w] = "ack" => p = "ack")
    BY <1>6
    DEF CheckLane, Probe, WaitEnds, Retry, Work, FailMessage, Ack, Unexpected, WorkerDies, Goto, Phase,
        reqVars, rowVars, cancelVars
  <2> QED BY <2>1, RowUnwritten DEF Phase
<1>7. ASSUME NEW w \in Worker, Start(w)
      PROVE  Rows!RowNext
  <2>1. /\ task[w] \in Job /\ task[w] # NoJob /\ RowInHand[w] = task[w] /\ RowInHand' = RowInHand
        /\ status[task[w]] # "none" /\ Cancelled' = Cancelled
    BY <1>7, AtWork DEF Start, RowInHand, cancelVars, Cancelled
  <2>2. JobsOut' = JobsOut
    BY <1>7, <2>1 DEF Start, reqVars, JobsOut
  <2>3. Rows!Write(w, "running")
    BY <1>7, <2>1, <2>2 DEF Start, Rows!Write, Rows!MayWrite
  <2> QED BY <2>3 DEF Rows!RowNext
<1>8. ASSUME NEW w \in Worker, Finish(w)
      PROVE  Rows!RowNext
  <2>1. /\ task[w] \in Job /\ task[w] # NoJob /\ RowInHand[w] = task[w] /\ status[task[w]] # "none"
        /\ Cancelled' = Cancelled /\ RowInHand' = [RowInHand EXCEPT ![w] = NoJob]
        /\ result[w] \in {"success", "failed"}
    BY <1>8, AtWork DEF Finish, InHand, RowInHand, cancelVars, Cancelled
  <2>2. JobsOut' = JobsOut
    BY <1>8, <2>1 DEF Finish, reqVars, JobsOut
  <2>3. CASE Settled(task[w])
    <3>1. Rows!LetGo(w)
      BY <1>8, <2>1, <2>2, <2>3 DEF Finish, Rows!LetGo
    <3> QED BY <3>1 DEF Rows!RowNext
  <2>4. CASE ~Settled(task[w])
    <3>1. Rows!MayWrite(status[task[w]], result[w])
      BY <2>1, <2>4 DEF Settled, Terminal, Rows!MayWrite
    <3>2. Rows!Write(w, result[w])
      BY <1>8, <2>1, <2>2, <2>4, <3>1 DEF Finish, Rows!Write
    <3> QED BY <2>1, <3>2 DEF Rows!RowNext
  <2> QED BY <2>3, <2>4
<1>9. ASSUME NEW j \in Job, Cancel(j)
      PROVE  Rows!CancelRead(j)
  BY <1>9
  DEF Cancel, Active, reqVars, rowVars, workVars, Rows!CancelRead, Rows!RowActive, JobsOut, RowInHand, Cancelled
<1>10. ASSUME NEW j \in Job, CancelCommit(j)
       PROVE  Rows!CancelWrite(j)
  BY <1>10 DEF CancelCommit, RowBefore, reqVars, workVars, Rows!CancelWrite, JobsOut, RowInHand, Cancelled
<1>11. ASSUME NEW j \in Job, RevokeArrives(j)
       PROVE  [Rows!RowNext]_Rows!rowVars
  <2>1. UNCHANGED <<req, status, cancelling>>
    BY <1>11 DEF RevokeArrives, reqVars, rowVars, cancelVars
  <2>2. CASE UNCHANGED workVars
    BY <2>1, <2>2 DEF workVars, Rows!rowVars, JobsOut, RowInHand, Cancelled
  <2>3. ASSUME NEW w \in Worker, task[w] = j, WorkerFree(w)
        PROVE  [Rows!RowNext]_Rows!rowVars
    <3>1. pc[w] # "idle"
      BY <2>3, NoJobAssumption DEF InHand
    <3> QED BY <2>1, <2>3, <3>1, RowUnwritten DEF Phase
  <2> QED BY <1>11, <2>2, <2>3 DEF RevokeArrives
<1>12. ASSUME NEW j \in Job, StaleSweep(j)
       PROVE  Rows!RowNext
  <2>1. {j} \in SUBSET Job /\ \A k \in {j} : Active(k)
    BY <1>12 DEF StaleSweep, Stale
  <2>2. status' = [k \in Job |-> IF k \in {j} THEN "failed" ELSE status[k]]
    BY <1>12 DEF StaleSweep
  <2>3. UNCHANGED <<req, workVars, cancelling>>
    BY <1>12 DEF StaleSweep, reqVars, cancelVars
  <2> QED BY <2>1, <2>2, <2>3, RowsFailed
<1>13. ASSUME NEW j \in Job, ExpireBootstrap(j)
       PROVE  Rows!RowNext
  <2>1. {j} \in SUBSET Job /\ \A k \in {j} : Active(k)
    BY <1>13 DEF ExpireBootstrap, Active
  <2>2. UNCHANGED <<req, workVars, cancelling>>
    BY <1>13 DEF ExpireBootstrap, reqVars, cancelVars
  <2> QED BY <1>13, <2>1, <2>2, RowsFailed DEF ExpireBootstrap, FailRows
<1>14. ASSUME NEW seen \in SUBSET Job, Reconcile(seen)
       PROVE  Rows!RowNext
  <2>1. {j \in Job : status[j] = "running"} \ seen \in SUBSET Job
    OBVIOUS
  <2> QED BY <1>14, <2>1, RowsFailed DEF Reconcile, FailRows, Active, reqVars, cancelVars
<1>15. CASE UNCHANGED vars
  BY <1>15 DEF vars, reqVars, rowVars, workVars, cancelVars, Rows!rowVars, JobsOut, RowInHand, Cancelled
<1> QED
  BY <1>1, <1>2, <1>3, <1>4, <1>5, <1>6, <1>7, <1>8, <1>9, <1>10, <1>11, <1>12, <1>13, <1>14, <1>15
  DEF Next, Request, Serve, Sweep, Rows!RowNext

\* The rows of exclusive jobs keep JobRow's promise: whatever was redelivered, retried or swept,
\* a settled row is set running again only by a worker, and cancelled only by a cancel, that
\* had read it as active.
THEOREM RowsKeepPromise == Spec => RefinesJobRow
BY RowsInit, Init0, Step, RowStep, PTL DEF Spec, RefinesJobRow, Rows!RowSpec

\* JobRow with what is proved of it.
RowFacts == INSTANCE JobRowProofs WITH
  Row <- Job, RowWorker <- Worker, NoRow <- NoJob, Reopens <- TRUE, Rewrites <- FALSE,
  row <- status, out <- JobsOut, hand <- RowInHand, cancels <- Cancelled

\* Once an exclusive job's row is settled, its request over and neither a worker nor a cancel
\* left with what it read, it stays so: a message that comes back, a retry or a sweep does not
\* wake it.
THEOREM JobRowsComeToRest == Spec => RowFacts!RestsForGood
<1>1. RowFacts!RowSpec => RowFacts!RestsForGood
  BY RowFacts!RowsComeToRest, NoJobAssumption
<1>2. (Rows!RowInit => RowFacts!RowInit)
      /\ ([Rows!RowNext]_Rows!rowVars => [RowFacts!RowNext]_RowFacts!rowVars)
  BY DEF Rows!RowInit, RowFacts!RowInit, Rows!RowNext, RowFacts!RowNext, Rows!rowVars,
         RowFacts!rowVars, Rows!Enter, RowFacts!Enter, Rows!EndRequests, RowFacts!EndRequests,
         Rows!Pick, RowFacts!Pick, Rows!Write, RowFacts!Write, Rows!MayWrite, RowFacts!MayWrite,
         Rows!LetGo, RowFacts!LetGo, Rows!CancelRead, RowFacts!CancelRead, Rows!CancelWrite,
         RowFacts!CancelWrite, Rows!RowActive, RowFacts!RowActive
<1>3. Rows!RowSpec => RowFacts!RowSpec
  BY <1>2, PTL DEF Rows!RowSpec, RowFacts!RowSpec
<1> QED BY <1>1, <1>3, RowsKeepPromise, PTL DEF RefinesJobRow
==============================================================================
