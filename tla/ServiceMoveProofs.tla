---------------------------- MODULE ServiceMoveProofs ----------------------------
(***************************************************************************)
(* Moves, undos, recovers and Start source jobs of one project, for any    *)
(* number of jobs and of faults.                                           *)
(*                                                                         *)
(* The order of the argument: (1) who runs: one job holds the locks, a job *)
(* that runs is active or abandoned, and a job that holds the locks belongs*)
(* to the last Move unless that one has not begun; so Start source, which  *)
(* takes no lock, runs beside none of them unless it is a stray.  (2) What *)
(* the records of a failed Move say about the step it failed in.  (3) What *)
(* each step may so rely on of the hosts, the names and the rows.          *)
(***************************************************************************)
EXTENDS ServiceMove, TLAPS

Locked(j) == kind[j] # "start" /\ Runs(j)

\* The Move a job is about.
Base(j) == IF kind[j] = "move" THEN j ELSE parent[j]

\* A Move that has not begun and left nothing.
Fresh(m) ==
  /\ m \in Job
  /\ step[m] = "none" /\ failedStep[m] = "none" /\ offers[m] = {} /\ undoSteps[m] = {}
  /\ status[m] \in {"pending", "failed", "cancelled"} /\ pc[m] \in {"queued", "over"}

\* Rows and tasks: what each kind may be doing, and what has not begun.
RowForm ==
  /\ \A j \in Job :
       /\ kind[j] = "none" <=> status[j] = "none"
       /\ kind[j] = "none" <=> pc[j] = "none"
       /\ kind[j] \in {"none", "move"} <=> parent[j] = NoJob
       /\ kind[j] = "none" \/ status[j] = "pending" \/ pc[j] = "begin" =>
            step[j] = "none" /\ failedStep[j] = "none" /\ offers[j] = {} /\ undoSteps[j] = {}
       /\ pc[j] \in MoveStep => kind[j] = "move"
       /\ pc[j] \in {"u_stop", "u_dns", "u_back", "u_rebind", "u_certs", "u_start"} => kind[j] = "undo"
       /\ pc[j] \in {"r_stop", "r_start"} => kind[j] = "recover"
       /\ pc[j] = "start" => kind[j] = "start"
       /\ pc[j] = "payload" => kind[j] \in {"move", "undo"}
       /\ pc[j] = "begin" => status[j] # "running"
       /\ status[j] = "pending" => j \notin abandoned /\ pc[j] \in {"queued", "begin", "over"}
       /\ status[j] = "none" => j \notin abandoned
  /\ last \in Job => kind[last] = "move"

\* Who runs.
RunForm ==
  /\ \A j \in Job : Locked(j) => holder = j
  /\ \A j \in Job : Runs(j) => Active(j) \/ j \in abandoned
  /\ \A i, j \in Job : i # j /\ Active(i) /\ Active(j) => i \in abandoned \/ j \in abandoned
  /\ \A j \in Job : Active(j) /\ j \notin abandoned => Base(j) = last
  /\ \A j \in Job : Locked(j) => Base(j) = last \/ Fresh(last)
  /\ \A i, j \in Job :
       kind[i] = "start" /\ Active(i) /\ Locked(j) /\ pc[j] # "close" => i \in abandoned

\* What the records of a Move say.
RecordForm ==
  \A m \in Job :
    /\ kind[m] = "move" /\ pc[m] \in MoveStep \union {"begin", "payload", "done"} =>
         failedStep[m] = "none" /\ offers[m] = {} /\ undoSteps[m] = {}
    /\ pc[m] \in MoveStep \ {"rebind"} => step[m] = pc[m]
    /\ pc[m] = "rebind" => step[m] = "cutover"
    /\ kind[m] = "move" /\ pc[m] = "payload" =>
         /\ error[m] \in {"stop", "copy"} => step[m] = error[m]
         /\ error[m] = "dest_up" => step[m] \in {"copy", "dest_up"}
         /\ error[m] \in UndoSteps => step[m] \in {"cutover", "validate"}
    /\ failedStep[m] \in UndoSteps =>
         step[m] \in {"cutover", "validate"} /\ "recover_source" \notin offers[m]
    /\ "recover_source" \in offers[m] => step[m] \in {"stop", "copy"} \/ UpFailed(m)

\* What a job's parent is.
ParentForm ==
  \A j \in Job : parent[j] \in Job =>
    LET m == parent[j] IN
      /\ kind[m] = "move" /\ status[m] = "failed" /\ pc[m] \in {"close", "queued", "over"}
      /\ kind[j] = "undo" => failedStep[m] \in UndoSteps
      /\ kind[j] = "recover" =>
           failedStep[m] = "worker_restart" /\ step[m] = "dest_up" /\ "recover_source" \notin offers[m]
      /\ kind[j] = "start" => "recover_source" \in offers[m]

\* What the steps of a Move may rely on.
MoveForm ==
  \A j \in Job : kind[j] = "move" =>
    /\ (j = last \/ Runs(j)) /\ step[j] \in {"stop", "copy"} => dst = "down" \/ j \in blind
    /\ pc[j] \in {"copy", "dest_up", "cutover", "rebind", "validate", "leftover", "done"} =>
         src \in {"down", "gone"} \/ StrayStart
    /\ pc[j] \in {"copy", "dest_up", "cutover", "rebind", "validate"} => src # "gone"
    /\ pc[j] = "payload" /\ error[j] \in UndoSteps => src # "gone"
    /\ j = last /\ failedStep[j] \in UndoSteps => src # "gone"
    /\ pc[j] \in {"cutover", "rebind", "validate", "leftover", "done"} => dst = "up"
    /\ pc[j] \in {"rebind", "validate", "leftover", "done"} => names = "dst"
    /\ pc[j] \in {"validate", "leftover", "done"} => rows = "dst"

\* The undo of the Move is at work.
UndoRuns(m) == \E j \in Job : kind[j] = "undo" /\ parent[j] = m /\ Runs(j)

\* What the steps of an undo may rely on, and what its record says.
UndoForm ==
  /\ \A j \in Job : kind[j] = "undo" =>
       /\ pc[j] \in {"u_dns", "u_back", "u_rebind", "u_certs", "u_start", "done"} => "stop" \in undoSteps[j]
       /\ pc[j] \in {"u_rebind", "u_certs", "u_start", "done"} => "dns" \in undoSteps[j]
       /\ pc[j] \in {"u_certs", "u_start", "done"} => "rebind" \in undoSteps[j]
       /\ pc[j] = "u_back" => "dns" \notin undoSteps[j]
       /\ pc[j] = "done" => src = "up" \/ StrayStart
       /\ Runs(j) /\ pc[j] # "begin" =>
            /\ "dns" \in undoSteps[j] => names = "src"
            /\ "rebind" \in undoSteps[j] => rows = "src"
            /\ "dns" \in undoSteps[parent[j]] => "dns" \in undoSteps[j]
            /\ "rebind" \in undoSteps[parent[j]] => "rebind" \in undoSteps[j]
  /\ \A m \in Job : kind[m] = "move" /\ (m = last \/ UndoRuns(m)) =>
       /\ "dns" \in undoSteps[m] => names = "src"
       /\ "rebind" \in undoSteps[m] => rows = "src"

\* An undo that may have started source: dest stays stopped under it.
StartedBack == \E j \in Job : kind[j] = "undo" /\ {"stop", "dns"} \subseteq undoSteps[j]

\* When source may be up.
DualForm ==
  /\ NoDualRun
  /\ \A j \in Job : pc[j] = "r_start" => dst = "down"
  /\ \A m \in Job : kind[m] = "move" =>
       /\ pc[m] = "payload" /\ error[m] \in UndoSteps => src # "up" \/ StrayStart
       /\ failedStep[m] \in UndoSteps /\ (m = last \/ UndoRuns(m)) =>
            src # "up" \/ StartedBack \/ StrayStart

IInv ==
  /\ TypeOK /\ RowForm /\ RunForm /\ RecordForm /\ ParentForm /\ MoveForm /\ UndoForm /\ DualForm
------------------------------------------------------------------------------
\* What every step below needs: the assumptions, the types, and the names of states,
\* sets and effects.
USE NoJobAssumption, FaultAssumption
DEF IInv, TypeOK, Goto, Active, Settled, Terminal, Runs, Working, MoveStep, ChildStep,
    Stack, Locked, Base, Fresh, UndoSteps, StrayStart, HostsAfter, SrcAfter, DstAfter,
    NamesAfter, StopLeaves, StartLeaves, WipeLeaves, FlipLeaves, hosts, requests, records,
    history

(***************************************************************************)
(* One lemma per action, or per two that touch the same state; in each,    *)
(* one step per part of the invariant.                                     *)
(***************************************************************************)
LEMMA MoveRequest ==
  ASSUME IInv, NEW j \in Job, RequestMove(j)
  PROVE  IInv'
<1> USE DEF RequestMove, Queue, HostsFree
<1>1. TypeOK'
  OBVIOUS
<1>2. RowForm'
  BY DEF RowForm
<1>3. RunForm'
  BY DEF RowForm, RunForm, RecordForm, ParentForm, UpFailed
<1>4. RecordForm' /\ ParentForm'
  BY DEF RowForm, RecordForm, ParentForm, UpFailed
<1>5. MoveForm'
  BY DEF RowForm, RunForm, RecordForm, ParentForm, MoveForm
<1>6. UndoForm'
  BY DEF RowForm, RunForm, RecordForm, ParentForm, UndoForm, UndoRuns
<1>7. DualForm'
  BY DEF RowForm, RunForm, RecordForm, ParentForm, MoveForm, UndoForm, DualForm, UndoRuns, StartedBack, NoDualRun, UpFailed
<1> QED BY <1>1, <1>2, <1>3, <1>4, <1>5, <1>6, <1>7

LEMMA ChildRequest ==
  ASSUME IInv, NEW j \in Job, NEW m \in Job,
         RequestUndo(j, m) \/ RequestRecover(j, m) \/ RequestStart(j, m)
  PROVE  IInv'
<1>0. PICK k \in {"undo", "recover", "start"} :
        /\ Queue(j, k, m) /\ m = last /\ UNCHANGED last /\ status[m] = "failed"
        /\ k = "undo" => failedStep[m] \in UndoSteps
        /\ k = "recover" => failedStep[m] = "worker_restart" /\ step[m] = "dest_up"
                           /\ "recover_source" \notin offers[m]
        /\ k = "start" => "recover_source" \in offers[m]
  BY DEF RequestUndo, RequestRecover, RequestStart, EligibleUndo, EligibleRecover, Shown
<1> USE <1>0 DEF Queue, HostsFree
<1>1. TypeOK'
  OBVIOUS
<1>2. RowForm'
  BY DEF RowForm
<1>a. /\ kind[m] = "move" /\ m # j /\ kind[j] = "none" /\ pc[j] = "none" /\ undoSteps[j] = {}
      /\ \A i \in Job : Base(i)' = IF i = j THEN m ELSE Base(i)
      /\ \A i \in Job : Active(i)' <=> i = j
      /\ \A i \in Job : Runs(i)' <=> Runs(i)
      /\ \A i \in Job : (Locked(i))' <=> Locked(i)
      /\ ~Runs(j) /\ ~Runs(j)' /\ j \notin abandoned
  BY DEF RowForm
<1>3. RunForm'
  <2>1. ~Fresh(last) /\ ~Fresh(last)'
    BY <1>a
  <2>2. ASSUME NEW x \in Job, Locked(x), k = "start"
        PROVE  pc[x] = "close"
    <3>1. Base(x) = m
      BY <2>1, <2>2 DEF RunForm
    <3>2. CASE kind[x] = "move"
      BY <2>2, <3>1, <3>2 DEF RowForm, RecordForm
    <3>3. CASE kind[x] # "move"
      BY <1>a, <2>2, <3>1, <3>3 DEF RowForm, RecordForm, ParentForm
    <3> QED BY <3>2, <3>3
  <2>3. \A i, x \in Job :
          kind'[i] = "start" /\ Active(i)' /\ (Locked(x))' /\ pc'[x] # "close" => i \in abandoned'
    BY <1>a, <2>2
  <2>4. \A x \in Job : (Locked(x))' => Base(x)' = last'
    BY <1>a, <2>1 DEF RunForm
  <2> QED BY <1>a, <2>3, <2>4 DEF RunForm
<1>4. RecordForm' /\ ParentForm'
  BY DEF RowForm, RecordForm, ParentForm, UpFailed
<1>5. MoveForm'
  BY DEF RowForm, RunForm, RecordForm, ParentForm, MoveForm
<1>6. UndoForm'
  <2>1. \A i \in Job : kind'[i] = "move" => (UndoRuns(i)' <=> UndoRuns(i)) /\ kind[i] = "move"
    BY <1>a DEF UndoRuns
  <2>2. \A i \in Job : kind'[i] = "undo" => i = j \/ (kind[i] = "undo" /\ parent'[i] = parent[i])
    BY <1>a
  <2>3. src = "up" \/ StrayStart <=> src' = "up" \/ StrayStart'
    BY <1>a DEF RowForm
  <2> QED BY <1>a, <2>1, <2>2, <2>3 DEF UndoForm
<1>7. DualForm'
  BY DEF RowForm, RunForm, RecordForm, ParentForm, MoveForm, UndoForm, DualForm, UndoRuns, StartedBack, NoDualRun, UpFailed
<1> QED BY <1>1, <1>2, <1>3, <1>4, <1>5, <1>6, <1>7

LEMMA SkipStep ==
  ASSUME IInv, NEW j \in Job, Skip(j) \/ GiveUp(j)
  PROVE  IInv'
<1> USE DEF Skip, GiveUp
<1>1. TypeOK'
  OBVIOUS
<1>2. RowForm'
  BY DEF RowForm
<1>3. RunForm'
  BY DEF RowForm, RunForm, RecordForm, ParentForm, UpFailed
<1>4. RecordForm' /\ ParentForm'
  BY DEF RowForm, RecordForm, ParentForm, UpFailed
<1>5. MoveForm'
  BY DEF RowForm, RunForm, RecordForm, ParentForm, MoveForm
<1>6. UndoForm'
  BY DEF RowForm, RunForm, RecordForm, ParentForm, UndoForm, UndoRuns
<1>7. DualForm'
  BY DEF RowForm, RunForm, RecordForm, ParentForm, MoveForm, UndoForm, DualForm, UndoRuns, StartedBack, NoDualRun, UpFailed
<1> QED BY <1>1, <1>2, <1>3, <1>4, <1>5, <1>6, <1>7

LEMMA TakeStep ==
  ASSUME IInv, NEW j \in Job, Take(j)
  PROVE  IInv'
<1> USE DEF Take
<1>1. TypeOK'
  OBVIOUS
<1>2. RowForm'
  BY DEF RowForm
<1>3. RunForm'
  BY DEF RowForm, RunForm, RecordForm, ParentForm, UpFailed
<1>4. RecordForm' /\ ParentForm'
  BY DEF RowForm, RecordForm, ParentForm, UpFailed
<1>5. MoveForm'
  BY DEF RowForm, RunForm, RecordForm, ParentForm, MoveForm
<1>6. UndoForm'
  BY DEF RowForm, RunForm, RecordForm, ParentForm, UndoForm, UndoRuns
<1>7. DualForm'
  BY DEF RowForm, RunForm, RecordForm, ParentForm, MoveForm, UndoForm, DualForm, UndoRuns, StartedBack, NoDualRun, UpFailed
<1> QED BY <1>1, <1>2, <1>3, <1>4, <1>5, <1>6, <1>7

LEMMA BeginStep ==
  ASSUME IInv, NEW j \in Job, Begin(j)
  PROVE  IInv'
<1> USE DEF Begin, FirstStep
<1>1. TypeOK'
  <2>1. FirstStep[kind[j]] \in Working
    BY DEF RowForm
  <2>2. UNCHANGED <<src, dst, names, rows>> /\ step' \in [Job -> MoveStep \union {"none"}]
    BY <2>1
  <2>3. undoSteps' \in [Job -> SUBSET {"stop", "dns", "rebind", "certs"}]
    BY DEF RowForm
  <2> QED BY <2>1, <2>2, <2>3
<1>2. RowForm'
  BY DEF RowForm
<1>3. RunForm'
  BY DEF RowForm, RunForm, RecordForm, ParentForm, UpFailed
<1>4. RecordForm' /\ ParentForm'
  BY DEF RowForm, RecordForm, ParentForm, UpFailed
<1>5. MoveForm'
  BY DEF RowForm, RunForm, RecordForm, ParentForm, MoveForm
<1>6. UndoForm'
  BY DEF RowForm, RunForm, RecordForm, ParentForm, UndoForm, UndoRuns
<1>7. DualForm'
  BY DEF RowForm, RunForm, RecordForm, ParentForm, MoveForm, UndoForm, DualForm, UndoRuns, StartedBack, NoDualRun, UpFailed
<1> QED BY <1>1, <1>2, <1>3, <1>4, <1>5, <1>6, <1>7

LEMMA RedeliverStep ==
  ASSUME IInv, NEW j \in Job, Redelivered(j)
  PROVE  IInv'
<1> USE DEF Redelivered, RestartOffer
<1>1. TypeOK'
  OBVIOUS
<1>2. RowForm'
  BY DEF RowForm
<1>3. RunForm'
  BY DEF RowForm, RunForm, RecordForm, ParentForm, UpFailed
<1>4. RecordForm' /\ ParentForm'
  BY DEF RowForm, RecordForm, ParentForm, UpFailed
<1>5. MoveForm'
  BY DEF RowForm, RunForm, RecordForm, ParentForm, MoveForm
<1>6. UndoForm'
  BY DEF RowForm, RunForm, RecordForm, ParentForm, UndoForm, UndoRuns
<1>7. DualForm'
  <2>1. \A m \in Job : UpFailed(m) => UpFailed(m)'
    BY DEF RowForm, RecordForm, UpFailed
  <2>2. UNCHANGED <<src, dst, blind, kind, abandoned, parent, undoSteps, error, last>>
    OBVIOUS
  <2>3. \A m \in Job : UndoRuns(m)' => UndoRuns(m)
    BY DEF UndoRuns
  <2>4. \A m \in Job : failedStep'[m] \in UndoSteps => failedStep'[m] = failedStep[m]
    OBVIOUS
  <2>5. \A i \in Job : pc'[i] \in {"r_start", "payload"} => pc'[i] = pc[i]
    OBVIOUS
  <2>6. (StartedBack <=> StartedBack') /\ (StrayStart <=> StrayStart')
    BY <2>2 DEF StartedBack
  <2>7. NoDualRun'
    BY <2>1, <2>2, <2>6 DEF NoDualRun, DualForm
  <2> QED BY <2>2, <2>3, <2>4, <2>5, <2>6, <2>7 DEF DualForm
<1> QED BY <1>1, <1>2, <1>3, <1>4, <1>5, <1>6, <1>7

LEMMA PreflightStep ==
  ASSUME IInv, NEW j \in Job, Preflight(j) \/ PreflightBlind(j)
  PROVE  IInv'
<1> USE DEF Preflight, PreflightBlind, Blocked, DestRuns, Enter, Raise
<1>1. TypeOK'
  OBVIOUS
<1>2. RowForm'
  BY DEF RowForm
<1>3. RunForm'
  BY DEF RowForm, RunForm, RecordForm, ParentForm, UpFailed
<1>4. RecordForm' /\ ParentForm'
  BY DEF RowForm, RecordForm, ParentForm, UpFailed
<1>5. MoveForm'
  BY DEF RowForm, RunForm, RecordForm, ParentForm, MoveForm
<1>6. UndoForm'
  BY DEF RowForm, RunForm, RecordForm, ParentForm, UndoForm, UndoRuns
<1>7. DualForm'
  BY DEF RowForm, RunForm, RecordForm, ParentForm, MoveForm, UndoForm, DualForm, UndoRuns, StartedBack, NoDualRun, UpFailed
<1> QED BY <1>1, <1>2, <1>3, <1>4, <1>5, <1>6, <1>7

LEMMA StopStep ==
  ASSUME IInv, NEW j \in Job, StopSource(j)
  PROVE  IInv'
<1> USE DEF StopSource, Enter, Raise
<1>1. TypeOK'
  OBVIOUS
<1>2. RowForm'
  BY DEF RowForm
<1>3. RunForm'
  BY DEF RowForm, RunForm, RecordForm, ParentForm, UpFailed
<1>4. RecordForm' /\ ParentForm'
  BY DEF RowForm, RecordForm, ParentForm, UpFailed
<1>5. MoveForm'
  BY DEF RowForm, RunForm, RecordForm, ParentForm, MoveForm
<1>6. UndoForm'
  BY DEF RowForm, RunForm, RecordForm, ParentForm, UndoForm, UndoRuns
<1>7. DualForm'
  BY DEF RowForm, RunForm, RecordForm, ParentForm, MoveForm, UndoForm, DualForm, UndoRuns, StartedBack, NoDualRun, UpFailed
<1> QED BY <1>1, <1>2, <1>3, <1>4, <1>5, <1>6, <1>7

LEMMA CopyStep ==
  ASSUME IInv, NEW j \in Job, Copy(j)
  PROVE  IInv'
<1> USE DEF Copy, Enter, Raise
<1>1. TypeOK'
  OBVIOUS
<1>2. RowForm'
  BY DEF RowForm
<1>3. RunForm'
  BY DEF RowForm, RunForm, RecordForm, ParentForm, UpFailed
<1>4. RecordForm' /\ ParentForm'
  BY DEF RowForm, RecordForm, ParentForm, UpFailed
<1>5. MoveForm'
  BY DEF RowForm, RunForm, RecordForm, ParentForm, MoveForm
<1>6. UndoForm'
  BY DEF RowForm, RunForm, RecordForm, ParentForm, UndoForm, UndoRuns
<1>7. DualForm'
  BY DEF RowForm, RunForm, RecordForm, ParentForm, MoveForm, UndoForm, DualForm, UndoRuns, StartedBack, NoDualRun, UpFailed
<1> QED BY <1>1, <1>2, <1>3, <1>4, <1>5, <1>6, <1>7

LEMMA UpStep ==
  ASSUME IInv, NEW j \in Job, DestUp(j)
  PROVE  IInv'
<1> USE DEF DestUp, Enter, Raise
<1>1. TypeOK'
  OBVIOUS
<1>2. RowForm'
  BY DEF RowForm
<1>3. RunForm'
  BY DEF RowForm, RunForm, RecordForm, ParentForm, UpFailed
<1>4. RecordForm' /\ ParentForm'
  BY DEF RowForm, RecordForm, ParentForm, UpFailed
<1>5. MoveForm'
  BY DEF RowForm, RunForm, RecordForm, ParentForm, MoveForm
<1>6. UndoForm'
  BY DEF RowForm, RunForm, RecordForm, ParentForm, UndoForm, UndoRuns
<1>7. DualForm'
  BY DEF RowForm, RunForm, RecordForm, ParentForm, MoveForm, UndoForm, DualForm, UndoRuns, StartedBack, NoDualRun, UpFailed
<1> QED BY <1>1, <1>2, <1>3, <1>4, <1>5, <1>6, <1>7

LEMMA CutoverStep ==
  ASSUME IInv, NEW j \in Job, Cutover(j)
  PROVE  IInv'
<1> USE DEF Cutover, Enter, Raise
<1>1. TypeOK'
  OBVIOUS
<1>2. RowForm'
  BY DEF RowForm
<1>3. RunForm'
  BY DEF RowForm, RunForm, RecordForm, ParentForm, UpFailed
<1>4. RecordForm' /\ ParentForm'
  BY DEF RowForm, RecordForm, ParentForm, UpFailed
<1>5. MoveForm'
  BY DEF RowForm, RunForm, RecordForm, ParentForm, MoveForm
<1>6. UndoForm'
  BY DEF RowForm, RunForm, RecordForm, ParentForm, UndoForm, UndoRuns
<1>7. DualForm'
  BY DEF RowForm, RunForm, RecordForm, ParentForm, MoveForm, UndoForm, DualForm, UndoRuns, StartedBack, NoDualRun, UpFailed
<1> QED BY <1>1, <1>2, <1>3, <1>4, <1>5, <1>6, <1>7

LEMMA RebindStep ==
  ASSUME IInv, NEW j \in Job, Rebind(j) \/ Validate(j)
  PROVE  IInv'
<1> USE DEF Rebind, Validate, Enter, Raise
<1>1. TypeOK'
  OBVIOUS
<1>2. RowForm'
  BY DEF RowForm
<1>3. RunForm'
  BY DEF RowForm, RunForm, RecordForm, ParentForm, UpFailed
<1>4. RecordForm' /\ ParentForm'
  BY DEF RowForm, RecordForm, ParentForm, UpFailed
<1>5. MoveForm'
  BY DEF RowForm, RunForm, RecordForm, ParentForm, MoveForm
<1>6. UndoForm'
  BY DEF RowForm, RunForm, RecordForm, ParentForm, UndoForm, UndoRuns
<1>7. DualForm'
  BY DEF RowForm, RunForm, RecordForm, ParentForm, MoveForm, UndoForm, DualForm, UndoRuns, StartedBack, NoDualRun, UpFailed
<1> QED BY <1>1, <1>2, <1>3, <1>4, <1>5, <1>6, <1>7

LEMMA LeftoverStep ==
  ASSUME IInv, NEW j \in Job, Leftover(j)
  PROVE  IInv'
<1> USE DEF Leftover, Enter, Raise
<1>1. TypeOK'
  OBVIOUS
<1>2. RowForm'
  BY DEF RowForm
<1>3. RunForm'
  BY DEF RowForm, RunForm, RecordForm, ParentForm, UpFailed
<1>4. RecordForm' /\ ParentForm'
  BY DEF RowForm, RecordForm, ParentForm, UpFailed
<1>5. MoveForm'
  BY DEF RowForm, RunForm, RecordForm, ParentForm, MoveForm
<1>6. UndoForm'
  BY DEF RowForm, RunForm, RecordForm, ParentForm, UndoForm, UndoRuns
<1>7. DualForm'
  BY DEF RowForm, RunForm, RecordForm, ParentForm, MoveForm, UndoForm, DualForm, UndoRuns, StartedBack, NoDualRun, UpFailed
<1> QED BY <1>1, <1>2, <1>3, <1>4, <1>5, <1>6, <1>7

LEMMA OfferStep ==
  ASSUME IInv, NEW j \in Job, StoreOffer(j)
  PROVE  IInv'
<1> USE DEF StoreOffer, RecoverSourceSteps
<1>1. TypeOK'
  OBVIOUS
<1>2. RowForm'
  BY DEF RowForm
<1>3. RunForm'
  BY DEF RowForm, RunForm, RecordForm, ParentForm, UpFailed
<1>4. RecordForm' /\ ParentForm'
  BY DEF RowForm, RecordForm, ParentForm, UpFailed
<1>5. MoveForm'
  BY DEF RowForm, RunForm, RecordForm, ParentForm, MoveForm
<1>6. UndoForm'
  BY DEF RowForm, RunForm, RecordForm, ParentForm, UndoForm, UndoRuns
<1>7. DualForm'
  BY DEF RowForm, RunForm, RecordForm, ParentForm, MoveForm, UndoForm, DualForm, UndoRuns, StartedBack, NoDualRun, UpFailed
<1> QED BY <1>1, <1>2, <1>3, <1>4, <1>5, <1>6, <1>7

LEMMA CloseStep ==
  ASSUME IInv, NEW j \in Job, Close(j)
  PROVE  IInv'
<1> USE DEF Close
<1>1. TypeOK'
  OBVIOUS
<1>2. RowForm'
  BY DEF RowForm
<1>3. RunForm'
  BY DEF RowForm, RunForm, RecordForm, ParentForm, UpFailed
<1>4. RecordForm' /\ ParentForm'
  BY DEF RowForm, RecordForm, ParentForm, UpFailed
<1>5. MoveForm'
  BY DEF RowForm, RunForm, RecordForm, ParentForm, MoveForm
<1>6. UndoForm'
  BY DEF RowForm, RunForm, RecordForm, ParentForm, UndoForm, UndoRuns
<1>7. DualForm'
  BY DEF RowForm, RunForm, RecordForm, ParentForm, MoveForm, UndoForm, DualForm, UndoRuns, StartedBack, NoDualRun, UpFailed
<1> QED BY <1>1, <1>2, <1>3, <1>4, <1>5, <1>6, <1>7

LEMMA SkipDoneStep ==
  ASSUME IInv, NEW j \in Job, SkipDone(j)
  PROVE  IInv'
<1> USE DEF SkipDone, ChildUnchanged
<1>1. TypeOK'
  OBVIOUS
<1>2. RowForm'
  BY DEF RowForm
<1>3. RunForm'
  BY DEF RowForm, RunForm, RecordForm, ParentForm, UpFailed
<1>4. RecordForm' /\ ParentForm'
  BY DEF RowForm, RecordForm, ParentForm, UpFailed
<1>5. MoveForm'
  BY DEF RowForm, RunForm, RecordForm, ParentForm, MoveForm
<1>6. UndoForm'
  BY DEF RowForm, RunForm, RecordForm, ParentForm, UndoForm, UndoRuns
<1>7. DualForm'
  BY DEF RowForm, RunForm, RecordForm, ParentForm, MoveForm, UndoForm, DualForm, UndoRuns, StartedBack, NoDualRun, UpFailed
<1> QED BY <1>1, <1>2, <1>3, <1>4, <1>5, <1>6, <1>7

LEMMA UndoStopStep ==
  ASSUME IInv, NEW j \in Job, UndoStop(j)
  PROVE  IInv'
<1> USE DEF UndoStop, UndoFails, Undone, ChildUnchanged
<1>1. TypeOK'
  OBVIOUS
<1>2. RowForm'
  BY DEF RowForm
<1>3. RunForm'
  BY DEF RowForm, RunForm, RecordForm, ParentForm, UpFailed
<1>4. RecordForm' /\ ParentForm'
  BY DEF RowForm, RecordForm, ParentForm, UpFailed
<1>5. MoveForm'
  BY DEF RowForm, RunForm, RecordForm, ParentForm, MoveForm
<1>6. UndoForm'
  BY DEF RowForm, RunForm, RecordForm, ParentForm, UndoForm, UndoRuns
<1>7. DualForm'
  BY DEF RowForm, RunForm, RecordForm, ParentForm, MoveForm, UndoForm, DualForm, UndoRuns, StartedBack, NoDualRun, UpFailed
<1> QED BY <1>1, <1>2, <1>3, <1>4, <1>5, <1>6, <1>7

LEMMA UndoDnsStep ==
  ASSUME IInv, NEW j \in Job, UndoDns(j)
  PROVE  IInv'
<1> USE DEF UndoDns, Undone, ChildUnchanged
<1>1. TypeOK'
  OBVIOUS
<1>2. RowForm'
  BY DEF RowForm
<1>3. RunForm'
  BY DEF RowForm, RunForm, RecordForm, ParentForm, UpFailed
<1>4. RecordForm' /\ ParentForm'
  BY DEF RowForm, RecordForm, ParentForm, UpFailed
<1>5. MoveForm'
  BY DEF RowForm, RunForm, RecordForm, ParentForm, MoveForm
<1>6. UndoForm'
  BY DEF RowForm, RunForm, RecordForm, ParentForm, UndoForm, UndoRuns
<1>7. DualForm'
  BY DEF RowForm, RunForm, RecordForm, ParentForm, MoveForm, UndoForm, DualForm, UndoRuns, StartedBack, NoDualRun, UpFailed
<1> QED BY <1>1, <1>2, <1>3, <1>4, <1>5, <1>6, <1>7

LEMMA UndoBackStep ==
  ASSUME IInv, NEW j \in Job, UndoBack(j)
  PROVE  IInv'
<1> USE DEF UndoBack, UndoFails, ChildUnchanged
<1>1. TypeOK'
  OBVIOUS
<1>2. RowForm'
  BY DEF RowForm
<1>3. RunForm'
  BY DEF RowForm, RunForm, RecordForm, ParentForm, UpFailed
<1>4. RecordForm' /\ ParentForm'
  BY DEF RowForm, RecordForm, ParentForm, UpFailed
<1>5. MoveForm'
  BY DEF RowForm, RunForm, RecordForm, ParentForm, MoveForm
<1>6. UndoForm'
  BY DEF RowForm, RunForm, RecordForm, ParentForm, UndoForm, UndoRuns
<1>7. DualForm'
  BY DEF RowForm, RunForm, RecordForm, ParentForm, MoveForm, UndoForm, DualForm, UndoRuns, StartedBack, NoDualRun, UpFailed
<1> QED BY <1>1, <1>2, <1>3, <1>4, <1>5, <1>6, <1>7

LEMMA UndoRebindStep ==
  ASSUME IInv, NEW j \in Job, UndoRebind(j) \/ UndoCerts(j)
  PROVE  IInv'
<1> USE DEF UndoRebind, UndoCerts, Undone, ChildUnchanged
<1>1. TypeOK'
  OBVIOUS
<1>2. RowForm'
  BY DEF RowForm
<1>3. RunForm'
  BY DEF RowForm, RunForm, RecordForm, ParentForm, UpFailed
<1>4. RecordForm' /\ ParentForm'
  BY DEF RowForm, RecordForm, ParentForm, UpFailed
<1>5. MoveForm'
  BY DEF RowForm, RunForm, RecordForm, ParentForm, MoveForm
<1>6. UndoForm'
  BY DEF RowForm, RunForm, RecordForm, ParentForm, UndoForm, UndoRuns
<1>7. DualForm'
  BY DEF RowForm, RunForm, RecordForm, ParentForm, MoveForm, UndoForm, DualForm, UndoRuns, StartedBack, NoDualRun, UpFailed
<1> QED BY <1>1, <1>2, <1>3, <1>4, <1>5, <1>6, <1>7

LEMMA UndoStartStep ==
  ASSUME IInv, NEW j \in Job, UndoStart(j)
  PROVE  IInv'
<1> USE DEF UndoStart, UndoFails, ChildUnchanged
<1>1. TypeOK'
  OBVIOUS
<1>2. RowForm'
  BY DEF RowForm
<1>3. RunForm'
  BY DEF RowForm, RunForm, RecordForm, ParentForm, UpFailed
<1>4. RecordForm' /\ ParentForm'
  BY DEF RowForm, RecordForm, ParentForm, UpFailed
<1>5. MoveForm'
  BY DEF RowForm, RunForm, RecordForm, ParentForm, MoveForm
<1>6. UndoForm'
  BY DEF RowForm, RunForm, RecordForm, ParentForm, UndoForm, UndoRuns
<1>7. DualForm'
  BY DEF RowForm, RunForm, RecordForm, ParentForm, MoveForm, UndoForm, DualForm, UndoRuns, StartedBack, NoDualRun, UpFailed
<1> QED BY <1>1, <1>2, <1>3, <1>4, <1>5, <1>6, <1>7

LEMMA StoreStepsStep ==
  ASSUME IInv, NEW j \in Job, StoreSteps(j)
  PROVE  IInv'
<1> USE DEF StoreSteps, ChildUnchanged
<1>1. TypeOK'
  OBVIOUS
<1>2. RowForm'
  BY DEF RowForm, ParentForm
<1>3. RunForm'
  BY DEF RowForm, RunForm, RecordForm, ParentForm, UpFailed
<1>4. RecordForm' /\ ParentForm'
  BY DEF RowForm, RecordForm, ParentForm, UpFailed
<1>5. MoveForm'
  BY DEF RowForm, RunForm, RecordForm, ParentForm, MoveForm
<1>6. UndoForm'
  BY DEF RowForm, RunForm, RecordForm, ParentForm, UndoForm, UndoRuns
<1>7. DualForm'
  BY DEF RowForm, RunForm, RecordForm, ParentForm, MoveForm, UndoForm, DualForm, UndoRuns, StartedBack, NoDualRun, UpFailed
<1> QED BY <1>1, <1>2, <1>3, <1>4, <1>5, <1>6, <1>7

LEMMA RecoverStopStep ==
  ASSUME IInv, NEW j \in Job, RecoverStop(j)
  PROVE  IInv'
<1> USE DEF RecoverStop, ChildUnchanged
<1>1. TypeOK'
  OBVIOUS
<1>2. RowForm'
  BY DEF RowForm
<1>3. RunForm'
  BY DEF RowForm, RunForm, RecordForm, ParentForm, UpFailed
<1>4. RecordForm' /\ ParentForm'
  BY DEF RowForm, RecordForm, ParentForm, UpFailed
<1>5. MoveForm'
  BY DEF RowForm, RunForm, RecordForm, ParentForm, MoveForm
<1>6. UndoForm'
  BY DEF RowForm, RunForm, RecordForm, ParentForm, UndoForm, UndoRuns
<1>7. DualForm'
  BY DEF RowForm, RunForm, RecordForm, ParentForm, MoveForm, UndoForm, DualForm, UndoRuns, StartedBack, NoDualRun, UpFailed
<1> QED BY <1>1, <1>2, <1>3, <1>4, <1>5, <1>6, <1>7

LEMMA RecoverStartStep ==
  ASSUME IInv, NEW j \in Job, RecoverStart(j)
  PROVE  IInv'
<1> USE DEF RecoverStart, ChildUnchanged
<1>1. TypeOK'
  OBVIOUS
<1>2. RowForm'
  BY DEF RowForm
<1>3. RunForm'
  BY DEF RowForm, RunForm, RecordForm, ParentForm, UpFailed
<1>4. RecordForm' /\ ParentForm'
  BY DEF RowForm, RecordForm, ParentForm, UpFailed
<1>5. MoveForm'
  BY DEF RowForm, RunForm, RecordForm, ParentForm, MoveForm
<1>6. UndoForm'
  BY DEF RowForm, RunForm, RecordForm, ParentForm, UndoForm, UndoRuns
<1>7. DualForm'
  BY DEF RowForm, RunForm, RecordForm, ParentForm, MoveForm, UndoForm, DualForm, UndoRuns, StartedBack, NoDualRun, UpFailed
<1> QED BY <1>1, <1>2, <1>3, <1>4, <1>5, <1>6, <1>7

LEMMA StartStackStep ==
  ASSUME IInv, NEW j \in Job, StartStack(j)
  PROVE  IInv'
<1> USE DEF StartStack, ChildUnchanged
<1>1. TypeOK'
  OBVIOUS
<1>2. RowForm'
  BY DEF RowForm
<1>3. RunForm'
  BY DEF RowForm, RunForm, RecordForm, ParentForm, UpFailed
<1>4. RecordForm' /\ ParentForm'
  BY DEF RowForm, RecordForm, ParentForm, UpFailed
<1>5. MoveForm'
  BY DEF RowForm, RunForm, RecordForm, ParentForm, MoveForm
<1>6. UndoForm'
  BY DEF RowForm, RunForm, RecordForm, ParentForm, UndoForm, UndoRuns
<1>7. DualForm'
  BY DEF RowForm, RunForm, RecordForm, ParentForm, MoveForm, UndoForm, DualForm, UndoRuns, StartedBack, NoDualRun, UpFailed
<1> QED BY <1>1, <1>2, <1>3, <1>4, <1>5, <1>6, <1>7

LEMMA DeathStep ==
  ASSUME IInv, NEW j \in Job, WorkerDies(j)
  PROVE  IInv'
<1> USE DEF WorkerDies
<1>1. TypeOK'
  OBVIOUS
<1>2. RowForm'
  BY DEF RowForm
<1>3. RunForm'
  BY DEF RowForm, RunForm, RecordForm, ParentForm, UpFailed
<1>4. RecordForm' /\ ParentForm'
  BY DEF RowForm, RecordForm, ParentForm, UpFailed
<1>5. MoveForm'
  BY DEF RowForm, RunForm, RecordForm, ParentForm, MoveForm
<1>6. UndoForm'
  BY DEF RowForm, RunForm, RecordForm, ParentForm, UndoForm, UndoRuns
<1>7. DualForm'
  BY DEF RowForm, RunForm, RecordForm, ParentForm, MoveForm, UndoForm, DualForm, UndoRuns, StartedBack, NoDualRun, UpFailed
<1> QED BY <1>1, <1>2, <1>3, <1>4, <1>5, <1>6, <1>7

LEMMA LeaseStep ==
  ASSUME IInv, LeaseExpires
  PROVE  IInv'
<1> USE DEF LeaseExpires
<1>1. TypeOK'
  OBVIOUS
<1>2. RowForm'
  BY DEF RowForm
<1>3. RunForm'
  BY DEF RowForm, RunForm, RecordForm, ParentForm, UpFailed
<1>4. RecordForm' /\ ParentForm'
  BY DEF RowForm, RecordForm, ParentForm, UpFailed
<1>5. MoveForm'
  BY DEF RowForm, RunForm, RecordForm, ParentForm, MoveForm
<1>6. UndoForm'
  BY DEF RowForm, RunForm, RecordForm, ParentForm, UndoForm, UndoRuns
<1>7. DualForm'
  BY DEF RowForm, RunForm, RecordForm, ParentForm, MoveForm, UndoForm, DualForm, UndoRuns, StartedBack, NoDualRun, UpFailed
<1> QED BY <1>1, <1>2, <1>3, <1>4, <1>5, <1>6, <1>7

LEMMA SettleStep ==
  ASSUME IInv, NEW j \in Job, NEW s \in {"failed", "cancelled"}, SettleRow(j, s)
  PROVE  IInv'
<1> USE DEF SettleRow
<1>1. TypeOK'
  OBVIOUS
<1>2. RowForm'
  BY DEF RowForm
<1>3. RunForm'
  BY DEF RowForm, RunForm, RecordForm, ParentForm, UpFailed
<1>4. RecordForm' /\ ParentForm'
  BY DEF RowForm, RecordForm, ParentForm, UpFailed
<1>5. MoveForm'
  BY DEF RowForm, RunForm, RecordForm, ParentForm, MoveForm
<1>6. UndoForm'
  BY DEF RowForm, RunForm, RecordForm, ParentForm, UndoForm, UndoRuns
<1>7. DualForm'
  BY DEF RowForm, RunForm, RecordForm, ParentForm, MoveForm, UndoForm, DualForm, UndoRuns, StartedBack, NoDualRun, UpFailed
<1> QED BY <1>1, <1>2, <1>3, <1>4, <1>5, <1>6, <1>7

LEMMA InitialStates == Init => IInv
  BY DEF Init, UpFailed, StartedBack, RowForm, RunForm, RecordForm, ParentForm, MoveForm, UndoForm, DualForm, UndoRuns,
     NoDualRun

LEMMA Stutter == IInv /\ UNCHANGED vars => IInv'
<1> SUFFICES ASSUME IInv, UNCHANGED vars PROVE IInv'
  OBVIOUS
<1> USE DEF vars
<1>1. TypeOK' /\ RowForm'
  BY DEF RowForm
<1>2. RunForm' /\ RecordForm' /\ ParentForm'
  BY DEF RunForm, RecordForm, ParentForm, UpFailed
<1>3. MoveForm' /\ UndoForm'
  BY DEF MoveForm, UndoForm, UndoRuns
<1>4. DualForm'
  BY DEF DualForm, UndoRuns, StartedBack, NoDualRun, UpFailed
<1> QED BY <1>1, <1>2, <1>3, <1>4

\* From here on the invariant is a name.
HIDE DEF IInv, TypeOK

LEMMA EveryStep == IInv /\ [Next]_vars => IInv'
<1> SUFFICES ASSUME IInv, [Next]_vars PROVE IInv'
  OBVIOUS
<1>1. CASE UNCHANGED vars
  BY <1>1, Stutter
<1>2. CASE LeaseExpires
  BY <1>2, LeaseStep
<1>3. ASSUME NEW j \in Job, Request(j) PROVE IInv'
  BY <1>3, MoveRequest, ChildRequest DEF Request
<1>4. ASSUME NEW j \in Job, Deliver(j) PROVE IInv'
  BY <1>4, SkipStep, TakeStep, BeginStep, RedeliverStep DEF Deliver
<1>5. ASSUME NEW j \in Job, MoveStepDone(j) PROVE IInv'
  BY <1>5, PreflightStep, StopStep, CopyStep, UpStep, CutoverStep, RebindStep, LeftoverStep,
     OfferStep DEF MoveStepDone
<1>6. ASSUME NEW j \in Job, ChildStepDone(j) PROVE IInv'
  BY <1>6, SkipDoneStep, UndoStopStep, UndoDnsStep, UndoBackStep, UndoRebindStep, UndoStartStep,
     StoreStepsStep, RecoverStopStep, RecoverStartStep, StartStackStep DEF ChildStepDone
<1>7. ASSUME NEW j \in Job, Close(j) PROVE IInv'
  BY <1>7, CloseStep
<1>8. ASSUME NEW j \in Job, WorkerDies(j) PROVE IInv'
  BY <1>8, DeathStep
<1>9. ASSUME NEW j \in Job, NEW s \in {"failed", "cancelled"}, SettleRow(j, s) PROVE IInv'
  BY <1>9, SettleStep
<1> QED BY <1>1, <1>2, <1>3, <1>4, <1>5, <1>6, <1>7, <1>8, <1>9 DEF Next

LEMMA Invariance == Spec => []IInv
  BY InitialStates, EveryStep, PTL DEF Spec
------------------------------------------------------------------------------
\* Every state keeps its types.
THEOREM MoveTypeCorrect == Spec => []TypeOK
<1>1. IInv => TypeOK
  BY DEF IInv
<1> QED BY <1>1, Invariance, PTL

\* A Move copies a stopped project over a stopped one, whatever died before and however
\* many jobs there were.
THEOREM CopiesAreStopFirst == Spec => []StopFirst
<1>1. IInv => StopFirst
  <2> SUFFICES ASSUME IInv, NEW j \in Job, pc[j] = "copy"
               PROVE  \/ src \in {"down", "gone"} /\ (dst = "down" \/ j \in blind)
                      \/ StrayStart
    BY DEF StopFirst
  <2>1. kind[j] = "move" /\ step[j] = "copy" /\ Runs(j)
    BY DEF IInv, TypeOK, RowForm, RecordForm
  <2> QED BY <2>1 DEF IInv, TypeOK, MoveForm
<1> QED BY <1>1, Invariance, PTL

\* The project never runs on both hosts but for the causes that NoDualRun names.
THEOREM NeverRunsTwice == Spec => []NoDualRun
<1>1. IInv => NoDualRun
  BY DEF IInv, DualForm
<1> QED BY <1>1, Invariance, PTL

\* A Move that offers its undo has a source the undo can start.
THEOREM UndoCanStart == Spec => []UndoHasSource
<1>1. IInv => UndoHasSource
  BY DEF IInv, TypeOK, UndoHasSource, Shown, EligibleUndo, RowForm, RecordForm, MoveForm, UpFailed
<1> QED BY <1>1, Invariance, PTL

\* Only Close turns a row green, and only one whose task came to the end of its steps.
LEMMA GreenAtTheEnd ==
  ASSUME IInv, Next, NEW j \in Job, kind[j] \in {"move", "undo"},
         status[j] # "success", status'[j] = "success"
  PROVE  pc[j] = "done"
<1> USE DEF IInv, TypeOK
<1>1. CASE LeaseExpires
  BY <1>1 DEF LeaseExpires
<1>2. ASSUME NEW i \in Job, Request(i) PROVE pc[j] = "done"
  BY <1>2 DEF Request, RequestMove, RequestUndo, RequestRecover, RequestStart, Queue
<1>3. ASSUME NEW i \in Job, Deliver(i) PROVE pc[j] = "done"
  BY <1>3 DEF Deliver, Skip, Take, Begin, GiveUp, Redelivered
<1>4. ASSUME NEW i \in Job, MoveStepDone(i) PROVE pc[j] = "done"
  BY <1>4 DEF MoveStepDone, Preflight, PreflightBlind, StopSource, Copy, DestUp, Cutover, Rebind,
     Validate, Leftover, StoreOffer, Enter, Raise
<1>5. ASSUME NEW i \in Job, ChildStepDone(i) PROVE pc[j] = "done"
  BY <1>5 DEF ChildStepDone, ChildUnchanged, SkipDone, UndoStop, UndoDns, UndoBack, UndoRebind,
     UndoCerts, UndoStart, StoreSteps, RecoverStop, RecoverStart, StartStack
<1>6. ASSUME NEW i \in Job, Close(i) PROVE pc[j] = "done"
  BY <1>6 DEF Close
<1>7. ASSUME NEW i \in Job, WorkerDies(i) PROVE pc[j] = "done"
  BY <1>7 DEF WorkerDies
<1>8. ASSUME NEW i \in Job, NEW s \in {"failed", "cancelled"}, SettleRow(i, s)
      PROVE  pc[j] = "done"
  BY <1>8 DEF SettleRow
<1> QED BY <1>1, <1>2, <1>3, <1>4, <1>5, <1>6, <1>7, <1>8 DEF Next

\* A green Move has moved containers, names and rows.
THEOREM MovesFinishWhole == Spec => GreenMeansMoved
<1> DEFINE Moved == [\A m \in Job :
                       kind[m] = "move" /\ status[m] # "success" /\ status'[m] = "success" =>
                         \/ (src \in {"down", "gone"} /\ dst = "up" /\ names = "dst" /\ rows = "dst")
                         \/ StrayStart]_vars
<1>1. IInv /\ [Next]_vars => Moved
  <2> SUFFICES ASSUME IInv, Next, NEW m \in Job,
                      kind[m] = "move", status[m] # "success", status'[m] = "success"
               PROVE  \/ (src \in {"down", "gone"} /\ dst = "up" /\ names = "dst" /\ rows = "dst")
                      \/ StrayStart
    OBVIOUS
  <2> QED BY GreenAtTheEnd DEF IInv, TypeOK, MoveForm
<1> QED BY <1>1, Invariance, PTL DEF Spec, GreenMeansMoved

\* A green undo has brought names and rows back, over however many jobs.
THEOREM UndosFinishWhole == Spec => UndoneMeansBack
<1> DEFINE Back == [\A j \in Job :
                      kind[j] = "undo" /\ status[j] # "success" /\ status'[j] = "success" =>
                        names = "src" /\ rows = "src" /\ (src = "up" \/ StrayStart)]_vars
<1>1. IInv /\ [Next]_vars => Back
  <2> SUFFICES ASSUME IInv, Next, NEW j \in Job,
                      kind[j] = "undo", status[j] # "success", status'[j] = "success"
               PROVE  names = "src" /\ rows = "src" /\ (src = "up" \/ StrayStart)
    OBVIOUS
  <2>1. pc[j] = "done"
    BY GreenAtTheEnd
  <2> QED BY <2>1 DEF IInv, TypeOK, UndoForm
<1> QED BY <1>1, Invariance, PTL DEF Spec, UndoneMeansBack
------------------------------------------------------------------------------
(***************************************************************************)
(* Moves as holders of their pair of hosts: the jobs that run under the    *)
(* locks are the holders of HostMutex, with the broker taken to answer.    *)
(* The pair counts as one host, since both locks are taken in one step of  *)
(* the model.  Take is a Take, the end of a task or its death a Drop;      *)
(* every other step stutters, Start source and the lease of a dead job     *)
(* included.                                                               *)
(***************************************************************************)
LockedPair == [h \in {"pair"} |-> {j \in Job : Locked(j)}]

PairLock == INSTANCE HostMutex WITH
  Worker <- Job, Host <- {"pair"}, holders <- LockedPair, degraded <- FALSE

\* A step is one of job j: what others hold stays, and j gets the locks only when free.
HoldsAlone(j) ==
  /\ \A i \in Job \ {j} : Locked(i)' <=> Locked(i)
  /\ Locked(j)' /\ ~Locked(j) => holder = NoJob

\* A task that moves on, settles or dies: its kind stays and it does not begin.
LEMMA TaskHolds ==
  ASSUME TypeOK, NEW j \in Job, UNCHANGED kind,
         \E p \in Working \union {"queued", "over"} :
           pc' = [pc EXCEPT ![j] = p] /\ (p \in Working => Runs(j))
  PROVE  HoldsAlone(j)
<1> PICK p \in Working \union {"queued", "over"} :
      pc' = [pc EXCEPT ![j] = p] /\ (p \in Working => Runs(j))
  OBVIOUS
<1>1. \A i \in Job \ {j} : pc'[i] = pc[i]
  BY DEF TypeOK
<1>2. pc'[j] = p
  BY DEF TypeOK
<1>3. \A i \in Job \ {j} : Locked(i)' <=> Locked(i)
  BY <1>1 DEF Locked, Runs
<1>4. Locked(j)' => Locked(j)
  BY <1>2 DEF Locked, Runs
<1> QED BY <1>3, <1>4 DEF HoldsAlone

LEMMA QueueHolds ==
  ASSUME TypeOK, NEW j \in Job, NEW k, NEW m, Queue(j, k, m)
  PROVE  HoldsAlone(j)
<1>1. \A i \in Job \ {j} : pc'[i] = pc[i] /\ kind'[i] = kind[i]
  BY DEF TypeOK, Queue
<1>2. ~Runs(j)'
  BY DEF TypeOK, Queue, Runs, Working, MoveStep, ChildStep
<1>3. \A i \in Job \ {j} : Locked(i)' <=> Locked(i)
  BY <1>1 DEF Locked, Runs
<1> QED BY <1>2, <1>3 DEF HoldsAlone, Locked

LEMMA TakeHolds ==
  ASSUME TypeOK, NEW j \in Job, Take(j)
  PROVE  HoldsAlone(j)
<1>1. \A i \in Job \ {j} : pc'[i] = pc[i] /\ kind' = kind
  BY DEF TypeOK, Take, Goto, requests
<1>2. Locked(j)' => holder = NoJob
  BY <1>1 DEF Take, Locked
<1>3. \A i \in Job \ {j} : Locked(i)' <=> Locked(i)
  BY <1>1 DEF Locked, Runs
<1> QED BY <1>2, <1>3 DEF HoldsAlone

\* A step of a Move, or of what it offers, leaves the row to the end of the task.
LEMMA MoveGoesOn ==
  ASSUME NEW j \in Job, MoveStepDone(j)
  PROVE  UNCHANGED <<kind, status>> /\ Runs(j) /\ \E p \in Working : pc' = [pc EXCEPT ![j] = p]
<1>1. UNCHANGED <<kind, status>>
  BY DEF MoveStepDone, Preflight, PreflightBlind, StopSource, Copy, DestUp, Cutover, Rebind,
         Validate, Leftover, StoreOffer, Enter, Raise, requests
<1>2. Runs(j)
  BY DEF MoveStepDone, Preflight, PreflightBlind, StopSource, Copy, DestUp, Cutover, Rebind,
         Validate, Leftover, StoreOffer, Runs, Working, MoveStep
<1>3. \E p \in Working : pc' = [pc EXCEPT ![j] = p]
  BY DEF MoveStepDone, Preflight, PreflightBlind, StopSource, Copy, DestUp, Cutover, Rebind,
         Validate, Leftover, StoreOffer, Enter, Raise, Goto, Working, MoveStep
<1> QED BY <1>1, <1>2, <1>3

LEMMA ChildGoesOn ==
  ASSUME NEW j \in Job, ChildStepDone(j)
  PROVE  UNCHANGED <<kind, status>> /\ Runs(j) /\ \E p \in Working : pc' = [pc EXCEPT ![j] = p]
<1>1. UNCHANGED <<kind, status>>
  BY DEF ChildStepDone, SkipDone, UndoStop, UndoDns, UndoBack, UndoRebind, UndoCerts, UndoStart,
         StoreSteps, RecoverStop, RecoverStart, StartStack, ChildUnchanged, requests
<1>2. Runs(j)
  BY DEF ChildStepDone, SkipDone, UndoStop, UndoDns, UndoBack, UndoRebind, UndoCerts, UndoStart,
         StoreSteps, RecoverStop, RecoverStart, StartStack, Runs, Working, ChildStep
<1>3. \E p \in Working : pc' = [pc EXCEPT ![j] = p]
  BY DEF ChildStepDone, SkipDone, UndoStop, UndoDns, UndoBack, UndoRebind, UndoCerts, UndoStart,
         StoreSteps, RecoverStop, RecoverStart, StartStack, UndoFails, Undone, Goto, Working, ChildStep
<1> QED BY <1>1, <1>2, <1>3

LEMMA OneJobMoves ==
  ASSUME IInv, [Next]_vars
  PROVE  \/ UNCHANGED <<kind, pc>>
         \/ \E j \in Job : HoldsAlone(j)
<1>0. TypeOK /\ RowForm
  BY DEF IInv
<1>1. CASE UNCHANGED vars \/ LeaseExpires
  BY <1>1 DEF vars, LeaseExpires, requests
<1>2. ASSUME NEW j \in Job, Request(j) PROVE HoldsAlone(j)
  BY <1>2, <1>0, QueueHolds DEF Request, RequestMove, RequestUndo, RequestRecover, RequestStart
<1>3. ASSUME NEW j \in Job, Deliver(j) PROVE HoldsAlone(j)
  <2>1. CASE Take(j)
    BY <2>1, <1>0, TakeHolds
  <2>2. CASE Skip(j) \/ GiveUp(j) \/ Redelivered(j)
    BY <2>2, <1>0, TaskHolds DEF Skip, GiveUp, Redelivered, Goto, requests, Working
  <2>3. CASE Begin(j)
    <3>1. kind[j] \in {"move", "undo", "recover", "start"} \/ kind[j] = "none"
      BY <1>0 DEF TypeOK
    <3>2. kind[j] # "none"
      BY <1>0, <2>3 DEF Begin, RowForm
    <3>3. FirstStep[kind[j]] \in Working /\ Runs(j)
      BY <2>3, <3>1, <3>2 DEF Begin, FirstStep, Runs, Working, MoveStep, ChildStep
    <3> QED BY <2>3, <3>3, <1>0, TaskHolds DEF Begin, Goto, requests
  <2> QED BY <1>3, <2>1, <2>2, <2>3 DEF Deliver
<1>4. ASSUME NEW j \in Job, MoveStepDone(j) \/ ChildStepDone(j) PROVE HoldsAlone(j)
  <2>1. UNCHANGED kind /\ Runs(j) /\ \E p \in Working : pc' = [pc EXCEPT ![j] = p]
    BY <1>4, MoveGoesOn, ChildGoesOn
  <2> QED BY <2>1, <1>0, TaskHolds
<1>6. ASSUME NEW j \in Job, Close(j) PROVE HoldsAlone(j)
  BY <1>6, <1>0, TaskHolds DEF Close, Goto, requests, Working, MoveStep, ChildStep
<1>7. ASSUME NEW j \in Job, WorkerDies(j) PROVE HoldsAlone(j)
  BY <1>7, <1>0, TaskHolds DEF WorkerDies, Goto, requests, Working, MoveStep, ChildStep
<1>8. ASSUME NEW j \in Job, NEW s \in {"failed", "cancelled"}, SettleRow(j, s) PROVE UNCHANGED <<kind, pc>>
  BY <1>8 DEF SettleRow, requests
<1> QED BY <1>1, <1>2, <1>3, <1>4, <1>6, <1>7, <1>8 DEF Next

LEMMA PairLockStep ==
  ASSUME IInv, [Next]_vars
  PROVE  [PairLock!Next]_PairLock!vars
<1>1. CASE UNCHANGED <<kind, pc>>
  BY <1>1 DEF PairLock!vars, LockedPair, Locked, Runs
<1>2. ASSUME NEW j \in Job, HoldsAlone(j)
      PROVE  [PairLock!Next]_PairLock!vars
  <2>1. \A i \in Job \ {j} : Locked(i)' <=> Locked(i)
    BY <1>2 DEF HoldsAlone
  <2>2. CASE Locked(j)' /\ ~Locked(j)
    <3>1. \A i \in Job : ~Locked(i)
      BY <1>2, <2>2, NoJobAssumption DEF IInv, RunForm, HoldsAlone
    <3>2. LockedPair["pair"] = {} /\ LockedPair' = [LockedPair EXCEPT !["pair"] = @ \union {j}]
      BY <2>1, <2>2, <3>1 DEF LockedPair
    <3>3. PairLock!Take(j, "pair")
      BY <3>2 DEF PairLock!Take
    <3> QED BY <3>3 DEF PairLock!Next
  <2>3. CASE Locked(j)' <=> Locked(j)
    BY <2>1, <2>3 DEF PairLock!vars, LockedPair
  <2>4. CASE ~Locked(j)'
    <3> DEFINE H == {"pair"}
    <3>1. LockedPair' = [h \in H |-> IF h \in H THEN LockedPair[h] \ {j} ELSE LockedPair[h]]
      BY <2>1, <2>4 DEF LockedPair
    <3>2. PairLock!Drop(j, H)
      BY <3>1 DEF PairLock!Drop
    <3> QED BY <3>2 DEF PairLock!Next
  <2> QED BY <2>2, <2>3, <2>4
<1> QED BY <1>1, <1>2, OneJobMoves

\* jobs_migrate.py takes both host locks before a step of a Move, an undo or a recover and keeps
\* them to the end of its task: such jobs get the pair of hosts only when no other works on it.
THEOREM MovesHoldPair == Spec => PairLock!Spec
<1>1. Init => PairLock!Init
  BY DEF Init, PairLock!Init, LockedPair, Locked, Runs, Working, MoveStep, ChildStep
<1> QED BY <1>1, Invariance, PairLockStep, PTL DEF Spec, PairLock!Spec
------------------------------------------------------------------------------
(***************************************************************************)
(* Moves and what they offer as rows.  A task has its row in hand from the *)
(* moment it read it as pending; the cancels of this model read and write  *)
(* in one step.                                                            *)
(***************************************************************************)
MovesOut   == {j \in Job : status[j] # "none"}
MoveInHand == [j \in Job |-> IF Runs(j) THEN j ELSE NoJob]

MoveRows == INSTANCE JobRowProofs WITH
  Row <- Job, RowWorker <- Job, NoRow <- NoJob, Reopens <- TRUE, Rewrites <- FALSE,
  row <- status, out <- MovesOut, hand <- MoveInHand, cancels <- {}

LEMMA MoveRequested ==
  ASSUME IInv, NEW j \in Job, NEW k, NEW m, Queue(j, k, m)
  PROVE  MoveRows!Enter(j)
<1>1. /\ status[j] = "none" /\ pc[j] = "none"
      /\ status \in [Job -> {"none", "pending", "running"} \union Terminal]
      /\ pc \in [Job -> Working \union {"none", "queued", "over"}]
  BY DEF Queue, IInv, TypeOK, RowForm
<1>2. status' = [status EXCEPT ![j] = "pending"] /\ pc' = [pc EXCEPT ![j] = "queued"]
  BY DEF Queue
<1>3. MovesOut' = MovesOut \union {j}
  BY <1>1, <1>2 DEF MovesOut
<1>4. MoveInHand' = MoveInHand
  BY <1>1, <1>2 DEF MoveInHand, Runs, Working, MoveStep, ChildStep
<1> QED BY <1>1, <1>2, <1>3, <1>4 DEF MoveRows!Enter

\* Somebody else settles an active row.
LEMMA MoveRowSettled ==
  ASSUME IInv, NEW j \in Job, Active(j), NEW s \in {"failed", "cancelled"},
         status' = [status EXCEPT ![j] = s], MoveInHand' = MoveInHand
  PROVE  MoveRows!RowNext
<1>1. MovesOut' = MovesOut
  BY DEF MovesOut, Active, IInv, TypeOK
<1>2. CASE s = "failed"
  <2>1. MoveRows!EndRequests({}, {j})
    BY <1>1, <1>2 DEF MoveRows!EndRequests, MoveRows!RowActive, Active, IInv, TypeOK
  <2> QED BY <2>1 DEF MoveRows!RowNext
<1>3. CASE s = "cancelled"
  <2>1. MoveRows!CancelWrite(j)
    BY <1>1, <1>3 DEF MoveRows!CancelWrite, MoveRows!RowActive, Active
  <2> QED BY <2>1 DEF MoveRows!RowNext
<1> QED BY <1>2, <1>3

LEMMA MoveRowStep ==
  ASSUME IInv, [Next]_vars
  PROVE  [MoveRows!RowNext]_MoveRows!rowVars
<1>0. /\ status \in [Job -> {"none", "pending", "running"} \union Terminal]
      /\ pc \in [Job -> Working \union {"none", "queued", "over"}]
      /\ \A j \in Job : Runs(j) => status[j] # "none"
  BY DEF IInv, TypeOK, RowForm, Runs, Working, MoveStep, ChildStep
<1>1. ASSUME NEW j \in Job, Request(j)
      PROVE  MoveRows!RowNext
  <2>1. \E k, m : Queue(j, k, m)
    BY <1>1 DEF Request, RequestMove, RequestUndo, RequestRecover, RequestStart
  <2> QED BY <2>1, MoveRequested DEF MoveRows!RowNext
<1>2. ASSUME NEW j \in Job, Skip(j)
      PROVE  UNCHANGED MoveRows!rowVars
  BY <1>0, <1>2
  DEF Skip, Goto, MoveRows!rowVars, MovesOut, MoveInHand, Runs, Working, MoveStep, ChildStep
<1>3. ASSUME NEW j \in Job, Take(j)
      PROVE  MoveRows!RowNext
  <2>1. MoveInHand[j] = NoJob /\ MoveInHand' = [MoveInHand EXCEPT ![j] = j]
    BY <1>0, <1>3 DEF Take, Goto, MoveInHand, Runs, Working, MoveStep, ChildStep
  <2>2. UNCHANGED <<status, MovesOut>> /\ status[j] = "pending" /\ j \in MovesOut
    BY <1>3 DEF Take, MovesOut
  <2>3. MoveRows!Pick(j, j)
    BY <2>1, <2>2 DEF MoveRows!Pick, MoveRows!RowActive
  <2> QED BY <2>3 DEF MoveRows!RowNext
<1>4. ASSUME NEW j \in Job, GiveUp(j) \/ Redelivered(j)
      PROVE  MoveRows!RowNext
  <2>1. Active(j) /\ status' = [status EXCEPT ![j] = "failed"]
    BY <1>4 DEF GiveUp, Redelivered, Active
  <2>2. MoveInHand' = MoveInHand
    BY <1>0, <1>4 DEF GiveUp, Redelivered, Goto, MoveInHand, Runs, Working, MoveStep, ChildStep
  <2> QED BY <2>1, <2>2, MoveRowSettled
<1>5. ASSUME NEW j \in Job, Runs(j)
      PROVE  MoveInHand[j] = j /\ j # NoJob /\ status[j] # "none"
  BY <1>0, <1>5, NoJobAssumption DEF MoveInHand
<1>6. ASSUME NEW j \in Job, Runs(j), \E p \in Working : pc' = [pc EXCEPT ![j] = p]
      PROVE  MoveInHand' = MoveInHand
  BY <1>0, <1>6 DEF MoveInHand, Runs
<1>7. ASSUME NEW j \in Job, Begin(j)
      PROVE  MoveRows!RowNext
  <2>1. kind[j] \in {"move", "undo", "recover", "start"}
    BY <1>7 DEF Begin, IInv, TypeOK, RowForm
  <2>2. Runs(j) /\ FirstStep[kind[j]] \in Working
    BY <1>7, <2>1 DEF Begin, FirstStep, Runs, Working, MoveStep, ChildStep
  <2>3. MoveInHand' = MoveInHand /\ status' = [status EXCEPT ![j] = "running"]
    BY <1>6, <1>7, <2>2 DEF Begin, Goto
  <2>4. MovesOut' = MovesOut
    BY <1>0, <1>5, <2>2, <2>3 DEF MovesOut
  <2>5. MoveRows!Write(j, "running")
    BY <1>5, <2>2, <2>3, <2>4 DEF MoveRows!Write, MoveRows!MayWrite
  <2> QED BY <2>5 DEF MoveRows!RowNext
<1>8. ASSUME NEW j \in Job, MoveStepDone(j) \/ ChildStepDone(j)
      PROVE  UNCHANGED MoveRows!rowVars
  <2>1. UNCHANGED status /\ MoveInHand' = MoveInHand
    BY <1>6, <1>8, MoveGoesOn, ChildGoesOn
  <2> QED BY <2>1 DEF MoveRows!rowVars, MovesOut
<1>9. ASSUME NEW j \in Job, Runs(j), NEW p \in {"queued", "over"}, pc' = [pc EXCEPT ![j] = p]
      PROVE  MoveInHand' = [MoveInHand EXCEPT ![j] = NoJob]
  BY <1>0, <1>9 DEF MoveInHand, Runs, Working, MoveStep, ChildStep
<1>10. ASSUME NEW j \in Job, Close(j)
       PROVE  MoveRows!RowNext
  <2>1. Runs(j) /\ MoveInHand' = [MoveInHand EXCEPT ![j] = NoJob]
    BY <1>9, <1>10 DEF Close, Goto, Runs, Working
  <2>2. CASE Settled(j)
    <3>1. status' = status
      BY <1>0, <1>10, <2>2 DEF Close
    <3>2. MoveRows!LetGo(j)
      BY <1>5, <2>1, <3>1 DEF MovesOut, MoveRows!LetGo
    <3> QED BY <3>2 DEF MoveRows!RowNext
  <2>3. CASE ~Settled(j)
    <3>1. PICK new \in {"success", "failed"} : status' = [status EXCEPT ![j] = new]
      BY <1>10, <2>3 DEF Close
    <3>2. status[j] \in {"pending", "running"} /\ MovesOut' = MovesOut
      BY <1>0, <1>5, <2>1, <2>3, <3>1 DEF Settled, Terminal, MovesOut
    <3>3. MoveRows!Write(j, new)
      BY <1>5, <2>1, <3>1, <3>2 DEF MoveRows!Write, MoveRows!MayWrite
    <3> QED BY <3>3 DEF MoveRows!RowNext
  <2> QED BY <2>2, <2>3
<1>11. ASSUME NEW j \in Job, WorkerDies(j)
       PROVE  MoveRows!RowNext
  <2>1. Runs(j) /\ UNCHANGED status /\ MoveInHand' = [MoveInHand EXCEPT ![j] = NoJob]
    BY <1>9, <1>11 DEF WorkerDies, Goto
  <2>2. MoveRows!LetGo(j)
    BY <1>5, <2>1 DEF MovesOut, MoveRows!LetGo
  <2> QED BY <2>2 DEF MoveRows!RowNext
<1>12. ASSUME NEW j \in Job, NEW s \in {"failed", "cancelled"}, SettleRow(j, s)
       PROVE  MoveRows!RowNext
  <2>1. MoveInHand' = MoveInHand
    BY <1>12 DEF SettleRow, MoveInHand, Runs
  <2> QED BY <1>12, <2>1, MoveRowSettled DEF SettleRow
<1>13. CASE UNCHANGED vars \/ LeaseExpires
  BY <1>13 DEF vars, LeaseExpires, MoveRows!rowVars, MovesOut, MoveInHand, Runs
<1> QED
  BY <1>1, <1>2, <1>3, <1>4, <1>7, <1>8, <1>10, <1>11, <1>12, <1>13 DEF Next, Deliver, MoveRows!RowNext

\* The rows of Moves, undos, recovers and Start source keep JobRow's promise: whatever died
\* or came back, a row is set running again only by the task that read it as pending, and no
\* outcome is written over another.
THEOREM MoveRowsKeepPromise == Spec => MoveRows!RowSpec
<1>1. Init => MoveRows!RowInit
  BY NoJobAssumption
  DEF Init, MoveRows!RowInit, MovesOut, MoveInHand, Runs, Working, MoveStep, ChildStep
<1> QED BY <1>1, Invariance, MoveRowStep, PTL DEF Spec, MoveRows!RowSpec

\* Once such a row is settled and its task over, no message that comes back and no sweep
\* writes it again.
THEOREM MoveRowsComeToRest == Spec => MoveRows!RestsForGood
<1>1. MoveRows!RowSpec => MoveRows!RestsForGood
  BY MoveRows!RowsComeToRest, NoJobAssumption
<1> QED BY <1>1, MoveRowsKeepPromise, PTL
==============================================================================
