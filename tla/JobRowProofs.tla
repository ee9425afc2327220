------------------------------ MODULE JobRowProofs ------------------------------
(***************************************************************************)
(* What every kind of job gets from keeping JobRow's promise, for any      *)
(* number of rows and workers.  Proved here once; a component that refines *)
(* JobRow takes it from here by instantiating this module.                 *)
(***************************************************************************)
EXTENDS JobRow, TLAPS

\* Who has a row in hand, or is about to cancel it, found it in and published.
RowForm ==
  /\ row \in [Row -> {"none", "pending", "running", "success", "failed", "cancelled"}]
  /\ hand \in [RowWorker -> Row \union {NoRow}]
  /\ \A r \in Row : r \in out \/ r \in cancels => row[r] # "none"
  /\ \A w \in RowWorker : hand[w] \in Row => hand[w] \in out
  /\ \A r \in Row : row[r] \in {"running", "success"} => r \in out

LEMMA RowFormInit ==
  ASSUME NoRow \notin Row, RowInit
  PROVE  RowForm
BY DEF RowInit, RowForm

LEMMA RowFormStep ==
  ASSUME NoRow \notin Row, RowForm, [RowNext]_rowVars
  PROVE  RowForm'
<1> USE DEF RowForm
<1>1. ASSUME NEW r \in Row, Enter(r) PROVE RowForm'
  BY <1>1 DEF Enter
<1>2. ASSUME NEW r \in Row, CancelRead(r) \/ CancelWrite(r) PROVE RowForm'
  BY <1>2 DEF CancelRead, CancelWrite, RowActive
<1>3. ASSUME NEW R \in SUBSET Row, NEW F \in SUBSET Row, EndRequests(R, F) PROVE RowForm'
  BY <1>3 DEF EndRequests, RowActive
<1>4. ASSUME NEW w \in RowWorker, NEW r \in Row, Pick(w, r) PROVE RowForm'
  BY <1>4 DEF Pick, RowActive
<1>5. ASSUME NEW w \in RowWorker, LetGo(w) PROVE RowForm'
  BY <1>5 DEF LetGo
<1>6. ASSUME NEW w \in RowWorker, NEW new \in {"pending", "running", "success", "failed"}, Write(w, new)
      PROVE  RowForm'
  BY <1>6 DEF Write
<1>7. CASE UNCHANGED rowVars
  BY <1>7 DEF rowVars
<1> QED BY <1>1, <1>2, <1>3, <1>4, <1>5, <1>6, <1>7 DEF RowNext

LEMMA RowRests ==
  ASSUME NoRow \notin Row, RowForm, [RowNext]_rowVars, NEW r \in Row, AtRest(r)
  PROVE  row'[r] = row[r] /\ AtRest(r)'
<1> USE DEF RowForm, AtRest
<1>1. ASSUME NEW s \in Row, Enter(s) \/ CancelRead(s) \/ CancelWrite(s)
      PROVE  row'[r] = row[r] /\ AtRest(r)'
  BY <1>1 DEF Enter, CancelRead, CancelWrite, RowActive
<1>2. ASSUME NEW R \in SUBSET Row, NEW F \in SUBSET Row, EndRequests(R, F)
      PROVE  row'[r] = row[r] /\ AtRest(r)'
  BY <1>2 DEF EndRequests, RowActive
<1>3. ASSUME NEW w \in RowWorker, NEW s \in Row, Pick(w, s)
      PROVE  row'[r] = row[r] /\ AtRest(r)'
  BY <1>3 DEF Pick, RowActive
<1>4. ASSUME NEW w \in RowWorker, NEW new \in {"pending", "running", "success", "failed"}, LetGo(w) \/ Write(w, new)
      PROVE  row'[r] = row[r] /\ AtRest(r)'
  BY <1>4 DEF LetGo, Write
<1>5. CASE UNCHANGED rowVars
  BY <1>5 DEF rowVars
<1> QED BY <1>1, <1>2, <1>3, <1>4, <1>5 DEF RowNext

LEMMA CancelStays ==
  ASSUME NoRow \notin Row, RowForm, [RowNext]_rowVars, ~Reopens, NEW r \in Row, r \in out, row[r] = "cancelled"
  PROVE  row'[r] = "cancelled"
<1> USE DEF RowForm
<1>1. ASSUME NEW s \in Row, Enter(s) \/ CancelRead(s) \/ CancelWrite(s)
      PROVE  row'[r] = "cancelled"
  BY <1>1 DEF Enter, CancelRead, CancelWrite
<1>2. ASSUME NEW R \in SUBSET Row, NEW F \in SUBSET Row, EndRequests(R, F)
      PROVE  row'[r] = "cancelled"
  BY <1>2 DEF EndRequests, RowActive
<1>3. ASSUME NEW w \in RowWorker, NEW s \in Row, Pick(w, s)
      PROVE  row'[r] = "cancelled"
  BY <1>3 DEF Pick, RowActive
<1>4. ASSUME NEW w \in RowWorker, NEW new \in {"pending", "running", "success", "failed"}, LetGo(w) \/ Write(w, new)
      PROVE  row'[r] = "cancelled"
  BY <1>4 DEF LetGo, Write, MayWrite
<1>5. CASE UNCHANGED rowVars
  BY <1>5 DEF rowVars
<1> QED BY <1>1, <1>2, <1>3, <1>4, <1>5 DEF RowNext

\* A row whose request is over, that is settled, in no worker's hands and in no cancel's, is
\* never written again: no redelivery, sweep or second worker wakes it.
THEOREM RowsComeToRest ==
  ASSUME NoRow \notin Row
  PROVE  RowSpec => RestsForGood
<1>1. RowInit => RowForm
  BY RowFormInit
<1>2. RowForm /\ [RowNext]_rowVars => RowForm'
  BY RowFormStep
<1>3. RowForm /\ [RowNext]_rowVars
        => [\A r \in Row : AtRest(r) => row'[r] = row[r] /\ AtRest(r)']_rowVars
  BY RowRests
<1> QED BY <1>1, <1>2, <1>3, PTL DEF RowSpec, RestsForGood

\* Where tasks do not reopen rows a cancel is final as soon as the request is over.
THEOREM CancelsAreFinal ==
  ASSUME NoRow \notin Row, ~Reopens
  PROVE  RowSpec => CancelsStand
<1>1. RowInit => RowForm
  BY RowFormInit
<1>2. RowForm /\ [RowNext]_rowVars => RowForm'
  BY RowFormStep
<1>3. RowForm /\ [RowNext]_rowVars
        => [\A r \in Row : r \in out /\ row[r] = "cancelled" => row'[r] = "cancelled"]_rowVars
  BY CancelStays
<1> QED BY <1>1, <1>2, <1>3, PTL DEF RowSpec, CancelsStand
==============================================================================
