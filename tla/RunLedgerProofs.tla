----------------------------- MODULE RunLedgerProofs -----------------------------
(***************************************************************************)
(* What follows from RunLedger for every set of runs, and so for every     *)
(* system that implements it.  The invariant adds to Agreement that a run  *)
(* that has told its end is over, and that a deleted run has no row: rows  *)
(* are only written by runs that are neither.                              *)
(***************************************************************************)
EXTENDS RunLedger, Sequences, TLAPS

Statuses == {"NONE", "RUNNING"} \union Verdicts
Histories == {Nothing, Began} \union {Told(verdict) : verdict \in Verdicts}

LedgerType ==
  /\ row \in [Runs -> Statuses]
  /\ announced \in [Runs -> Histories]
  /\ disturbed \subseteq Runs /\ over \subseteq Runs /\ deleted \subseteq Runs

\* A run that has told its end is over.
ToldIsOver ==
  \A r \in Runs, verdict \in Verdicts : announced[r] = Told(verdict) => r \in over

\* A run whose job is deleted has no row.
DeletedHasNoRow == \A r \in deleted : row[r] = "NONE"

Inv == LedgerType /\ ToldIsOver /\ DeletedHasNoRow /\ Agreement

\* Run r has written its row, or nothing has changed.
Written(r) ==
  /\ r \notin over \union deleted
  /\ row' \in [Runs -> Statuses] /\ \A s \in Runs \ {r} : row'[s] = row[s]

-----------------------------------------------------------------------------
\* What a run has announced tells Nothing, Began and the two ends apart.
LEMMA HistoriesDiffer ==
  /\ Nothing # Began
  /\ \A v, w \in Verdicts : /\ Told(v) # Nothing /\ Told(v) # Began
                            /\ Told(v) = Told(w) => v = w
PROOF
<1>1. Len(Nothing) = 0 /\ Len(Began) = 1  BY DEF Nothing, Began
<1>2. \A v \in Verdicts : Len(Told(v)) = 2 /\ Told(v)[2] = v  BY DEF Told
<1> QED  BY <1>1, <1>2

LEMMA InitInv == Init => Inv
PROOF
  BY HistoriesDiffer DEF Init, Inv, LedgerType, ToldIsOver, DeletedHasNoRow, Agreement,
                         Statuses, Histories

\* Opening or closing a row writes that row alone.
LEMMA WriteRowWrites ==
  ASSUME Inv, NEW r \in Runs, r \notin over, WriteRow(r)
  PROVE  Written(r)
PROOF
  BY DEF Inv, LedgerType, Statuses, Written, WriteRow, OpenRow, CloseRow, SetRow

\* A run that writes its row, before it is over, changes nothing that was told.
LEMMA WritingKeepsInv ==
  ASSUME Inv, NEW r \in Runs, Written(r) \/ UNCHANGED row,
         announced' = announced, deleted' = deleted,
         over \subseteq over', over' \subseteq Runs,
         disturbed \subseteq disturbed', disturbed' \subseteq Runs
  PROVE  Inv'
PROOF
<1>1. LedgerType'  BY DEF Inv, LedgerType, Written
<1>2. ToldIsOver'  BY DEF Inv, ToldIsOver
<1>3. DeletedHasNoRow'  BY DEF Inv, LedgerType, DeletedHasNoRow, Written
<1>4. Agreement'
  BY DEF Inv, ToldIsOver, Agreement, Written
<1> QED  BY <1>1, <1>2, <1>3, <1>4 DEF Inv

\* Every step keeps the invariant.
LEMMA NextInv == Inv /\ [Next]_ledger => Inv'
PROOF
<1> SUFFICES ASSUME Inv, [Next]_ledger PROVE Inv'
  OBVIOUS
<1> USE DEF Inv
<1>1. ASSUME NEW r \in Runs, Begin(r) PROVE Inv'
  <2>1. announced' = [announced EXCEPT ![r] = Began] /\ announced[r] = Nothing
        /\ UNCHANGED <<row, disturbed, over, deleted>>
    BY <1>1 DEF Begin
  <2>2. LedgerType' /\ DeletedHasNoRow'  BY <2>1 DEF LedgerType, Histories, DeletedHasNoRow
  <2>3. ToldIsOver' /\ Agreement'
    BY <2>1, HistoriesDiffer DEF LedgerType, ToldIsOver, Agreement
  <2> QED  BY <2>2, <2>3
<1>2. ASSUME NEW r \in Runs, Open(r) PROVE Inv'
  <2>1. Written(r)
    BY <1>2 DEF Open, OpenRow, SetRow, Written, LedgerType, Statuses
  <2> QED  BY <1>2, <2>1, WritingKeepsInv DEF Open, LedgerType
<1>3. ASSUME NEW r \in Runs, NEW verdict \in Verdicts, Close(r, verdict) PROVE Inv'
  <2>1. /\ row' = [row EXCEPT ![r] = verdict]
        /\ announced' = [announced EXCEPT ![r] = Told(verdict)]
        /\ over' = over \union {r} /\ r \notin deleted
        /\ UNCHANGED <<disturbed, deleted>>
    BY <1>3 DEF Close, CloseRow, SetRow
  <2>2. LedgerType' /\ DeletedHasNoRow'
    BY <2>1 DEF LedgerType, Histories, Statuses, DeletedHasNoRow
  <2>3. ToldIsOver'  BY <2>1 DEF LedgerType, ToldIsOver
  <2>4. Agreement'  BY <2>1, HistoriesDiffer DEF LedgerType, Agreement
  <2> QED  BY <2>2, <2>3, <2>4
<1>4. ASSUME NEW r \in Runs, Disturb(r) PROVE Inv'
  <2>1. Written(r) \/ UNCHANGED row  BY <1>4, WriteRowWrites DEF Disturb
  <2> QED  BY <1>4, <2>1, WritingKeepsInv DEF Disturb, LedgerType
<1>5. ASSUME NEW r \in Runs, Abandon(r) PROVE Inv'
  <2>1. /\ announced' = [announced EXCEPT ![r] = Told("FAILED")]
        /\ r \in over' /\ over \subseteq over' /\ over' \subseteq Runs /\ r \in disturbed
        /\ UNCHANGED <<row, disturbed, deleted>>
    BY <1>5 DEF Abandon, LedgerType
  <2>2. LedgerType' /\ DeletedHasNoRow'
    BY <2>1 DEF LedgerType, Histories, Verdicts, DeletedHasNoRow
  <2>3. ToldIsOver'  BY <2>1 DEF LedgerType, ToldIsOver
  <2>4. Agreement'  BY <2>1, HistoriesDiffer DEF LedgerType, Agreement, Verdicts
  <2> QED  BY <2>2, <2>3, <2>4
<1>6. ASSUME NEW r \in Runs, Vanish(r) PROVE Inv'
  <2>1. Written(r) \/ UNCHANGED row  BY <1>6, WriteRowWrites DEF Vanish
  <2> QED  BY <1>6, <2>1, WritingKeepsInv DEF Vanish, LedgerType
<1>7. ASSUME NEW runs \in SUBSET Runs, Delete(runs) PROVE Inv'
  <2>1. /\ deleted' = deleted \union runs
        /\ row' = [r \in Runs |-> IF r \in runs THEN "NONE" ELSE row[r]]
        /\ UNCHANGED <<announced, disturbed, over>>
    BY <1>7 DEF Delete
  <2>2. LedgerType' /\ DeletedHasNoRow'
    BY <2>1 DEF LedgerType, Statuses, DeletedHasNoRow
  <2>3. ToldIsOver' /\ Agreement'  BY <2>1 DEF ToldIsOver, Agreement
  <2> QED  BY <2>2, <2>3
<1>8. ASSUME UNCHANGED ledger PROVE Inv'
  BY <1>8 DEF ledger, LedgerType, ToldIsOver, DeletedHasNoRow, Agreement
<1> QED  BY <1>1, <1>2, <1>3, <1>4, <1>5, <1>6, <1>7, <1>8 DEF Next

LEMMA Invariance == Spec => []Inv
PROOF
<1>1. Init => Inv  BY InitInv
<1>2. Inv /\ [Next]_ledger => Inv'  BY NextInv
<1> QED  BY <1>1, <1>2, PTL DEF Spec

\* Whatever keeps the ledger shows the verdict it announces.
THEOREM LedgerAgrees == Spec => []Agreement
PROOF
<1>1. Inv => Agreement  BY DEF Inv
<1> QED  BY <1>1, Invariance, PTL

\* In the ledger the row of a run that is over is left alone until it is deleted.
LEMMA FinalStep ==
  ASSUME Inv, [Next]_ledger, NEW r \in over, row'[r] # row[r]
  PROVE  r \in deleted' \ deleted
PROOF
<1> USE DEF Inv
<1>1. r \in Runs  BY DEF LedgerType
<1>2. ASSUME NEW s \in Runs, s \notin over, WriteRow(s) PROVE FALSE
  <2>1. Written(s)  BY <1>2, WriteRowWrites
  <2> QED  BY <1>1, <1>2, <2>1 DEF Written
<1>3. ASSUME NEW s \in Runs, Begin(s) \/ Abandon(s) PROVE FALSE
  BY <1>3 DEF Begin, Abandon
<1>4. ASSUME NEW s \in Runs, Disturb(s) \/ Vanish(s) PROVE FALSE
  BY <1>4, <1>2 DEF Disturb, Vanish
<1>5. ASSUME NEW s \in Runs, Open(s) \/ \E verdict \in Verdicts : Close(s, verdict)
      PROVE FALSE
  <2>1. s # r /\ \E status : row' = [row EXCEPT ![s] = status]
    BY <1>5 DEF Open, Close, OpenRow, CloseRow, SetRow
  <2> QED  BY <1>1, <2>1 DEF LedgerType
<1>6. ASSUME NEW runs \in SUBSET Runs, Delete(runs) PROVE r \in deleted' \ deleted
  <2>1. r \in runs /\ row'[r] = "NONE"  BY <1>1, <1>6 DEF Delete
  <2>2. r \notin deleted  BY <2>1 DEF DeletedHasNoRow
  <2> QED  BY <1>6, <2>1, <2>2 DEF Delete
<1>7. ~UNCHANGED ledger  BY DEF ledger
<1> QED  BY <1>3, <1>4, <1>5, <1>6, <1>7 DEF Next

\* Whatever keeps the ledger never rewrites the row of a run that has ended.
THEOREM LedgerFinal == Spec => Final
PROOF
<1>1. Inv /\ [Next]_ledger =>
        [\A r \in over : row'[r] # row[r] => r \in deleted' \ deleted]_ledger
  BY FinalStep
<1> QED  BY <1>1, Invariance, PTL DEF Spec, Final
=============================================================================
