------------------------------- MODULE RunLedger -------------------------------
(***************************************************************************)
(* What a run promises to those who look at it from outside: its row in    *)
(* CronExecution and the events it emits.  A run announces its start,      *)
(* opens its row once, and closes it in one step with the announcement of  *)
(* the same verdict.  Only a run that an error of the database disturbed   *)
(* may change a verdict, or announce a failure its row does not show; a    *)
(* process may end and leave its runs as they are; a job may be deleted,   *)
(* and no row of it ever comes back.                                       *)
(***************************************************************************)
CONSTANT Runs

VARIABLES
  row,        \* the status of the row of each run
  announced,  \* the events each run has emitted
  disturbed,  \* runs that had an error of the database
  over,       \* runs that have ended
  deleted     \* runs whose job is deleted

ledger == <<row, announced, disturbed, over, deleted>>

-----------------------------------------------------------------------------
Verdicts == {"SUCCESS", "FAILED"}
Nothing == <<>>
Began == <<"started">>
Told(verdict) == <<"started", verdict>>

Init == /\ row = [r \in Runs |-> "NONE"]
        /\ announced = [r \in Runs |-> Nothing]
        /\ disturbed = {} /\ over = {} /\ deleted = {}

Begin(r) ==
  /\ r \notin over /\ announced[r] = Nothing
  /\ announced' = [announced EXCEPT ![r] = Began]
  /\ UNCHANGED <<row, disturbed, over, deleted>>

SetRow(r, status) == row' = [row EXCEPT ![r] = status]

\* What a run can do to its row.
OpenRow(r) == row[r] = "NONE" /\ SetRow(r, "RUNNING")
CloseRow(r, verdict) ==
  /\ row[r] = "RUNNING" \/ (row[r] \in Verdicts /\ r \in disturbed)
  /\ SetRow(r, verdict)
WriteRow(r) ==
  /\ r \notin deleted /\ announced[r] = Began
  /\ OpenRow(r) \/ \E verdict \in Verdicts : CloseRow(r, verdict)

Open(r) ==
  /\ r \notin over \union deleted /\ announced[r] = Began
  /\ OpenRow(r)
  /\ UNCHANGED <<announced, disturbed, over, deleted>>

Close(r, verdict) ==
  /\ r \notin over \union deleted /\ announced[r] = Began
  /\ CloseRow(r, verdict)
  /\ announced' = [announced EXCEPT ![r] = Told(verdict)]
  /\ over' = over \union {r}
  /\ UNCHANGED <<disturbed, deleted>>

\* A statement of the run ends in an error, applied or not; other runs may end with it.
Disturb(r) ==
  /\ r \notin over
  /\ WriteRow(r) \/ UNCHANGED row
  /\ disturbed' = disturbed \union {r}
  /\ \E ended \in SUBSET Runs : over' = over \union ended
  /\ UNCHANGED <<announced, deleted>>

\* The run announces that it failed and leaves its row.
Abandon(r) ==
  /\ r \notin over /\ r \in disturbed /\ announced[r] = Began
  /\ announced' = [announced EXCEPT ![r] = Told("FAILED")]
  /\ \E ended \in SUBSET Runs : r \in ended /\ over' = over \union ended
  /\ UNCHANGED <<row, disturbed, deleted>>

\* The run ends without a word, alone or with its process.
Vanish(r) ==
  /\ r \notin over
  /\ WriteRow(r) \/ UNCHANGED row
  /\ \E ended \in SUBSET Runs : r \in ended /\ over' = over \union ended
  /\ UNCHANGED <<announced, disturbed, deleted>>

Delete(runs) ==
  /\ deleted' = deleted \union runs
  /\ row' = [r \in Runs |-> IF r \in runs THEN "NONE" ELSE row[r]]
  /\ UNCHANGED <<announced, disturbed, over>>

Next ==
  \/ \E r \in Runs : \/ Begin(r) \/ Open(r) \/ Disturb(r) \/ Abandon(r) \/ Vanish(r)
                     \/ \E verdict \in Verdicts : Close(r, verdict)
  \/ \E runs \in SUBSET Runs : Delete(runs)

Spec == Init /\ [][Next]_ledger

-----------------------------------------------------------------------------
\* A verdict that was announced is that of the row, unless the job was deleted or the
\* run had an error of the database; a success is that of the row even then.
Agreement ==
  \A r \in Runs, verdict \in Verdicts :
    announced[r] = Told(verdict) /\ r \notin deleted
      => row[r] = verdict \/ (verdict = "FAILED" /\ r \in disturbed)

\* The row of a run that has ended changes only when its job is deleted.
Final == [][\A r \in over : row'[r] # row[r] => r \in deleted' \ deleted]_ledger
=============================================================================
