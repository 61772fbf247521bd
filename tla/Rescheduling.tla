------------------------------ MODULE Rescheduling ------------------------------
(***************************************************************************)
(* ReschedulingService: every hour each process reads the active jobs,     *)
(* measures the last executions of each and lets five rules decide whether *)
(* its schedule is extended or the job disabled.  The row that is judged,  *)
(* the executions that are measured and the row that is written are read   *)
(* and written at three different times.                                   *)
(*                                                                         *)
(* One job: the evaluations of different jobs share nothing.  What a       *)
(* rewritten row does to the timers is the subject of JobRegistry.  Of a   *)
(* cron expression only the minute field matters: extendCronInterval       *)
(* leaves the others alone.                                                *)
(***************************************************************************)
EXTENDS Integers, Sequences, FiniteSets, FiniteSetsExt

CONSTANTS
  Processes,    \* server instances, each with its own hourly timer
  Expressions,  \* bound: the minute fields users choose
  Histories,    \* bound: executions the job may have had, oldest first
  Window,       \* executions that are measured: 100
  TimeoutMs,    \* CronJob.timeoutMs
  Times,        \* bound: what a completed execution takes, retries included
  MaxChanges,   \* bound: updates and toggles by users
  MaxRuns,      \* bound: executions beyond the history
  MaxFaults     \* bound: evaluations that end early

VARIABLES
  cronJob,        \* the row of the job, or Deleted
  cronExecution,  \* the rows of its executions, in the order of startedAt
  evaluation,     \* the evaluation of the job in each process
  changes, runs, faults,   \* how much of the bounds has been used
  chosen,         \* history: the expression the last user chose
  contested       \* history: it was chosen during an evaluation

vars == <<cronJob, cronExecution, evaluation, changes, runs, faults, chosen, contested>>
history == <<chosen, contested>>

-----------------------------------------------------------------------------
(* Minute fields, and how often they fire in an hour.                      *)

Every == [form |-> "*"]
Step(k) == [form |-> "*/k", k |-> k]
Minute(m) == [form |-> "m", minute |-> m, times |-> 1]
\* A list or a range that begins with minute m: "0,30", "5-59/10".
Several(m, times) == [form |-> "m,...", minute |-> m, times |-> times]

Hour == 60
Field == {Every} \union {Step(k) : k \in 1 .. Hour} \union {Minute(m) : m \in 0 .. 2 * Hour}
           \union {Several(m, times) : m \in 0 .. Hour - 1, times \in 1 .. Hour}

ASSUME ProcessAssumption == Processes # {}
ASSUME ExpressionAssumption == Expressions \subseteq Field
ASSUME BoundAssumption == {MaxChanges, MaxRuns, MaxFaults, TimeoutMs, Window} \subseteq Nat

\* Steps of an hour and more all fire at minute 0: they are not told apart.
Least(k) == IF k > Hour THEN Hour ELSE k

RunsPerHour(e) ==
  IF e.form = "*" THEN Hour
  ELSE IF e.form = "*/k" THEN (Hour - 1) \div e.k + 1
  ELSE e.times

\* validate: any step is accepted, a minute only within the hour.
Valid(e) == e.form = "m" => e.minute < Hour

\* The factors of rules 2, 3 and 4, as fractions.
Factor == [backoff |-> <<2, 1>>, reduce |-> <<3, 2>>, distribute |-> <<6, 5>>]
AtLeast1(n) == IF n < 1 THEN 1 ELSE n

\* Mutant: the interval is divided by the factor.
ScaledDown(n, factor) == AtLeast1((n * factor[2]) \div factor[1])

Scaled(n, factor) == AtLeast1((n * factor[1]) \div factor[2])

\* Mutant: a step is taken for a wildcard.
ExtendedPlain(e, factor) ==
  IF e.form \in {"*", "*/k"} THEN e ELSE Minute(Scaled(e.minute, factor))

\* extendCronInterval multiplies the step, or the number the field begins with; a
\* wildcard stays as it is.
Extended(e, factor) ==
  IF e.form = "*" THEN e
  ELSE IF e.form = "*/k" THEN Step(Least(Scaled(e.k, factor)))
  ELSE Minute(Scaled(e.minute, factor))

-----------------------------------------------------------------------------
(* calculateMetrics and the rules.                                         *)

Terminal == {"SUCCESS", "FAILED"}
Running == [status |-> "RUNNING", executionTimeMs |-> 0]
Completed == [status : Terminal, executionTimeMs : Times]
ASSUME HistoryAssumption == Times \subseteq Nat /\ Histories \subseteq Seq(Completed)

\* The last n executions.
Latest(executions, n) ==
  {i \in DOMAIN executions : i > Len(executions) - n}

\* Executions that are still running have no time, and are not averaged.
Timed(executions) ==
  {i \in Latest(executions, Window) : executions[i].executionTimeMs > 0}

TotalTime(executions) ==
  LET Time(i) == executions[i].executionTimeMs
      Taken(time) == time * Cardinality({i \in Timed(executions) : Time(i) = time})
  IN  MapThenSumSet(Taken, {Time(i) : i \in Timed(executions)})

\* Mutant: whatever did not succeed counts as a failure.
MetricsOfUnsuccessful(executions) ==
  LET all == Latest(executions, Window)
      recent == Latest(executions, 10)
      With(S, status) == Cardinality({i \in S : executions[i].status = status})
      Time(i) == executions[i].executionTimeMs
  IN [total |-> Cardinality(all),
      successful |-> With(all, "SUCCESS"),
      failed |-> With(all, "FAILED"),
      recentFailures |-> Cardinality(recent) - With(recent, "SUCCESS"),
      recentTimeouts |-> Cardinality({i \in recent : Time(i) > 0 /\ Time(i) >= TimeoutMs}),
      isSlow |-> 10 * TotalTime(executions) > 8 * TimeoutMs * Cardinality(Timed(executions))]

Metrics(executions) ==
  LET all == Latest(executions, Window)
      recent == Latest(executions, 10)
      With(S, status) == Cardinality({i \in S : executions[i].status = status})
      Time(i) == executions[i].executionTimeMs
  IN [total |-> Cardinality(all),
      successful |-> With(all, "SUCCESS"),
      failed |-> With(all, "FAILED"),
      recentFailures |-> With(recent, "FAILED"),
      recentTimeouts |-> Cardinality({i \in recent : Time(i) > 0 /\ Time(i) >= TimeoutMs}),
      isSlow |-> 10 * TotalTime(executions) > 8 * TimeoutMs * Cardinality(Timed(executions))]

Null == [form |-> "null"]
Off == [form |-> "off"]

\* The five rules, in order of priority.
Condition(rule, m) ==
  \/ rule = 1 /\ 100 * m.successful >= 95 * m.total /\ m.total >= 20
  \/ rule = 2 /\ 2 * m.failed > m.total /\ m.total >= 10
  \/ rule = 3 /\ m.recentTimeouts >= 3 /\ m.total >= 10
  \/ rule = 4 /\ m.isSlow /\ m.total >= 10
  \/ rule = 5 /\ m.recentFailures >= 3

Action(rule, e) ==
  <<Null, Extended(e, Factor.backoff), Extended(e, Factor.reduce),
    Extended(e, Factor.distribute), Off>>[rule]

\* evaluateRules: the first rule that applies and does not return null.
Verdict(e, m) ==
  LET telling == {rule \in 1 .. 5 : Condition(rule, m) /\ Action(rule, e) # Null}
  IN  IF telling = {} THEN Null
      ELSE Action(CHOOSE rule \in telling : \A other \in telling : rule <= other, e)

-----------------------------------------------------------------------------
Deleted == [isActive |-> FALSE, cronExpression |-> Null]
Exists == cronJob # Deleted
NoMetrics == Metrics(<<>>)
Resting == [pc |-> "resting", judged |-> Null, verdict |-> Null, metrics |-> NoMetrics]

At(p, point) == evaluation[p].pc = point
Quiet == \A p \in Processes : At(p, "resting")

Init ==
  /\ \E e \in Expressions : /\ Valid(e) /\ chosen = e
                            /\ cronJob = [isActive |-> TRUE, cronExpression |-> e]
  /\ cronExecution \in Histories
  /\ evaluation = [p \in Processes |-> Resting]
  /\ changes = 0 /\ runs = 0 /\ faults = 0
  /\ contested = FALSE

\* evaluateAndReschedule reads the active jobs.
Load(p) ==
  /\ At(p, "resting") /\ cronJob.isActive
  /\ evaluation' = [evaluation EXCEPT ![p].pc = "measuring",
                                      ![p].judged = cronJob.cronExpression]
  /\ UNCHANGED <<cronJob, cronExecution, changes, runs, faults, history>>

\* calculateMetrics reads the executions, and the rules decide on the row read before.
Measure(p) ==
  /\ At(p, "measuring")
  /\ \E metrics \in {Metrics(cronExecution)}, judged \in {evaluation[p].judged} :
       \E verdict \in {Verdict(judged, metrics)} :
         evaluation' = [evaluation EXCEPT ![p] =
           IF verdict \in {Null, judged} THEN Resting
           ELSE [pc |-> IF verdict = Off THEN "disabling" ELSE "applying",
                 judged |-> judged, verdict |-> verdict, metrics |-> metrics]]
  /\ UNCHANGED <<cronJob, cronExecution, changes, runs, faults, history>>

Rest(p) == evaluation' = [evaluation EXCEPT ![p] = Resting]

\* Mutant: the expression is written without validation.
ApplyUnchecked(p) ==
  /\ At(p, "applying")
  /\ cronJob' = IF Exists THEN [cronJob EXCEPT !.cronExpression = evaluation[p].verdict]
                ELSE cronJob
  /\ Rest(p)
  /\ UNCHANGED <<cronExecution, changes, runs, faults, history>>

\* applyRescheduling calls update, which refuses an invalid expression and a missing
\* row, and writes the row whatever it has become since it was judged.
Apply(p) ==
  /\ At(p, "applying")
  /\ cronJob' = IF Exists /\ Valid(evaluation[p].verdict)
                THEN [cronJob EXCEPT !.cronExpression = evaluation[p].verdict]
                ELSE cronJob
  /\ Rest(p)
  /\ UNCHANGED <<cronExecution, changes, runs, faults, history>>

\* disableJob.
Disable(p) ==
  /\ At(p, "disabling")
  /\ cronJob' = [cronJob EXCEPT !.isActive = FALSE]
  /\ Rest(p)
  /\ UNCHANGED <<cronExecution, changes, runs, faults, history>>

\* A statement fails, or the process ends: the evaluation of the job is over.
GiveUp(p) ==
  /\ ~At(p, "resting") /\ faults < MaxFaults
  /\ faults' = faults + 1
  /\ Rest(p)
  /\ UNCHANGED <<cronJob, cronExecution, changes, runs, history>>

\* A user's update of the expression.
Update(e) ==
  /\ Exists /\ changes < MaxChanges /\ changes' = changes + 1
  /\ Valid(e) /\ cronJob' = [cronJob EXCEPT !.cronExpression = e]
  /\ chosen' = e /\ contested' = ~Quiet
  /\ UNCHANGED <<cronExecution, evaluation, runs, faults>>

Toggle ==
  /\ Exists /\ changes < MaxChanges /\ changes' = changes + 1
  /\ cronJob' = [cronJob EXCEPT !.isActive = ~@]
  /\ UNCHANGED <<cronExecution, evaluation, runs, faults, history>>

\* remove: the executions are deleted with the job.
Remove ==
  /\ Exists /\ changes < MaxChanges /\ changes' = changes + 1
  /\ cronJob' = Deleted /\ cronExecution' = <<>>
  /\ UNCHANGED <<evaluation, runs, faults, history>>

\* An execution starts: executeJobInternal creates its row.
Start ==
  /\ Exists /\ runs < MaxRuns /\ runs' = runs + 1
  /\ cronExecution' = Append(cronExecution, Running)
  /\ UNCHANGED <<cronJob, evaluation, changes, faults, history>>

Unfinished == {i \in DOMAIN cronExecution : cronExecution[i] = Running}

\* An execution ends; a row that is never closed stays RUNNING.
Close(i, execution) ==
  /\ cronExecution' = [cronExecution EXCEPT ![i] = execution]
  /\ UNCHANGED <<cronJob, evaluation, changes, runs, faults, history>>

Evaluate(p) == Load(p) \/ Measure(p) \/ Apply(p) \/ Disable(p)

Next ==
  \/ \E p \in Processes : Evaluate(p) \/ GiveUp(p)
  \/ \E e \in Expressions : Update(e)
  \/ Toggle \/ Remove \/ Start
  \/ \E i \in Unfinished, execution \in Completed : Close(i, execution)

Spec == Init /\ [][Next]_vars

\* The hourly timer comes again and again, and what an evaluation waits for comes.
FairSpec == Spec /\ \A p \in Processes : WF_vars(Evaluate(p))

-----------------------------------------------------------------------------
(* What the rules promise.                                                 *)

ValidField == {e \in Field : Valid(e)}
MetricsType == [total : 0 .. Window, successful : 0 .. Window, failed : 0 .. Window,
                recentFailures : 0 .. 10, recentTimeouts : 0 .. 10, isSlow : BOOLEAN]
EvaluationType ==
  [pc : {"resting", "measuring", "applying", "disabling"},
   judged : Field \union {Null}, verdict : Field \union {Null, Off}, metrics : MetricsType]

\* Every variable has its type, and the table only holds expressions that are valid:
\* also when a rule has moved a minute beyond the hour.
ScheduleTypeOK ==
  /\ cronJob \in [isActive : BOOLEAN, cronExpression : ValidField] \union {Deleted}
  /\ cronExecution \in Seq({Running} \union Completed)
  /\ evaluation \in [Processes -> EvaluationType]
  /\ changes \in 0 .. MaxChanges /\ runs \in 0 .. MaxRuns /\ faults \in 0 .. MaxFaults
  /\ chosen \in Field
  /\ contested \in BOOLEAN

\* However often the rules rewrite a schedule, in however many processes, the job
\* never runs more often than its user chose, and still at least once in its hours;
\* unless the user chose while an evaluation was under way.
NeverFasterThanChosen ==
  Exists /\ ~contested => RunsPerHour(cronJob.cronExpression) \in 1 .. RunsPerHour(chosen)

\* A job is only disabled for failures: the three that were measured are in the table,
\* and still are when the row is written, unless the job has been deleted with them.
\* An execution that is under way, or was cut off, does not count as one.
DisabledOnFailures ==
  \A p \in Processes : At(p, "disabling") =>
    /\ evaluation[p].metrics.recentFailures >= 3
    /\ Exists => Cardinality({i \in DOMAIN cronExecution :
                               cronExecution[i].status = "FAILED"}) >= 3

\* A schedule that may still be extended, under executions that mostly fail.
Failing ==
  LET measured == Latest(cronExecution, Window)
      failed == {i \in measured : cronExecution[i].status = "FAILED"}
  IN  Cardinality(measured) >= 10 /\ 2 * Cardinality(failed) > Cardinality(measured)

BackedOff == Exists =>
  LET e == cronJob.cronExpression
  IN  e = Every \/ RunsPerHour(e) = 1 \/ ~Valid(Extended(e, Factor.backoff))

\* A job that goes on failing while it is active ends up at one run an hour, unless its
\* minute is a wildcard, or begins at 30 or later: doubled it is invalid, and update
\* refuses it every hour.
BacksOff ==
  <>[](Failing /\ cronJob.isActive) => <>[]BackedOff

-----------------------------------------------------------------------------
(* What the documents say and the code does not do.                        *)

\* README.md: "Consecutive failures: Disables job after 3 consecutive failures": an
\* evaluation that measures such a job, and is not cut off, goes on to disable it.
ThreeFailed ==
  /\ Len(cronExecution) >= 3
  /\ \A i \in Latest(cronExecution, 3) : cronExecution[i].status = "FAILED"

ConsecutiveFailuresDisable ==
  [][\A p \in Processes :
       At(p, "measuring") /\ ~At(p, "measuring")' /\ ThreeFailed /\ faults' = faults
         => At(p, "disabling")']_vars
=============================================================================
