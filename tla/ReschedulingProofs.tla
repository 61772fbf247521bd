--------------------------- MODULE ReschedulingProofs ---------------------------
(***************************************************************************)
(* Proofs about Rescheduling for all processes, expressions, histories,    *)
(* window and timeout, and any number of changes, executions and faults.   *)
(***************************************************************************)
EXTENDS Rescheduling, FiniteSetTheorems, TLAPS

-----------------------------------------------------------------------------
(* Minute fields.                                                          *)

Factors == {Factor.backoff, Factor.reduce, Factor.distribute}

LEMMA Fractions == Factors = {<<2, 1>>, <<3, 2>>, <<6, 5>>}
BY DEF Factors, Factor

\* A factor makes a number no smaller, and at most doubles it.
LEMMA ScaledBounds ==
  ASSUME NEW n \in Nat, NEW factor \in Factors
  PROVE  Scaled(n, factor) \in Nat /\ Scaled(n, factor) >= n /\ Scaled(n, factor) >= 1
         /\ (n > 0 => Scaled(n, factor) <= 2 * n) /\ (n = 0 => Scaled(n, factor) = 1)
<1>1. CASE factor = <<2, 1>>
  BY <1>1 DEF Scaled, AtLeast1
<1>2. CASE factor = <<3, 2>>
  BY <1>2 DEF Scaled, AtLeast1
<1>3. CASE factor = <<6, 5>>
  BY <1>3 DEF Scaled, AtLeast1
<1> QED BY <1>1, <1>2, <1>3, Fractions

\* A longer step fires no more often.
LEMMA LongerStep ==
  ASSUME NEW a \in 1 .. Hour, NEW b \in 1 .. Hour, a <= b
  PROVE  (Hour - 1) \div b + 1 \in 1 .. ((Hour - 1) \div a + 1)
<1>1. PICK q \in Nat, r \in 0 .. a - 1 : 59 = q * a + r /\ 59 \div a = q
  BY DEF Hour
<1>2. PICK s \in Nat, t \in 0 .. b - 1 : 59 = s * b + t /\ 59 \div b = s
  BY DEF Hour
<1>3. s <= q
  <2>1. SUFFICES ASSUME s >= q + 1 PROVE FALSE  BY <1>1, <1>2
  <2>2. s * b >= (q + 1) * b  BY <1>1, <1>2, <2>1
  <2>3. (q + 1) * b >= (q + 1) * a  BY <1>1
  <2>4. (q + 1) * a = q * a + a  BY <1>1
  <2> QED BY <1>1, <1>2, <2>2, <2>3, <2>4
<1> QED BY <1>1, <1>2, <1>3 DEF Hour

\* The forms of a field.
LEMMA Forms ==
  ASSUME NEW e \in Field
  PROVE  \/ e = Every /\ e.form = "*"
         \/ e.form = "*/k" /\ e.k \in 1 .. Hour
         \/ e.form = "m" /\ e.minute \in 0 .. 2 * Hour /\ e.times = 1
         \/ e.form = "m,..." /\ e.minute \in 0 .. Hour - 1 /\ e.times \in 1 .. Hour
<1>1. CASE e = Every  BY <1>1 DEF Every
<1>2. ASSUME NEW k \in 1 .. Hour, e = Step(k) PROVE e.form = "*/k" /\ e.k \in 1 .. Hour
  BY <1>2 DEF Step
<1>3. ASSUME NEW m \in 0 .. 2 * Hour, e = Minute(m)
      PROVE  e.form = "m" /\ e.minute \in 0 .. 2 * Hour /\ e.times = 1
  BY <1>3 DEF Minute
<1>4. ASSUME NEW m \in 0 .. Hour - 1, NEW times \in 1 .. Hour, e = Several(m, times)
      PROVE  e.form = "m,..." /\ e.minute \in 0 .. Hour - 1 /\ e.times \in 1 .. Hour
  BY <1>4 DEF Several
<1>5. \/ e = Every
      \/ \E k \in 1 .. Hour : e = Step(k)
      \/ \E m \in 0 .. 2 * Hour : e = Minute(m)
      \/ \E m \in 0 .. Hour - 1, times \in 1 .. Hour : e = Several(m, times)
  BY DEF Field
<1> QED BY <1>1, <1>2, <1>3, <1>4, <1>5

LEMMA FieldsDiffer ==
  Null # Off /\ \A e \in Field : e # Null /\ e # Off
<1>1. Null.form = "null" /\ Off.form = "off"  BY DEF Null, Off
<1> QED BY <1>1, Forms

\* A field fires at least once in its hours.
LEMMA RunsCounted ==
  ASSUME NEW e \in Field
  PROVE  RunsPerHour(e) \in Nat /\ RunsPerHour(e) >= 1
<1>1. e \in Field  OBVIOUS
<1>2. CASE e.form = "*"  BY <1>1, <1>2 DEF RunsPerHour, Hour
<1>3. CASE e.form = "*/k"
  <2>1. PICK k \in 1 .. Hour : e.k = k  BY <1>1, <1>3, Forms
  <2>2. RunsPerHour(e) = (Hour - 1) \div k + 1  BY <1>3, <2>1 DEF RunsPerHour
  <2>3. (Hour - 1) \div k + 1 \in Nat /\ (Hour - 1) \div k + 1 >= 1  BY DEF Hour
  <2> QED BY <1>1, <2>2, <2>3
<1>4. CASE e.form \in {"m", "m,..."}
  <2>1. e.times = 1 \/ e.times \in 1 .. Hour  BY <1>1, <1>4, Forms
  <2>2. RunsPerHour(e) = e.times  BY <1>4 DEF RunsPerHour
  <2> QED BY <1>1, <2>1, <2>2 DEF Hour
<1> QED BY <1>1, <1>2, <1>3, <1>4, Forms

\* An expression extended by a rule fires less often, or as often.
LEMMA Extension ==
  ASSUME NEW e \in ValidField, NEW factor \in Factors
  PROVE  /\ Extended(e, factor) \in Field
         /\ RunsPerHour(Extended(e, factor)) \in 1 .. RunsPerHour(e)
<1>1. e \in Field /\ Valid(e) /\ RunsPerHour(e) \in Nat /\ RunsPerHour(e) >= 1
  BY RunsCounted DEF ValidField
<1>2. CASE e.form = "*"
  <2>1. Extended(e, factor) = e  BY <1>2 DEF Extended
  <2> QED BY <1>1, <2>1
<1>3. CASE e.form = "*/k"
  <2>1. PICK k \in 1 .. Hour : e.k = k  BY <1>1, <1>3, Forms
  <2>2. PICK b \in k .. Hour : b = Least(Scaled(k, factor))  BY ScaledBounds DEF Least, Hour
  <2>3. Extended(e, factor) = Step(b)  BY <1>3, <2>1, <2>2 DEF Extended
  <2>4. RunsPerHour(e) = (Hour - 1) \div k + 1  BY <1>3, <2>1 DEF RunsPerHour
  <2>5. RunsPerHour(Step(b)) = (Hour - 1) \div b + 1
    <3>1. Step(b).form = "*/k" /\ Step(b).k = b  BY DEF Step
    <3> QED BY <3>1 DEF RunsPerHour
  <2>6. b \in 1 .. Hour /\ k <= b  BY DEF Hour
  <2>7. (Hour - 1) \div b + 1 \in 1 .. ((Hour - 1) \div k + 1)  BY <2>6, LongerStep
  <2>8. Step(b) \in Field  BY <2>6 DEF Field
  <2> QED BY <2>3, <2>4, <2>5, <2>7, <2>8
<1>4. CASE e.form \in {"m", "m,..."}
  <2>1. PICK m \in 0 .. 59 : e.minute = m
    <3>1. CASE e.form = "m"
      <4>1. e.minute \in 0 .. 2 * Hour /\ e.minute < Hour  BY <1>1, <3>1, Forms DEF Valid
      <4> QED BY <4>1 DEF Hour
    <3>2. CASE e.form = "m,..."
      <4>1. e.minute \in 0 .. Hour - 1  BY <1>1, <3>2, Forms
      <4> QED BY <4>1 DEF Hour
    <3> QED BY <1>4, <3>1, <3>2
  <2>2. PICK n \in 0 .. 2 * Hour : n = Scaled(m, factor)
    <3>1. m \in Nat /\ (m = 0 \/ m > 0) /\ 2 * m <= 118  OBVIOUS
    <3>2. Scaled(m, factor) \in Nat /\ (Scaled(m, factor) = 1 \/ Scaled(m, factor) <= 2 * m)
      BY <3>1, ScaledBounds
    <3>3. Scaled(m, factor) <= 118  BY <3>1, <3>2
    <3> QED BY <3>2, <3>3 DEF Hour
  <2>3. Extended(e, factor) = Minute(n)  BY <1>4, <2>1, <2>2 DEF Extended
  <2>4. RunsPerHour(Minute(n)) = 1
    <3>1. Minute(n).form = "m" /\ Minute(n).times = 1  BY DEF Minute
    <3> QED BY <3>1 DEF RunsPerHour
  <2>5. Minute(n) \in Field  BY DEF Field
  <2> QED BY <1>1, <2>3, <2>4, <2>5
<1> QED BY <1>1, <1>2, <1>3, <1>4, Forms

-----------------------------------------------------------------------------
(* The rules.                                                              *)

FailedThrice(m) == m.recentFailures >= 3

\* The rules keep an expression, extend it, or disable a job with three failures.
LEMMA Verdicts ==
  ASSUME NEW e \in ValidField, NEW m \in MetricsType
  PROVE  \/ Verdict(e, m) = Null
         \/ Verdict(e, m) = Off /\ FailedThrice(m)
         \/ Verdict(e, m) \in Field /\ RunsPerHour(Verdict(e, m)) \in 1 .. RunsPerHour(e)
<1> DEFINE telling == {rule \in 1 .. 5 : Condition(rule, m) /\ Action(rule, e) # Null}
           first == CHOOSE rule \in telling : \A other \in telling : rule <= other
<1>1. \A rule \in {2, 3, 4} :
        Action(rule, e) \in Field /\ RunsPerHour(Action(rule, e)) \in 1 .. RunsPerHour(e)
  BY Extension DEF Action, Factors
<1>2. Action(1, e) = Null /\ Action(5, e) = Off  BY DEF Action
<1>3. Verdict(e, m) = IF telling = {} THEN Null ELSE Action(first, e)
  BY DEF Verdict
<1>4. ASSUME telling # {} PROVE first \in telling /\ \A other \in telling : first <= other
  <2>1. telling \subseteq 1 .. 5 /\ telling # {}  BY <1>4
  <2> HIDE DEF telling
  <2>2. \E rule \in telling : \A other \in telling : rule <= other
    <3>1. CASE 1 \in telling  BY <2>1, <3>1
    <3>2. CASE 1 \notin telling /\ 2 \in telling  BY <2>1, <3>2
    <3>3. CASE 1 \notin telling /\ 2 \notin telling /\ 3 \in telling  BY <2>1, <3>3
    <3>4. CASE 1 \notin telling /\ 2 \notin telling /\ 3 \notin telling /\ 4 \in telling
      BY <2>1, <3>4
    <3>5. CASE 1 \notin telling /\ 2 \notin telling /\ 3 \notin telling /\ 4 \notin telling
      <4>1. \A rule \in telling : rule = 5  BY <2>1, <3>5
      <4>2. PICK rule \in telling : rule = 5  BY <2>1, <4>1
      <4>3. \A other \in telling : rule <= other  BY <4>1, <4>2
      <4> QED BY <4>3
    <3> QED BY <3>1, <3>2, <3>3, <3>4, <3>5
  <2> QED BY <2>2
<1>5. CASE telling # {} /\ first = 5
  <2>1. Condition(5, m)  BY <1>4, <1>5
  <2> HIDE DEF first
  <2>2. FailedThrice(m)  BY <2>1 DEF Condition, FailedThrice
  <2> QED BY <1>2, <1>3, <1>5, <2>2
<1>6. CASE telling # {} /\ first # 5
  <2>1. first \in 1 .. 5 /\ Action(first, e) # Null  BY <1>4, <1>6
  <2> HIDE DEF first
  <2>2. first \in {2, 3, 4}  BY <1>2, <1>6, <2>1
  <2> QED BY <1>1, <1>3, <1>6, <2>2
<1> QED BY <1>3, <1>5, <1>6

-----------------------------------------------------------------------------
(* What is measured.                                                       *)

Execution == {Running} \union Completed

LEMMA LatestBounds ==
  ASSUME NEW executions \in Seq(Execution), NEW n \in Nat, NEW S \in SUBSET Latest(executions, n)
  PROVE  IsFiniteSet(S) /\ Cardinality(S) \in 0 .. n
<1>1. PICK len \in Nat : len = Len(executions) /\ DOMAIN executions = 1 .. len
  OBVIOUS
<1>2. Latest(executions, n) = {i \in 1 .. len : i > len - n}  BY <1>1 DEF Latest
<1>3. PICK a \in Int : (len > n => a = len - n + 1) /\ (~(len > n) => a = 1)
  <2>1. CASE len > n
    <3>1. len - n + 1 \in Int  OBVIOUS
    <3> QED BY <2>1, <3>1
  <2>2. CASE ~(len > n)  BY <2>2
  <2> QED BY <2>1, <2>2
<1>4. Latest(executions, n) = a .. len  BY <1>2, <1>3
<1>5. IsFiniteSet(a .. len) /\ Cardinality(a .. len) <= n
  <2>1. IsFiniteSet(a .. len) /\ Cardinality(a .. len) = IF a > len THEN 0 ELSE len - a + 1
    BY FS_Interval
  <2> QED BY <1>3, <2>1
<1>6. IsFiniteSet(S) /\ Cardinality(S) <= Cardinality(a .. len)  BY <1>4, <1>5, FS_Subset
<1>7. Cardinality(S) \in Nat /\ Cardinality(a .. len) \in Nat
  BY <1>5, <1>6, FS_CardinalityType
<1> QED BY <1>5, <1>6, <1>7

Failures(executions) == {i \in DOMAIN executions : executions[i].status = "FAILED"}

LEMMA FailuresFinite ==
  ASSUME NEW executions \in Seq(Execution)
  PROVE  IsFiniteSet(Failures(executions)) /\ Cardinality(Failures(executions)) \in Nat
<1>1. IsFiniteSet(1 .. Len(executions))  BY FS_Interval
<1>2. IsFiniteSet(Failures(executions))  BY <1>1, FS_Subset DEF Failures
<1> QED BY <1>2, FS_CardinalityType

LEMMA MetricsTyped ==
  ASSUME NEW executions \in Seq(Execution)
  PROVE  /\ Metrics(executions) \in MetricsType
         /\ Metrics(executions).recentFailures <= Cardinality(Failures(executions))
<1> DEFINE all == Latest(executions, Window)
           recent == Latest(executions, 10)
           With(S, status) == Cardinality({i \in S : executions[i].status = status})
           late == {i \in recent : executions[i].executionTimeMs > 0
                                     /\ executions[i].executionTimeMs >= TimeoutMs}
           slow == 10 * TotalTime(executions) > 8 * TimeoutMs * Cardinality(Timed(executions))
<1>1. Window \in Nat  BY BoundAssumption
<1>2. Cardinality(all) \in 0 .. Window  BY <1>1, LatestBounds
<1>3. With(all, "SUCCESS") \in 0 .. Window /\ With(all, "FAILED") \in 0 .. Window
  BY <1>1, LatestBounds
<1>4. With(recent, "FAILED") \in 0 .. 10 /\ Cardinality(late) \in 0 .. 10
  BY LatestBounds
<1>5. slow \in BOOLEAN  OBVIOUS
<1>6. With(recent, "FAILED") <= Cardinality(Failures(executions))
  <2>1. {i \in recent : executions[i].status = "FAILED"} \subseteq Failures(executions)
    BY DEF Latest, Failures
  <2> QED BY <2>1, FailuresFinite, FS_Subset
<1>7. Metrics(executions) =
        [total |-> Cardinality(all), successful |-> With(all, "SUCCESS"),
         failed |-> With(all, "FAILED"), recentFailures |-> With(recent, "FAILED"),
         recentTimeouts |-> Cardinality(late), isSlow |-> slow]
  BY DEF Metrics
<1> HIDE DEF all, recent, With, late, slow
<1> QED BY <1>2, <1>3, <1>4, <1>5, <1>6, <1>7 DEF MetricsType

\* What failed stays in the table.
LEMMA FailuresKept ==
  ASSUME NEW executions \in Seq(Execution), NEW later \in Seq(Execution),
         Failures(executions) \subseteq Failures(later)
  PROVE  Cardinality(Failures(executions)) <= Cardinality(Failures(later))
BY FailuresFinite, FS_Subset

-----------------------------------------------------------------------------
(* The inductive invariant.                                                *)

\* What an evaluation will do is justified.
Justified(p) ==
  /\ At(p, "measuring") => evaluation[p].judged \in ValidField
  /\ At(p, "applying") => evaluation[p].verdict \in Field
  /\ At(p, "disabling") => /\ FailedThrice(evaluation[p].metrics)
                           /\ Exists => Cardinality(Failures(cronExecution)) >= 3

\* An expression is no faster than the one the user chose.
Slower(e) == RunsPerHour(e) \in 1 .. RunsPerHour(chosen)

\* The expressions an evaluation reads and writes are no faster than the user's, unless
\* the user has changed it since the evaluation began.
InBounds(p) ==
  /\ At(p, "measuring") => Slower(evaluation[p].judged)
  /\ At(p, "applying") => Slower(evaluation[p].verdict)

RInv ==
  /\ ScheduleTypeOK
  /\ \A p \in Processes : Justified(p)
  /\ ~contested => (Exists => Slower(cronJob.cronExpression)) /\ \A p \in Processes : InBounds(p)

LEMMA Rows ==
  ASSUME ScheduleTypeOK, Exists
  PROVE  /\ cronJob \in [isActive : BOOLEAN, cronExpression : ValidField]
         /\ cronJob.cronExpression \in ValidField
BY DEF ScheduleTypeOK, Exists

LEMMA Deletion ==
  /\ Deleted.cronExpression = Null /\ Deleted.isActive = FALSE
  /\ \A e \in ValidField : e # Null
  /\ [Deleted EXCEPT !.isActive = FALSE] = Deleted
<1>1. Deleted.cronExpression = Null /\ Deleted.isActive = FALSE  BY DEF Deleted
<1>2. [Deleted EXCEPT !.isActive = FALSE] = Deleted
  <2>1. Deleted \in [isActive : BOOLEAN, cronExpression : {Null}]  BY DEF Deleted
  <2> QED BY <1>1, <2>1
<1> QED BY <1>1, <1>2, FieldsDiffer DEF ValidField

LEMMA RestingTyped ==
  Resting \in EvaluationType /\ Resting.pc = "resting"
<1>1. <<>> \in Seq(Execution)  OBVIOUS
<1>2. NoMetrics \in MetricsType  BY <1>1, MetricsTyped DEF NoMetrics
<1> QED BY <1>2 DEF Resting, EvaluationType

\* An evaluation ends, and the row stays as it is.
LEMMA Rested ==
  ASSUME ScheduleTypeOK, NEW p \in Processes, Rest(p)
  PROVE  /\ evaluation' \in [Processes -> EvaluationType]
         /\ ~At(p, "measuring")' /\ ~At(p, "applying")' /\ ~At(p, "disabling")'
         /\ \A o \in Processes \ {p} : evaluation'[o] = evaluation[o]
BY RestingTyped DEF ScheduleTypeOK, Rest, At

-----------------------------------------------------------------------------
(* The actions.                                                            *)

\* A step of an evaluation that ends it, and at most writes the row.
LEMMA RestInv ==
  ASSUME RInv, NEW p \in Processes, Rest(p),
         UNCHANGED <<cronExecution, changes, runs, history>>, faults' \in 0 .. MaxFaults,
         cronJob' \in [isActive : BOOLEAN, cronExpression : ValidField] \union {Deleted},
         Exists' => Exists,
         Exists /\ ~contested => Slower(cronJob'.cronExpression) \/ ~Exists'
  PROVE  RInv'
<1>1. /\ evaluation' \in [Processes -> EvaluationType]
      /\ ~At(p, "measuring")' /\ ~At(p, "applying")' /\ ~At(p, "disabling")'
      /\ \A o \in Processes \ {p} : evaluation'[o] = evaluation[o]
  BY Rested DEF RInv
<1>2. ScheduleTypeOK'  BY <1>1 DEF RInv, ScheduleTypeOK, history
<1>3. ASSUME NEW o \in Processes PROVE Justified(o)'
  BY <1>1 DEF RInv, Justified, At
<1>4. ASSUME ~contested' PROVE (Exists' => Slower(cronJob.cronExpression)') /\ \A o \in Processes : InBounds(o)'
  <2>1. \A o \in Processes : InBounds(o)'
    BY <1>1, <1>4 DEF RInv, InBounds, At, Slower, history
  <2> QED BY <1>4, <2>1 DEF Slower, history
<1> QED BY <1>2, <1>3, <1>4 DEF RInv

LEMMA LoadInv ==
  ASSUME RInv, NEW p \in Processes, Load(p)
  PROVE  RInv'
<1>1. Exists /\ cronJob.cronExpression \in ValidField
  <2>1. Exists  BY Deletion DEF Load, Exists
  <2> QED BY <2>1, Rows DEF RInv
<1>2. PICK judged \in ValidField : judged = cronJob.cronExpression  BY <1>1
<1>3. evaluation[p] \in EvaluationType /\ judged \in Field
  BY DEF RInv, ScheduleTypeOK, ValidField
<1>4. PICK e \in EvaluationType :
        /\ e.pc = "measuring" /\ e.judged = judged /\ evaluation' = [evaluation EXCEPT ![p] = e]
  <2> DEFINE e0 == [evaluation[p] EXCEPT !.pc = "measuring", !.judged = judged]
  <2>1. e0 \in EvaluationType /\ e0.pc = "measuring" /\ e0.judged = judged
    BY <1>3 DEF EvaluationType
  <2>2. evaluation' = [evaluation EXCEPT ![p] = e0]  BY <1>2 DEF Load
  <2> HIDE DEF e0
  <2> QED BY <2>1, <2>2
<1>5. /\ evaluation' \in [Processes -> EvaluationType] /\ evaluation'[p] = e
      /\ \A o \in Processes \ {p} : evaluation'[o] = evaluation[o]
      /\ UNCHANGED <<cronJob, cronExecution, changes, runs, faults, history>>
  BY <1>4 DEF RInv, ScheduleTypeOK, Load
<1>6. ScheduleTypeOK'  BY <1>5 DEF RInv, ScheduleTypeOK, history
<1>7. ASSUME NEW o \in Processes PROVE Justified(o)'
  BY <1>4, <1>5 DEF RInv, Justified, At, Exists
<1>8. ASSUME ~contested' PROVE (Exists' => Slower(cronJob.cronExpression)') /\ \A o \in Processes : InBounds(o)'
  <2>1. Slower(judged) /\ \A o \in Processes : InBounds(o)
    BY <1>1, <1>2, <1>5, <1>8 DEF RInv, history
  <2>2. \A o \in Processes : InBounds(o)'
    BY <1>4, <1>5, <2>1 DEF InBounds, At, Slower, history
  <2> QED BY <1>2, <1>5, <2>1, <2>2 DEF Slower, history
<1> QED BY <1>6, <1>7, <1>8 DEF RInv

LEMMA MeasureInv ==
  ASSUME RInv, NEW p \in Processes, Measure(p)
  PROVE  RInv'
<1>1. cronExecution \in Seq(Execution)  BY DEF RInv, ScheduleTypeOK, Execution
<1>2. PICK metrics, judged, verdict :
        /\ metrics = Metrics(cronExecution) /\ judged = evaluation[p].judged
        /\ verdict = Verdict(judged, metrics)
        /\ evaluation' = [evaluation EXCEPT ![p] =
             IF verdict \in {Null, judged} THEN Resting
             ELSE [pc |-> IF verdict = Off THEN "disabling" ELSE "applying",
                   judged |-> judged, verdict |-> verdict, metrics |-> metrics]]
  BY DEF Measure
<1>3. /\ judged \in ValidField /\ metrics \in MetricsType
      /\ metrics.recentFailures <= Cardinality(Failures(cronExecution))
      /\ ~contested => Slower(judged)
  BY <1>1, <1>2, MetricsTyped DEF RInv, Justified, InBounds, Measure
<1>4. judged \in Field /\ RunsPerHour(judged) \in Nat /\ RunsPerHour(chosen) \in Nat
  BY <1>3, RunsCounted DEF ValidField, RInv, ScheduleTypeOK
<1>5. PICK e \in EvaluationType :
        /\ evaluation' = [evaluation EXCEPT ![p] = e]
        /\ e.pc # "measuring"
        /\ e.pc = "applying" => e.verdict \in Field /\ (~contested => Slower(e.verdict))
        /\ e.pc = "disabling" => FailedThrice(e.metrics) /\ Cardinality(Failures(cronExecution)) >= 3
  <2>1. CASE verdict \in {Null, judged}  BY <1>2, <2>1, RestingTyped
  <2>2. CASE verdict \notin {Null, judged} /\ verdict = Off
    <3> DEFINE e0 == [pc |-> "disabling", judged |-> judged, verdict |-> verdict, metrics |-> metrics]
    <3>1. FailedThrice(metrics)  BY <1>2, <1>3, <2>2, Verdicts, FieldsDiffer
    <3>2. e0 \in EvaluationType /\ e0.pc = "disabling" /\ e0.metrics = metrics
      BY <1>3, <1>4, <2>2 DEF EvaluationType
    <3>3. metrics.recentFailures \in Nat /\ Cardinality(Failures(cronExecution)) \in Nat
      BY <1>1, <1>3, FailuresFinite DEF MetricsType
    <3>4. Cardinality(Failures(cronExecution)) >= 3  BY <1>3, <3>1, <3>3 DEF FailedThrice
    <3>5. evaluation' = [evaluation EXCEPT ![p] = e0]  BY <1>2, <2>2
    <3> HIDE DEF e0
    <3> QED BY <3>1, <3>2, <3>4, <3>5
  <2>3. CASE verdict \notin {Null, judged} /\ verdict # Off
    <3> DEFINE e0 == [pc |-> "applying", judged |-> judged, verdict |-> verdict, metrics |-> metrics]
    <3>1. verdict \in Field /\ RunsPerHour(verdict) \in 1 .. RunsPerHour(judged)
      BY <1>2, <1>3, <2>3, Verdicts
    <3>2. e0 \in EvaluationType /\ e0.pc = "applying" /\ e0.verdict = verdict
      BY <1>3, <1>4, <3>1 DEF EvaluationType
    <3>3. ~contested => Slower(verdict)  BY <1>3, <1>4, <3>1 DEF Slower
    <3>4. evaluation' = [evaluation EXCEPT ![p] = e0]  BY <1>2, <2>3
    <3> HIDE DEF e0
    <3> QED BY <3>1, <3>2, <3>3, <3>4
  <2> QED BY <2>1, <2>2, <2>3
<1>6. /\ evaluation' \in [Processes -> EvaluationType] /\ evaluation'[p] = e
      /\ \A o \in Processes \ {p} : evaluation'[o] = evaluation[o]
      /\ UNCHANGED <<cronJob, cronExecution, changes, runs, faults, history>>
  BY <1>5 DEF RInv, ScheduleTypeOK, Measure
<1>7. ScheduleTypeOK'  BY <1>6 DEF RInv, ScheduleTypeOK, history
<1>8. ASSUME NEW o \in Processes PROVE Justified(o)'
  BY <1>5, <1>6 DEF RInv, Justified, At, Exists
<1>9. ASSUME ~contested' PROVE (Exists' => Slower(cronJob.cronExpression)') /\ \A o \in Processes : InBounds(o)'
  BY <1>5, <1>6, <1>9 DEF RInv, InBounds, At, Exists, Slower, history
<1> QED BY <1>7, <1>8, <1>9 DEF RInv

LEMMA WriteInv ==
  ASSUME RInv, NEW p \in Processes, Apply(p) \/ Disable(p) \/ GiveUp(p)
  PROVE  RInv'
<1>1. Rest(p) /\ UNCHANGED <<cronExecution, changes, runs, history>> /\ faults' \in 0 .. MaxFaults
  <2>1. CASE GiveUp(p)
    <3>1. faults \in Nat /\ faults' = faults + 1 /\ faults < MaxFaults /\ MaxFaults \in Nat
      BY <2>1, BoundAssumption DEF GiveUp, RInv, ScheduleTypeOK
    <3> QED BY <2>1, <3>1 DEF GiveUp
  <2> QED BY <2>1 DEF Apply, Disable, RInv, ScheduleTypeOK
<1>2. CASE GiveUp(p)
  BY <1>1, <1>2, RestInv DEF GiveUp, RInv, ScheduleTypeOK, Exists, Slower
<1>3. CASE Disable(p)
  <2>1. cronJob' = [cronJob EXCEPT !.isActive = FALSE]  BY <1>3 DEF Disable
  <2>2. CASE ~Exists
    <3>1. cronJob' = Deleted  BY <2>1, <2>2, Deletion DEF Exists
    <3> QED BY <1>1, <2>2, <3>1, RestInv DEF Exists
  <2>3. CASE Exists
    <3>1. cronJob \in [isActive : BOOLEAN, cronExpression : ValidField]  BY <2>3, Rows DEF RInv
    <3>2. /\ cronJob' \in [isActive : BOOLEAN, cronExpression : ValidField]
          /\ cronJob'.cronExpression = cronJob.cronExpression
      BY <2>1, <3>1
    <3>3. ~contested => Slower(cronJob'.cronExpression)  BY <2>3, <3>2 DEF RInv
    <3> QED BY <1>1, <2>3, <3>2, <3>3, RestInv
  <2> QED BY <2>2, <2>3
<1>4. CASE Apply(p)
  <2>1. CASE Exists /\ Valid(evaluation[p].verdict)
    <3>1. PICK verdict \in ValidField : verdict = evaluation[p].verdict /\ (~contested => Slower(verdict))
      BY <1>4, <2>1 DEF Apply, RInv, Justified, InBounds, ValidField
    <3>2. cronJob \in [isActive : BOOLEAN, cronExpression : ValidField]  BY <2>1, Rows DEF RInv
    <3>3. cronJob' = [cronJob EXCEPT !.cronExpression = verdict]  BY <1>4, <2>1, <3>1 DEF Apply
    <3>4. /\ cronJob' \in [isActive : BOOLEAN, cronExpression : ValidField]
          /\ cronJob'.cronExpression = verdict
      BY <3>2, <3>3
    <3> QED BY <1>1, <2>1, <3>1, <3>4, RestInv
  <2>2. CASE ~(Exists /\ Valid(evaluation[p].verdict))
    <3>1. cronJob' = cronJob  BY <1>4, <2>2 DEF Apply
    <3> QED BY <1>1, <3>1, RestInv DEF RInv, ScheduleTypeOK, Exists, Slower
  <2> QED BY <2>1, <2>2
<1> QED BY <1>2, <1>3, <1>4

\* What users do, and the executions.
LEMMA UpdateInv ==
  ASSUME RInv, NEW e \in Expressions, Update(e)
  PROVE  RInv'
<1>1. /\ Exists /\ Valid(e) /\ cronJob' = [cronJob EXCEPT !.cronExpression = e] /\ chosen' = e
      /\ contested' = ~Quiet /\ changes' \in 0 .. MaxChanges
      /\ UNCHANGED <<cronExecution, evaluation, runs, faults>>
  <2>1. changes \in Nat /\ changes' = changes + 1 /\ changes < MaxChanges /\ MaxChanges \in Nat
    BY BoundAssumption DEF Update, RInv, ScheduleTypeOK
  <2> QED BY <2>1 DEF Update
<1>2. e \in Field /\ e \in ValidField  BY <1>1, ExpressionAssumption DEF ValidField
<1>3. /\ cronJob' \in [isActive : BOOLEAN, cronExpression : ValidField]
      /\ cronJob'.cronExpression = e
  BY <1>1, <1>2, Rows DEF RInv
<1>4. contested' \in BOOLEAN  BY <1>1
<1>5. ScheduleTypeOK'  BY <1>1, <1>2, <1>3, <1>4 DEF RInv, ScheduleTypeOK
<1>6. ASSUME NEW p \in Processes PROVE Justified(p)'
  BY <1>1 DEF RInv, Justified, At
<1>7. ASSUME ~contested' PROVE (Exists' => Slower(cronJob.cronExpression)') /\ \A p \in Processes : InBounds(p)'
  <2>1. Quiet  BY <1>1, <1>7
  <2>2. \A p \in Processes : InBounds(p)'  BY <1>1, <2>1 DEF Quiet, InBounds, At
  <2>3. Slower(cronJob.cronExpression)'
    <3>1. RunsPerHour(e) \in 1 .. RunsPerHour(e)  BY <1>2, RunsCounted
    <3> QED BY <1>1, <1>3, <3>1 DEF Slower
  <2> QED BY <2>2, <2>3
<1> QED BY <1>5, <1>6, <1>7 DEF RInv

\* A step that leaves evaluations and expression alone, and no failure out of the table.
LEMMA OutsideInv ==
  ASSUME RInv, UNCHANGED <<evaluation, faults, history>>,
         cronExecution' \in Seq(Execution), changes' \in 0 .. MaxChanges, runs' \in 0 .. MaxRuns,
         \/ cronJob' = Deleted
         \/ /\ Exists /\ cronJob' \in [isActive : BOOLEAN, cronExpression : ValidField]
            /\ cronJob'.cronExpression = cronJob.cronExpression
            /\ Failures(cronExecution) \subseteq Failures(cronExecution)'
  PROVE  RInv'
<1>1. ScheduleTypeOK'  BY DEF RInv, ScheduleTypeOK, history, Execution
<1>2. Exists' => Exists /\ Cardinality(Failures(cronExecution)) <= Cardinality(Failures(cronExecution)')
  <2>1. cronExecution \in Seq(Execution)  BY DEF RInv, ScheduleTypeOK, Execution
  <2> QED BY <2>1, FailuresKept DEF Exists, Failures
<1>3. Cardinality(Failures(cronExecution)) \in Nat /\ Cardinality(Failures(cronExecution)') \in Nat
  <2>1. cronExecution \in Seq(Execution)  BY DEF RInv, ScheduleTypeOK, Execution
  <2> QED BY <2>1, FailuresFinite DEF Failures
<1>4. ASSUME NEW p \in Processes PROVE Justified(p)'
  BY <1>2, <1>3 DEF RInv, Justified, At
<1>5. ASSUME ~contested' PROVE (Exists' => Slower(cronJob.cronExpression)') /\ \A p \in Processes : InBounds(p)'
  <2>1. \A p \in Processes : InBounds(p)'  BY <1>5 DEF RInv, InBounds, At, Slower, history
  <2> QED BY <1>2, <1>5, <2>1 DEF RInv, Slower, history, Exists
<1> QED BY <1>1, <1>4, <1>5 DEF RInv

LEMMA ToggleInv ==
  ASSUME RInv, Toggle \/ Remove
  PROVE  RInv'
<1>1. changes' \in 0 .. MaxChanges /\ UNCHANGED <<evaluation, runs, faults, history>>
  <2>1. changes \in Nat /\ changes' = changes + 1 /\ changes < MaxChanges /\ MaxChanges \in Nat
    BY BoundAssumption DEF Toggle, Remove, RInv, ScheduleTypeOK
  <2> QED BY <2>1 DEF Toggle, Remove
<1>2. cronExecution \in Seq(Execution) /\ runs' \in 0 .. MaxRuns /\ <<>> \in Seq(Execution)
  BY <1>1 DEF RInv, ScheduleTypeOK, Execution
<1>3. CASE Remove
  BY <1>1, <1>2, <1>3, OutsideInv DEF Remove
<1>4. CASE Toggle
  <2>1. Exists /\ cronJob' = [cronJob EXCEPT !.isActive = ~@] /\ cronExecution' = cronExecution
    BY <1>4 DEF Toggle
  <2>2. cronJob \in [isActive : BOOLEAN, cronExpression : ValidField]  BY <2>1, Rows DEF RInv
  <2>3. /\ cronJob' \in [isActive : BOOLEAN, cronExpression : ValidField]
        /\ cronJob'.cronExpression = cronJob.cronExpression
    BY <2>1, <2>2
  <2>4. Failures(cronExecution) \subseteq Failures(cronExecution)'  BY <2>1 DEF Failures
  <2> QED BY <1>1, <1>2, <2>1, <2>3, <2>4, OutsideInv
<1> QED BY <1>3, <1>4

LEMMA StartInv ==
  ASSUME RInv, Start
  PROVE  RInv'
<1>1. /\ Exists /\ runs' \in 0 .. MaxRuns /\ cronExecution' = Append(cronExecution, Running)
      /\ UNCHANGED <<cronJob, evaluation, changes, faults, history>>
  <2>1. runs \in Nat /\ runs' = runs + 1 /\ runs < MaxRuns /\ MaxRuns \in Nat
    BY BoundAssumption DEF Start, RInv, ScheduleTypeOK
  <2> QED BY <2>1 DEF Start
<1>2. cronExecution \in Seq(Execution) /\ Running \in Execution /\ changes' \in 0 .. MaxChanges
  BY <1>1 DEF RInv, ScheduleTypeOK, Execution
<1>3. /\ cronExecution' \in Seq(Execution)
      /\ DOMAIN cronExecution \subseteq DOMAIN cronExecution'
      /\ \A i \in DOMAIN cronExecution : cronExecution'[i] = cronExecution[i]
  BY <1>1, <1>2
<1>4. Failures(cronExecution) \subseteq Failures(cronExecution)'  BY <1>3 DEF Failures
<1>5. cronJob' \in [isActive : BOOLEAN, cronExpression : ValidField]
  BY <1>1, Rows DEF RInv
<1> QED BY <1>1, <1>2, <1>3, <1>4, <1>5, OutsideInv

LEMMA CloseInv ==
  ASSUME RInv, NEW i \in Unfinished, NEW execution \in Completed, Close(i, execution)
  PROVE  RInv'
<1>1. /\ cronExecution' = [cronExecution EXCEPT ![i] = execution]
      /\ UNCHANGED <<cronJob, evaluation, changes, runs, faults, history>>
  BY DEF Close
<1>2. /\ cronExecution \in Seq(Execution) /\ execution \in Execution
      /\ changes' \in 0 .. MaxChanges /\ runs' \in 0 .. MaxRuns
  BY <1>1 DEF RInv, ScheduleTypeOK, Execution
<1>3. i \in DOMAIN cronExecution /\ cronExecution[i].status # "FAILED"
  BY DEF Unfinished, Running
<1>4. /\ cronExecution' \in Seq(Execution) /\ DOMAIN cronExecution' = DOMAIN cronExecution
      /\ \A o \in DOMAIN cronExecution \ {i} : cronExecution'[o] = cronExecution[o]
  <2>1. PICK len \in Nat : cronExecution \in [1 .. len -> Execution]  BY <1>2
  <2>2. cronExecution' \in [1 .. len -> Execution]  BY <1>1, <1>2, <2>1
  <2> QED BY <1>1, <2>1, <2>2
<1>5. Failures(cronExecution) \subseteq Failures(cronExecution)'  BY <1>3, <1>4 DEF Failures
<1>6. CASE Exists
  <2>1. cronJob' \in [isActive : BOOLEAN, cronExpression : ValidField]
    BY <1>1, <1>6, Rows DEF RInv
  <2> QED BY <1>1, <1>2, <1>4, <1>5, <1>6, <2>1, OutsideInv
<1>7. CASE ~Exists
  BY <1>1, <1>2, <1>4, <1>7, OutsideInv DEF Exists
<1> QED BY <1>6, <1>7

-----------------------------------------------------------------------------
(* The theorems.                                                           *)

LEMMA InitInv == Init => RInv
<1> SUFFICES ASSUME Init PROVE RInv  OBVIOUS
<1>1. PICK e \in Expressions :
        /\ Valid(e) /\ chosen = e /\ cronJob = [isActive |-> TRUE, cronExpression |-> e]
  BY DEF Init
<1>2. e \in Field /\ e \in ValidField  BY <1>1, ExpressionAssumption DEF ValidField
<1>3. cronExecution \in Seq(Execution)
  <2>1. cronExecution \in Seq(Completed) /\ Completed \subseteq Execution
    BY HistoryAssumption DEF Init, Execution
  <2>2. Len(cronExecution) \in Nat /\ \A i \in 1 .. Len(cronExecution) : cronExecution[i] \in Execution
    BY <2>1
  <2> QED BY <2>1, <2>2
<1>4. /\ evaluation \in [Processes -> EvaluationType]
      /\ \A p \in Processes : ~At(p, "measuring") /\ ~At(p, "applying") /\ ~At(p, "disabling")
  BY RestingTyped DEF Init, At
<1>5. changes \in 0 .. MaxChanges /\ runs \in 0 .. MaxRuns /\ faults \in 0 .. MaxFaults
      /\ contested \in BOOLEAN
  <2>1. changes = 0 /\ runs = 0 /\ faults = 0 /\ contested = FALSE  BY DEF Init
  <2>2. MaxChanges \in Nat /\ MaxRuns \in Nat /\ MaxFaults \in Nat  BY BoundAssumption
  <2>3. contested \in BOOLEAN  BY <2>1
  <2> QED BY <2>1, <2>2, <2>3
<1>6. ScheduleTypeOK  BY <1>1, <1>2, <1>3, <1>4, <1>5 DEF ScheduleTypeOK, Execution
<1>7. \A p \in Processes : Justified(p) /\ InBounds(p)  BY <1>4 DEF Justified, InBounds
<1>8. Slower(cronJob.cronExpression)
  <2>1. RunsPerHour(e) \in 1 .. RunsPerHour(e)  BY <1>2, RunsCounted
  <2> QED BY <1>1, <2>1 DEF Slower
<1> QED BY <1>6, <1>7, <1>8 DEF RInv

LEMMA NextInv == RInv /\ [Next]_vars => RInv'
<1> SUFFICES ASSUME RInv, [Next]_vars PROVE RInv'  OBVIOUS
<1>1. CASE UNCHANGED vars
  BY <1>1 DEF vars, history, RInv, ScheduleTypeOK, Justified, InBounds, Slower, At, Exists, Failures
<1>2. ASSUME NEW p \in Processes, Evaluate(p) \/ GiveUp(p) PROVE RInv'
  BY <1>2, LoadInv, MeasureInv, WriteInv DEF Evaluate
<1>3. ASSUME NEW e \in Expressions, Update(e) PROVE RInv'
  BY <1>3, UpdateInv
<1>4. CASE Toggle \/ Remove \/ Start  BY <1>4, ToggleInv, StartInv
<1>5. ASSUME NEW i \in Unfinished, NEW execution \in Completed, Close(i, execution) PROVE RInv'
  BY <1>5, CloseInv
<1> QED BY <1>1, <1>2, <1>3, <1>4, <1>5 DEF Next

\* The invariant holds in every reachable state.
THEOREM Invariance == Spec => []RInv
BY InitInv, NextInv, PTL DEF Spec

\* Every variable keeps its type, and the table only ever holds valid expressions.
THEOREM TypeCorrect == Spec => []ScheduleTypeOK
<1>1. RInv => ScheduleTypeOK  BY DEF RInv
<1> QED BY <1>1, Invariance, PTL

\* The rules never make a job faster than its user chose, however often they rewrite it.
THEOREM NeverFaster == Spec => []NeverFasterThanChosen
<1>1. RInv => NeverFasterThanChosen  BY DEF RInv, NeverFasterThanChosen, Slower
<1> QED BY <1>1, Invariance, PTL

\* A job is only disabled for three failures that are in the table.
THEOREM OnlyOnFailures == Spec => []DisabledOnFailures
<1>1. RInv => DisabledOnFailures
  BY DEF RInv, Justified, DisabledOnFailures, FailedThrice, Failures
<1> QED BY <1>1, Invariance, PTL
=============================================================================
