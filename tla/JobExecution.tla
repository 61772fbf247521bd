----------------------------- MODULE JobExecution -----------------------------
(***************************************************************************)
(* SchedulerService.executeJob and executeJobInternal: what happens to a   *)
(* job between the moment a timer (or a manual request) asks for it and    *)
(* the moment its result is known.  A run waits in the p-queue of its      *)
(* process, marks the job RUNNING, creates its CronExecution row, calls    *)
(* the endpoint up to retryCount times, and commits row and job together.  *)
(*                                                                         *)
(* A step is the code between two awaits; the database applies a statement *)
(* in the step that receives its result, or in which the process ends      *)
(* before.  Runs are numbered in the order in which they were handed to    *)
(* executeJob.                                                             *)
(***************************************************************************)
EXTENDS Integers, FiniteSets, Sequences

CONSTANTS
  Jobs,           \* ids of CronJob rows; a deleted id is never used again (uuid)
  Processes,      \* server instances sharing the database
  MaxConcurrent,  \* MAX_CONCURRENT_EXECUTIONS
  RetryCount,     \* CronJob.retryCount of each job, 0..10 by the DTO
  Replies,        \* the HTTP statuses an endpoint answers with
  MaxRuns,        \* bound: runs handed to executeJob
  MaxFaults       \* bound: statements of one run that end in an error

ASSUME PopulationAssumption == Jobs # {} /\ Processes # {}
ASSUME ConcurrencyAssumption == MaxConcurrent \in Nat \ {0}
ASSUME RetryAssumption == RetryCount \in [Jobs -> Nat]
ASSUME ReplyAssumption == Replies \subseteq Nat \ {0}
ASSUME BoundAssumption == MaxRuns \in Nat /\ MaxFaults \in Nat

VARIABLES
  cronJob,        \* table CronJob: the status of each job, or Absent
  cronExecution,  \* table CronExecution: the row each run has created
  task,           \* the call of executeJobInternal of each run
  faults,         \* history: statements of each run that ended in an error
  answers,        \* history: HTTP answers below 400 each run received
  calls,          \* history: HTTP requests each run made
  notices         \* history: the WebSocket events each run emitted, in order

vars == <<cronJob, cronExecution, task, faults, answers, calls, notices>>

-----------------------------------------------------------------------------
Runs == 1 .. MaxRuns

Absent == "ABSENT"
JobStatus == {"PENDING", "RUNNING", "SUCCESS", "FAILED"}
Terminal == {"SUCCESS", "FAILED"}

NoReply == 0
NoRecord == [status |-> "NONE", attempt |-> 0, responseStatus |-> NoReply]
Record(s, a, h) == [status |-> s, attempt |-> a, responseStatus |-> h]

\* The awaits of executeJobInternal, in the order of the code.
Pending == {"starting", "creating", "requesting", "backoff", "committing",
            "failing", "recovering"}
\* Between the RUNNING update and the last write of the run.
InFlight == Pending \ {"starting"}
Done == {"resolved", "rejected", "lost"}
Phases == {"idle", "waiting"} \union Pending \union Done

At(r, phase) == task[r].pc = phase
JobOf(r) == task[r].job
On(p) == {r \in Runs : task[r].pc # "idle" /\ task[r].process = p}

\* p-queue: its size and pending, as getQueueStats reports them.
Waiting(p) == {r \in On(p) : At(r, "waiting")}
Active(p) == {r \in On(p) : task[r].pc \in Pending}

\* p-queue: higher priority first, then in order of arrival.
Ahead(r, s) == \/ task[r].priority > task[s].priority
               \/ task[r].priority = task[s].priority /\ r <= s
NextUp(p) == {r \in Waiting(p) : \A s \in Waiting(p) : Ahead(r, s)}

\* Mutant: one run too many.
HasSlotOffByOne(p) == Cardinality(Active(p)) <= MaxConcurrent

\* p-queue starts a run at once while fewer than MaxConcurrent are active.
HasSlot(p) == Cardinality(Active(p)) < MaxConcurrent

-----------------------------------------------------------------------------
(* Building blocks of the actions.                                         *)

InPhase(t, phase) == [t EXCEPT !.pc = phase]

\* The promise of run r settles: p-queue frees the slot and starts the next.
Settled(r, verdict) ==
  [s \in Runs |->
     IF s = r THEN InPhase(task[s], verdict)
     ELSE IF s \in NextUp(task[r].process) THEN InPhase(task[s], "starting")
     ELSE task[s]]

\* The memory of process p is gone, with every run that had not settled.
Wiped(p) ==
  [s \in Runs |-> IF s \in Waiting(p) \union Active(p)
                  THEN InPhase(task[s], "lost") ELSE task[s]]

\* The error of a manual run answers its request.  The callback of a timer has
\* no handler for it: Node ends the process on the unhandled rejection.
Reject(r) ==
  task' = IF task[r].manual THEN Settled(r, "rejected")
          ELSE [Wiped(task[r].process) EXCEPT ![r] = InPhase(task[r], "rejected")]

Fault(r) == /\ faults[r] < MaxFaults
            /\ faults' = [faults EXCEPT ![r] = @ + 1]

\* A statement on the row of run r's job, or on the run's own row (deleted
\* with it): applied and confirmed; applied but its confirmation lost;
\* refused by the database; or without its row.
Statement(r, effect, noEffect, onSuccess, onError) ==
  LET exists == cronJob[JobOf(r)] # Absent
  IN  \/ exists /\ effect /\ onSuccess /\ UNCHANGED faults
      \/ exists /\ effect /\ onError /\ Fault(r)
      \/ noEffect /\ onError /\ Fault(r)
      \/ ~exists /\ noEffect /\ onError /\ UNCHANGED faults

Proceed(r, phase) == task' = [task EXCEPT ![r] = InPhase(@, phase)]

Emit(r, event) == notices' = [notices EXCEPT ![r] = Append(@, event)]

SetJob(r, status) == cronJob' = [cronJob EXCEPT ![JobOf(r)] = status]

OpenRow(r) == cronExecution' = [cronExecution EXCEPT ![r] = Record("RUNNING", 1, NoReply)]

\* Mutant: the row of the run is left out.
CompleteJobOnly(r, status, attempt, reply) ==
  SetJob(r, status) /\ UNCHANGED cronExecution

\* The transaction over the run's row and its job.
Complete(r, status, attempt, reply) ==
  /\ SetJob(r, status)
  /\ cronExecution' = [cronExecution EXCEPT ![r] = Record(status, attempt, reply)]

\* Mutant: one attempt too many.
AttemptFailedOffByOne(r) ==
  task' = [task EXCEPT ![r].attempt = @ + 1,
                       ![r].pc = IF task[r].attempt <= RetryCount[JobOf(r)]
                                 THEN "backoff" ELSE "failing"]

\* An attempt failed: wait for the next one, or give up.
AttemptFailed(r) ==
  task' = [task EXCEPT ![r].attempt = @ + 1,
                       ![r].pc = IF task[r].attempt < RetryCount[JobOf(r)]
                                 THEN "backoff" ELSE "failing"]

-----------------------------------------------------------------------------
Idle == [pc |-> "idle", job |-> CHOOSE j \in Jobs : TRUE,
         process |-> CHOOSE p \in Processes : TRUE,
         manual |-> FALSE, priority |-> 0, attempt |-> 1, reply |-> NoReply]

Init ==
  /\ cronJob = [j \in Jobs |-> "PENDING"]
  /\ cronExecution = [r \in Runs |-> NoRecord]
  /\ task = [r \in Runs |-> Idle]
  /\ faults = [r \in Runs |-> 0]
  /\ answers = [r \in Runs |-> 0]
  /\ calls = [r \in Runs |-> 0]
  /\ notices = [r \in Runs |-> <<>>]

\* Mutant: the queue is created with autoStart: false and goes on by itself only
\* when a run settles.
ExecuteJobUnstarted(j, p, manual, isManual) ==
  \E r \in Runs :
    /\ At(r, "idle")
    /\ \A s \in Runs : s < r => ~At(s, "idle")
    /\ task' = [task EXCEPT ![r] =
         [Idle EXCEPT !.pc = "waiting", !.job = j, !.process = p, !.manual = manual,
                      !.priority = IF isManual THEN 1 ELSE 0]]
    /\ UNCHANGED <<cronJob, cronExecution, faults, answers, calls, notices>>

\* executeJob: the run is added to the queue of process p.
ExecuteJob(j, p, manual, isManual) ==
  \E r \in Runs :
    /\ At(r, "idle")
    /\ \A s \in Runs : s < r => ~At(s, "idle")
    /\ task' = [task EXCEPT ![r] =
         [Idle EXCEPT !.pc = IF HasSlot(p) THEN "starting" ELSE "waiting",
                      !.job = j, !.process = p, !.manual = manual,
                      !.priority = IF isManual THEN 1 ELSE 0]]
    /\ UNCHANGED <<cronJob, cronExecution, faults, answers, calls, notices>>

\* Mutant: a tick that finds its job still RUNNING asks for the priority.
TickLateFirst(j, p) == ExecuteJob(j, p, FALSE, cronJob[j] = "RUNNING")

\* A timer ticks.  Its job may have been deleted, and may still be running.
Tick(j, p) == ExecuteJob(j, p, FALSE, FALSE)

\* CronJobsService.execute; it leaves isManual at its default.
Execute(j, p) == cronJob[j] # Absent /\ ExecuteJob(j, p, TRUE, FALSE)

\* The update to RUNNING, outside the try block, and emitExecutionStarted.
MarkRunning(r) ==
  /\ At(r, "starting")
  /\ Statement(r, SetJob(r, "RUNNING"), UNCHANGED cronJob,
               Proceed(r, "creating") /\ Emit(r, "started"),
               Reject(r) /\ UNCHANGED notices)
  /\ UNCHANGED <<cronExecution, answers, calls>>

\* Mutant: the row is created outside the try block.
CreateExecutionUncaught(r) ==
  /\ At(r, "creating")
  /\ Statement(r, OpenRow(r), UNCHANGED cronExecution,
       Proceed(r, IF RetryCount[JobOf(r)] >= 1 THEN "requesting" ELSE "failing"),
       Reject(r))
  /\ UNCHANGED <<cronJob, answers, calls, notices>>

\* With retryCount 0 the loop is skipped and the run fails without a request.
CreateExecution(r) ==
  /\ At(r, "creating")
  /\ Statement(r, OpenRow(r), UNCHANGED cronExecution,
       Proceed(r, IF RetryCount[JobOf(r)] >= 1 THEN "requesting" ELSE "failing"),
       Proceed(r, "recovering"))
  /\ UNCHANGED <<cronJob, answers, calls, notices>>

\* executeHttpRequest returns: validateStatus accepts every status.
Answer(r, reply) ==
  /\ At(r, "requesting")
  /\ calls' = [calls EXCEPT ![r] = @ + 1]
  /\ answers' = [answers EXCEPT ![r] = IF reply < 400 THEN @ + 1 ELSE @]
  /\ task' = [task EXCEPT ![r].pc = "committing", ![r].reply = reply]
  /\ UNCHANGED <<cronJob, cronExecution, faults, notices>>

\* executeHttpRequest throws: a timeout or a network error.
NoAnswer(r) ==
  /\ At(r, "requesting")
  /\ calls' = [calls EXCEPT ![r] = @ + 1]
  /\ AttemptFailed(r)
  /\ UNCHANGED <<cronJob, cronExecution, faults, answers, notices>>

\* The backoff ends; the run kept its queue slot meanwhile.
Retry(r) ==
  /\ At(r, "backoff")
  /\ Proceed(r, "requesting")
  /\ UNCHANGED <<cronJob, cronExecution, faults, answers, calls, notices>>

\* Mutant: the return after the success transaction is missing.
CommitSuccessFallsThrough(r) ==
  /\ At(r, "committing")
  /\ Statement(r, Complete(r, "SUCCESS", task[r].attempt, task[r].reply),
               UNCHANGED <<cronJob, cronExecution>>,
               AttemptFailed(r) /\ Emit(r, "SUCCESS"),
               AttemptFailed(r) /\ UNCHANGED notices)
  /\ UNCHANGED <<answers, calls>>

\* The success transaction; its error is caught as that of a failed attempt.
CommitSuccess(r) ==
  /\ At(r, "committing")
  /\ Statement(r, Complete(r, "SUCCESS", task[r].attempt, task[r].reply),
               UNCHANGED <<cronJob, cronExecution>>,
               task' = Settled(r, "resolved") /\ Emit(r, "SUCCESS"),
               AttemptFailed(r) /\ UNCHANGED notices)
  /\ UNCHANGED <<answers, calls>>

\* Mutant: the attempt that was not made is counted.
CommitFailureOneMore(r) ==
  /\ At(r, "failing")
  /\ Statement(r, Complete(r, "FAILED", task[r].attempt, cronExecution[r].responseStatus),
               UNCHANGED <<cronJob, cronExecution>>,
               task' = Settled(r, "resolved") /\ Emit(r, "FAILED"),
               Proceed(r, "recovering") /\ UNCHANGED notices)
  /\ UNCHANGED <<answers, calls>>

\* The failure transaction leaves responseStatus as it is; its error is caught by
\* the outer catch.
CommitFailure(r) ==
  /\ At(r, "failing")
  /\ Statement(r, Complete(r, "FAILED", task[r].attempt - 1,
                           cronExecution[r].responseStatus),
               UNCHANGED <<cronJob, cronExecution>>,
               task' = Settled(r, "resolved") /\ Emit(r, "FAILED"),
               Proceed(r, "recovering") /\ UNCHANGED notices)
  /\ UNCHANGED <<answers, calls>>

\* Mutant: the outer catch announces nothing.
RecoverSilently(r) ==
  /\ At(r, "recovering")
  /\ Statement(r, SetJob(r, "FAILED"), UNCHANGED cronJob, Reject(r), Reject(r))
  /\ UNCHANGED <<cronExecution, answers, calls, notices>>

\* Mutant: the outer catch tries until its update succeeds.
RecoverUntilDone(r) ==
  /\ At(r, "recovering")
  /\ Statement(r, SetJob(r, "FAILED"), UNCHANGED cronJob,
               Reject(r) /\ Emit(r, "FAILED"),
               UNCHANGED <<task, notices>>)
  /\ UNCHANGED <<cronExecution, answers, calls>>

\* The outer catch: the job becomes FAILED, the run's row stays as it is.
Recover(r) ==
  /\ At(r, "recovering")
  /\ Statement(r, SetJob(r, "FAILED"), UNCHANGED cronJob,
               Reject(r) /\ Emit(r, "FAILED"),
               Reject(r) /\ UNCHANGED notices)
  /\ UNCHANGED <<cronExecution, answers, calls>>

\* Mutant: the rows of the job's runs are left behind.
DeleteJobOnly(j) ==
  /\ cronJob[j] # Absent
  /\ cronJob' = [cronJob EXCEPT ![j] = Absent]
  /\ UNCHANGED <<cronExecution, task, faults, answers, calls, notices>>

\* CronJobsService.remove: the rows of the job's runs are deleted with it.
DeleteJob(j) ==
  /\ cronJob[j] # Absent
  /\ cronJob' = [cronJob EXCEPT ![j] = Absent]
  /\ cronExecution' = [r \in Runs |-> IF JobOf(r) = j THEN NoRecord
                                      ELSE cronExecution[r]]
  /\ UNCHANGED <<task, faults, answers, calls, notices>>

\* The process ends: SIGTERM (no shutdown hooks are enabled), a kill, a power
\* failure.  It is started again and its queue is empty.
Stop(p) ==
  /\ Waiting(p) \union Active(p) # {}
  /\ task' = Wiped(p)
  /\ UNCHANGED <<cronJob, cronExecution, faults, answers, calls, notices>>

\* What the statement does whose result run r waits for.
Effect(r) ==
  \/ At(r, "starting") /\ SetJob(r, "RUNNING") /\ UNCHANGED cronExecution
  \/ At(r, "creating") /\ OpenRow(r) /\ UNCHANGED cronJob
  \/ At(r, "committing") /\ Complete(r, "SUCCESS", task[r].attempt, task[r].reply)
  \/ /\ At(r, "failing")
     /\ Complete(r, "FAILED", task[r].attempt - 1, cronExecution[r].responseStatus)
  \/ At(r, "recovering") /\ SetJob(r, "FAILED") /\ UNCHANGED cronExecution

\* The process ends after the database has applied a statement of run r and before
\* the run has seen its result.
StopAfter(r) ==
  /\ cronJob[JobOf(r)] # Absent
  /\ Effect(r)
  /\ task' = Wiped(task[r].process)
  /\ UNCHANGED <<faults, answers, calls, notices>>

Step(r) ==
  \/ MarkRunning(r) \/ CreateExecution(r) \/ NoAnswer(r) \/ Retry(r)
  \/ \E reply \in Replies : Answer(r, reply)
  \/ CommitSuccess(r) \/ CommitFailure(r) \/ Recover(r)

Next ==
  \/ \E r \in Runs : Step(r) \/ StopAfter(r)
  \/ \E j \in Jobs, p \in Processes : Tick(j, p) \/ Execute(j, p)
  \/ \E j \in Jobs : DeleteJob(j)
  \/ \E p \in Processes : Stop(p)

Spec == Init /\ [][Next]_vars

\* A request ends by its timeout, a statement by its answer or its error, a
\* backoff by its timer: the step a run waits for comes.
FairSpec == Spec /\ \A r \in Runs : WF_vars(Step(r))

-----------------------------------------------------------------------------
(* What a run promises.                                                    *)

TaskType == [pc : Phases, job : Jobs, process : Processes, manual : BOOLEAN,
             priority : {0, 1}, attempt : Nat, reply : Replies \union {NoReply}]
RecordType == [status : {"NONE", "RUNNING"} \union Terminal, attempt : Nat,
               responseStatus : Replies \union {NoReply}]

Events == {"started"} \union Terminal

WithinAttempts(r) == task[r].pc \in {"requesting", "backoff", "committing"} =>
                       task[r].attempt <= RetryCount[JobOf(r)]

\* Every variable has its type; a run whose loop has not ended is at one of the
\* retryCount attempts it may make.
ExecutionTypeOK ==
  /\ cronJob \in [Jobs -> JobStatus \union {Absent}]
  /\ cronExecution \in [Runs -> RecordType]
  /\ task \in [Runs -> TaskType]
  /\ \A r \in Runs : WithinAttempts(r)
  /\ faults \in [Runs -> 0 .. MaxFaults]
  /\ answers \in [Runs -> Nat]
  /\ calls \in [Runs -> Nat]
  /\ notices \in [Runs -> Seq(Events)]

\* No process ever executes more than MAX_CONCURRENT_EXECUTIONS runs, however
\* they arrive, fail, wait out a backoff or settle.
ConcurrencyLimit == \A p \in Processes : Cardinality(Active(p)) <= MaxConcurrent

\* No slot stays free while a run waits: every way a run can settle, errors of
\* the database included, hands its slot on.
WorkConserving ==
  \A p \in Processes : Waiting(p) # {} => ~HasSlot(p)

\* A process starts its scheduled runs in the order in which they were handed over,
\* and its manual runs likewise: none is left waiting while a later one of its kind
\* has been started.
NoOvertaking ==
  \A p \in Processes : \A r \in Waiting(p), s \in On(p) :
    r < s /\ task[r].manual = task[s].manual => At(s, "waiting")

\* Run r ended without having been able to undo its RUNNING update: the update
\* itself was not confirmed, or both a write and its recovery failed.
GaveUp(r) == /\ At(r, "rejected")
             /\ faults[r] >= 2 \/ (faults[r] = 1 /\ notices[r] = <<>>)

\* A job may show RUNNING because of run r.
Accounts(r) == task[r].pc \in InFlight \union {"lost"} \/ GaveUp(r)

\* A job shows RUNNING only while a run of it is under way, unless a process
\* ended with such a run or the database failed the run's last writes.
NoLeakedRunning ==
  \A j \in Jobs : cronJob[j] = "RUNNING" =>
    \E r \in Runs : JobOf(r) = j /\ Accounts(r)

\* A row stays RUNNING only under a run that is under way, was lost with its
\* process, or met a database error; a settled run never leaves one behind.
NoOrphanRow ==
  \A r \in Runs : cronExecution[r].status = "RUNNING" =>
    \/ task[r].pc \in (InFlight \ {"creating"}) \union {"lost"}
    \/ (At(r, "rejected") /\ faults[r] >= 1)

\* An endpoint that has answered with a status below 400 is called again by the run,
\* or has the run recorded as FAILED, only at the cost of a database error: each such
\* answer beyond the one that counts comes with an answer that could not be stored.
AnswersAccounted ==
  \A r \in Runs : cronJob[JobOf(r)] # Absent =>
    answers[r] <= faults[r] + (IF \/ task[r].pc \in {"requesting", "backoff", "failing"}
                                  \/ cronExecution[r].status = "FAILED"
                               THEN 0 ELSE 1)

\* A run makes at most retryCount requests, and the row of a settled run says
\* how many it made, also when retryCount is 0 and when attempts were repeated
\* because of the database.
AttemptsAccounted ==
  \A r \in Runs :
    /\ calls[r] <= RetryCount[JobOf(r)]
    /\ At(r, "resolved") /\ cronJob[JobOf(r)] # Absent =>
         cronExecution[r].attempt = calls[r]

\* A run announces its start once and its end at most once, the end with the
\* verdict of its row; the end is missing only if the job was deleted or the
\* database failed both a write and the recovery.
EventsMatchRow ==
  \A r \in Runs :
    /\ notices[r] \in {<<>>, <<"started">>}
          \union {<<"started", verdict>> : verdict \in Terminal}
    /\ cronJob[JobOf(r)] # Absent =>
         /\ At(r, "resolved") => notices[r] = <<"started", cronExecution[r].status>>
         /\ At(r, "rejected") /\ notices[r] = <<"started">> => faults[r] >= 2

\* Without a database error the verdict of a row is final: it changes only when
\* the job is deleted.
VerdictStable ==
  [][\A r \in Runs : cronExecution[r].status \in Terminal /\ faults[r] = 0 =>
       cronExecution'[r] \in {cronExecution[r], NoRecord}]_vars

\* Whatever the endpoints and the database do, a run that waits is executed and
\* ends, or is lost with its process.
EveryRunEnds == \A r \in Runs : At(r, "waiting") ~> task[r].pc \in Done

-----------------------------------------------------------------------------
(* What the documents say and the code does not do.                        *)

\* scheduler.service.ts, executeJob: "Manual executions have higher priority": no
\* scheduled run is taken from the queue while a manual one waits there.
ManualFirst ==
  [][\A p \in Processes : \A r \in Waiting(p), s \in Waiting(p) :
       task[r].manual /\ ~task[s].manual /\ task'[s].pc = "starting" =>
         task'[r].pc # "waiting"]_vars

-----------------------------------------------------------------------------
(* What a run looks like from outside.                                     *)

RowStatus == [r \in Runs |-> cronExecution[r].status]
Disturbed == {r \in Runs : faults[r] > 0}
Over == {r \in Runs : task[r].pc \in Done}
Gone == {r \in Runs : ~At(r, "idle") /\ cronJob[JobOf(r)] = Absent}

Ledger == INSTANCE RunLedger WITH
  row <- RowStatus, announced <- notices, disturbed <- Disturbed, over <- Over, deleted <- Gone

\* Rows and events of the runs behave as RunLedger says: every run opens its row once,
\* closes it together with its announcement, and departs from that only after an error
\* of the database, the end of a process or the deletion of its job.
KeepsLedger == Ledger!Spec
=============================================================================
