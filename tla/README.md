# TLA+ models of cron-manager

cron-manager is a NestJS server that calls HTTP endpoints on cron schedules. It keeps
its jobs and their executions in PostgreSQL (through Prisma), runs them through an
in-memory `p-queue`, and offers a REST API with API tokens, a dashboard, WebSocket
events and an hourly service that changes schedules by rules. The repository has no
tests for what follows; the models say what the server does when its asynchronous
steps interleave, statements fail, processes end, and two instances share a database.

Source references are `file:line` under `src/src/` unless a directory is given.

## 1. Inventory

| Component | State | Operations | What makes it correct |
|---|---|---|---|
| **Job execution** `scheduler.service.ts` (`executeJob`, `executeJobInternal`), `execution.service.ts` | the p-queue of the process; rows of `CronExecution`; `CronJob.status` | queue a run; mark RUNNING; create its row; request with retries and backoff; commit success, failure, or recover | the queue is bounded, fair and never idle; rows, job statuses, attempts and events agree; every disagreement has a named cause |
| **Job registry** `scheduler.service.ts` (`registerJob`, `unregisterJob`, `onModuleInit`), `cron-jobs.service.ts` | rows of `CronJob`, `ScheduleChange`; the map `registeredJobs` of each process | create, update, toggle, remove; load at start | the timers of a process are those the table asks for |
| **Rescheduling** `rescheduling.service.ts` | none of its own; reads rows of `CronJob`, `CronExecution` | hourly evaluation: load, measure, decide by five rules; extend the interval or disable the job | a schedule is only ever slowed down; the rule that fires is the intended one; row, record and timer agree |
| **Rate limiting** `rate-limit.interceptor.ts` | `store`: counter and end of window per key, in memory | intercept, cleanup | bounded admission; no key locked out |
| **API tokens and guards** `auth.service.ts`, `api-token.guard.ts`, `jwt-*.ts` | rows of `ApiToken`, `User` | create, list, revoke; authenticate and authorise; login, register | tokens are unique; revoked and expired ones are refused; scopes mean what they say |
| **WebSocket gateway** `websocket.gateway.ts` | rooms of socket.io | subscribe, unsubscribe, emit | events agree with the rows |
| **Monitoring** `monitoring.service.ts` | none | logs, statistics, history; cleans stored HTML while it reads | numbers add up; reading does not fail because of what is deleted meanwhile |
| **Audit log** `audit.service.ts` | rows of `AuditLog` | one insert, errors swallowed | - |
| **Database** `prisma/schema.prisma` | tables, cascades | - | - |
| **Bootstrap** `main.ts` | - | start, end of the process | jobs survive both |
| **Pages in the browser** `public/js/*.js`, `views/` | the socket; the rows, counts and dialogs shown; timers, fetches under way | load, follow events, reload after a delay, write labels, validate a cron expression, copy a body | what is shown when nothing is on its way is what the tables hold |
| **Controllers, DTOs, filters** | none | hand requests on | - |

How they interact. A timer of `cron` calls `executeJob`, which adds a closure to the
queue of the process; `CronJobsService.execute` does the same for a manual run. The
closure awaits the database, the endpoint and timers in turn, and calls the gateway.
`CronJobsService` writes the table and then calls the scheduler of *its own* process.
`ReschedulingService` reads rows, calls `CronJobsService.update`, or writes the row
behind the scheduler's back. Nothing but the database is shared between processes, and
nothing tells a process of another one's writes. API requests pass `ApiTokenGuard`,
then `RateLimitInterceptor`, then the controller. Pages get the gateway's events from the
process they are connected to, in order, while they are connected, and fetch the lists and
counts again when an event tells them to; the answers come in any order.

Hard behaviours: overlapping runs of one job; a job deleted under its runs; a
transaction inside the `try` of an attempt; statements that stand outside every `try`;
a callback without a `catch`, whose rejection ends the process; no shutdown hooks;
rows kept across awaits; a fixed window whose clock is read twice; numbers counted for
one user and unique for all; schedules rewritten by several processes in the same hour;
events that are lost, or announce what is not there yet; answers that overtake each other. `PROJECT.json` lists each at its line under `hazards`.

## 2. Modules

| Module | Models | Extended by |
|---|---|---|
| `JobExecution` | queue and `executeJobInternal`, table `CronExecution`, `CronJob.status`, deletion, end of a process | `MCJobExecution` (instances), `JobExecutionProofs` |
| `RunLedger` | what a run promises from outside, implemented by `JobExecution` | `RunLedgerProofs` |
| `JobRegistry` | `CronJob` rows against timers, create/update/toggle/remove, the hourly rules, boot | `MCJobRegistry`, `JobRegistryProofs` |
| `Rescheduling` | what the rules decide and write for one job, against users and executions | `MCRescheduling`, `ReschedulingProofs` |
| `RateLimit` | `RateLimitInterceptor` | `MCRateLimit`, `RateLimitProofs` |
| `Access` | API tokens: creation, revocation, `ApiTokenGuard` | `MCAccess`, `AccessProofs` |
| `JobsPage` | the page of the jobs (`jobs.js`) against table, gateway and answers | `MCJobsPage`, `JobsPageProofs` |
| `ExecutionFeed` | rows and events of executions as pages see them; `getGlobalLogs` | `LogsPage`, `Dashboard` |
| `LogsPage` | the page of the logs (`logs.js`): list, index array, dialog | `Pages` |
| `Dashboard` | the dashboard (`app.js`, `dashboard.js`): counts of `getStats`, recent executions | `Pages` |
| `CronForm` | the field for the cron expression (`jobs.js`) and its validation | `Pages` |
| `Pages` | one of the three is open; the server goes on behind it | `MCPages`, `PagesProofs` |

A step is the code between two awaits. The effect of a database statement takes place
in the step that receives its result, and a statement has four outcomes (operator
`Statement` of the two job modules, spelt out in `Access`): applied and confirmed; applied
with its confirmation lost; refused; or without the row it is about. `MaxFaults` bounds
the errors of the job modules.
Every module has mutants: operators named for a plausible bug (`HasSlotOffByOne`,
`RecoverSilently`, ...), each defined before the operator that it would replace and
used by none. `PROJECT.json` pairs each property with a mutant that violates it.

### JobExecution

| State | Code |
|---|---|
| `cronJob[j]` | `CronJob.status`; `Absent` once deleted |
| `cronExecution[r]` | the row run *r* creates: status, attempt number, response status |
| `task[r]` | the closure in the queue: where it is (`pc`), its job, process, attempt, reply |
| `faults`, `answers`, `calls`, `notices` | history, read by properties only (`faults` also carries the bound) |

| Action | Code |
|---|---|
| `Tick`, `Execute` (both by `ExecuteJob`) | callback of a timer `scheduler.service.ts:76`; `CronJobsService.execute` |
| `MarkRunning`, `CreateExecution` | `scheduler.service.ts:141-168` |
| `Answer`, `NoAnswer`, `Retry` | `execution.service.ts:44-111`, the backoff `scheduler.service.ts:274` |
| `CommitSuccess`, `CommitFailure`, `Recover` | the two transactions and the outer catch |
| `DeleteJob` | `CronJobsService.remove` with the cascade to executions |
| `Stop` | the process ends: `Wiped` loses its runs |
| `StopAfter` | the process ends after the database applied a run's statement (`Effect`) and before its result was read |

`Settled` is p-queue's `next`: the end of a run and the start of the next are one step.
`Reject` distinguishes a manual run, whose error answers a request, from that of a
timer, whose callback does not catch it: Node ends the process on the unhandled
rejection, so that every other run of the process is lost with it. Runs are numbered
in the order in which they were handed over. What the HTTP response contains, beyond its status,
is abstracted away; so are times.

### RunLedger

The abstract specification of a run: begin, open the row, close it together with the
announcement of the same verdict; and three departures, each with its reason: a database
error (`Disturb`, `Abandon`), the end of a process (`Vanish`), a deleted job (`Delete`). It
knows no queue, attempt, endpoint, backoff or slot. `JobExecution` implements it under

| `RunLedger` | in `JobExecution` |
|---|---|
| `row` | `RowStatus`: the status in `cronExecution[r]` |
| `announced` | `notices[r]` |
| `disturbed` | `Disturbed`: runs with an error counted in `faults` |
| `over` | `Over`: runs whose `pc` is one of `Done` |
| `deleted` | `Gone`: runs whose job is `Absent` |

so that marking RUNNING, the request, the retries and the hand-over of slots are
stutters. `Agreement` and `Final` are properties of the ledger alone; the system has them
because it implements it.

### JobRegistry

`request[q]` is a request under way with the row it has read (`seen`), the row it got
back (`written`) and, for an evaluation, the row it was judged by. Each `await` of
`update`, `toggle`, `remove` and of an evaluation is a point of it. `registeredJobs[p][j]`
is the row captured in the timer, since the callback keeps that row. `overlapped` and
`excused` are history: the jobs two requests worked on at once, and the processes that
have not been told of a job's row; the property `Consistency` is stated for the rest,
so that what is left out of step is exactly what these two name. The choice of a
rule (`evaluateRules`) is nondeterministic between those in `Rules`; which rule fires is
the subject of `Rescheduling`.

### Rescheduling

| State | Code |
|---|---|
| `cronJob` | the job's `isActive` and the minute field of `cronExpression` (`extendCronInterval` leaves the other fields alone) |
| `cronExecution` | its rows in the order of `startedAt`; `Running` until closed, for ever if it never is |
| `evaluation[p]` | what process *p* carries across its awaits: the row judged, the metrics, the verdict |
| `chosen`, `contested` | history: the user's last choice, and whether it came during an evaluation |

`Load`, `Measure`, `Apply` and `Disable` are the statements of `evaluateAndReschedule` for one job,
`GiveUp` is the `catch` around it and the end of the process. `Metrics` is `calculateMetrics`,
`Condition` and `Action` are the five rules, `Verdict` is `evaluateRules` with its order and its
treatment of `null`, `Extended` is `extendCronInterval`, `Valid` the check by which `update` refuses a
minute beyond the hour. A minute field is a wildcard, a step, one minute, or a list or range that begins with
a minute; only its first number is scaled. Factors are fractions, since the code floors
the product. Users `Update`, `Toggle` and `Remove` between any two of these steps, and runs start and end.

### RateLimit

`intercept` has no await and is one action, `Intercept(k, t)`: its first reading of the
clock is `clock`, and cleanup reads it again as `t >= clock`. `Open`, `Pass` and `Refuse`
are its three ways to go; `Counted` says what becomes of the record that was read
before cleanup, also when cleanup has dropped it. `admitted` is history. The store is
of one process: several instances, or a restart, multiply what a key may do.

### Access

A token is its number. `CountTokens` and `Create` are the two halves of `createApiToken`,
`FindToken` and `Revoke` of `revokeApiToken`, `Arrive`, `Authenticate` and `Note` of a request
that the guard handles. `Permitted` is the guard's `every` over the two permissions that
all endpoints name. `late` is history: whether the token was of no use when the request
came in. Endpoints are those with `RequirePermissions(need, ADMIN)`; requests with a JWT
do not touch the table and are left out.

### The pages

`JobsPage` has the server's table, `announcements` (committed, not yet emitted), the socket (`connected`,
`inbox`, in order), and of the page its `timers`, `loads` (fetches under way, each with the list it will
bring), `table` and `notice`. `Receive` is the handlers of the socket events, `TimerEnds` the 500 ms
before a reload, `Return` the reload after one's own request, `FindAll` and `Render` the
two halves of a load, `Labelled` is `updateJobStatus`. A row has the columns that change: active or
not, `nextRunAt`, which `Update` moves, and status and `lastRunAt`, which the start of a run writes
together. The event of a start brings the label alone, so that Last Run stays behind until the run ends
(`AsShown`). `ExecutionFeed` is built in the same way over executions,
with `CleanHtml` for the updates `getGlobalLogs` makes between its query and its answer; `LogsPage` adds
the array `logsData` the buttons point into by index, and the dialog; `Dashboard` adds the
requests of `updateStats`, each of whose counts is taken at a moment of its own (`Witness` collects
those moments), and `dashboard.js`, which reads names that the answer of `getStats` does not have and writes
zeros, or nothing when its request fails.
`CronForm` has the text, the debounce timer and the validations under way. A validation ends with the verdict
(`ShowVerdict`), with an error other than 401, whose body the page shows as a refused expression
(`ShowRefusal`), or with no answer, which shows as a valid one, or a 401, which changes nothing (`NoVerdict`);
`unknown` says that what is shown was made of an error. Variables marked as
history (`version`, `loaded`, `told`, `unheard`, `intact`, ...) say when a page could not
have known better; the properties exclude these cases, and so name the
ways in which a page goes stale.

## 3. What TLC checks

| Run | Instance | Distinct states | Shows |
|---|---|---|---|
| `Queue` | one process, one slot, three runs, one error each, under fairness | 241,796 | `ConcurrencyLimit`, `WorkConserving`, `NoOvertaking` (among scheduled and among manual runs), and `EveryRunEnds` (liveness) |
| `Attempts` | two processes, two runs of two jobs with `retryCount` 2 and 0, two errors each | 1,097,846 | type invariant; `NoLeakedRunning`, `NoOrphanRow`, `AnswersAccounted`, `AttemptsAccounted`, `EventsMatchRow`, `VerdictStable`; `KeepsLedger` (the refinement of `RunLedger`) |
| `Registry` | two processes, one job, two expressions, a known and an unknown zone, one error, extending and disabling rules, two requests at once | 1,011,970 | type invariant; `Consistency`, `OnlyCommittedRows`, `BootHeals`, `ChangesRecorded` |
| `Rescheduling` | two processes, `Window` 11, timeout 10, times 1, 9, 10; fields `*`, `*/40`, `40,..`; two changes, one extra run, one end of an evaluation, under fairness | 162,720 | type invariant; `NeverFasterThanChosen`, `DisabledOnFailures`, and `BacksOff` (liveness) |
| `RateLimit` | two keys, limit 2, window 2, clock to 6, two refusals a window | 184,197 | type invariant; `AtMostTwice`, `RefusalEarned` |
| `Access` | two users, three tokens, two requests at once, clock to 2 | 1,227,795 | type invariant; `TokensKept`, `LateIsRefused` |
| `JobsPage` | one job, three changes, two loads at once, one loss | 2,125,792 | type invariant; `TableCurrent` |
| `Pages` | one job, two executions, two changes, two fetches at once, one loss, two clicks; four edits, three validations at once | 1,889,834 | type invariant; `ListCurrent`, `StatsCurrent`, `VerdictCurrent`, `CopyMatches` |
| `DocDisable`, `DocPriority`, `DocTokens`, `DocConsecutive` | small instances | - | violated: section 6 |

Why the bounds are enough. *Queue*: one slot and three runs give a run that holds the
slot, one that is next and one behind it, which is what order and hand-over are about;
with one error a run can be rejected, which ends the process, at each of its
statements. *Attempts*: the loop is passed
not at all, once, and with a repetition; two errors are what it takes for a write and its
recovery to fail; two runs can be of one job or of two, on one process or on two. The
properties concern one run, or one job and a run of it. *Registry*: the properties concern a
job and a process; two requests make every pair overlap, two processes make one the stale
one, two expressions a change and its reversal. *RateLimit*: six ticks hold two full windows and
the beginning of a third, and windows of two keys that are out of phase, so that the
cleanup for one key meets the records of the other. *Access*: each user may count before
the other creates. *Rescheduling*: the two histories lie at the thresholds of the rules: nine
executions to which a tenth may come, two failures to which a third may come; and eleven with the first
six failed, which is just more than half, and slow, the last two beyond the
timeout. The window of 11 (100 in the code) is full in the second, so that a run that starts pushes the
oldest row out. Step 40 doubles to the hour's end, minute 40 to an invalid one, a wildcard stays. *JobsPage*:
three changes are a change, its reversal and one more for a label to be older or newer than
a list; of two loads one can overtake the other; one loss of any kind gives every reason for a stale page.
*Pages*: two executions are a row to look at and one to take its place; two changes open
and close a run or delete its job; three validations can be answered in every order.
Deadlock is not checked: the environment may stop making requests, and the bounds stop
it; `EveryRunEnds` and `BacksOff` say what must not stall.

Symmetry is used over processes (`Attempts`, `Registry`), users (`Access`), and jobs,
executions and fetches (`JobsPage`, `Pages`), which no definition tells apart, and never with liveness.

Fairness. `FairSpec` is weak fairness of each run's own step, `WF_vars(Step(r))`. The code
justifies it: a request ends by its answer or the axios timeout, a statement by its result
or its error, a backoff by `setTimeout`. Nothing is assumed of timers, requests, deletion
or the end of a process. In `Rescheduling`, `FairSpec` is `WF_vars(Evaluate(p))` for each process: the
`@Cron` of the evaluation comes every hour as long as a process runs, and its statements end.
Nothing is assumed of users or executions. The pages need no fairness: their properties
say what holds whenever nothing is on its way.

## 4. What is proved

TLAPS proves these for all values of the constants, under the named assumptions of the
modules (non-empty populations, a positive `MAX_CONCURRENT_EXECUTIONS`, retry counts, limits and
times that are natural numbers, expressions, updates and histories of the right kind; for `Pages`, finitely
many jobs, and texts of five fields that differ from all others) and nothing else. Bounds such as `MaxChanges` are
any natural numbers.

**JobExecutionProofs.** The inductive invariant is

    IInv  ==  TypeOK  /\  \A r : RunInv(r)  /\  NoLeakedRunning

`RunInv(r)` ties the point a run has reached to all that it has left behind. Its conjuncts
are: what is still untouched before its first statement; what has been announced; how
many calls, answers and errors it has had; what its row shows; and which errors explain
a rejection. It is needed because none of the properties is inductive: that a settled
row counts the calls made, for example, rests on the relation of `attempt` and `calls` at
each earlier point. `NoLeakedRunning` relates different runs of one job, and so stands
beside the per-run part: a run that ends by writing the status of its job takes RUNNING
away, one that ends otherwise accounts for it itself. The proof has a lemma for
each action about the run that moves, and one (`Bystander`) about all others, which can
only be started or lost. From `Invariance` follow `TypeCorrect`, `RunningIsAccountedFor`,
`RowsAccountedFor`, `AnswersCorrect`, `AttemptsCorrect`, `EventsCorrect` and the action
property `VerdictsFinal`.

The same module proves what concerns the queue. `QueueInv` adds to the three properties of the queue that no run has a
priority of its own (no caller passes `isManual`), that runs are numbered in the order of
arrival, and that they start in that order whatever their kind (`InTurn`, which is stronger than
`NoOvertaking` and not promised anywhere). Every step that is not an arrival leaves the queue of a process as it is, hands
one slot on, or empties it (`QueueStep`); the three properties follow from these cases and
from the cardinality of `Active`. Theorems `LimitKept`, `NoSlotIdle`, `FirstComeFirstServed`.

**RunLedgerProofs** proves of the abstract specification that the verdict
announced is that of the row (`LedgerAgrees`) and that the row of a run that has ended changes only by
deletion (`LedgerFinal`); the inductive invariant adds to the agreement that a run that has told its
end is over and that a deleted job has no row. The last part of `JobExecutionProofs` proves that `JobExecution`
implements it (`RunsKeepLedger`): `LedgerInv` is `IInv` and that a run in its loop has a row while its job
exists; then one lemma per action shows it to be a step of the ledger or a stutter. `VerdictsAgree` carries
`LedgerAgrees` over to `JobExecution` through the instance.

**JobRegistryProofs.** `Consistency` is not inductive: it says nothing of a process while
a request works on the job, nor of what such a request carries. The inductive invariant is

    IInv  ==  TypeOK  /\  no process holds a half-loaded table unless it is booting
              /\  \A q : Carries(q) /\ Knows(q)
              /\  \A j : Committed(j) /\ Alone(j)
              /\  \A p : HasRead(p) /\ \A j : Kept(p, j)

`Carries`: what a request has in hand at each of its points, always. `Committed`: rows and timers
are rows that were once committed; `OnlyCommittedRows` follows. `Alone` and `Knows`: as long as no two requests have
overlapped on a job, the one that works on it is alone, and the row it has read is the row. `Kept`: a process that
was told of every change has the timer the table asks for, or has read the row at its
start and will register it (`Holds`), or one of its own requests owes it that (`Owed`). `HasRead`: a
process that boots has read the table as it is, whatever went wrong before, but for the jobs another one has written to
since; `BootHeals` follows, for any number of processes. One lemma
(`LocalInv`) covers all steps of a request: it states what a step at job *j* in process *p* may touch, and each
action is shown to keep to it. Theorems `Invariance`, `TypeCorrect`, `TimersConsistent`, `TimersCommitted`,
`BootsHeal`, `ChangesAreRecorded`.

**ReschedulingProofs.** `RInv` adds to the types what justifies each evaluation under way: the verdict it
carries is no faster than the user's choice unless that was made since; and that metrics with three failures have them in the table, which
forgets an execution only with the job. It is needed because the
row is written in a later step than the one that decided, and the executions may have changed or gone.
It rests on lemmas about the helpers: the scaled step of an
hour fires no more often (`LongerStep`, integer division), what `Extended` returns is a field that fires
at most as often (`Extension`), which verdicts the rules can give (`Verdicts`), and the ranges of the metrics (`MetricsTyped`). Theorems
`Invariance`, `TypeCorrect`, `NeverFaster`, `OnlyOnFailures`; they hold for any number of processes, any window and any history.

**RateLimitProofs.** `LimiterInv`: the admissions of a window are numbered without
repetition and lie in it; windows of a key do not touch; the record of a key stands for
its latest window and knows exactly the numbers used in it; a key without a record has no
open window (this is what makes it harmless that cleanup drops the record being
counted). `TwiceAtMost`: no three windows meet an interval of `windowMs`, and
each holds at most `Quota` admissions, by an injection into their numbers.
`RefusalsEarned`: an injection the other way.

**AccessProofs.** `AccessInv`: the types, which bound the number a creation has chosen; a revocation has found the token it
will write to; a token that was useless when a request came in stays so until the guard has asked for it. From it follow
`LateNeverPasses` and, action by action, `TokensStay`: no creation takes the number of a token that is there, however many
have counted before it, and no write but a revocation changes one.

**JobsPageProofs.** `TableCurrent` speaks of the state in which nothing is on its way, so that nothing about it is
inductive. The inductive invariant says of every list, shown or answered and not yet shown, why it may differ from the table:

    PageInv  ==  TypeOK  /\  the counters are bounded by the number of changes
                 /\  Truthful  /\  AnswersFresh  /\  TableFresh
                 /\  LoadedTold  /\  FirstAwaited

A row of a list of version *v* is `Held` if it is the row of the table; or *v* is old and a newer list is due (`Stale`:
an event, a timer, an answer to a request, or a fetch will bring it, or the page is known not to hear of a change); or it
lacks only the label RUNNING, which an event on its way will write, and the time of that run. The third case exists because the
event of a start loads nothing, and the table agrees with such a row up to `AsShown`. `Truthful` is what the labels rest on: no event is ahead of the table, the
event of the last change has the status of the row, and one that says RUNNING is right or known to be old. `AnswersFresh` and
`TableFresh` state `Held` for the two places a list may be; an answered one may also be older than what its rows have been told of, since `Render` then
takes the table for mixed (`intact`). `LoadedTold` and `FirstAwaited` exclude a label older than the list under it, and
an empty page that waits for nothing. One part of the types needs an argument of its own: that `runs` stays natural,
since `Forget` takes a run away with its unannounced start, rests on their being at most as many as the runs
(`RunsBounded`, by cardinality). Theorems `Invariance`, `TypeCorrect`, `TableIsCurrent`.

**PagesProofs.** `PagesInv` has a part for each module; the pages share the server and the socket, so that each step is
shown to keep each part.

- `FeedInv`: the list shown, and each that was answered, has the rows of the table or is older than it and
  that will be noticed (`ListInv`); HTML bodies are only in rows of executions that have ended (`HtmlInv`). The second is why an
  answer read before a row was cleaned agrees with one read after, and why `CleanHtml` cannot remove a body that was written since its query. Each action
  is shown to keep a due reload due (`DueStays`) and to change no row unnoticed (`RowsNoticed`).
- `LogsInv`: the index of an open dialog points at the row it was opened for, until the list is rendered (`Pointed`), and the
  array has every row that is shown (`Stored`).
- `StatsInv`: the counts seen so far by a fetch under way are those of now, all of them, or a later fetch is due. It needs that
  no row is there before its execution opened it (`NoRowYet`), since a row that opens must not change the counts of the day.
- `FormInv`: the validation issued last is of the text in the field, unless the timer runs (`LastAsked`), so that its
  verdict is the right one (`Matches`) unless it was made of an error. It is here that the texts must be disjoint.

Theorems `Invariance`, `TypeCorrect`, `ListIsCurrent`, `StatsAreCurrent`, `VerdictIsCurrent`, and the action
property `CopiesMatch`.

## 5. What is only model-checked

`EveryRunEnds` and `BacksOff`: liveness is out of the prover's reach. Every other property of a passing run is
proved for all values of the constants. The violated properties are counterexamples and need
none.

## 6. Where documents and code disagree

Each is a run that ends in a violation.

| Run | Document | Code |
|---|---|---|
| `DocDisable` | `src/README.md:202`: disables the job after 3 failures | `disableJob` leaves the timer registered |
| `DocConsecutive` | `src/README.md:202`: disables the job after 3 consecutive failures | rule 2 comes first: a job that mostly fails is extended every hour, or fails to be, and rule 5 is never reached |
| `DocPriority` | the comment at `scheduler.service.ts:121`, `src/capability.md:19`: manual executions have higher priority | `execute` does not pass `isManual` (`cron-jobs.service.ts:379`), so that a manual run waits behind scheduled ones |
| `DocTokens` | `src/README.md:114`: `POST /auth/tokens` creates a token | it is numbered by the tokens of its own user (`auth.service.ts:129`), and numbers are unique over all: as soon as one user has a token, no other can get a first one |

What the passing properties say may surprise as well. A job stays RUNNING for ever after
the end of a process or a double error (`NoLeakedRunning` names the causes; nothing at start
resets it). An endpoint is called again when the database fails after its answer
(`AnswersAccounted`). A job with `retryCount` 0 fails without a request. A schedule that begins at
minute 30 or later is never backed off, since its doubled minute is refused every hour (`BacksOff`).

Noticed and not a run of its own. In the server:

- the action of rule 1 returns null (`rescheduling.service.ts:55`), which `evaluateRules` takes for "next rule": a job that
  succeeds 95% of the time may be disabled for its last failures, against `src/README.md:198`;
- each of several instances executes every job, against `src/capability.md:401`;
- every status counts as success, 500 included (`execution.service.ts:61`), so that it is not retried, against `src/capability.md:110`;
  `AnswersAccounted` therefore speaks of answers below 400 only;
- shutdown hooks are not enabled (`main.ts:76`), so nothing waits for the queue as `src/capability.md:304` says;
- a token with READ alone is refused by every endpoint (`cron-jobs.controller.ts:46`), against `src/README.md:188`;
- the backoff starts at 2 s (`scheduler.service.ts:276`), not 1 s (`src/capability.md:109`);
- `execution:failed` is never emitted; subscribers of a room receive each event twice;
- `nextRunAt` ignores the time zone; an active row with an unknown one lets no later start succeed;
- a limit of 0 still admits one request a window;
- the rules: a change is recorded twice; "consecutive" failures are any three of the last ten; steps of an hour and more
  all fire hourly; an execution counts as timed out by its total time, retries and backoff included.

In the pages:

- nothing is fetched after a lost connection; no page subscribes to a room; every page loads `app.js`;
- dashboard and logs ignore the `cron:*` events, so that jobs created or deleted elsewhere show late or never;
- the start of a run is announced before its row exists, and the list fetched on it may lack the row;
- an HTML row deleted between query and clean-up makes all of `getGlobalLogs` fail;
- `dashboard.js` writes zeros over the counts, and fetches `/logs?take=5`, which is an HTML page;
- the four counts may never have been true at one moment;
- showing an error in the dialog of the logs removes the element that the next call writes to, so that no dialog opens until
  the page is loaded again; the copy button takes the row by an index that a reload reassigns;
- Last Run stays that of the run before while a job runs (`jobs.js:42-46`);
- a validation that ends in an error other than 401 shows a valid expression as invalid (`jobs.js:618-648`);
- closing the form for a job does not cancel its validations, whose verdict then shows in the next form.

## 7. Not modelled, and why

Hashing, JWT signatures and validation of input are library code. The audit log, controllers and DTOs
hand on or write once and keep no state the other parts depend on. Of the pages, markup, menus, filters and
paging are left out, and `tokens.js` and `audit.js`, which load one list once or after their own request. The rooms of the
gateway have no subscriber in this application. The times at which cron fires are an external
library: a tick may come at any time. The connection pool of Prisma is not modelled, and
the end of a process is the only
step that comes between the effect of a statement and its result (`StopAfter`, for one
run of the process at a time).

## 8. Plan

Done: `JobExecution` with proofs of all its safety properties; `RunLedger` and the proof that `JobExecution` implements it;
`JobRegistry` and `Rescheduling` with proofs of all theirs; `RateLimit` and `Access` with proofs; the
pages of jobs, logs, dashboard and form with proofs of all their properties.

Left:

1. A composition of `JobRegistry` and `JobExecution`: which row a run is executed with.
2. Starts that never succeed (`onModuleInit` with an unknown zone), as a liveness property of `JobRegistry`.
3. Rooms of the gateway, if a page begins to subscribe to them.
