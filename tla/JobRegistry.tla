------------------------------ MODULE JobRegistry ------------------------------
(***************************************************************************)
(* Which jobs have a timer.  CronJobsService writes the table CronJob and  *)
(* then asks the SchedulerService of its process to register the row it    *)
(* wrote, or to unregister the job; a process loads all active rows when   *)
(* it starts; the hourly ReschedulingService changes rows as well.  Table  *)
(* and timers are kept in step by nothing but the order of these calls.    *)
(*                                                                         *)
(* A request is a sequence of steps, one for each statement the database   *)
(* applies and one for each stretch of code that touches the timers of the *)
(* process.  Validation, websocket events and the audit log are left out.  *)
(***************************************************************************)
EXTENDS Integers

CONSTANTS
  Jobs,         \* ids of CronJob rows; an id is used once (uuid)
  Processes,    \* server instances sharing the database
  Expressions,  \* cron expressions that cronParser.validate accepts
  Zones,        \* names of time zones: any string passes validation
  KnownZones,   \* those the constructor of cron's CronJob accepts
  Extended,     \* extendCronInterval: the expression a rule replaces another by
  Rows,         \* bound: the rows that create is asked for
  Updates,      \* bound: the dtos that update is called with
  Rules,        \* what ReschedulingService may decide: "extend", "disable"
  MaxRequests,  \* bound: requests and evaluations at the same time
  MaxFaults     \* bound: statements that end in an error

ASSUME ZoneAssumption == KnownZones \subseteq Zones
\* Outside the domain of Extended the expression stays, or becomes an invalid one.
ASSUME ExtensionAssumption ==
  DOMAIN Extended \subseteq Expressions /\ Extended \in [DOMAIN Extended -> Expressions]
ASSUME RuleAssumption == Rules \subseteq {"extend", "disable"}
ASSUME CountAssumption == MaxRequests \in Nat /\ MaxFaults \in Nat

VARIABLES
  cronJob,         \* table CronJob: the row of each job, Unborn or Deleted
  scheduleChange,  \* table ScheduleChange: the changes recorded for each job
  registeredJobs,  \* the row each process has captured in the timer of each job
  process,         \* of each process: "down", "booting" or "up"
  loading,         \* the rows a booting process has still to register
  request,         \* the requests CronJobsService is working on, and the evaluations
  faults,          \* history: statements that ended in an error
  versions,        \* history: the rows each job has had
  overlapped,      \* history: jobs that two requests worked on at the same time
  excused          \* history: the processes that nothing has told of the row of a job

vars == <<cronJob, scheduleChange, registeredJobs, process, loading, request,
          faults, versions, overlapped, excused>>
history == <<faults, versions, overlapped, excused>>
tables == <<cronJob, scheduleChange>>
memory == <<registeredJobs, process, loading>>

-----------------------------------------------------------------------------
Unborn == [state |-> "unborn"]
Deleted == [state |-> "deleted"]
Switch == {"on", "off"}   \* isActive
Row == [isActive : Switch, cronExpression : Expressions, timezone : Zones]
ASSUME RowAssumption == Rows \subseteq Row
NoTimer == [state |-> "no timer"]
Exists(j) == cronJob[j] \notin {Unborn, Deleted}
IsActive(j) == Exists(j) /\ cronJob[j].isActive = "on"

Keep == "keep"   \* a field an update leaves alone
NoDto == [isActive |-> Keep, cronExpression |-> Keep, timezone |-> Keep]
Dto == [isActive : Switch \union {Keep}, cronExpression : Expressions \union {Keep},
        timezone : Zones \union {Keep}]
ASSUME UpdateAssumption == Updates \subseteq Dto
Merged(row, dto) ==
  [field \in DOMAIN row |-> IF dto[field] = Keep THEN row[field] ELSE dto[field]]

Requests == 1 .. MaxRequests
Kinds == {"create", "update", "toggle", "remove", "reschedule"}
\* What a request does next; it is idle when it has been answered.
Points == {"recording", "writing", "registering", "unregistering", "deleting",
           "evaluated", "disabling", "noting"}
At(q, point) == request[q].pc = point
Live(q) == ~At(q, "idle")
JobOf(q) == request[q].job
Home(q) == request[q].process
Quiet(j) == \A q \in Requests : Live(q) => JobOf(q) # j
NoTimers == [j \in Jobs |-> NoTimer]
NoRequest == [pc |-> "idle"]
Request(kind, p, j, point) ==
  [kind |-> kind, pc |-> point, job |-> j, process |-> p, dto |-> NoDto,
   judged |-> Unborn, seen |-> Unborn, written |-> Unborn]

-----------------------------------------------------------------------------
(* Building blocks of the actions.                                         *)

Goto(q, point) == request' = [request EXCEPT ![q].pc = point]
Answer(q) == request' = [request EXCEPT ![q] = NoRequest]

\* registerJob: the old timer goes first, so that a zone the constructor does not
\* accept leaves the job without a timer.
Registered(timers, j, row) ==
  [timers EXCEPT ![j] = IF row.timezone \in KnownZones THEN row ELSE NoTimer]

\* unregisterJob.
Unregistered(timers, j) == [timers EXCEPT ![j] = NoTimer]

Excuse(j, processes) == excused' = [excused EXCEPT ![j] = processes]
Others(q) == Processes \ {Home(q)}
Untouched == UNCHANGED <<tables, versions>>

\* A statement on the row of q's job: applied and confirmed; applied but its
\* confirmation lost; refused by the database; or without its row.
Statement(q, effect, onSuccess) ==
  \/ Exists(JobOf(q)) /\ effect /\ onSuccess /\ UNCHANGED faults
  \/ /\ faults < MaxFaults /\ faults' = faults + 1
     /\ Answer(q) /\ Excuse(JobOf(q), Processes)
     /\ (Exists(JobOf(q)) /\ effect) \/ Untouched
  \/ ~Exists(JobOf(q)) /\ Answer(q) /\ Untouched /\ UNCHANGED <<faults, excused>>

SetRow(j, row) ==
  /\ cronJob' = [cronJob EXCEPT ![j] = row]
  /\ versions' = [versions EXCEPT ![j] = @ \union {row}]
  /\ UNCHANGED scheduleChange

AddChange(j, old, new) ==
  /\ scheduleChange' = [scheduleChange EXCEPT ![j] = @ \union {<<old, new>>}]
  /\ UNCHANGED <<cronJob, versions>>

\* Mutant: requests are served while the process is still booting.
SubmitBeforeListen(q, p, j, r) ==
  /\ At(q, "idle") /\ \A o \in Requests : o < q => ~At(o, "idle")
  /\ process[p] # "down"
  /\ request' = [request EXCEPT ![q] = r]
  /\ overlapped' = IF Quiet(j) THEN overlapped ELSE overlapped \union {j}

\* A request takes the lowest free number; it overlaps every other on its job.
Submit(q, p, j, r) ==
  /\ At(q, "idle") /\ \A o \in Requests : o < q => ~At(o, "idle")
  /\ process[p] = "up"
  /\ request' = [request EXCEPT ![q] = r]
  /\ overlapped' = IF Quiet(j) THEN overlapped ELSE overlapped \union {j}

\* update: a new cron expression is recorded before the row is written.
Changes(row, dto) == dto.cronExpression \notin {Keep, row.cronExpression}
FirstStep(row, dto) == IF Changes(row, dto) THEN "recording" ELSE "writing"

-----------------------------------------------------------------------------
Init ==
  /\ cronJob = [j \in Jobs |-> Unborn]
  /\ scheduleChange = [j \in Jobs |-> {}]
  /\ registeredJobs = [p \in Processes |-> NoTimers]
  /\ process = [p \in Processes |-> "down"]
  /\ loading = [p \in Processes |-> NoTimers]
  /\ request = [q \in Requests |-> NoRequest]
  /\ faults = 0
  /\ versions = [j \in Jobs |-> {}]
  /\ overlapped = {}
  /\ excused = [j \in Jobs |-> Processes]

\* create, up to the insertion of the row.
Create(q, p, j, row) ==
  /\ cronJob[j] = Unborn
  /\ LET r == [Request("create", p, j, "registering") EXCEPT !.written = row]
     IN  \/ /\ Submit(q, p, j, IF row.isActive = "on" THEN r ELSE NoRequest)
            /\ SetRow(j, row) /\ Excuse(j, Processes \ {p}) /\ UNCHANGED faults
         \/ /\ Submit(q, p, j, NoRequest)
            /\ SetRow(j, row) \/ Untouched
            /\ faults < MaxFaults /\ faults' = faults + 1 /\ Excuse(j, Processes)
  /\ UNCHANGED memory

\* update, toggle and remove begin with findOne; a missing row ends them there.
Begin(q, p, j, kind, dto, first) ==
  /\ Exists(j)
  /\ Submit(q, p, j, [Request(kind, p, j, first) EXCEPT !.dto = dto, !.seen = cronJob[j]])
  /\ UNCHANGED <<tables, memory, faults, versions, excused>>

Update(q, p, j, dto) == Begin(q, p, j, "update", dto, FirstStep(cronJob[j], dto))

Toggle(q, p, j) ==
  Begin(q, p, j, "toggle",
        [NoDto EXCEPT !.isActive = IF IsActive(j) THEN "off" ELSE "on"], "writing")

Remove(q, p, j) == Begin(q, p, j, "remove", NoDto, "unregistering")

\* evaluateAndReschedule reads the active rows, and then their metrics.
Evaluate(q, p, j) ==
  /\ Rules # {} /\ IsActive(j)
  /\ Submit(q, p, j,
       [Request("reschedule", p, j, "evaluated") EXCEPT !.judged = cronJob[j]])
  /\ UNCHANGED <<tables, memory, faults, versions, excused>>

\* A rule extends the interval of the row that was read: applyRescheduling calls
\* update, which reads the row once more.
Extend(q) ==
  /\ At(q, "evaluated") /\ "extend" \in Rules
  /\ LET row == cronJob[JobOf(q)]
         judged == request[q].judged
         dto == [NoDto EXCEPT !.cronExpression = Extended[judged.cronExpression],
                              !.timezone = judged.timezone]
     IN  IF /\ judged.cronExpression \in DOMAIN Extended
            /\ dto.cronExpression # judged.cronExpression
            /\ Exists(JobOf(q))
         THEN request' = [request EXCEPT ![q].dto = dto, ![q].seen = row,
                                         ![q].pc = FirstStep(row, dto)]
         ELSE Answer(q)
  /\ UNCHANGED <<tables, memory, history>>

\* No rule applies.
Leave(q) ==
  /\ At(q, "evaluated") /\ Answer(q)
  /\ UNCHANGED <<tables, memory, history>>

\* disableJob writes the row and leaves the timer alone.
Disable(q) ==
  /\ At(q, "evaluated") /\ "disable" \in Rules
  /\ LET j == JobOf(q)
     IN  Statement(q, SetRow(j, [cronJob[j] EXCEPT !.isActive = "off"]),
                   Answer(q) /\ Excuse(j, Processes))
  /\ UNCHANGED <<memory, overlapped>>

\* Mutant: the new expression is recorded as the old one.
RecordChangeSwapped(q) ==
  /\ At(q, "recording")
  /\ Statement(q, AddChange(JobOf(q), request[q].dto.cronExpression,
                            request[q].seen.cronExpression),
               Goto(q, "writing") /\ UNCHANGED excused)
  /\ UNCHANGED <<memory, overlapped>>

\* update: scheduleChange.create, with the expression read by findOne as the old one.
RecordChange(q) ==
  /\ At(q, "recording")
  /\ Statement(q, AddChange(JobOf(q), request[q].seen.cronExpression,
                            request[q].dto.cronExpression),
               Goto(q, "writing") /\ UNCHANGED excused)
  /\ UNCHANGED <<memory, overlapped>>

\* Mutant: the request goes on with the row it read, not with the one it wrote.
WriteMergedEarly(q) ==
  /\ At(q, "writing")
  /\ LET row == Merged(cronJob[JobOf(q)], request[q].dto)
         own == Merged(request[q].seen, request[q].dto)
     IN  Statement(q, SetRow(JobOf(q), row),
           /\ request' = [request EXCEPT ![q].written = own, ![q].pc = "registering"]
           /\ Excuse(JobOf(q), Others(q)))
  /\ UNCHANGED <<memory, overlapped>>

\* update and toggle: cronJob.update, which returns the whole row.
Write(q) ==
  /\ At(q, "writing")
  /\ LET row == Merged(cronJob[JobOf(q)], request[q].dto)
     IN  Statement(q, SetRow(JobOf(q), row),
           /\ request' = [request EXCEPT ![q].written = row, ![q].pc = "registering"]
           /\ Excuse(JobOf(q), Others(q)))
  /\ UNCHANGED <<memory, overlapped>>

\* Mutant: the timer of a job that has been switched off goes on.
RegisterOnly(q) ==
  /\ At(q, "registering")
  /\ LET row == request[q].written
         fails == row.isActive = "on" /\ row.timezone \notin KnownZones
     IN  /\ registeredJobs' = [registeredJobs EXCEPT ![Home(q)] =
              IF row.isActive = "on" THEN Registered(@, JobOf(q), row) ELSE @]
         /\ IF request[q].kind = "reschedule" /\ ~fails THEN Goto(q, "noting") ELSE Answer(q)
  /\ UNCHANGED <<tables, process, loading, history>>

\* create, update and toggle hand the row they got back to the scheduler.
Register(q) ==
  /\ At(q, "registering")
  /\ LET row == request[q].written
         fails == row.isActive = "on" /\ row.timezone \notin KnownZones
     IN  /\ registeredJobs' = [registeredJobs EXCEPT ![Home(q)] =
              IF row.isActive = "on" THEN Registered(@, JobOf(q), row)
                                     ELSE Unregistered(@, JobOf(q))]
         /\ IF request[q].kind = "reschedule" /\ ~fails THEN Goto(q, "noting") ELSE Answer(q)
  /\ UNCHANGED <<tables, process, loading, history>>

\* applyRescheduling records the change a second time, with the expression it read.
Note(q) ==
  /\ At(q, "noting")
  /\ Statement(q, AddChange(JobOf(q), request[q].judged.cronExpression,
                            request[q].dto.cronExpression),
               Answer(q) /\ UNCHANGED excused)
  /\ UNCHANGED <<memory, overlapped>>

\* remove: the timer goes before the row.
Unregister(q) ==
  /\ At(q, "unregistering")
  /\ registeredJobs' = [registeredJobs EXCEPT ![Home(q)] = Unregistered(@, JobOf(q))]
  /\ Goto(q, "deleting")
  /\ UNCHANGED <<tables, process, loading, history>>

\* The changes recorded for the job are deleted with it.
Delete(q) ==
  /\ At(q, "deleting")
  /\ Statement(q, /\ cronJob' = [cronJob EXCEPT ![JobOf(q)] = Deleted]
                  /\ scheduleChange' = [scheduleChange EXCEPT ![JobOf(q)] = {}]
                  /\ UNCHANGED versions,
               Answer(q) /\ Excuse(JobOf(q), Others(q)))
  /\ UNCHANGED <<memory, overlapped>>

\* Mutant: inactive rows are loaded as well.
BootAll(p) ==
  /\ process[p] = "down"
  /\ process' = [process EXCEPT ![p] = "booting"]
  /\ loading' = [loading EXCEPT ![p] =
       [j \in Jobs |-> IF Exists(j) THEN cronJob[j] ELSE NoTimer]]
  /\ excused' = [j \in Jobs |-> excused[j] \ {p}]
  /\ UNCHANGED <<tables, registeredJobs, request, faults, versions, overlapped>>

\* onModuleInit reads the active rows.
Boot(p) ==
  /\ process[p] = "down"
  /\ process' = [process EXCEPT ![p] = "booting"]
  /\ loading' = [loading EXCEPT ![p] =
       [j \in Jobs |-> IF IsActive(j) THEN cronJob[j] ELSE NoTimer]]
  /\ excused' = [j \in Jobs |-> excused[j] \ {p}]
  /\ UNCHANGED <<tables, registeredJobs, request, faults, versions, overlapped>>

\* The process is gone, with its timers and the requests it was working on.
Ended(p) ==
  /\ process' = [process EXCEPT ![p] = "down"]
  /\ registeredJobs' = [registeredJobs EXCEPT ![p] = NoTimers]
  /\ loading' = [loading EXCEPT ![p] = NoTimers]
  /\ request' = [q \in Requests |-> IF Live(q) /\ Home(q) = p
                                    THEN NoRequest ELSE request[q]]
  /\ excused' = [j \in Jobs |->
       IF \E q \in Requests : Live(q) /\ Home(q) = p /\ JobOf(q) = j
       THEN Processes ELSE excused[j]]
  /\ UNCHANGED <<tables, faults, versions, overlapped>>

\* onModuleInit registers them one by one; an error ends the process.
Load(p, j) ==
  /\ process[p] = "booting" /\ loading[p][j] # NoTimer
  /\ IF loading[p][j].timezone \in KnownZones
     THEN /\ registeredJobs' = [registeredJobs EXCEPT ![p] = Registered(@, j, loading[p][j])]
          /\ loading' = [loading EXCEPT ![p][j] = NoTimer]
          /\ UNCHANGED <<tables, process, request, history>>
     ELSE Ended(p)

Listen(p) ==
  /\ process[p] = "booting" /\ loading[p] = NoTimers
  /\ process' = [process EXCEPT ![p] = "up"]
  /\ UNCHANGED <<tables, registeredJobs, loading, request, history>>

\* The process ends for another reason, and is started again by Boot.  One that ends
\* while it is booting leaves nothing behind that others could have seen.
Stop(p) == process[p] = "up" /\ Ended(p)

Step(q) ==
  \/ RecordChange(q) \/ Write(q) \/ Register(q) \/ Unregister(q) \/ Delete(q)
  \/ Extend(q) \/ Disable(q) \/ Leave(q) \/ Note(q)

Start(p) == Boot(p) \/ Listen(p) \/ \E j \in Jobs : Load(p, j)

Next ==
  \/ \E q \in Requests : Step(q)
  \/ \E q \in Requests, p \in Processes, j \in Jobs :
       \/ \E row \in Rows : Create(q, p, j, row)
       \/ \E dto \in Updates : Update(q, p, j, dto)
       \/ Toggle(q, p, j) \/ Remove(q, p, j) \/ Evaluate(q, p, j)
  \/ \E p \in Processes : Start(p) \/ Stop(p)

Spec == Init /\ [][Next]_vars

-----------------------------------------------------------------------------
(* What table and timers promise.                                          *)

TimerType == [Jobs -> Row \union {NoTimer}]
RequestType == [kind : Kinds, pc : Points, job : Jobs,
                process : Processes, dto : Dto, judged : Row \union {Unborn},
                seen : Row \union {Unborn}, written : Row \union {Unborn}]

\* Every variable has its type; timers and work are only found in the process that
\* has them.
TypeOK ==
  /\ cronJob \in [Jobs -> Row \union {Unborn, Deleted}]
  /\ scheduleChange \in [Jobs -> SUBSET (Expressions \X Expressions)]
  /\ registeredJobs \in [Processes -> TimerType]
  /\ process \in [Processes -> {"down", "booting", "up"}]
  /\ loading \in [Processes -> TimerType]
  /\ request \in [Requests -> RequestType \union {NoRequest}]
  /\ faults \in 0 .. MaxFaults
  /\ versions \in [Jobs -> SUBSET Row]
  /\ overlapped \subseteq Jobs
  /\ excused \in [Jobs -> SUBSET Processes]
  /\ \A p \in Processes : process[p] = "down" => registeredJobs[p] = NoTimers
  /\ \A q \in Requests : Live(q) => process[Home(q)] = "up"

\* The timer of a job is the one its row asks for.
InStep(p, j) == registeredJobs[p][j] =
  IF IsActive(j) /\ cronJob[j].timezone \in KnownZones THEN cronJob[j] ELSE NoTimer

\* While nothing is at work on a job, a process has the timer its row asks for, and
\* none if the row is inactive or deleted, unless requests for the job overlapped, or
\* the last write came from another process, from disableJob or without an answer.
Consistency ==
  \A p \in Processes, j \in Jobs :
    process[p] = "up" /\ Quiet(j) /\ j \notin overlapped /\ p \notin excused[j] =>
      InStep(p, j)

\* A process that listens for requests, whatever its predecessor left undone, has
\* exactly the timers the table asks for, except of jobs that another process, or
\* disableJob, wrote to after it had read the table.
BootHeals ==
  [][\A p \in Processes, j \in Jobs :
       process[p] = "booting" /\ process'[p] = "up" /\ p \notin excused[j] =>
         InStep(p, j)]_vars

\* No timer ever carries a row that was not committed, or one that was inactive:
\* also when requests overlap, fail half-way or share the table with a second
\* process.
OnlyCommittedRows ==
  \A p \in Processes, j \in Jobs : registeredJobs[p][j] # NoTimer =>
    registeredJobs[p][j] \in versions[j] /\ registeredJobs[p][j].isActive = "on"

\* Every change of a schedule was recorded before it was made, with the schedule
\* it replaces, unless requests overlapped.
ChangesRecorded ==
  [][\A j \in Jobs : Exists(j) /\ Exists(j)' /\ j \notin overlapped =>
       cronJob[j].cronExpression = cronJob'[j].cronExpression \/
       <<cronJob[j].cronExpression, cronJob'[j].cronExpression>> \in scheduleChange[j]]_vars

-----------------------------------------------------------------------------
(* What the documents say and the code does not do.                        *)

\* README.md: "Consecutive failures: Disables job after 3 consecutive failures": a
\* job that has been disabled, with nothing left to do about it, has no timer.
DisabledMeansStopped ==
  \A p \in Processes, j \in Jobs :
    Exists(j) /\ Quiet(j) /\ j \notin overlapped /\ process[p] = "up" =>
      (registeredJobs[p][j] # NoTimer => IsActive(j))
=============================================================================
