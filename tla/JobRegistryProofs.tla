--------------------------- MODULE JobRegistryProofs ---------------------------
(***************************************************************************)
(* Proofs about JobRegistry for all jobs, processes, expressions, zones,   *)
(* updates and rules, and any number of requests at the same time.         *)
(***************************************************************************)
EXTENDS JobRegistry, TLAPS

-----------------------------------------------------------------------------
(* The inductive invariant.                                                *)

\* What a request carries to its next step.
Carries(q) == Live(q) =>
  /\ request[q].kind = "reschedule" => request[q].judged \in Row
  /\ At(q, "noting") => request[q].kind = "reschedule"
  /\ At(q, "evaluated") => request[q].kind = "reschedule"
  /\ At(q, "recording") => request[q].dto.cronExpression \in Expressions
  /\ request[q].kind = "reschedule" /\ ~At(q, "evaluated") =>
       request[q].dto.cronExpression \in Expressions
  /\ At(q, "recording") => request[q].seen \in Row
  /\ At(q, "registering") => request[q].written \in Row /\ request[q].written \in versions[JobOf(q)]

\* A timer of job j that carries a committed row.
Sound(timer, j) == timer # NoTimer => timer \in versions[j] /\ timer.isActive = "on"

Committed(j) ==
  /\ Exists(j) => cronJob[j] \in versions[j]
  /\ cronJob[j] = Unborn => versions[j] = {}
  /\ \A p \in Processes : Sound(registeredJobs[p][j], j) /\ Sound(loading[p][j], j)

\* Requests that do not overlap are alone with their job ...
Alone(j) == j \notin overlapped =>
  \A q, o \in Requests : Live(q) /\ Live(o) /\ JobOf(q) = j /\ JobOf(o) = j => q = o

\* ... and what they know of it is true.
Recorded(j, old, dto) ==
  dto.cronExpression \in {Keep, old.cronExpression}
    \/ <<old.cronExpression, dto.cronExpression>> \in scheduleChange[j]
Knows(q) == Live(q) /\ JobOf(q) \notin overlapped =>
  /\ Exists(JobOf(q))
  /\ At(q, "recording") \/ At(q, "writing") => request[q].seen = cronJob[JobOf(q)]
  /\ At(q, "writing") => Recorded(JobOf(q), request[q].seen, request[q].dto)
  /\ At(q, "registering") => request[q].written = cronJob[JobOf(q)]
  /\ At(q, "deleting") => registeredJobs[Home(q)][JobOf(q)] = NoTimer

\* Process p has the timer of job j, or has read the row and will register it.
Holds(p, j) ==
  IF loading[p][j] = NoTimer THEN InStep(p, j)
  ELSE /\ IsActive(j) /\ loading[p][j] = cronJob[j] /\ registeredJobs[p][j] = NoTimer

\* A request of process p is about to bring the timer of job j into step.
Owed(p, j) == \E q \in Requests :
  Live(q) /\ JobOf(q) = j /\ Home(q) = p /\ (At(q, "registering") \/ At(q, "deleting"))

Kept(p, j) ==
  process[p] # "down" /\ j \notin overlapped /\ p \notin excused[j] /\ ~Owed(p, j) => Holds(p, j)

\* A process that is booting has read the rows that no one wrote to since.
HasRead(p) ==
  process[p] = "booting" => \A j \in Jobs : p \notin excused[j] => Holds(p, j)

IInv ==
  /\ TypeOK
  /\ \A p \in Processes : process[p] # "booting" => loading[p] = NoTimers
  /\ \A q \in Requests : Carries(q) /\ Knows(q)
  /\ \A j \in Jobs : Committed(j) /\ Alone(j)
  /\ \A p \in Processes : HasRead(p) /\ \A j \in Jobs : Kept(p, j)

USE DEF At, JobOf, Home, Live

-----------------------------------------------------------------------------
(* The helpers of the model.                                               *)

LEMMA RowsDiffer ==
  ASSUME NEW row \in Row
  PROVE  row # Unborn /\ row # Deleted /\ row # NoTimer
<1>1. DOMAIN row = {"isActive", "cronExpression", "timezone"}  BY DEF Row
<1>2. DOMAIN Unborn = {"state"} /\ DOMAIN Deleted = {"state"} /\ DOMAIN NoTimer = {"state"}
  BY DEF Unborn, Deleted, NoTimer
<1> QED BY <1>1, <1>2

LEMMA AbsentDiffer == Unborn # Deleted
BY DEF Unborn, Deleted

LEMMA MergedRow ==
  ASSUME NEW row \in Row, NEW dto \in Dto
  PROVE  Merged(row, dto) \in Row
         /\ Merged(row, dto).cronExpression =
              IF dto.cronExpression = Keep THEN row.cronExpression ELSE dto.cronExpression
BY DEF Row, Dto, Merged, Switch, Keep

LEMMA DisabledRow ==
  ASSUME NEW row \in Row
  PROVE  LET off == [row EXCEPT !.isActive = "off"]
         IN  off \in Row /\ off.cronExpression = row.cronExpression
BY DEF Row, Switch

LEMMA RequestTypes ==
  /\ NoRequest.pc = "idle"
  /\ \A r \in RequestType : r.pc # "idle" /\ r # NoRequest
BY DEF NoRequest, RequestType, Points

LEMMA NewRequest ==
  ASSUME NEW kind \in Kinds, NEW p \in Processes, NEW j \in Jobs, NEW point \in Points
  PROVE  LET r == Request(kind, p, j, point)
         IN  /\ r \in RequestType /\ r.kind = kind /\ r.pc = point /\ r.job = j
             /\ r.process = p /\ NoDto \in Dto
BY DEF RequestType, Request, NoDto, Dto

\* What the invariant says of a request.
LEMMA RequestFacts ==
  ASSUME IInv, NEW q \in Requests, Live(q)
  PROVE  /\ request[q] \in RequestType /\ JobOf(q) \in Jobs /\ Home(q) \in Processes
         /\ request[q].dto \in Dto /\ process[Home(q)] = "up"
         /\ Carries(q) /\ Knows(q) /\ Committed(JobOf(q)) /\ Alone(JobOf(q))
         /\ Exists(JobOf(q)) <=> cronJob[JobOf(q)] \in Row
<1>1. request[q] \in RequestType  BY RequestTypes DEF IInv, TypeOK
<1>2. request[q].job \in Jobs /\ request[q].process \in Processes /\ request[q].dto \in Dto
  BY <1>1 DEF RequestType
<1>3. Exists(JobOf(q)) <=> cronJob[JobOf(q)] \in Row
  BY <1>2, RowsDiffer DEF IInv, TypeOK, Exists
<1> QED BY <1>1, <1>2, <1>3 DEF IInv, TypeOK

-----------------------------------------------------------------------------
(* A step of one request.                                                  *)

\* The tables keep their types and change at job j at most.
TablesAt(j) ==
  /\ cronJob' \in [Jobs -> Row \union {Unborn, Deleted}]
  /\ scheduleChange' \in [Jobs -> SUBSET (Expressions \X Expressions)]
  /\ versions' \in [Jobs -> SUBSET Row]
  /\ \A i \in Jobs \ {j} : /\ cronJob'[i] = cronJob[i] /\ versions'[i] = versions[i]
                           /\ scheduleChange'[i] = scheduleChange[i]
  /\ versions[j] \subseteq versions'[j]
  /\ Exists(j)' => cronJob'[j] \in versions'[j]
  /\ cronJob'[j] = Unborn => versions'[j] = {}

\* Request q of process p works on job j, alone if requests do not overlap.
Local(q, p, j) ==
  /\ TablesAt(j)
  /\ process[p] = "up" /\ UNCHANGED <<process, loading>>
  /\ faults' \in 0 .. MaxFaults
  /\ registeredJobs' \in [Processes -> TimerType]
  /\ \A o \in Processes, i \in Jobs :
       registeredJobs'[o][i] = registeredJobs[o][i] \/ (o = p /\ i = j)
  /\ request' \in [Requests -> RequestType \union {NoRequest}]
  /\ \A o \in Requests \ {q} : request'[o] = request[o]
  /\ Live(q) => JobOf(q) = j /\ Home(q) = p
  /\ Live(q)' => JobOf(q)' = j /\ Home(q)' = p
  /\ overlapped \subseteq overlapped' /\ overlapped' \subseteq overlapped \union {j}
  /\ j \notin overlapped' => \A o \in Requests \ {q} : ~(Live(o) /\ JobOf(o) = j)
  /\ excused' \in [Jobs -> SUBSET Processes]
  /\ \A i \in Jobs \ {j} : excused'[i] = excused[i]

\* It excuses the other processes if it writes to the row.
Excuses(p, j) == \A o \in Processes \ {p} :
  o \notin excused'[j] => o \notin excused[j] /\ cronJob'[j] = cronJob[j]

\* Such a step keeps the invariant if it keeps what concerns q and j.
LEMMA LocalInv ==
  ASSUME IInv, NEW q \in Requests, NEW p \in Processes, NEW j \in Jobs, Local(q, p, j),
         Excuses(p, j),
         Carries(q)', Sound(registeredJobs[p][j], j)',
         j \notin overlapped' => Knows(q)' /\ \A o \in Processes : Kept(o, j)'
  PROVE  IInv'
<1>1. TypeOK'
  <2>1. \A o \in Processes : process'[o] = "down" => registeredJobs'[o] = NoTimers
    <3>1. TAKE o \in Processes
    <3>2. SUFFICES ASSUME process'[o] = "down" PROVE registeredJobs'[o] = NoTimers
      OBVIOUS
    <3>3. o # p /\ registeredJobs[o] = NoTimers  BY <3>2 DEF Local, IInv, TypeOK
    <3>4. registeredJobs'[o] \in TimerType /\ registeredJobs[o] \in TimerType
      BY DEF Local, IInv, TypeOK
    <3>5. \A i \in Jobs : registeredJobs'[o][i] = registeredJobs[o][i]
      BY <3>3 DEF Local
    <3> QED BY <3>3, <3>4, <3>5 DEF TimerType
  <2>2. \A o \in Requests : Live(o)' => process'[request'[o].process] = "up"
    BY DEF Local, IInv, TypeOK
  <2> QED BY <2>1, <2>2 DEF Local, TablesAt, IInv, TypeOK
<1>2. \A o \in Processes : process'[o] # "booting" => loading'[o] = NoTimers
  BY DEF Local, IInv
<1>3. ASSUME NEW o \in Requests \ {q} PROVE Carries(o)'
  <2>1. CASE ~Live(o)  BY <2>1 DEF Carries, Local
  <2>2. CASE Live(o)
    <3>1. request'[o] = request[o] /\ JobOf(o) \in Jobs /\ Carries(o)
      BY <2>2, RequestFacts DEF Local
    <3>2. versions[JobOf(o)] \subseteq versions'[JobOf(o)]  BY <3>1 DEF Local, TablesAt
    <3> QED BY <3>1, <3>2 DEF Carries
  <2> QED BY <2>1, <2>2
<1>4. ASSUME NEW o \in Requests \ {q} PROVE Knows(o)'
  <2>1. SUFFICES ASSUME Live(o)', JobOf(o)' \notin overlapped' PROVE Knows(o)'
    BY DEF Knows
  <2>2. request'[o] = request[o] /\ Live(o) /\ JobOf(o) \notin overlapped
    BY <2>1 DEF Local
  <2>3. JobOf(o) \in Jobs \ {j} /\ Knows(o) /\ Home(o) \in Processes
    BY <2>1, <2>2, RequestFacts DEF Local
  <2>4. /\ cronJob'[JobOf(o)] = cronJob[JobOf(o)]
        /\ scheduleChange'[JobOf(o)] = scheduleChange[JobOf(o)]
        /\ registeredJobs'[Home(o)][JobOf(o)] = registeredJobs[Home(o)][JobOf(o)]
    BY <2>3 DEF Local, TablesAt
  <2> QED BY <2>2, <2>3, <2>4 DEF Knows, Recorded, Exists
<1>5. ASSUME NEW i \in Jobs PROVE Committed(i)'
  <2>1. versions[i] \subseteq versions'[i] /\ loading' = loading
    BY DEF Local, TablesAt
  <2>2. \A o \in Processes : Sound(registeredJobs[o][i], i)' /\ Sound(loading[o][i], i)'
    BY <2>1 DEF Local, IInv, Committed, Sound
  <2>3. (Exists(i)' => cronJob'[i] \in versions'[i]) /\ (cronJob'[i] = Unborn => versions'[i] = {})
    BY DEF Local, TablesAt, IInv, Committed, Exists
  <2> QED BY <2>2, <2>3 DEF Committed
<1>6. ASSUME NEW i \in Jobs PROVE Alone(i)'
  <2>1. SUFFICES ASSUME i \notin overlapped',
                        NEW a \in Requests, NEW b \in Requests,
                        Live(a)', Live(b)', JobOf(a)' = i, JobOf(b)' = i
                 PROVE  a = b
    BY DEF Alone
  <2>2. CASE i = j
    <3>1. \A o \in Requests \ {q} : ~(Live(o)' /\ JobOf(o)' = j)
      BY <2>1, <2>2 DEF Local
    <3> QED BY <2>1, <2>2, <3>1
  <2>3. CASE i # j
    <3>1. a # q /\ b # q  BY <2>1, <2>3 DEF Local
    <3>2. request'[a] = request[a] /\ request'[b] = request[b] /\ i \notin overlapped
      BY <2>1, <3>1 DEF Local
    <3> QED BY <2>1, <3>2 DEF IInv, Alone
  <2> QED BY <2>2, <2>3
<1>7. ASSUME NEW o \in Processes, NEW i \in Jobs \ {j} PROVE Kept(o, i)'
  <2>1. SUFFICES ASSUME process'[o] # "down", i \notin overlapped', o \notin excused'[i],
                        ~Owed(o, i)'
                 PROVE  Holds(o, i)'
    BY DEF Kept
  <2>2. ~Owed(o, i)  BY <2>1 DEF Owed, Local
  <2>3. Kept(o, i) /\ o \notin excused[i] /\ i \notin overlapped /\ process[o] # "down"
    BY <2>1 DEF IInv, Local
  <2>4. /\ cronJob'[i] = cronJob[i] /\ loading' = loading
        /\ registeredJobs'[o][i] = registeredJobs[o][i]
    BY DEF Local, TablesAt
  <2> QED BY <2>2, <2>3, <2>4 DEF Kept, Holds, InStep, IsActive, Exists
<1>8. ASSUME NEW o \in Processes PROVE Kept(o, j)'
  BY DEF Kept
<1>9. ASSUME NEW o \in Processes PROVE HasRead(o)'
  <2>1. SUFFICES ASSUME process[o] = "booting", NEW i \in Jobs, o \notin excused'[i]
                 PROVE  Holds(o, i)'
    BY DEF HasRead, Local
  <2>2. o # p  BY <2>1 DEF Local
  <2>3. o \notin excused[i] /\ cronJob'[i] = cronJob[i]
    BY <2>1, <2>2 DEF Excuses, Local, TablesAt
  <2>4. Holds(o, i)  BY <2>1, <2>3 DEF IInv, HasRead
  <2>5. registeredJobs'[o][i] = registeredJobs[o][i] /\ loading' = loading
    BY <2>2 DEF Local
  <2> QED BY <2>3, <2>4, <2>5 DEF Holds, InStep, IsActive, Exists
<1>10. Knows(q)'
  <2>1. CASE j \in overlapped'  BY <2>1 DEF Knows, Local
  <2> QED BY <2>1
<1> QED BY <1>1, <1>2, <1>3, <1>4, <1>5, <1>6, <1>7, <1>8, <1>9, <1>10 DEF IInv

-----------------------------------------------------------------------------
(* The statements.                                                         *)

LEMMA UntouchedTables ==
  ASSUME IInv, NEW j \in Jobs, Untouched
  PROVE  TablesAt(j)
BY DEF Untouched, tables, TablesAt, IInv, TypeOK, Committed, Exists

LEMMA SetRowTables ==
  ASSUME IInv, NEW j \in Jobs, NEW row \in Row, SetRow(j, row)
  PROVE  TablesAt(j) /\ cronJob'[j] = row /\ row \in versions'[j] /\ Exists(j)'
         /\ scheduleChange' = scheduleChange
<1>1. cronJob'[j] = row /\ versions'[j] = versions[j] \union {row}
  BY DEF SetRow, IInv, TypeOK
<1>2. row # Unborn /\ row # Deleted  BY RowsDiffer
<1> QED BY <1>1, <1>2 DEF SetRow, TablesAt, IInv, TypeOK, Committed, Exists

LEMMA AddChangeTables ==
  ASSUME IInv, NEW j \in Jobs, NEW old \in Expressions, NEW new \in Expressions,
         AddChange(j, old, new)
  PROVE  TablesAt(j) /\ cronJob' = cronJob /\ <<old, new>> \in scheduleChange'[j]
BY DEF AddChange, TablesAt, IInv, TypeOK, Committed, Exists

LEMMA DeleteTables ==
  ASSUME IInv, NEW j \in Jobs, cronJob' = [cronJob EXCEPT ![j] = Deleted],
         scheduleChange' = [scheduleChange EXCEPT ![j] = {}], UNCHANGED versions
  PROVE  TablesAt(j) /\ cronJob'[j] = Deleted
BY AbsentDiffer DEF TablesAt, IInv, TypeOK, Committed, Exists

LEMMA Becomes ==
  ASSUME IInv, NEW q \in Requests, NEW r \in RequestType \union {NoRequest},
         request' = [request EXCEPT ![q] = r]
  PROVE  /\ request' \in [Requests -> RequestType \union {NoRequest}]
         /\ request'[q] = r /\ \A o \in Requests \ {q} : request'[o] = request[o]
BY DEF IInv, TypeOK

\* A step of a live request that leaves the timers alone.
LEMMA LocalStep ==
  ASSUME IInv, NEW q \in Requests, NEW j, NEW p, Live(q), j = JobOf(q), p = Home(q), TablesAt(j),
         UNCHANGED <<memory, overlapped>>, faults' \in 0 .. MaxFaults,
         request' \in [Requests -> RequestType \union {NoRequest}],
         \A o \in Requests \ {q} : request'[o] = request[o],
         request'[q] # NoRequest => request'[q].job = j /\ request'[q].process = p,
         UNCHANGED excused \/ \E processes \in SUBSET Processes : Excuse(j, processes)
  PROVE  Local(q, p, j) /\ Sound(registeredJobs[p][j], j)'
<1>1. /\ request[q] \in RequestType /\ j \in Jobs /\ p \in Processes
      /\ process[p] = "up" /\ Alone(j) /\ Committed(j)
  BY RequestFacts
<1>4. Live(q)' => JobOf(q)' = j /\ Home(q)' = p
  BY RequestTypes
<1>5. excused' \in [Jobs -> SUBSET Processes]
      /\ \A i \in Jobs \ {j} : excused'[i] = excused[i]
  BY DEF Excuse, IInv, TypeOK
<1>6. j \notin overlapped' => \A o \in Requests \ {q} : ~(Live(o) /\ JobOf(o) = j)
  BY <1>1 DEF Alone
<1>7. Sound(registeredJobs[p][j], j)'
  BY <1>1 DEF Committed, Sound, memory, TablesAt
<1> QED BY <1>1, <1>4, <1>5, <1>6, <1>7 DEF Local, memory, IInv, TypeOK

\* A request that ends and leaves every process excused, or that found no row.
LEMMA EndedInv ==
  ASSUME IInv, NEW q \in Requests, NEW j, Live(q), j = JobOf(q), Answer(q),
         UNCHANGED <<memory, overlapped>>, TablesAt(j), faults' \in 0 .. MaxFaults,
         Excuse(j, Processes) \/ (~Exists(j) /\ UNCHANGED <<cronJob, excused>>)
  PROVE  IInv'
<1>1. j \in Jobs /\ Home(q) \in Processes /\ Knows(q)  BY RequestFacts
<1>2. PICK p \in Processes : p = Home(q)  BY <1>1
<1>3. Local(q, p, j) /\ request'[q] = NoRequest /\ Sound(registeredJobs[p][j], j)'
  BY <1>2, Becomes, LocalStep DEF Answer
<1>4. Carries(q)' /\ Knows(q)'  BY <1>3, RequestTypes DEF Carries, Knows
<1>5. ASSUME j \notin overlapped', NEW o \in Processes PROVE Kept(o, j)'
  <2>1. Exists(j)  BY <1>1, <1>5 DEF Knows
  <2>2. excused'[j] = Processes  BY <1>1, <2>1 DEF Excuse, IInv, TypeOK
  <2> QED BY <2>2 DEF Kept
<1>6. Excuses(p, j)  BY <1>1 DEF Excuses, Excuse, IInv, TypeOK
<1> QED BY <1>1, <1>2, <1>3, <1>4, <1>5, <1>6, LocalInv

\* The ways a statement fails.
Fails(q, j) ==
  /\ Answer(q)
  /\ \/ faults < MaxFaults /\ faults' = faults + 1 /\ Excuse(j, Processes)
     \/ ~Exists(j) /\ UNCHANGED <<faults, excused>>

LEMMA FailsInv ==
  ASSUME IInv, NEW q \in Requests, NEW j, Live(q), j = JobOf(q), Fails(q, j),
         UNCHANGED <<memory, overlapped>>, (Exists(j) /\ TablesAt(j)) \/ Untouched
  PROVE  IInv'
<1>1. faults' \in 0 .. MaxFaults  BY CountAssumption DEF Fails, IInv, TypeOK
<1>2. TablesAt(j)  BY RequestFacts, UntouchedTables
<1>3. Exists(j) \/ UNCHANGED cronJob  BY DEF Untouched, tables
<1> QED BY <1>1, <1>2, <1>3, EndedInv DEF Fails

-----------------------------------------------------------------------------
(* The steps of a request.                                                 *)

\* A step that leaves timers and row of job j alone, and does not take back that a
\* request is about to bring them into step.
LEMMA KeptSame ==
  ASSUME IInv, NEW q \in Requests, NEW o \in Processes, NEW j \in Jobs,
         cronJob'[j] = cronJob[j], UNCHANGED <<memory, overlapped, excused>>,
         ~At(q, "registering"), ~At(q, "deleting"),
         \A a \in Requests \ {q} : request'[a] = request[a]
  PROVE  Kept(o, j)'
<1>1. Kept(o, j)  BY DEF IInv
<1>2. Owed(o, j) => Owed(o, j)'  BY DEF Owed
<1> QED BY <1>1, <1>2 DEF Kept, Holds, InStep, IsActive, Exists, memory

LEMMA EvaluatedInv ==
  ASSUME IInv, NEW q \in Requests, Extend(q) \/ Leave(q)
  PROVE  IInv'
<1>1. At(q, "evaluated") /\ Live(q) /\ UNCHANGED <<tables, memory, history>>
  BY DEF Extend, Leave
<1>2. PICK j \in Jobs, p \in Processes : j = JobOf(q) /\ p = Home(q)  BY <1>1, RequestFacts
<1>3. PICK row, judged : row = cronJob[j] /\ judged = request[q].judged  OBVIOUS
<1>4. /\ Carries(q) /\ Knows(q) /\ request[q] \in RequestType /\ judged \in Row
      /\ request[q].kind = "reschedule" /\ (Exists(j) <=> row \in Row)
  BY <1>1, <1>2, <1>3, RequestFacts DEF Carries
<1>5. TablesAt(j) /\ faults' \in 0 .. MaxFaults /\ UNCHANGED <<overlapped, excused>>
  BY <1>1, UntouchedTables DEF Untouched, history, IInv, TypeOK
<1>8. Excuses(p, j)  BY <1>1, <1>5 DEF Excuses, tables
<1>6. CASE Answer(q)
  <2>1. /\ Local(q, p, j) /\ request'[q] = NoRequest /\ Sound(registeredJobs[p][j], j)'
        /\ \A a \in Requests \ {q} : request'[a] = request[a]
    BY <1>1, <1>2, <1>5, <1>6, Becomes, LocalStep DEF Answer
  <2>2. Carries(q)' /\ Knows(q)'  BY <2>1, RequestTypes DEF Carries, Knows
  <2>3. \A o \in Processes : Kept(o, j)'
    BY <1>1, <1>5, <2>1, KeptSame DEF tables
  <2> QED BY <1>8, <2>1, <2>2, <2>3, LocalInv
<1> DEFINE dto0 == [NoDto EXCEPT !.cronExpression = Extended[judged.cronExpression],
                                 !.timezone = judged.timezone]
<1>7. CASE /\ judged.cronExpression \in DOMAIN Extended /\ Exists(j)
           /\ request' = [request EXCEPT ![q].dto = dto0, ![q].seen = row,
                                         ![q].pc = FirstStep(row, dto0)]
  <2>1. PICK r \in RequestType :
           /\ request' = [request EXCEPT ![q] = r] /\ r.job = j /\ r.process = p
           /\ r.dto.cronExpression \in Expressions /\ r.pc \in {"recording", "writing"}
           /\ r.pc = "writing" => r.dto.cronExpression \in {Keep, row.cronExpression}
           /\ r.kind = "reschedule" /\ r.judged = judged /\ r.seen = row
    <3> DEFINE first0 == FirstStep(row, dto0)
               r0 == [request[q] EXCEPT !.dto = dto0, !.seen = row, !.pc = first0]
    <3>1. dto0 \in Dto /\ dto0.cronExpression \in Expressions
      BY <1>4, <1>7, ExtensionAssumption DEF Dto, NoDto, Row
    <3> HIDE DEF dto0
    <3>2. /\ first0 \in {"recording", "writing"}
          /\ first0 = "writing" => dto0.cronExpression \in {Keep, row.cronExpression}
      BY DEF FirstStep, Changes
    <3>3. request' = [request EXCEPT ![q] = r0]  BY <1>7
    <3> HIDE DEF first0
    <3>4. /\ r0 \in RequestType /\ r0.job = j /\ r0.process = p /\ r0.kind = "reschedule"
          /\ r0.judged = judged /\ r0.dto = dto0 /\ r0.seen = row /\ r0.pc = first0
      BY <1>2, <1>3, <1>4, <1>7, <3>1, <3>2 DEF RequestType, Points
    <3> HIDE DEF r0
    <3> QED BY <3>1, <3>2, <3>3, <3>4
  <2> HIDE DEF dto0
  <2>6. /\ Local(q, p, j) /\ request'[q] = r /\ Sound(registeredJobs[p][j], j)'
        /\ \A a \in Requests \ {q} : request'[a] = request[a]
    <3>1. /\ request' \in [Requests -> RequestType \union {NoRequest}]
          /\ request'[q] = r /\ \A a \in Requests \ {q} : request'[a] = request[a]
      BY <2>1, Becomes
    <3> QED BY <1>1, <1>2, <1>5, <2>1, <3>1, LocalStep
  <2>7. Carries(q)'  BY <1>4, <1>7, <2>1, <2>6 DEF Carries
  <2>8. Knows(q)'
    <3>1. cronJob'[j] = row /\ Exists(j)' /\ scheduleChange' = scheduleChange
      BY <1>1, <1>3, <1>7 DEF tables, Exists
    <3> QED BY <2>1, <2>6, <3>1 DEF Knows, Recorded
  <2>9. \A o \in Processes : Kept(o, j)'
    BY <1>1, <1>5, <2>6, KeptSame DEF tables
  <2> QED BY <1>8, <2>6, <2>7, <2>8, <2>9, LocalInv
<1> QED BY <1>2, <1>3, <1>6, <1>7 DEF Extend, Leave

LEMMA DisableInv ==
  ASSUME IInv, NEW q \in Requests, Disable(q)
  PROVE  IInv'
<1>1. Live(q) /\ UNCHANGED <<memory, overlapped>>  BY DEF Disable
<1>2. PICK j \in Jobs : j = JobOf(q) /\ (Exists(j) <=> cronJob[j] \in Row)
  BY <1>1, RequestFacts
<1>3. PICK row : row = [cronJob[j] EXCEPT !.isActive = "off"]  OBVIOUS
<1>4. Exists(j) /\ SetRow(j, row) => TablesAt(j)
  BY <1>2, <1>3, DisabledRow, SetRowTables
<1>5. CASE /\ Exists(j) /\ SetRow(j, row)
           /\ Answer(q) /\ Excuse(j, Processes) /\ UNCHANGED faults
  <2>1. faults' \in 0 .. MaxFaults  BY <1>5 DEF IInv, TypeOK
  <2> QED BY <1>1, <1>2, <1>4, <1>5, <2>1, EndedInv
<1>6. CASE Fails(q, j) /\ ((Exists(j) /\ SetRow(j, row)) \/ Untouched)
  BY <1>1, <1>2, <1>4, <1>6, FailsInv
<1> QED BY <1>2, <1>3, <1>5, <1>6 DEF Disable, Statement, Fails

LEMMA RecordChangeInv ==
  ASSUME IInv, NEW q \in Requests, RecordChange(q)
  PROVE  IInv'
<1>1. At(q, "recording") /\ Live(q) /\ UNCHANGED <<memory, overlapped>>
  BY DEF RecordChange
<1>2. PICK j \in Jobs, p \in Processes : j = JobOf(q) /\ p = Home(q)  BY <1>1, RequestFacts
<1>3. PICK old, new : old = request[q].seen.cronExpression /\ new = request[q].dto.cronExpression
  OBVIOUS
<1>4. /\ request[q] \in RequestType /\ Carries(q) /\ Knows(q)
      /\ old \in Expressions /\ new \in Expressions
  <2>1. request[q] \in RequestType /\ Carries(q) /\ Knows(q)  BY <1>1, RequestFacts
  <2>2. request[q].seen \in Row /\ new \in Expressions  BY <1>1, <1>3, <2>1 DEF Carries
  <2> QED BY <1>3, <2>1, <2>2 DEF Row
<1>5. AddChange(j, old, new) =>
        TablesAt(j) /\ cronJob' = cronJob /\ <<old, new>> \in scheduleChange'[j]
  BY <1>4, AddChangeTables
<1>6. CASE Exists(j) /\ AddChange(j, old, new) /\ Goto(q, "writing") /\ UNCHANGED <<excused, faults>>
  <2>1. PICK r \in RequestType :
          /\ request' = [request EXCEPT ![q] = r] /\ r.pc = "writing"
          /\ r.job = j /\ r.process = p /\ r.kind = request[q].kind /\ r.dto = request[q].dto
          /\ r.judged = request[q].judged /\ r.seen = request[q].seen
    <3> DEFINE r0 == [request[q] EXCEPT !.pc = "writing"]
    <3>1. /\ r0 \in RequestType /\ r0.pc = "writing" /\ r0.job = j /\ r0.process = p
          /\ r0.kind = request[q].kind /\ r0.dto = request[q].dto
          /\ r0.judged = request[q].judged /\ r0.seen = request[q].seen
      BY <1>2, <1>4 DEF RequestType, Points
    <3>2. request' = [request EXCEPT ![q] = r0]  BY <1>6 DEF Goto
    <3> HIDE DEF r0
    <3> QED BY <3>1, <3>2
  <2>2. /\ request' \in [Requests -> RequestType \union {NoRequest}]
        /\ request'[q] = r /\ \A a \in Requests \ {q} : request'[a] = request[a]
    BY <2>1, Becomes
  <2>3. faults' \in 0 .. MaxFaults  BY <1>6 DEF IInv, TypeOK
  <2>4. Local(q, p, j) /\ Sound(registeredJobs[p][j], j)'
    BY <1>1, <1>2, <1>5, <1>6, <2>1, <2>2, <2>3, LocalStep
  <2>5. Carries(q)'  BY <1>1, <1>3, <1>4, <2>1, <2>2 DEF Carries
  <2>6. Knows(q)'
    BY <1>1, <1>2, <1>3, <1>4, <1>5, <1>6, <2>1, <2>2 DEF Knows, Recorded, Exists
  <2>7. \A o \in Processes : Kept(o, j)'
    BY <1>1, <1>5, <1>6, <2>2, KeptSame
  <2>8. Excuses(p, j)  BY <1>5, <1>6 DEF Excuses
  <2> QED BY <2>4, <2>5, <2>6, <2>7, <2>8, LocalInv
<1>7. CASE Fails(q, j) /\ ((Exists(j) /\ AddChange(j, old, new)) \/ Untouched)
  BY <1>1, <1>2, <1>5, <1>7, FailsInv
<1> QED BY <1>2, <1>3, <1>6, <1>7 DEF RecordChange, Statement, Fails

LEMMA NoteInv ==
  ASSUME IInv, NEW q \in Requests, Note(q)
  PROVE  IInv'
<1>1. At(q, "noting") /\ Live(q) /\ UNCHANGED <<memory, overlapped>>
  BY DEF Note
<1>2. PICK j \in Jobs, p \in Processes : j = JobOf(q) /\ p = Home(q)  BY <1>1, RequestFacts
<1>3. PICK old, new : old = request[q].judged.cronExpression /\ new = request[q].dto.cronExpression
  OBVIOUS
<1>4. old \in Expressions /\ new \in Expressions
  <2>1. Carries(q)  BY <1>1, RequestFacts
  <2>2. request[q].judged \in Row /\ new \in Expressions  BY <1>1, <1>3, <2>1 DEF Carries
  <2> QED BY <1>3, <2>2 DEF Row
<1>5. AddChange(j, old, new) => TablesAt(j) /\ cronJob' = cronJob
  BY <1>4, AddChangeTables
<1>6. CASE Exists(j) /\ AddChange(j, old, new) /\ Answer(q) /\ UNCHANGED <<excused, faults>>
  <2>1. /\ request' \in [Requests -> RequestType \union {NoRequest}]
        /\ request'[q] = NoRequest /\ \A a \in Requests \ {q} : request'[a] = request[a]
    BY <1>6, Becomes DEF Answer
  <2>2. faults' \in 0 .. MaxFaults  BY <1>6 DEF IInv, TypeOK
  <2>3. Local(q, p, j) /\ Sound(registeredJobs[p][j], j)'
    BY <1>1, <1>2, <1>5, <1>6, <2>1, <2>2, LocalStep
  <2>4. Carries(q)' /\ Knows(q)'  BY <2>1, RequestTypes DEF Carries, Knows
  <2>5. \A o \in Processes : Kept(o, j)'
    BY <1>1, <1>5, <1>6, <2>1, KeptSame
  <2>6. Excuses(p, j)  BY <1>5, <1>6 DEF Excuses
  <2> QED BY <2>3, <2>4, <2>5, <2>6, LocalInv
<1>7. CASE Fails(q, j) /\ ((Exists(j) /\ AddChange(j, old, new)) \/ Untouched)
  BY <1>1, <1>2, <1>5, <1>7, FailsInv
<1> QED BY <1>2, <1>3, <1>6, <1>7 DEF Note, Statement, Fails

LEMMA WriteInv ==
  ASSUME IInv, NEW q \in Requests, Write(q)
  PROVE  IInv'
<1>1. At(q, "writing") /\ Live(q) /\ UNCHANGED <<memory, overlapped>>
  BY DEF Write
<1>2. PICK j \in Jobs, p \in Processes :
        j = JobOf(q) /\ p = Home(q) /\ (Exists(j) <=> cronJob[j] \in Row)
  BY <1>1, RequestFacts
<1>3. PICK row : row = Merged(cronJob[j], request[q].dto)  OBVIOUS
<1>4. request[q] \in RequestType /\ request[q].dto \in Dto /\ Carries(q) /\ Knows(q)
  BY <1>1, RequestFacts
<1>5. Exists(j) => row \in Row  BY <1>2, <1>3, <1>4, MergedRow
<1>6. Exists(j) /\ SetRow(j, row) =>
        TablesAt(j) /\ cronJob'[j] = row /\ row \in versions'[j] /\ Exists(j)'
  BY <1>5, SetRowTables
<1>7. CASE /\ Exists(j) /\ SetRow(j, row) /\ UNCHANGED faults
           /\ request' = [request EXCEPT ![q].written = row, ![q].pc = "registering"]
           /\ Excuse(j, Others(q))
  <2>1. PICK r \in RequestType :
          /\ request' = [request EXCEPT ![q] = r] /\ r.pc = "registering"
          /\ r.job = j /\ r.process = p /\ r.kind = request[q].kind /\ r.dto = request[q].dto
          /\ r.judged = request[q].judged /\ r.written = row
    <3> DEFINE r0 == [request[q] EXCEPT !.written = row, !.pc = "registering"]
    <3>1. /\ r0 \in RequestType /\ r0.pc = "registering" /\ r0.job = j /\ r0.process = p
          /\ r0.kind = request[q].kind /\ r0.dto = request[q].dto
          /\ r0.judged = request[q].judged /\ r0.written = row
      BY <1>2, <1>4, <1>5, <1>7 DEF RequestType, Points
    <3>2. request' = [request EXCEPT ![q] = r0]  BY <1>7
    <3> HIDE DEF r0
    <3> QED BY <3>1, <3>2
  <2>2. /\ request' \in [Requests -> RequestType \union {NoRequest}]
        /\ request'[q] = r /\ \A a \in Requests \ {q} : request'[a] = request[a]
    BY <2>1, Becomes
  <2>3. /\ faults' \in 0 .. MaxFaults
        /\ \E processes \in SUBSET Processes : Excuse(j, processes)
        /\ excused'[j] = Processes \ {p}
    BY <1>2, <1>7 DEF IInv, TypeOK, Others, Excuse
  <2>4. Local(q, p, j) /\ Sound(registeredJobs[p][j], j)'
    BY <1>1, <1>2, <1>6, <1>7, <2>1, <2>2, <2>3, LocalStep
  <2>5. Carries(q)'
    BY <1>1, <1>4, <1>5, <1>6, <1>7, <2>1, <2>2 DEF Carries
  <2>6. Knows(q)'
    BY <1>6, <1>7, <2>1, <2>2 DEF Knows
  <2>7. \A o \in Processes : Kept(o, j)'
    <3>1. Owed(p, j)'  BY <2>1, <2>2 DEF Owed
    <3> QED BY <2>3, <3>1 DEF Kept
  <2>8. Excuses(p, j)  BY <2>3 DEF Excuses
  <2> QED BY <2>4, <2>5, <2>6, <2>7, <2>8, LocalInv
<1>8. CASE Fails(q, j) /\ ((Exists(j) /\ SetRow(j, row)) \/ Untouched)
  BY <1>1, <1>2, <1>6, <1>8, FailsInv
<1> QED BY <1>2, <1>3, <1>7, <1>8 DEF Write, Statement, Fails

\* The scheduler of process p sets, or stops, the timer of the job of q.
LEMMA TimerStep ==
  ASSUME IInv, NEW q \in Requests, NEW j, NEW p, Live(q), j = JobOf(q), p = Home(q),
         NEW timer \in Row \union {NoTimer},
         timer # NoTimer => timer \in versions[j] /\ timer.isActive = "on",
         registeredJobs' = [registeredJobs EXCEPT ![p] = [@ EXCEPT ![j] = timer]],
         UNCHANGED <<tables, process, loading, history>>,
         NEW r \in RequestType \union {NoRequest}, request' = [request EXCEPT ![q] = r],
         r # NoRequest => r.job = j /\ r.process = p,
         Carries(q)', j \notin overlapped => Knows(q)' /\ Kept(p, j)'
  PROVE  IInv'
<1>1. j \in Jobs /\ p \in Processes /\ process[p] = "up" /\ Alone(j)
  BY RequestFacts
<1>2. TablesAt(j)  BY <1>1, UntouchedTables DEF Untouched, history
<1>3. /\ registeredJobs' \in [Processes -> TimerType] /\ registeredJobs'[p][j] = timer
      /\ \A o \in Processes, i \in Jobs :
           registeredJobs'[o][i] = registeredJobs[o][i] \/ (o = p /\ i = j)
  BY <1>1 DEF IInv, TypeOK, TimerType
<1>4. /\ request' \in [Requests -> RequestType \union {NoRequest}]
      /\ request'[q] = r /\ \A a \in Requests \ {q} : request'[a] = request[a]
  BY Becomes
<1>5. Live(q)' => JobOf(q)' = j /\ Home(q)' = p  BY <1>4, RequestTypes
<1>6. j \notin overlapped => \A o \in Requests \ {q} : ~(Live(o) /\ JobOf(o) = j)
  BY <1>1 DEF Alone
<1>7. Local(q, p, j)
  BY <1>1, <1>2, <1>3, <1>4, <1>5, <1>6 DEF Local, history, IInv, TypeOK
<1>8. Sound(registeredJobs[p][j], j)'  BY <1>3 DEF Sound, history
<1>9. ASSUME j \notin overlapped', NEW o \in Processes PROVE Kept(o, j)'
  <2>1. CASE o = p  BY <1>9, <2>1 DEF history
  <2>2. CASE o # p
    <3>1. registeredJobs'[o][j] = registeredJobs[o][j]  BY <1>1, <1>3, <2>2
    <3>2. Owed(o, j) => Owed(o, j)'
      <4>1. SUFFICES ASSUME NEW a \in Requests, Live(a), JobOf(a) = j, Home(a) = o,
                            At(a, "registering") \/ At(a, "deleting")
                     PROVE  Owed(o, j)'
        BY DEF Owed
      <4>2. a # q  BY <2>2, <4>1
      <4> QED BY <1>4, <4>1, <4>2 DEF Owed
    <3>3. Kept(o, j)  BY <1>1 DEF IInv
    <3> QED BY <3>1, <3>2, <3>3 DEF Kept, Holds, InStep, IsActive, Exists, tables, history
  <2> QED BY <2>1, <2>2
<1>10. j \notin overlapped' => Knows(q)'  BY DEF history
<1>11. Excuses(p, j)  BY DEF Excuses, tables, history
<1> QED BY <1>1, <1>7, <1>8, <1>9, <1>10, <1>11, LocalInv

\* In a process that serves requests nothing is left to load.
LEMMA UpHolds ==
  ASSUME IInv, NEW p \in Processes, NEW j \in Jobs, process[p] = "up"
  PROVE  loading[p][j] = NoTimer
BY DEF IInv, NoTimers

LEMMA RegisterInv ==
  ASSUME IInv, NEW q \in Requests, Register(q)
  PROVE  IInv'
<1>1. At(q, "registering") /\ Live(q) /\ UNCHANGED <<tables, process, loading, history>>
  BY DEF Register
<1>2. PICK j \in Jobs, p \in Processes : j = JobOf(q) /\ p = Home(q)  BY <1>1, RequestFacts
<1>3. PICK row : row = request[q].written  OBVIOUS
<1>4. /\ request[q] \in RequestType /\ Carries(q) /\ Knows(q)
      /\ row \in Row /\ row \in versions[j] /\ process[p] = "up"
  BY <1>1, <1>2, <1>3, RequestFacts DEF Carries
<1>5. row.isActive \in Switch  BY <1>4 DEF Row
<1>6. PICK timer \in Row \union {NoTimer} :
        timer = IF row.isActive = "on" /\ row.timezone \in KnownZones THEN row ELSE NoTimer
  BY <1>4
<1>7. registeredJobs' = [registeredJobs EXCEPT ![p] = [@ EXCEPT ![j] = timer]]
  BY <1>2, <1>3, <1>6 DEF Register, Registered, Unregistered
<1>8. timer # NoTimer => timer \in versions[j] /\ timer.isActive = "on"  BY <1>4, <1>6
<1>9. PICK r \in RequestType \union {NoRequest} :
        /\ request' = [request EXCEPT ![q] = r]
        /\ r # NoRequest => /\ r.pc = "noting" /\ r.kind = "reschedule" /\ r.job = j /\ r.process = p
                            /\ request[q].kind = "reschedule" /\ r.judged = request[q].judged /\ r.dto = request[q].dto
  <2>1. CASE Answer(q)  BY <2>1 DEF Answer
  <2>2. CASE request[q].kind = "reschedule" /\ Goto(q, "noting")
    <3> DEFINE r0 == [request[q] EXCEPT !.pc = "noting"]
    <3>1. /\ r0 \in RequestType /\ r0.pc = "noting" /\ r0.kind = "reschedule" /\ r0.job = j
          /\ r0.process = p /\ r0.judged = request[q].judged /\ r0.dto = request[q].dto
      BY <1>2, <1>4, <2>2 DEF RequestType, Points
    <3>2. request' = [request EXCEPT ![q] = r0]  BY <2>2 DEF Goto
    <3> HIDE DEF r0
    <3> QED BY <2>2, <3>1, <3>2
  <2> QED BY <2>1, <2>2 DEF Register
<1>10. /\ request' \in [Requests -> RequestType \union {NoRequest}]
       /\ request'[q] = r /\ \A a \in Requests \ {q} : request'[a] = request[a]
  BY <1>9, Becomes
<1>11. Carries(q)'
  <2>1. CASE r = NoRequest  BY <1>10, <2>1, RequestTypes DEF Carries
  <2>2. CASE r # NoRequest
    <3>1. /\ r.pc = "noting" /\ r.kind = "reschedule" /\ r.job = j
          /\ r.judged = request[q].judged /\ r.dto = request[q].dto
      BY <1>9, <2>2
    <3>2. request[q].kind = "reschedule"  BY <1>9, <2>2
    <3>3. request[q].judged \in Row /\ request[q].dto.cronExpression \in Expressions
      BY <1>1, <1>4, <3>2 DEF Carries
    <3> QED BY <1>10, <3>1, <3>3 DEF Carries
  <2> QED BY <2>1, <2>2
<1>12. ASSUME j \notin overlapped PROVE Knows(q)' /\ Kept(p, j)'
  <2>1. Exists(j) /\ cronJob[j] = row  BY <1>1, <1>2, <1>3, <1>4, <1>12 DEF Knows
  <2>2. Knows(q)'
    BY <1>1, <1>9, <1>10, <2>1, RequestTypes DEF Knows, tables, Exists
  <2>3. registeredJobs'[p][j] = timer  BY <1>7 DEF IInv, TypeOK, TimerType
  <2>4. loading'[p][j] = NoTimer  BY <1>1, <1>4, UpHolds
  <2>5. InStep(p, j)'
    BY <1>1, <1>6, <2>1, <2>3 DEF InStep, IsActive, Exists, tables
  <2> QED BY <2>2, <2>4, <2>5 DEF Kept, Holds
<1>13. request' = [request EXCEPT ![q] = r] /\ (r # NoRequest => r.job = j /\ r.process = p)
  BY <1>9
<1>14. j \notin overlapped => Knows(q)' /\ Kept(p, j)'  BY <1>12
<1> QED BY <1>1, <1>2, <1>7, <1>8, <1>11, <1>13, <1>14, TimerStep

LEMMA UnregisterInv ==
  ASSUME IInv, NEW q \in Requests, Unregister(q)
  PROVE  IInv'
<1>1. At(q, "unregistering") /\ Live(q) /\ UNCHANGED <<tables, process, loading, history>>
  BY DEF Unregister
<1>2. PICK j \in Jobs, p \in Processes : j = JobOf(q) /\ p = Home(q)  BY <1>1, RequestFacts
<1>3. request[q] \in RequestType /\ Carries(q) /\ Knows(q)  BY <1>1, RequestFacts
<1>4. registeredJobs' = [registeredJobs EXCEPT ![p] = [@ EXCEPT ![j] = NoTimer]]
  BY <1>2 DEF Unregister, Unregistered
<1>5. PICK r \in RequestType :
        /\ request' = [request EXCEPT ![q] = r] /\ r.pc = "deleting"
        /\ r.job = j /\ r.process = p /\ r.kind = request[q].kind
        /\ r.judged = request[q].judged /\ r.dto = request[q].dto
  <2> DEFINE r0 == [request[q] EXCEPT !.pc = "deleting"]
  <2>1. /\ r0 \in RequestType /\ r0.pc = "deleting" /\ r0.job = j /\ r0.process = p
        /\ r0.kind = request[q].kind /\ r0.judged = request[q].judged /\ r0.dto = request[q].dto
    BY <1>2, <1>3 DEF RequestType, Points
  <2>2. request' = [request EXCEPT ![q] = r0]  BY DEF Unregister, Goto
  <2> HIDE DEF r0
  <2> QED BY <2>1, <2>2
<1>6. /\ request' \in [Requests -> RequestType \union {NoRequest}]
      /\ request'[q] = r /\ \A a \in Requests \ {q} : request'[a] = request[a]
  BY <1>5, Becomes
<1>7. Carries(q)'  BY <1>1, <1>3, <1>5, <1>6 DEF Carries
<1>8. registeredJobs'[p][j] = NoTimer  BY <1>4 DEF IInv, TypeOK, TimerType
<1>9. ASSUME j \notin overlapped PROVE Knows(q)' /\ Kept(p, j)'
  <2>1. Knows(q)'
    BY <1>1, <1>2, <1>3, <1>5, <1>6, <1>8, <1>9 DEF Knows, tables, Exists
  <2>2. Owed(p, j)'  BY <1>5, <1>6 DEF Owed
  <2> QED BY <2>1, <2>2 DEF Kept
<1> QED BY <1>1, <1>2, <1>4, <1>5, <1>7, <1>9, TimerStep

LEMMA DeleteInv ==
  ASSUME IInv, NEW q \in Requests, Delete(q)
  PROVE  IInv'
<1>1. At(q, "deleting") /\ Live(q) /\ UNCHANGED <<memory, overlapped>>
  BY DEF Delete
<1>2. PICK j \in Jobs, p \in Processes : j = JobOf(q) /\ p = Home(q)  BY <1>1, RequestFacts
<1>3. Knows(q) /\ process[p] = "up"  BY <1>1, <1>2, RequestFacts
<1>4. PICK gone \in BOOLEAN :
        gone <=> /\ cronJob' = [cronJob EXCEPT ![j] = Deleted]
                 /\ scheduleChange' = [scheduleChange EXCEPT ![j] = {}]
                 /\ UNCHANGED versions
  OBVIOUS
<1>5. gone => TablesAt(j) /\ cronJob'[j] = Deleted  BY <1>4, DeleteTables
<1>6. CASE Exists(j) /\ gone /\ Answer(q) /\ Excuse(j, Others(q)) /\ UNCHANGED faults
  <2>1. /\ request' \in [Requests -> RequestType \union {NoRequest}]
        /\ request'[q] = NoRequest /\ \A a \in Requests \ {q} : request'[a] = request[a]
    BY <1>6, Becomes DEF Answer
  <2>2. /\ faults' \in 0 .. MaxFaults
        /\ \E processes \in SUBSET Processes : Excuse(j, processes)
        /\ excused'[j] = Processes \ {p}
    BY <1>2, <1>6 DEF IInv, TypeOK, Others, Excuse
  <2>3. Local(q, p, j) /\ Sound(registeredJobs[p][j], j)'
    BY <1>1, <1>2, <1>5, <1>6, <2>1, <2>2, LocalStep
  <2>4. Carries(q)' /\ Knows(q)'  BY <2>1, RequestTypes DEF Carries, Knows
  <2>5. ASSUME j \notin overlapped', NEW o \in Processes PROVE Kept(o, j)'
    <3>1. CASE o # p  BY <2>2, <3>1 DEF Kept
    <3>2. CASE o = p
      <4>1. registeredJobs[p][j] = NoTimer
        BY <1>1, <1>2, <1>3, <2>5 DEF Knows
      <4>2. loading[p][j] = NoTimer  BY <1>3, UpHolds
      <4> QED BY <1>1, <1>5, <1>6, <3>2, <4>1, <4>2
              DEF Kept, Holds, InStep, IsActive, Exists, memory
    <3> QED BY <3>1, <3>2
  <2>6. Excuses(p, j)  BY <2>2 DEF Excuses
  <2> QED BY <2>3, <2>4, <2>5, <2>6, LocalInv
<1>7. CASE Fails(q, j) /\ ((Exists(j) /\ gone) \/ Untouched)
  BY <1>1, <1>2, <1>5, <1>7, FailsInv
<1> QED BY <1>2, <1>4, <1>6, <1>7 DEF Delete, Statement, Fails

-----------------------------------------------------------------------------
(* Requests and evaluations that begin.                                    *)

\* A request that begins on job j: it is alone with the job, or they overlap from now on.
LEMMA SubmitLocal ==
  ASSUME IInv, NEW q \in Requests, NEW p \in Processes, NEW j \in Jobs,
         NEW r \in RequestType \union {NoRequest}, Submit(q, p, j, r),
         r # NoRequest => r.job = j /\ r.process = p,
         TablesAt(j), UNCHANGED memory, faults' \in 0 .. MaxFaults,
         UNCHANGED excused \/ \E processes \in SUBSET Processes : Excuse(j, processes)
  PROVE  /\ Local(q, p, j) /\ Sound(registeredJobs[p][j], j)'
         /\ request'[q] = r /\ ~Live(q) /\ process[p] = "up"
         /\ j \notin overlapped' => Quiet(j) /\ j \notin overlapped
         /\ \A o \in Requests \ {q} : request'[o] = request[o]
<1>1. ~Live(q) /\ process[p] = "up" /\ request' = [request EXCEPT ![q] = r]
      /\ overlapped' = IF Quiet(j) THEN overlapped ELSE overlapped \union {j}
  BY DEF Submit
<1>2. /\ request' \in [Requests -> RequestType \union {NoRequest}]
      /\ request'[q] = r /\ \A o \in Requests \ {q} : request'[o] = request[o]
  BY <1>1, Becomes
<1>3. j \notin overlapped' => Quiet(j) /\ j \notin overlapped
  BY <1>1
<1>4. Live(q)' => JobOf(q)' = j /\ Home(q)' = p  BY <1>2, RequestTypes
<1>5. excused' \in [Jobs -> SUBSET Processes]
      /\ \A i \in Jobs \ {j} : excused'[i] = excused[i]
  BY DEF Excuse, IInv, TypeOK
<1>6. Committed(j)  BY DEF IInv
<1>7. Sound(registeredJobs[p][j], j)'  BY <1>6 DEF Committed, Sound, memory, TablesAt
<1>8. j \notin overlapped' => \A o \in Requests \ {q} : ~(Live(o) /\ JobOf(o) = j)
  BY <1>3 DEF Quiet
<1>9. overlapped \subseteq overlapped' /\ overlapped' \subseteq overlapped \union {j}
  BY <1>1
<1> QED BY <1>1, <1>2, <1>3, <1>4, <1>5, <1>7, <1>8, <1>9 DEF Local, memory, IInv, TypeOK

\* One that has not touched the row yet.
LEMMA SubmitInv ==
  ASSUME IInv, NEW q \in Requests, NEW p \in Processes, NEW j \in Jobs, NEW r \in RequestType,
         Submit(q, p, j, r), r.job = j, r.process = p,
         UNCHANGED <<tables, memory, faults, versions, excused>>, Exists(j),
         \/ r.kind = "reschedule" /\ r.judged = cronJob[j] /\ r.pc = "evaluated"
         \/ /\ r.kind # "reschedule" /\ r.seen = cronJob[j]
            /\ \/ r.pc = "recording" /\ r.dto.cronExpression \in Expressions
               \/ r.pc = "writing" /\ r.dto.cronExpression \in {Keep, cronJob[j].cronExpression}
               \/ r.pc = "unregistering"
  PROVE  IInv'
<1>1. TablesAt(j) /\ faults' \in 0 .. MaxFaults
  BY UntouchedTables DEF Untouched, IInv, TypeOK
<1>2. /\ Local(q, p, j) /\ Sound(registeredJobs[p][j], j)'
      /\ request'[q] = r /\ ~Live(q) /\ process[p] = "up"
      /\ j \notin overlapped' => Quiet(j) /\ j \notin overlapped
      /\ \A o \in Requests \ {q} : request'[o] = request[o]
  BY <1>1, SubmitLocal
<1>3. cronJob' = cronJob /\ cronJob[j] \in Row
  BY DEF tables, Exists, IInv, TypeOK
<1>4. Carries(q)'
  BY <1>2, <1>3 DEF Carries
<1>5. Knows(q)'
  BY <1>2, <1>3 DEF Knows, Recorded, Exists
<1>6. ASSUME j \notin overlapped', NEW o \in Processes PROVE Kept(o, j)'
  <2>1. Owed(o, j) => Owed(o, j)'
    <3>1. ~Owed(o, j)  BY <1>2, <1>6 DEF Owed, Quiet
    <3> QED BY <3>1
  <2>2. Kept(o, j) /\ j \notin overlapped  BY <1>2, <1>6 DEF IInv
  <2> QED BY <1>3, <2>1, <2>2 DEF Kept, Holds, InStep, IsActive, Exists, memory
<1>7. Excuses(p, j)  BY <1>3 DEF Excuses
<1> QED BY <1>2, <1>4, <1>5, <1>6, <1>7, LocalInv

LEMMA BeginInv ==
  ASSUME IInv, NEW q \in Requests, NEW p \in Processes, NEW j \in Jobs,
         NEW kind \in Kinds, NEW dto \in Dto, NEW first \in Points, Begin(q, p, j, kind, dto, first),
         kind # "reschedule",
         \/ first = "recording" /\ dto.cronExpression \in Expressions
         \/ first = "writing" /\ dto.cronExpression \in {Keep, cronJob[j].cronExpression}
         \/ first = "unregistering"
  PROVE  IInv'
<1>1. cronJob[j] \in Row  BY DEF Begin, Exists, IInv, TypeOK
<1>2. PICK r \in RequestType :
        /\ Submit(q, p, j, r) /\ r.job = j /\ r.process = p
        /\ r.kind = kind /\ r.seen = cronJob[j] /\ r.pc = first /\ r.dto = dto
  <2> DEFINE r0 == [Request(kind, p, j, first) EXCEPT !.dto = dto, !.seen = cronJob[j]]
  <2>1. /\ r0 \in RequestType /\ r0.job = j /\ r0.process = p /\ r0.kind = kind
        /\ r0.seen = cronJob[j] /\ r0.pc = first /\ r0.dto = dto
    BY <1>1 DEF RequestType, Request
  <2>2. Submit(q, p, j, r0)  BY DEF Begin
  <2> HIDE DEF r0
  <2> QED BY <2>1, <2>2
<1> QED BY <1>2, SubmitInv DEF Begin

LEMMA UpdateInv ==
  ASSUME IInv, NEW q \in Requests, NEW p \in Processes, NEW j \in Jobs, NEW dto \in Updates,
         Update(q, p, j, dto)
  PROVE  IInv'
<1>1. dto \in Dto  BY UpdateAssumption
<1>2. PICK first : first = FirstStep(cronJob[j], dto)  OBVIOUS
<1>3. /\ first \in Points
      /\ \/ first = "recording" /\ dto.cronExpression \in Expressions
         \/ first = "writing" /\ dto.cronExpression \in {Keep, cronJob[j].cronExpression}
  BY <1>1, <1>2 DEF FirstStep, Changes, Points, Dto
<1>4. "update" \in Kinds /\ "update" # "reschedule"  BY DEF Kinds
<1>5. Begin(q, p, j, "update", dto, first)  BY <1>2 DEF Update
<1> QED BY <1>1, <1>3, <1>4, <1>5, BeginInv

LEMMA ToggleInv ==
  ASSUME IInv, NEW q \in Requests, NEW p \in Processes, NEW j \in Jobs, Toggle(q, p, j)
  PROVE  IInv'
<1>1. PICK dto \in Dto : /\ dto.cronExpression = Keep
                         /\ Begin(q, p, j, "toggle", dto, "writing")
  <2> DEFINE dto0 == [NoDto EXCEPT !.isActive = IF IsActive(j) THEN "off" ELSE "on"]
  <2>1. dto0 \in Dto /\ dto0.cronExpression = Keep  BY DEF NoDto, Dto, Switch
  <2>2. Begin(q, p, j, "toggle", dto0, "writing")  BY DEF Toggle
  <2> HIDE DEF dto0
  <2> QED BY <2>1, <2>2
<1>2. "toggle" \in Kinds /\ "toggle" # "reschedule" /\ "writing" \in Points
  BY DEF Kinds, Points
<1> QED BY <1>1, <1>2, BeginInv

LEMMA RemoveInv ==
  ASSUME IInv, NEW q \in Requests, NEW p \in Processes, NEW j \in Jobs, Remove(q, p, j)
  PROVE  IInv'
<1>1. NoDto \in Dto /\ "remove" \in Kinds /\ "unregistering" \in Points
  BY DEF NoDto, Dto, Kinds, Points
<1>2. Begin(q, p, j, "remove", NoDto, "unregistering")  BY DEF Remove
<1> QED BY <1>1, <1>2, BeginInv

LEMMA EvaluateInv ==
  ASSUME IInv, NEW q \in Requests, NEW p \in Processes, NEW j \in Jobs, Evaluate(q, p, j)
  PROVE  IInv'
<1>1. Exists(j) /\ cronJob[j] \in Row  BY DEF Evaluate, IsActive, Exists, IInv, TypeOK
<1>2. PICK r \in RequestType :
        /\ Submit(q, p, j, r) /\ r.job = j /\ r.process = p
        /\ r.kind = "reschedule" /\ r.judged = cronJob[j] /\ r.pc = "evaluated"
  <2> DEFINE r0 == [Request("reschedule", p, j, "evaluated") EXCEPT !.judged = cronJob[j]]
  <2>1. NoDto \in Dto  BY DEF NoDto, Dto
  <2>2. /\ r0 \in RequestType /\ r0.job = j /\ r0.process = p /\ r0.kind = "reschedule"
        /\ r0.judged = cronJob[j] /\ r0.pc = "evaluated"
    BY <1>1, <2>1 DEF RequestType, Request, Kinds, Points
  <2>3. Submit(q, p, j, r0)  BY DEF Evaluate
  <2> HIDE DEF r0
  <2> QED BY <2>2, <2>3
<1> QED BY <1>1, <1>2, SubmitInv DEF Evaluate

LEMMA CreateInv ==
  ASSUME IInv, NEW q \in Requests, NEW p \in Processes, NEW j \in Jobs, NEW row \in Row,
         Create(q, p, j, row)
  PROVE  IInv'
<1>1. PICK r \in RequestType :
        /\ r = [Request("create", p, j, "registering") EXCEPT !.written = row]
        /\ r.job = j /\ r.process = p /\ r.kind = "create" /\ r.pc = "registering"
        /\ r.written = row
  <2> DEFINE r0 == [Request("create", p, j, "registering") EXCEPT !.written = row]
  <2>1. NoDto \in Dto  BY DEF NoDto, Dto
  <2>2. /\ r0 \in RequestType /\ r0.job = j /\ r0.process = p /\ r0.kind = "create"
        /\ r0.pc = "registering" /\ r0.written = row
    BY <2>1 DEF RequestType, Request, Kinds, Points
  <2> HIDE DEF r0
  <2>3. \E a \in RequestType : a = r0 /\ a.job = j /\ a.process = p /\ a.kind = "create"
          /\ a.pc = "registering" /\ a.written = row
    BY <2>2
  <2> USE DEF r0
  <2> QED BY <2>3
<1>2. cronJob[j] = Unborn /\ UNCHANGED memory  BY DEF Create
<1>3. SetRow(j, row) => TablesAt(j) /\ cronJob'[j] = row /\ row \in versions'[j] /\ Exists(j)'
  BY SetRowTables
<1>4. \A o \in Processes : registeredJobs[o][j] = NoTimer /\ loading[o][j] = NoTimer
  BY <1>2 DEF IInv, Committed, Sound
<1>5. CASE /\ Submit(q, p, j, IF row.isActive = "on" THEN r ELSE NoRequest)
           /\ SetRow(j, row) /\ Excuse(j, Processes \ {p}) /\ UNCHANGED faults
  <2>1. PICK s \in RequestType \union {NoRequest} :
          /\ s = (IF row.isActive = "on" THEN r ELSE NoRequest)
          /\ s # NoRequest => s.job = j /\ s.process = p
    BY <1>1
  <2>2. /\ faults' \in 0 .. MaxFaults /\ excused'[j] = Processes \ {p}
        /\ \E processes \in SUBSET Processes : Excuse(j, processes)
    BY <1>5 DEF Excuse, IInv, TypeOK
  <2>3. Submit(q, p, j, s)  BY <1>5, <2>1
  <2>4. /\ Local(q, p, j) /\ Sound(registeredJobs[p][j], j)'
        /\ request'[q] = s /\ process[p] = "up"
    BY <1>2, <1>3, <1>5, <2>1, <2>2, <2>3, SubmitLocal
  <2>5. Carries(q)'
    BY <1>1, <1>3, <1>5, <2>1, <2>4, RequestTypes DEF Carries
  <2>6. Knows(q)'
    BY <1>1, <1>3, <1>5, <2>1, <2>4, RequestTypes DEF Knows
  <2>7. ASSUME NEW o \in Processes PROVE Kept(o, j)'
    <3>1. CASE o # p  BY <2>2, <3>1 DEF Kept
    <3>2. CASE o = p /\ row.isActive = "on"
      <4>1. Owed(p, j)'  BY <1>1, <2>1, <2>4, <3>2 DEF Owed
      <4> QED BY <3>2, <4>1 DEF Kept
    <3>3. CASE o = p /\ row.isActive # "on"
      <4>1. ~IsActive(j)'  BY <1>3, <1>5, <3>3 DEF IsActive
      <4> QED BY <1>2, <1>4, <4>1 DEF Kept, Holds, InStep, memory
    <3> QED BY <3>1, <3>2, <3>3
  <2>8. Excuses(p, j)  BY <2>2 DEF Excuses
  <2> QED BY <2>4, <2>5, <2>6, <2>7, <2>8, LocalInv
<1>6. CASE /\ Submit(q, p, j, NoRequest) /\ (SetRow(j, row) \/ Untouched)
           /\ faults < MaxFaults /\ faults' = faults + 1 /\ Excuse(j, Processes)
  <2>1. /\ faults' \in 0 .. MaxFaults /\ excused'[j] = Processes
        /\ \E processes \in SUBSET Processes : Excuse(j, processes)
    <3>1. faults' \in 0 .. MaxFaults  BY <1>6, CountAssumption DEF IInv, TypeOK
    <3>2. excused'[j] = Processes  BY <1>6 DEF Excuse, IInv, TypeOK
    <3> QED BY <1>6, <3>1, <3>2
  <2>2. TablesAt(j)  BY <1>3, <1>6, UntouchedTables
  <2>3. Local(q, p, j) /\ Sound(registeredJobs[p][j], j)' /\ request'[q] = NoRequest
    BY <1>2, <1>6, <2>1, <2>2, SubmitLocal
  <2>4. Carries(q)' /\ Knows(q)'  BY <2>3, RequestTypes DEF Carries, Knows
  <2>5. \A o \in Processes : Kept(o, j)'  BY <2>1 DEF Kept
  <2>6. Excuses(p, j)  BY <2>1 DEF Excuses
  <2> QED BY <2>3, <2>4, <2>5, <2>6, LocalInv
<1> QED BY <1>1, <1>5, <1>6 DEF Create

-----------------------------------------------------------------------------
(* The processes.                                                          *)

\* A process that is not up is working on no request.
LEMMA NotServing ==
  ASSUME IInv, NEW p \in Processes, process[p] # "up", NEW q \in Requests, Live(q)
  PROVE  Home(q) # p
BY RequestFacts

LEMMA BootInv ==
  ASSUME IInv, NEW p \in Processes, Boot(p)
  PROVE  IInv'
<1>1. /\ process[p] = "down" /\ process' = [process EXCEPT ![p] = "booting"]
      /\ UNCHANGED <<tables, registeredJobs, request, faults, versions, overlapped>>
      /\ excused' = [j \in Jobs |-> excused[j] \ {p}]
  BY DEF Boot
<1>2. PICK rows : /\ rows = [j \in Jobs |-> IF IsActive(j) THEN cronJob[j] ELSE NoTimer]
                  /\ loading' = [loading EXCEPT ![p] = rows]
  BY DEF Boot
<1>3. /\ rows \in TimerType
      /\ \A j \in Jobs : rows[j] = IF IsActive(j) THEN cronJob[j] ELSE NoTimer
  BY <1>2 DEF TimerType, IsActive, Exists, IInv, TypeOK
<1>4. loading' \in [Processes -> TimerType] /\ loading'[p] = rows
      /\ \A o \in Processes \ {p} : loading'[o] = loading[o]
  BY <1>2, <1>3 DEF IInv, TypeOK
<1>5. process' \in [Processes -> {"down", "booting", "up"}] /\ process'[p] = "booting"
      /\ \A o \in Processes \ {p} : process'[o] = process[o]
  BY <1>1 DEF IInv, TypeOK
<1>6. excused' \in [Jobs -> SUBSET Processes] /\ \A j \in Jobs : excused'[j] = excused[j] \ {p}
  BY <1>1 DEF IInv, TypeOK
<1>7. TypeOK'
  <2>1. \A o \in Processes : process'[o] = "down" => registeredJobs'[o] = NoTimers
    BY <1>1, <1>5 DEF IInv, TypeOK
  <2>2. \A q \in Requests : Live(q)' => process'[Home(q)'] = "up"
    BY <1>1, <1>5, RequestFacts
  <2> QED BY <1>1, <1>4, <1>5, <1>6, <2>1, <2>2 DEF tables, IInv, TypeOK
<1>8. \A o \in Processes : process'[o] # "booting" => loading'[o] = NoTimers
  BY <1>4, <1>5 DEF IInv
<1>9. \A q \in Requests : Carries(q)' /\ Knows(q)'
  BY <1>1 DEF IInv, Carries, Knows, Recorded, Exists, tables
<1>10. \A j \in Jobs : Alone(j)'  BY <1>1 DEF IInv, Alone
<1>11. ASSUME NEW j \in Jobs PROVE Committed(j)'
  <2>1. Committed(j)  BY DEF IInv
  <2>2. Sound(rows[j], j)  BY <1>3, <2>1 DEF Sound, Committed, IsActive
  <2>3. \A o \in Processes : Sound(registeredJobs[o][j], j)' /\ Sound(loading[o][j], j)'
    BY <1>1, <1>4, <2>1, <2>2 DEF Sound, Committed
  <2> QED BY <1>1, <2>1, <2>3 DEF Committed, Exists, tables
<1>12. ASSUME NEW j \in Jobs PROVE Holds(p, j)'
  <2>1. registeredJobs'[p][j] = NoTimer  BY <1>1 DEF IInv, TypeOK, NoTimers
  <2>2. IsActive(j)' <=> IsActive(j)  BY <1>1 DEF IsActive, Exists, tables
  <2>3. CASE IsActive(j)
    <3>1. cronJob[j] \in Row  BY <2>3 DEF IsActive, Exists, IInv, TypeOK
    <3>2. cronJob[j] # NoTimer  BY <3>1, RowsDiffer
    <3> QED BY <1>1, <1>3, <1>4, <2>1, <2>2, <2>3, <3>2 DEF Holds, tables
  <2>4. CASE ~IsActive(j)
    BY <1>1, <1>3, <1>4, <2>1, <2>2, <2>4 DEF Holds, InStep, tables
  <2> QED BY <2>3, <2>4
<1>13. ASSUME NEW o \in Processes, NEW j \in Jobs PROVE Kept(o, j)'
  <2>1. CASE o = p  BY <1>12, <2>1 DEF Kept
  <2>2. CASE o # p
    <3>1. Kept(o, j)  BY DEF IInv
    <3>2. Owed(o, j)' <=> Owed(o, j)  BY <1>1 DEF Owed
    <3>3. process'[o] = process[o] /\ loading'[o] = loading[o]
          /\ (o \in excused'[j] <=> o \in excused[j])
      BY <1>4, <1>5, <1>6, <2>2
    <3> QED BY <1>1, <3>1, <3>2, <3>3 DEF Kept, Holds, InStep, IsActive, Exists, tables
  <2> QED BY <2>1, <2>2
<1>14. ASSUME NEW o \in Processes PROVE HasRead(o)'
  <2>1. CASE o = p  BY <1>12, <2>1 DEF HasRead
  <2>2. CASE o # p
    <3>1. SUFFICES ASSUME process[o] = "booting", NEW j \in Jobs, o \notin excused'[j]
                   PROVE  Holds(o, j)'
      BY <1>5, <2>2 DEF HasRead
    <3>2. Holds(o, j) /\ loading'[o] = loading[o]
      BY <1>4, <1>6, <2>2, <3>1 DEF IInv, HasRead
    <3> QED BY <1>1, <3>2 DEF Holds, InStep, IsActive, Exists, tables
  <2> QED BY <2>1, <2>2
<1> QED BY <1>7, <1>8, <1>9, <1>10, <1>11, <1>13, <1>14 DEF IInv

LEMMA EndedProcessInv ==
  ASSUME IInv, NEW p \in Processes, Ended(p)
  PROVE  IInv'
<1>1. /\ process' = [process EXCEPT ![p] = "down"]
      /\ registeredJobs' = [registeredJobs EXCEPT ![p] = NoTimers]
      /\ loading' = [loading EXCEPT ![p] = NoTimers]
      /\ UNCHANGED <<tables, faults, versions, overlapped>>
  BY DEF Ended
<1>2. /\ request' \in [Requests -> RequestType \union {NoRequest}]
      /\ \A q \in Requests : request'[q] = IF Live(q) /\ Home(q) = p THEN NoRequest ELSE request[q]
  BY DEF Ended, IInv, TypeOK
<1>3. excused' \in [Jobs -> SUBSET Processes]
      /\ \A j \in Jobs : excused'[j] = excused[j] \/ excused'[j] = Processes
  BY DEF Ended, IInv, TypeOK
<1>4. ASSUME NEW q \in Requests
      PROVE  Live(q)' => request'[q] = request[q] /\ Live(q) /\ Home(q) # p
  BY <1>2, RequestTypes
<1>5. NoTimers \in TimerType /\ \A j \in Jobs : NoTimers[j] = NoTimer
  BY DEF TimerType, NoTimers
<1>6. /\ process' \in [Processes -> {"down", "booting", "up"}] /\ process'[p] = "down"
      /\ registeredJobs' \in [Processes -> TimerType] /\ registeredJobs'[p] = NoTimers
      /\ loading' \in [Processes -> TimerType] /\ loading'[p] = NoTimers
      /\ \A o \in Processes \ {p} : /\ process'[o] = process[o] /\ loading'[o] = loading[o]
                                    /\ registeredJobs'[o] = registeredJobs[o]
  BY <1>1, <1>5 DEF IInv, TypeOK
<1>7. TypeOK'
  <2>1. \A o \in Processes : process'[o] = "down" => registeredJobs'[o] = NoTimers
    BY <1>6 DEF IInv, TypeOK
  <2>2. \A q \in Requests : Live(q)' => process'[Home(q)'] = "up"
    BY <1>4, <1>6, RequestFacts
  <2> QED BY <1>1, <1>2, <1>3, <1>6, <2>1, <2>2 DEF tables, IInv, TypeOK
<1>8. \A o \in Processes : process'[o] # "booting" => loading'[o] = NoTimers
  BY <1>6 DEF IInv
<1>9. ASSUME NEW q \in Requests, Live(q)' PROVE Carries(q)' /\ Knows(q)'
  <2>1. request'[q] = request[q] /\ Live(q) /\ Home(q) # p  BY <1>4, <1>9
  <2>2. Carries(q) /\ Knows(q) /\ Home(q) \in Processes  BY <2>1, RequestFacts
  <2>3. registeredJobs'[Home(q)] = registeredJobs[Home(q)]  BY <1>6, <2>1, <2>2
  <2>4. Carries(q)'  BY <1>1, <2>1, <2>2 DEF Carries
  <2>5. Knows(q)'  BY <1>1, <2>1, <2>2, <2>3 DEF Knows, Recorded, Exists, tables
  <2> QED BY <2>4, <2>5
<1>10. \A q \in Requests : Carries(q)' /\ Knows(q)'  BY <1>9 DEF Carries, Knows
<1>11. ASSUME NEW j \in Jobs PROVE Alone(j)'
  BY <1>1, <1>4 DEF Alone, IInv
<1>12. ASSUME NEW j \in Jobs PROVE Committed(j)'
  <2>1. Committed(j)  BY DEF IInv
  <2>2. \A o \in Processes : Sound(registeredJobs[o][j], j)' /\ Sound(loading[o][j], j)'
    BY <1>1, <1>5, <1>6, <2>1 DEF Sound, Committed
  <2> QED BY <1>1, <2>1, <2>2 DEF Committed, Exists, tables
<1>13. ASSUME NEW o \in Processes, NEW j \in Jobs PROVE Kept(o, j)'
  <2>1. CASE o = p  BY <1>6, <2>1 DEF Kept
  <2>2. CASE o # p
    <3>1. SUFFICES ASSUME o \notin excused'[j] PROVE Kept(o, j)'  BY DEF Kept
    <3>2. o \notin excused[j] /\ Kept(o, j)  BY <1>3, <3>1 DEF IInv
    <3>3. ASSUME Owed(o, j) PROVE Owed(o, j)'
      <4>1. PICK q \in Requests : Live(q) /\ JobOf(q) = j /\ Home(q) = o
                                  /\ (At(q, "registering") \/ At(q, "deleting"))
        BY <3>3 DEF Owed
      <4>2. request'[q] = request[q]  BY <1>2, <2>2, <4>1
      <4> QED BY <4>1, <4>2 DEF Owed
    <3>4. /\ process'[o] = process[o] /\ loading'[o] = loading[o]
          /\ registeredJobs'[o] = registeredJobs[o]
      BY <1>6, <2>2
    <3> QED BY <1>1, <3>2, <3>3, <3>4 DEF Kept, Holds, InStep, IsActive, Exists, tables
  <2> QED BY <2>1, <2>2
<1>14. ASSUME NEW o \in Processes PROVE HasRead(o)'
  <2>1. CASE o = p  BY <1>6, <2>1 DEF HasRead
  <2>2. CASE o # p
    <3>1. SUFFICES ASSUME process[o] = "booting", NEW j \in Jobs, o \notin excused'[j]
                   PROVE  Holds(o, j)'
      BY <1>6, <2>2 DEF HasRead
    <3>2. o \notin excused[j]  BY <1>3, <3>1
    <3>3. /\ Holds(o, j) /\ loading'[o] = loading[o]
          /\ registeredJobs'[o] = registeredJobs[o]
      BY <1>6, <2>2, <3>1, <3>2 DEF IInv, HasRead
    <3> QED BY <1>1, <3>3 DEF Holds, InStep, IsActive, Exists, tables
  <2> QED BY <2>1, <2>2
<1> QED BY <1>7, <1>8, <1>10, <1>11, <1>12, <1>13, <1>14 DEF IInv

LEMMA LoadInv ==
  ASSUME IInv, NEW p \in Processes, NEW j \in Jobs, Load(p, j)
  PROVE  IInv'
<1>1. process[p] = "booting" /\ loading[p][j] # NoTimer  BY DEF Load
<1>2. CASE loading[p][j].timezone \notin KnownZones  BY <1>2, EndedProcessInv DEF Load
<1>3. CASE loading[p][j].timezone \in KnownZones
  <2>1. PICK row \in Row : row = loading[p][j]  BY <1>1 DEF IInv, TypeOK, TimerType
  <2>2. /\ registeredJobs' = [registeredJobs EXCEPT ![p] = [@ EXCEPT ![j] = row]]
        /\ loading' = [loading EXCEPT ![p][j] = NoTimer]
        /\ UNCHANGED <<tables, process, request, history>>
    BY <1>3, <2>1 DEF Load, Registered
  <2>3. /\ registeredJobs' \in [Processes -> TimerType] /\ registeredJobs'[p][j] = row
        /\ loading' \in [Processes -> TimerType] /\ loading'[p][j] = NoTimer
        /\ \A o \in Processes \ {p} : /\ registeredJobs'[o] = registeredJobs[o]
                                      /\ loading'[o] = loading[o]
        /\ \A i \in Jobs \ {j} : /\ registeredJobs'[p][i] = registeredJobs[p][i]
                                 /\ loading'[p][i] = loading[p][i]
    BY <2>2 DEF IInv, TypeOK, TimerType
  <2>4. TypeOK'
    <3>1. \A o \in Processes : process'[o] = "down" => registeredJobs'[o] = NoTimers
      BY <1>1, <2>2, <2>3 DEF IInv, TypeOK
    <3>2. \A q \in Requests : Live(q)' => process'[Home(q)'] = "up"
      BY <2>2, RequestFacts
    <3> QED BY <2>2, <2>3, <3>1, <3>2 DEF tables, history, IInv, TypeOK
  <2>5. \A o \in Processes : process'[o] # "booting" => loading'[o] = NoTimers
    BY <1>1, <2>2, <2>3 DEF IInv
  <2>6. ASSUME NEW q \in Requests PROVE Carries(q)' /\ Knows(q)'
    <3>1. Carries(q)'  BY <2>2 DEF IInv, Carries, history
    <3>2. Live(q) => registeredJobs'[Home(q)] = registeredJobs[Home(q)]
      BY <1>1, <2>3, NotServing, RequestFacts
    <3>3. Knows(q)'  BY <2>2, <3>2 DEF IInv, Knows, Recorded, Exists, tables, history
    <3> QED BY <3>1, <3>3
  <2>7. \A i \in Jobs : Alone(i)'  BY <2>2 DEF IInv, Alone, history
  <2>8. ASSUME NEW i \in Jobs PROVE Committed(i)'
    <3>1. Committed(i) /\ versions' = versions /\ cronJob' = cronJob
      BY <2>2 DEF IInv, history, tables
    <3>2. ASSUME NEW o \in Processes
          PROVE  Sound(registeredJobs[o][i], i)' /\ Sound(loading[o][i], i)'
      <4>1. CASE o = p /\ i = j
        BY <2>1, <2>3, <3>1, <4>1 DEF Committed, Sound
      <4>2. CASE o # p \/ i # j
        BY <2>3, <3>1, <4>2 DEF Committed, Sound
      <4> QED BY <4>1, <4>2
    <3> QED BY <3>1, <3>2 DEF Committed, Exists
  <2>9. ASSUME NEW o \in Processes, NEW i \in Jobs, Holds(o, i) PROVE Holds(o, i)'
    <3>1. CASE o = p /\ i = j
      BY <1>1, <1>3, <2>1, <2>2, <2>3, <2>9, <3>1
      DEF Holds, InStep, IsActive, Exists, tables
    <3>2. CASE o # p \/ i # j
      <4>1. registeredJobs'[o][i] = registeredJobs[o][i] /\ loading'[o][i] = loading[o][i]
        BY <2>3, <3>2
      <4> QED BY <2>2, <2>9, <4>1 DEF Holds, InStep, IsActive, Exists, tables
    <3> QED BY <3>1, <3>2
  <2>10. ASSUME NEW o \in Processes, NEW i \in Jobs PROVE Kept(o, i)'
    <3>1. Kept(o, i)  BY DEF IInv
    <3> QED BY <2>2, <2>9, <3>1 DEF Kept, Owed, history
  <2>11. \A o \in Processes : HasRead(o)'
    BY <2>2, <2>9 DEF IInv, HasRead, history
  <2> QED BY <2>4, <2>5, <2>6, <2>7, <2>8, <2>10, <2>11 DEF IInv
<1> QED BY <1>2, <1>3

LEMMA ListenInv ==
  ASSUME IInv, NEW p \in Processes, Listen(p)
  PROVE  IInv'
<1>1. /\ process[p] = "booting" /\ loading[p] = NoTimers
      /\ process' = [process EXCEPT ![p] = "up"]
      /\ UNCHANGED <<tables, registeredJobs, loading, request, history>>
  BY DEF Listen
<1>2. process' \in [Processes -> {"down", "booting", "up"}] /\ process'[p] = "up"
      /\ \A o \in Processes \ {p} : process'[o] = process[o]
  BY <1>1 DEF IInv, TypeOK
<1>3. TypeOK'
  <2>1. \A o \in Processes : process'[o] = "down" => registeredJobs'[o] = NoTimers
    BY <1>1, <1>2 DEF IInv, TypeOK
  <2>2. \A q \in Requests : Live(q)' => process'[Home(q)'] = "up"
    BY <1>1, <1>2, RequestFacts
  <2> QED BY <1>1, <1>2, <2>1, <2>2 DEF tables, history, IInv, TypeOK
<1>4. \A o \in Processes : process'[o] # "booting" => loading'[o] = NoTimers
  BY <1>1, <1>2 DEF IInv
<1>5. \A q \in Requests : Carries(q)' /\ Knows(q)'
  BY <1>1 DEF IInv, Carries, Knows, Recorded, Exists, tables, history
<1>6. \A j \in Jobs : Committed(j)' /\ Alone(j)'
  BY <1>1 DEF IInv, Committed, Sound, Alone, Exists, tables, history
<1>7. ASSUME NEW o \in Processes, NEW j \in Jobs PROVE Holds(o, j)' <=> Holds(o, j)
  BY <1>1 DEF Holds, InStep, IsActive, Exists, tables
<1>8. ASSUME NEW o \in Processes, NEW j \in Jobs PROVE Kept(o, j)'
  <2>1. Kept(o, j) /\ (process'[o] # "down" => process[o] # "down")  BY <1>1, <1>2 DEF IInv
  <2>2. Owed(o, j)' <=> Owed(o, j)  BY <1>1 DEF Owed
  <2> QED BY <1>1, <1>7, <2>1, <2>2 DEF Kept, history
<1>9. \A o \in Processes : HasRead(o)'
  BY <1>1, <1>2, <1>7 DEF IInv, HasRead, history
<1> QED BY <1>3, <1>4, <1>5, <1>6, <1>8, <1>9 DEF IInv

-----------------------------------------------------------------------------
(* The invariant.                                                          *)

LEMMA InitInv == Init => IInv
<1> SUFFICES ASSUME Init PROVE IInv  OBVIOUS
<1> USE DEF Init
<1>1. \A q \in Requests : ~Live(q)  BY RequestTypes
<1>2. NoTimers \in TimerType /\ \A j \in Jobs : NoTimers[j] = NoTimer
  BY DEF TimerType, NoTimers
<1>3. TypeOK  BY <1>1, <1>2, CountAssumption DEF TypeOK
<1>4. \A q \in Requests : Carries(q) /\ Knows(q)  BY <1>1 DEF Carries, Knows
<1>5. \A j \in Jobs : Committed(j) /\ Alone(j)
  BY <1>1, <1>2 DEF Committed, Alone, Sound, Exists
<1>6. \A p \in Processes : HasRead(p) /\ \A j \in Jobs : Kept(p, j)
  BY DEF HasRead, Kept
<1> QED BY <1>3, <1>4, <1>5, <1>6 DEF IInv

LEMMA NextInv == IInv /\ [Next]_vars => IInv'
<1> SUFFICES ASSUME IInv, [Next]_vars PROVE IInv'  OBVIOUS
<1>1. CASE UNCHANGED vars
  <2>1. \A j \in Jobs, p \in Processes : Owed(p, j)' <=> Owed(p, j)
    BY <1>1 DEF vars, Owed
  <2>2. TypeOK' /\ \A q \in Requests : Carries(q)' /\ Knows(q)'
    BY <1>1 DEF IInv, vars, TypeOK, Carries, Knows, Recorded, Exists
  <2>3. \A j \in Jobs : Committed(j)' /\ Alone(j)'
    BY <1>1 DEF IInv, vars, Committed, Sound, Alone, Exists
  <2>4. \A p \in Processes, j \in Jobs : Holds(p, j)' <=> Holds(p, j)
    BY <1>1 DEF vars, Holds, InStep, IsActive, Exists
  <2>5. \A p \in Processes : HasRead(p)' /\ \A j \in Jobs : Kept(p, j)'
    BY <1>1, <2>1, <2>4 DEF IInv, vars, HasRead, Kept
  <2> QED BY <1>1, <2>2, <2>3, <2>5 DEF IInv, vars
<1>2. ASSUME NEW q \in Requests, Step(q) PROVE IInv'
  BY <1>2, RecordChangeInv, WriteInv, RegisterInv, UnregisterInv, DeleteInv, EvaluatedInv,
     DisableInv, NoteInv DEF Step
<1>3. ASSUME NEW q \in Requests, NEW p \in Processes, NEW j \in Jobs,
             \/ \E row \in Rows : Create(q, p, j, row)
             \/ \E dto \in Updates : Update(q, p, j, dto)
             \/ Toggle(q, p, j) \/ Remove(q, p, j) \/ Evaluate(q, p, j)
      PROVE  IInv'
  BY <1>3, RowAssumption, CreateInv, UpdateInv, ToggleInv, RemoveInv, EvaluateInv
<1>4. ASSUME NEW p \in Processes, Start(p) \/ Stop(p) PROVE IInv'
  BY <1>4, BootInv, ListenInv, LoadInv, EndedProcessInv DEF Start, Stop
<1> QED BY <1>1, <1>2, <1>3, <1>4 DEF Next

\* The invariant holds in every reachable state.
THEOREM Invariance == Spec => []IInv
BY InitInv, NextInv, PTL DEF Spec

\* Every variable keeps its type, and only a process that serves requests has any.
THEOREM TypeCorrect == Spec => []TypeOK
<1>1. IInv => TypeOK  BY DEF IInv
<1> QED BY <1>1, Invariance, PTL

\* While nothing is at work on a job, every process that was told of its row has the
\* timer the row asks for.
THEOREM TimersConsistent == Spec => []Consistency
<1>1. IInv => Consistency
  <2> SUFFICES ASSUME IInv, NEW p \in Processes, NEW j \in Jobs,
                      process[p] = "up", Quiet(j), j \notin overlapped, p \notin excused[j]
               PROVE  InStep(p, j)
    BY DEF Consistency
  <2>1. ~Owed(p, j)  BY DEF Owed, Quiet
  <2>2. Kept(p, j) /\ loading[p][j] = NoTimer  BY UpHolds DEF IInv
  <2> QED BY <2>1, <2>2 DEF Kept, Holds
<1> QED BY <1>1, Invariance, PTL

\* No timer carries a row that was not committed or that was inactive.
THEOREM TimersCommitted == Spec => []OnlyCommittedRows
<1>1. IInv => OnlyCommittedRows
  BY DEF IInv, Committed, Sound, OnlyCommittedRows
<1> QED BY <1>1, Invariance, PTL

Heals == \A p \in Processes, j \in Jobs :
  process[p] = "booting" /\ process'[p] = "up" /\ p \notin excused[j] => InStep(p, j)

\* A process listens with the timers that the rows it read ask for, as far as no one
\* wrote to them meanwhile.
THEOREM BootsHeal == Spec => BootHeals
<1>1. ASSUME IInv, [Next]_vars, NEW o \in Processes, process[o] = "booting", process'[o] = "up",
             NEW j \in Jobs, o \notin excused[j]
      PROVE  InStep(o, j)
  <2>1. loading[o] = NoTimers
    <3>1. CASE UNCHANGED vars  BY <1>1, <3>1 DEF vars
    <3>2. ASSUME NEW q \in Requests, NEW a \in Processes, NEW i \in Jobs,
                 process' # process,
                 \/ Step(q)
                 \/ \E row \in Rows : Create(q, a, i, row)
                 \/ \E dto \in Updates : Update(q, a, i, dto)
                 \/ Toggle(q, a, i) \/ Remove(q, a, i) \/ Evaluate(q, a, i)
          PROVE  FALSE
      BY <3>2 DEF Step, RecordChange, Write, Register, Unregister, Delete, Extend, Disable, Leave,
                  Note, Create, Update, Toggle, Remove, Evaluate, Begin, memory
    <3>3. CASE Start(o)
      BY <1>1, <3>3 DEF Start, Boot, Load, Listen, Ended, IInv, TypeOK
    <3>4. CASE Stop(o)  BY <1>1, <3>4 DEF Stop
    <3>5. ASSUME NEW a \in Processes \ {o}, Start(a) \/ Stop(a) PROVE FALSE
      <4>1. process' = process \/ \E to : process' = [process EXCEPT ![a] = to]
        BY <3>5 DEF Start, Stop, Boot, Load, Listen, Ended
      <4>2. process'[o] = process[o]  BY <1>1, <3>5, <4>1 DEF IInv, TypeOK
      <4> QED BY <1>1, <4>2
    <3> QED BY <1>1, <3>1, <3>2, <3>3, <3>4, <3>5 DEF Next
  <2>2. Holds(o, j)  BY <1>1 DEF IInv, HasRead
  <2> QED BY <2>1, <2>2 DEF Holds, NoTimers
<1>2. IInv /\ [Next]_vars => [Heals]_vars  BY <1>1 DEF Heals
<1>3. Spec => [][Heals]_vars  BY <1>2, Invariance, PTL DEF Spec
<1> QED BY <1>3 DEF BootHeals, Heals

Recording == \A j \in Jobs : Exists(j) /\ Exists(j)' /\ j \notin overlapped =>
  cronJob[j].cronExpression = cronJob'[j].cronExpression \/
  <<cronJob[j].cronExpression, cronJob'[j].cronExpression>> \in scheduleChange[j]

\* A change of a schedule was recorded before it was made.
THEOREM ChangesAreRecorded == Spec => ChangesRecorded
<1>1. ASSUME IInv, [Next]_vars, NEW j \in Jobs, Exists(j), Exists(j)', j \notin overlapped
      PROVE  \/ cronJob[j].cronExpression = cronJob'[j].cronExpression
             \/ <<cronJob[j].cronExpression, cronJob'[j].cronExpression>> \in scheduleChange[j]
  <2>1. SUFFICES ASSUME cronJob'[j] # cronJob[j]
                 PROVE  \/ cronJob[j].cronExpression = cronJob'[j].cronExpression
                        \/ <<cronJob[j].cronExpression, cronJob'[j].cronExpression>>
                              \in scheduleChange[j]
    OBVIOUS
  <2>2. cronJob[j] \in Row  BY <1>1 DEF Exists, IInv, TypeOK
  <2>3. CASE \E q \in Requests : Write(q)
    <3>1. PICK q \in Requests : Write(q)  BY <2>3
    <3>2. At(q, "writing") /\ Live(q)  BY <3>1 DEF Write
    <3>3. PICK i \in Jobs : i = JobOf(q)  BY <1>1, <3>2, RequestFacts
    <3>4. PICK row : row = Merged(cronJob[i], request[q].dto)  OBVIOUS
    <3>5. SetRow(i, row)
      BY <2>1, <3>1, <3>3, <3>4 DEF Write, Statement, Untouched, tables
    <3>6. i = j /\ cronJob'[j] = row  BY <2>1, <3>5 DEF SetRow, IInv, TypeOK
    <3>7. Knows(q) /\ request[q].dto \in Dto  BY <1>1, <3>2, RequestFacts
    <3>8. Recorded(j, cronJob[j], request[q].dto)
      BY <1>1, <3>2, <3>3, <3>6, <3>7 DEF Knows
    <3>9. row.cronExpression = IF request[q].dto.cronExpression = Keep
                               THEN cronJob[j].cronExpression ELSE request[q].dto.cronExpression
      BY <2>2, <3>4, <3>6, <3>7, MergedRow
    <3> QED BY <3>6, <3>8, <3>9 DEF Recorded
  <2>4. CASE \E q \in Requests : Disable(q)
    <3>1. PICK q \in Requests : Disable(q)  BY <2>4
    <3>2. PICK i \in Jobs : i = JobOf(q)
      BY <1>1, <3>1, RequestFacts DEF Disable
    <3>3. PICK row : row = [cronJob[i] EXCEPT !.isActive = "off"]  OBVIOUS
    <3>4. SetRow(i, row)
      BY <2>1, <3>1, <3>2, <3>3 DEF Disable, Statement, Untouched, tables
    <3>5. i = j /\ cronJob'[j] = row  BY <2>1, <3>4 DEF SetRow, IInv, TypeOK
    <3> QED BY <2>2, <3>3, <3>5, DisabledRow
  <2>5. ASSUME NEW q \in Requests, Delete(q) PROVE FALSE
    <3>1. cronJob' = [cronJob EXCEPT ![JobOf(q)] = Deleted]
      BY <2>1, <2>5 DEF Delete, Statement, Untouched, tables
    <3> QED BY <1>1, <2>1, <3>1 DEF IInv, TypeOK, Exists
  <2>6. ASSUME NEW q \in Requests, NEW p \in Processes, NEW i \in Jobs, NEW row \in Rows,
               Create(q, p, i, row)
        PROVE  FALSE
    BY <1>1, <2>1, <2>6 DEF Create, SetRow, Untouched, tables, Exists, IInv, TypeOK
  <2>7. ASSUME NEW q \in Requests,
               RecordChange(q) \/ Register(q) \/ Unregister(q) \/ Extend(q) \/ Leave(q) \/ Note(q)
        PROVE  FALSE
    BY <2>1, <2>7 DEF RecordChange, Register, Unregister, Extend, Leave, Note, Statement, AddChange,
                      Untouched, tables
  <2>8. ASSUME NEW q \in Requests, NEW p \in Processes, NEW i \in Jobs,
               \/ \E dto \in Updates : Update(q, p, i, dto)
               \/ Toggle(q, p, i) \/ Remove(q, p, i) \/ Evaluate(q, p, i)
        PROVE  FALSE
    BY <2>1, <2>8 DEF Update, Toggle, Remove, Evaluate, Begin, tables
  <2>9. ASSUME NEW p \in Processes, Start(p) \/ Stop(p) PROVE FALSE
    BY <2>1, <2>9 DEF Start, Stop, Boot, Listen, Load, Ended, tables
  <2>10. CASE UNCHANGED vars  BY <2>1, <2>10 DEF vars
  <2> QED BY <1>1, <2>3, <2>4, <2>5, <2>6, <2>7, <2>8, <2>9, <2>10 DEF Next, Step
<1>2. IInv /\ [Next]_vars => [Recording]_vars  BY <1>1 DEF Recording
<1>3. Spec => [][Recording]_vars  BY <1>2, Invariance, PTL DEF Spec
<1> QED BY <1>3 DEF ChangesRecorded, Recording
=============================================================================
