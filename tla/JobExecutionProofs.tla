-------------------------- MODULE JobExecutionProofs --------------------------
(***************************************************************************)
(* Proofs about JobExecution for all jobs, processes, bounds and replies:  *)
(* what a run leaves behind, the queue of a process, and that the whole    *)
(* implements RunLedger.                                                   *)
(***************************************************************************)
EXTENDS JobExecution, FiniteSetTheorems, SequenceTheorems, TLAPS

\* Phases a run passes before its row exists, and while its row may be RUNNING.
Early == {"idle", "waiting", "starting", "creating"}
Looping == {"requesting", "backoff", "committing", "failing", "recovering"}

\* Run w looks on while another run, or its process, takes a step: p-queue may
\* start it and the end of its process may lose it.
Bystander(w) ==
  /\ task'[w] = InPhase(task[w], task'[w].pc)
  /\ \/ task'[w].pc = task[w].pc
     \/ task[w].pc = "waiting" /\ task'[w].pc = "starting"
     \/ task[w].pc \in {"waiting"} \union Pending /\ task'[w].pc = "lost"

USE DEF Absent, NoReply

-----------------------------------------------------------------------------
(* The helpers of the model.                                               *)

\* Changing the phase of a run changes nothing else.
LEMMA PhaseOnly ==
  ASSUME NEW t \in TaskType, NEW phase \in Phases
  PROVE  /\ InPhase(t, phase) \in TaskType
         /\ InPhase(t, phase).pc = phase
         /\ InPhase(t, phase).job = t.job
         /\ InPhase(t, phase).process = t.process
         /\ InPhase(t, phase).manual = t.manual
         /\ InPhase(t, phase).priority = t.priority
         /\ InPhase(t, phase).attempt = t.attempt
         /\ InPhase(t, phase).reply = t.reply
BY DEF TaskType, InPhase

LEMMA PhaseAsIs ==
  ASSUME NEW t \in TaskType
  PROVE  t.pc \in Phases /\ t = InPhase(t, t.pc)
BY DEF TaskType, InPhase

\* Settling run r ends it and otherwise only starts runs that wait.
LEMMA SettledRuns ==
  ASSUME task \in [Runs -> TaskType], NEW r \in Runs, NEW verdict \in Done,
         task' = Settled(r, verdict)
  PROVE  /\ task' \in [Runs -> TaskType]
         /\ task'[r] = InPhase(task[r], verdict)
         /\ \A w \in Runs \ {r} : Bystander(w)
<1>1. \A w \in Runs : w # r => \/ task'[w] = task[w]
                               \/ /\ task[w].pc = "waiting"
                                  /\ task'[w] = InPhase(task[w], "starting")
  BY DEF Settled, NextUp, Waiting, On, At
<1>2. task'[r] = InPhase(task[r], verdict)
  BY DEF Settled
<1>3. DOMAIN task' = Runs /\ task' = [w \in Runs |-> task'[w]]
  BY DEF Settled
<1>4. verdict \in Phases /\ "starting" \in Phases
  BY DEF Phases, Pending, Done
<1>5. \A w \in Runs : task'[w] \in TaskType
  BY <1>1, <1>2, <1>4, PhaseOnly
<1>6. ASSUME NEW w \in Runs \ {r} PROVE Bystander(w)
  <2>1. CASE task'[w] = task[w] BY <2>1, PhaseAsIs DEF Bystander
  <2>2. CASE task[w].pc = "waiting" /\ task'[w] = InPhase(task[w], "starting")
    BY <2>2, <1>4, PhaseOnly DEF Bystander
  <2> QED BY <1>1, <2>1, <2>2
<1> QED BY <1>2, <1>3, <1>5, <1>6

\* The end of a process loses its runs that have not settled.
LEMMA WipedRuns ==
  ASSUME task \in [Runs -> TaskType], NEW p \in Processes
  PROVE  /\ Wiped(p) \in [Runs -> TaskType]
         /\ \A w \in Runs :
              \/ Wiped(p)[w] = task[w]
              \/ /\ task[w].pc \in {"waiting"} \union Pending
                 /\ Wiped(p)[w] = InPhase(task[w], "lost")
<1>1. \A w \in Runs :
              \/ Wiped(p)[w] = task[w]
              \/ /\ task[w].pc \in {"waiting"} \union Pending
                 /\ Wiped(p)[w] = InPhase(task[w], "lost")
  BY DEF Wiped, Waiting, Active, On, At
<1>2. \A w \in Runs : Wiped(p)[w] \in TaskType
  <2> "lost" \in Phases BY DEF Phases, Done
  <2> QED BY <1>1, PhaseOnly
<1> QED BY <1>1, <1>2 DEF Wiped

LEMMA WipedBystanders ==
  ASSUME task \in [Runs -> TaskType], NEW p \in Processes, task' = Wiped(p)
  PROVE  task' \in [Runs -> TaskType] /\ \A w \in Runs : Bystander(w)
<1>1. ASSUME NEW w \in Runs PROVE Bystander(w)
  <2>1. task[w] \in TaskType /\ "lost" \in Phases BY DEF Phases, Done
  <2> QED BY <2>1, WipedRuns, PhaseOnly, PhaseAsIs DEF Bystander
<1> QED BY <1>1, WipedRuns

\* Rejecting run r ends it; the other runs look on.
LEMMA RejectRuns ==
  ASSUME task \in [Runs -> TaskType], NEW r \in Runs, Reject(r)
  PROVE  /\ task' \in [Runs -> TaskType]
         /\ task'[r] = InPhase(task[r], "rejected")
         /\ \A w \in Runs \ {r} : Bystander(w)
<1>1. CASE task[r].manual
  BY <1>1, SettledRuns DEF Reject, Done
<1>2. CASE ~task[r].manual
  <2> DEFINE p == task[r].process
  <2>1. p \in Processes BY DEF TaskType
  <2>2. task' = [Wiped(p) EXCEPT ![r] = InPhase(task[r], "rejected")]
    BY <1>2 DEF Reject
  <2>3. "rejected" \in Phases /\ "lost" \in Phases BY DEF Phases, Done
  <2> HIDE DEF p
  <2>4. task' \in [Runs -> TaskType]
    BY <2>1, <2>2, <2>3, WipedRuns, PhaseOnly
  <2>5. task'[r] = InPhase(task[r], "rejected")
    BY <2>1, <2>2, WipedRuns
  <2>6. ASSUME NEW w \in Runs \ {r} PROVE Bystander(w)
    <3>1. task'[w] = Wiped(p)[w] BY <2>1, <2>2, WipedRuns
    <3> QED BY <3>1, <2>1, <2>3, WipedRuns, PhaseOnly, PhaseAsIs DEF Bystander
  <2> QED BY <2>4, <2>5, <2>6
<1> QED BY <1>1, <1>2

-----------------------------------------------------------------------------
(* The inductive invariant.                                                *)

Started == <<"started">>
Ended(verdict) == <<"started", verdict>>
Endings == {<<>>, Started} \union {Ended(v) : v \in Terminal}

\* A run that has not created its row has done nothing but announce its start.
Fresh(r) == task[r].pc \in Early =>
  /\ task[r].attempt = 1 /\ cronExecution[r] = NoRecord
  /\ faults[r] = 0 /\ answers[r] = 0 /\ calls[r] = 0
  /\ notices[r] = IF task[r].pc = "creating" THEN Started ELSE <<>>

\* What a run has announced.
Announced(r) ==
  /\ task[r].pc \in Looping => notices[r] = Started
  /\ task[r].pc \in Done => notices[r] \in Endings

\* The counter of attempts and the requests made.
Counted(r) ==
  /\ task[r].pc \in {"requesting", "backoff", "failing"} => calls[r] = task[r].attempt - 1
  /\ task[r].pc = "committing" => calls[r] = task[r].attempt
  /\ calls[r] <= RetryCount[JobOf(r)]

\* The row and the phase.
RowPhase(r) ==
  /\ cronExecution[r].status = "RUNNING" => task[r].pc \in Looping \union {"lost", "rejected"}
  /\ cronExecution[r].status = "FAILED" => task[r].pc \in {"recovering"} \union Done
  /\ cronExecution[r].status = "SUCCESS" => task[r].pc \in Done \/ faults[r] >= 1
  /\ cronExecution[r] # NoRecord => cronJob[JobOf(r)] # Absent

\* The answers a run may have had beyond its database errors.
Allowance(r) == IF \/ task[r].pc \in {"requesting", "backoff", "failing"}
                   \/ cronExecution[r].status = "FAILED"
                THEN 0 ELSE 1

\* What a run owes to the database as long as its job exists.
Blamed(r) == cronJob[JobOf(r)] # Absent =>
  /\ answers[r] <= faults[r] + Allowance(r)
  /\ task[r].pc = "recovering" => faults[r] >= 1
  /\ task[r].pc = "rejected" => /\ faults[r] >= 1
                                /\ notices[r] = Started => faults[r] >= 2
  /\ task[r].pc = "resolved" => /\ cronExecution[r].attempt = calls[r]
                                /\ notices[r] = Ended(cronExecution[r].status)

RunInv(r) == Fresh(r) /\ Announced(r) /\ Counted(r) /\ RowPhase(r) /\ Blamed(r)

IInv == ExecutionTypeOK /\ (\A r \in Runs : RunInv(r)) /\ NoLeakedRunning

\* A step that is not run w's own leaves what w has done and its job's existence alone.
Untouched(w) ==
  /\ Bystander(w)
  /\ cronExecution'[w] = cronExecution[w]
  /\ faults'[w] = faults[w] /\ answers'[w] = answers[w]
  /\ calls'[w] = calls[w] /\ notices'[w] = notices[w]
  /\ cronJob'[task[w].job] = Absent <=> cronJob[task[w].job] = Absent

\* A step of run r leaves the other runs and the other jobs alone.
Frame(r) ==
  /\ \A w \in Runs \ {r} : Untouched(w)
  /\ \A j \in Jobs \ {task[r].job} : cronJob'[j] = cronJob[j]
  /\ cronJob'[task[r].job] = Absent <=> cronJob[task[r].job] = Absent

LEMMA EventTypes ==
  /\ <<>> \in Seq(Events) /\ Started \in Seq(Events)
  /\ \A v \in Terminal : Ended(v) \in Seq(Events)
BY DEF Events, Terminal, Started, Ended

LEMMA StartEvent == Append(<<>>, "started") = Started
BY DEF Started

LEMMA EndEvent ==
  ASSUME NEW v \in Terminal
  PROVE  Append(Started, v) = Ended(v)
<1> DEFINE s == Append(Started, v)
<1>1. "started" \in Events /\ v \in Events BY DEF Events
<1>2. s \in Seq(Events) /\ Len(s) = 2 /\ s[1] = "started" /\ s[2] = v
  BY <1>1, EventTypes, AppendProperties, Len(Started) = 1 /\ Started[1] = "started" DEF Started
<1>3. Ended(v) \in Seq(Events) /\ Len(Ended(v)) = 2
      /\ Ended(v)[1] = "started" /\ Ended(v)[2] = v
  BY EventTypes DEF Ended
<1>4. s = Ended(v)
  <2> HIDE DEF s
  <2>1. \A i \in 1 .. 2 : i = 1 \/ i = 2 OBVIOUS
  <2>2. \A i \in 1 .. Len(s) : s[i] = Ended(v)[i]
    BY <1>2, <1>3, <2>1
  <2> QED BY <1>2, <1>3, <2>2, SeqEqual
<1> QED BY <1>4

LEMMA EventsDiffer ==
  ASSUME NEW v
  PROVE  Started # <<>> /\ Ended(v) # <<>> /\ Ended(v) # Started
BY Len(Started) = 1, Len(Ended(v)) = 2, Len(<<>>) = 0 DEF Started, Ended

LEMMA RecordTypes ==
  /\ NoRecord \in RecordType
  /\ \A s \in {"RUNNING"} \union Terminal, a \in Nat, h \in Replies \union {NoReply} :
       Record(s, a, h) \in RecordType /\ Record(s, a, h) # NoRecord
BY DEF NoRecord, Record, RecordType, Terminal

USE DEF JobOf, At

\* A bystander keeps its part of the invariant.
LEMMA BystanderInv ==
  ASSUME ExecutionTypeOK, NEW w \in Runs, Untouched(w), RunInv(w)
  PROVE  RunInv(w)' /\ WithinAttempts(w)'
<1>1. task[w] \in TaskType BY DEF ExecutionTypeOK
<1>2. PICK phase : phase = task'[w].pc OBVIOUS
<1>3. /\ task'[w].job = task[w].job /\ task'[w].attempt = task[w].attempt
      /\ phase \in Phases
      /\ cronExecution'[w] = cronExecution[w] /\ faults'[w] = faults[w]
      /\ answers'[w] = answers[w] /\ calls'[w] = calls[w] /\ notices'[w] = notices[w]
      /\ \/ phase = task[w].pc
         \/ task[w].pc = "waiting" /\ phase = "starting"
         \/ task[w].pc \in {"waiting"} \union Pending /\ phase = "lost"
  <2>1. phase \in Phases
    BY <1>1, <1>2, PhaseAsIs DEF Untouched, Bystander, Phases, Pending, Done
  <2> QED BY <1>1, <1>2, <2>1, PhaseOnly DEF Untouched, Bystander
<1>4. cronJob'[task[w].job] = Absent <=> cronJob[task[w].job] = Absent
  BY DEF Untouched
<1> USE <1>1, <1>2, <1>3, <1>4
<1>5. Fresh(w)' /\ Announced(w)'
  BY <1>3 DEF RunInv, Fresh, Announced, Early, Looping, Pending, Done, Endings
<1>6. Counted(w)' /\ RowPhase(w)'
  BY DEF RunInv, Counted, RowPhase, Looping, Pending, Done
<1>7. Blamed(w)'
  <2>1. answers[w] \in Nat /\ faults[w] \in Nat BY BoundAssumption DEF ExecutionTypeOK
  <2>2. Allowance(w)' \in {0, 1} /\ Allowance(w) \in {0, 1} /\ Allowance(w)' >= Allowance(w)
    BY DEF Allowance, Pending
  <2>3. answers[w] <= faults[w] + Allowance(w) => answers[w] <= faults[w] + Allowance(w)'
    BY <2>1, <2>2
  <2> QED BY <2>3 DEF RunInv, Blamed, Pending
<1> QED BY <1>5, <1>6, <1>7 DEF RunInv, ExecutionTypeOK, WithinAttempts, Pending

\* How a step moves run r.
Moves(r, phase, attempt) ==
  /\ task' \in [Runs -> TaskType]
  /\ task'[r].pc = phase /\ task'[r].job = task[r].job /\ task'[r].attempt = attempt
  /\ \A w \in Runs \ {r} : Bystander(w)

LEMMA SettledMoves ==
  ASSUME task \in [Runs -> TaskType], NEW r \in Runs, NEW verdict \in Done,
         task' = Settled(r, verdict)
  PROVE  Moves(r, verdict, task[r].attempt)
<1>1. verdict \in Phases  BY DEF Done, Phases
<1>2. task' \in [Runs -> TaskType] /\ task'[r] = InPhase(task[r], verdict)
      /\ \A w \in Runs \ {r} : Bystander(w)
  BY SettledRuns
<1> QED BY <1>1, <1>2, PhaseOnly DEF Moves

LEMMA RejectMoves ==
  ASSUME task \in [Runs -> TaskType], NEW r \in Runs, Reject(r)
  PROVE  Moves(r, "rejected", task[r].attempt)
<1>1. "rejected" \in Phases  BY DEF Done, Phases
<1>2. task' \in [Runs -> TaskType] /\ task'[r] = InPhase(task[r], "rejected")
      /\ \A w \in Runs \ {r} : Bystander(w)
  BY RejectRuns
<1> QED BY <1>1, <1>2, PhaseOnly DEF Moves

LEMMA ProceedMoves ==
  ASSUME task \in [Runs -> TaskType], NEW r \in Runs, NEW phase \in Phases,
         Proceed(r, phase)
  PROVE  Moves(r, phase, task[r].attempt)
<1>1. task' \in [Runs -> TaskType] /\ task'[r] = InPhase(task[r], phase)
  BY PhaseOnly DEF Proceed
<1>2. \A w \in Runs \ {r} : Bystander(w)
  BY PhaseAsIs DEF Proceed, Bystander
<1> QED BY <1>1, <1>2, PhaseOnly DEF Moves

LEMMA NextAttempt ==
  ASSUME NEW t \in TaskType, NEW phase \in Phases
  PROVE  LET u == [t EXCEPT !.attempt = @ + 1, !.pc = phase]
         IN  u \in TaskType /\ u.pc = phase /\ u.job = t.job /\ u.attempt = t.attempt + 1
<1> DEFINE n == t.attempt + 1
<1>1. n \in Nat BY DEF TaskType
<1> HIDE DEF n
<1>2. LET u == [t EXCEPT !.attempt = n, !.pc = phase]
      IN  u \in TaskType /\ u.pc = phase /\ u.job = t.job /\ u.attempt = n
  BY <1>1 DEF TaskType
<1> QED BY <1>2 DEF n

LEMMA AttemptFailedMoves ==
  ASSUME task \in [Runs -> TaskType], NEW r \in Runs, AttemptFailed(r)
  PROVE  Moves(r, IF task[r].attempt < RetryCount[task[r].job] THEN "backoff" ELSE "failing",
               task[r].attempt + 1)
<1>1. \A w \in Runs \ {r} : Bystander(w)
  BY PhaseAsIs DEF AttemptFailed, Bystander
<1>2. task[r] \in TaskType OBVIOUS
<1> DEFINE next == IF task[r].attempt < RetryCount[task[r].job] THEN "backoff" ELSE "failing"
           t == [task[r] EXCEPT !.attempt = @ + 1, !.pc = next]
<1>3. next \in Phases BY DEF Phases, Pending
<1>4. t \in TaskType /\ t.pc = next /\ t.job = task[r].job /\ t.attempt = task[r].attempt + 1
  <2> HIDE DEF next
  <2> QED BY <1>2, <1>3, NextAttempt
<1>5. task' = [task EXCEPT ![r] = t] BY DEF AttemptFailed
<1> HIDE DEF t
<1> QED BY <1>1, <1>4, <1>5 DEF Moves

\* A bystander that accounts for a RUNNING job goes on doing so.
LEMMA BystanderAccounts ==
  ASSUME ExecutionTypeOK, NEW w \in Runs, Untouched(w), Accounts(w)
  PROVE  Accounts(w)' /\ task'[w].job = task[w].job
<1>1. task[w] \in TaskType BY DEF ExecutionTypeOK
<1>2. task'[w].pc \in Phases
  BY <1>1, PhaseAsIs DEF Untouched, Bystander, Phases, Pending, Done
<1>3. task'[w].job = task[w].job
  BY <1>1, <1>2, PhaseOnly DEF Untouched, Bystander
<1> QED BY <1>3 DEF Untouched, Bystander, Accounts, GaveUp, InFlight, Pending

Types ==
  /\ cronJob \in [Jobs -> JobStatus \union {Absent}]
  /\ cronExecution \in [Runs -> RecordType]
  /\ task \in [Runs -> TaskType]
  /\ faults \in [Runs -> 0 .. MaxFaults]
  /\ answers \in [Runs -> Nat]
  /\ calls \in [Runs -> Nat]
  /\ notices \in [Runs -> Seq(Events)]

LEMMA FaultCounted ==
  ASSUME faults \in [Runs -> 0 .. MaxFaults], NEW r \in Runs, Fault(r)
  PROVE  /\ faults' \in [Runs -> 0 .. MaxFaults]
         /\ faults'[r] = faults[r] + 1
         /\ \A w \in Runs \ {r} : faults'[w] = faults[w]
<1>1. faults[r] \in 0 .. MaxFaults /\ faults[r] < MaxFaults BY DEF Fault
<1>2. faults[r] + 1 \in 0 .. MaxFaults BY <1>1, BoundAssumption
<1> QED BY <1>2 DEF Fault

\* A step of run r keeps the invariant if it keeps what concerns r.
LEMMA FrameInv ==
  ASSUME IInv, NEW r \in Runs, Frame(r), Types', RunInv(r)', WithinAttempts(r)',
         \/ /\ task'[r].job = task[r].job
            /\ cronJob'[task[r].job] = "RUNNING" =>
                 Accounts(r)' \/ (~Accounts(r) /\ cronJob[task[r].job] = "RUNNING")
         \/ cronJob' = cronJob /\ ~Accounts(r)
  PROVE  IInv'
<1>1. \A w \in Runs : RunInv(w)' /\ WithinAttempts(w)'
  BY BystanderInv DEF IInv, Frame
<1>2. ExecutionTypeOK' BY <1>1 DEF Types, ExecutionTypeOK
<1>3. ASSUME NEW j \in Jobs, cronJob'[j] = "RUNNING"
      PROVE  \E w \in Runs : task'[w].job = j /\ Accounts(w)'
  <2>1. CASE j = task'[r].job /\ Accounts(r)'
    BY <2>1
  <2>2. CASE ~(j = task'[r].job /\ Accounts(r)')
    <3>1. cronJob[j] = "RUNNING" BY <1>3, <2>2 DEF Frame
    <3>2. PICK w \in Runs : task[w].job = j /\ Accounts(w)
      BY <3>1 DEF IInv, NoLeakedRunning
    <3>3. w # r BY <1>3, <2>2, <3>2
    <3> QED BY <3>2, <3>3, BystanderAccounts DEF IInv, Frame
  <2> QED BY <2>1, <2>2
<1>4. NoLeakedRunning' BY <1>3 DEF NoLeakedRunning
<1> QED BY <1>1, <1>2, <1>4 DEF IInv

\* What the invariant says of run r.
LEMMA RunFacts ==
  ASSUME IInv, NEW r \in Runs
  PROVE  /\ Types /\ task \in [Runs -> TaskType] /\ task[r] \in TaskType
         /\ task[r].job \in Jobs /\ task[r].attempt \in Nat
         /\ RetryCount[task[r].job] \in Nat
         /\ faults[r] \in Nat /\ answers[r] \in Nat /\ calls[r] \in Nat
         /\ RunInv(r) /\ WithinAttempts(r)
<1>1. Types /\ task[r] \in TaskType /\ RunInv(r) /\ WithinAttempts(r)
  BY DEF IInv, ExecutionTypeOK, Types
<1> QED BY <1>1, RetryAssumption, BoundAssumption DEF Types, TaskType

-----------------------------------------------------------------------------
(* Every step keeps the invariant.                                         *)

LEMMA InitInv == Init => IInv
<1> SUFFICES ASSUME Init PROVE IInv OBVIOUS
<1>1. Idle \in TaskType
  BY PopulationAssumption DEF Idle, TaskType, Phases
<1>2. Types
  BY <1>1, BoundAssumption, RecordTypes, EventTypes DEF Init, Types, JobStatus
<1>3. ASSUME NEW r \in Runs PROVE RunInv(r) /\ WithinAttempts(r)
  <2>1. task[r] = Idle /\ Idle.pc = "idle" /\ Idle.attempt = 1 /\ Idle.job \in Jobs
    BY <1>1 DEF Init, Idle, TaskType
  <2> QED BY <2>1, RetryAssumption
       DEF Init, RunInv, WithinAttempts, Fresh, Announced, Counted, RowPhase, Blamed,
           Allowance, Looping, Done, NoRecord
<1>4. NoLeakedRunning BY DEF Init, NoLeakedRunning
<1> QED BY <1>2, <1>3, <1>4 DEF IInv, ExecutionTypeOK, Types

LEMMA MarkRunningInv ==
  ASSUME IInv, NEW r \in Runs, MarkRunning(r)
  PROVE  IInv'
<1>1. /\ task \in [Runs -> TaskType] /\ task[r] \in TaskType /\ Types
      /\ RunInv(r) /\ task[r].pc = "starting"
  BY DEF IInv, ExecutionTypeOK, Types, MarkRunning
<1>2. /\ task[r].attempt = 1 /\ cronExecution[r] = NoRecord
      /\ faults[r] = 0 /\ answers[r] = 0 /\ calls[r] = 0 /\ notices[r] = <<>>
  BY <1>1 DEF RunInv, Fresh, Early
<1>3. CASE /\ cronJob[task[r].job] # Absent
           /\ SetJob(r, "RUNNING") /\ Proceed(r, "creating") /\ Emit(r, "started")
           /\ UNCHANGED <<cronExecution, faults, answers, calls>>
  <2>1. Moves(r, "creating", 1) BY <1>1, <1>2, <1>3, ProceedMoves DEF Phases, Pending
  <2>2. notices'[r] = Started BY <1>1, <1>2, <1>3, StartEvent DEF Emit, Types
  <2>3. Types' BY <1>1, <1>2, <1>3, <2>1, StartEvent, EventTypes DEF Types, Emit, SetJob, JobStatus, Moves
  <2>4. Frame(r) BY <1>1, <1>3, <2>1 DEF Frame, Untouched, Types, SetJob, Emit, Moves, TaskType
  <2>5. RunInv(r)' /\ WithinAttempts(r)'
    BY <1>1, <1>2, <1>3, <2>1, <2>2, <2>4
    DEF RunInv, Fresh, Announced, Counted, RowPhase, Blamed, Allowance, WithinAttempts,
        Early, Looping, Done, Moves, NoRecord, Types, Frame
  <2>6. Accounts(r)' BY <2>1 DEF Accounts, Moves, InFlight, Pending
  <2> QED BY <2>1, <2>3, <2>4, <2>5, <2>6, FrameInv DEF Moves
<1>4. CASE /\ Reject(r) /\ UNCHANGED <<cronExecution, answers, calls, notices>>
           /\ \/ SetJob(r, "RUNNING") /\ Fault(r) /\ cronJob[task[r].job] # Absent
              \/ UNCHANGED cronJob /\ Fault(r)
              \/ UNCHANGED <<cronJob, faults>> /\ cronJob[task[r].job] = Absent
  <2>1. Moves(r, "rejected", 1) BY <1>1, <1>2, <1>4, RejectMoves
  <2>2. \/ faults'[r] = 1
        \/ faults' = faults /\ cronJob' = cronJob /\ cronJob[task[r].job] = Absent
    BY <1>1, <1>2, <1>4, FaultCounted DEF Types
  <2>3. Types' BY <1>1, <1>4, <2>1, FaultCounted DEF Types, SetJob, JobStatus, Moves
  <2>4. Frame(r) BY <1>1, <1>4, <2>1, FaultCounted DEF Frame, Untouched, Types, SetJob, Moves, TaskType
  <2>5. Fresh(r)' /\ Announced(r)'
    BY <1>1, <1>2, <1>4, <2>1 DEF Fresh, Announced, Early, Looping, Done, Moves, Endings
  <2>6. Counted(r)' /\ WithinAttempts(r)'
    BY <1>1, <1>4, <2>1 DEF RunInv, Counted, WithinAttempts, Moves
  <2>7. RowPhase(r)'
    BY <1>1, <1>2, <1>4, <2>1, <2>4 DEF RowPhase, Looping, Done, Moves, NoRecord
  <2>8. Blamed(r)'
    BY <1>1, <1>2, <1>4, <2>1, <2>2, <2>4, EventsDiffer DEF Blamed, Allowance, Moves, NoRecord
  <2>9. Accounts(r)' \/ cronJob'[task[r].job] = Absent
    BY <1>2, <1>4, <2>1, <2>2 DEF Accounts, GaveUp, Moves
  <2> QED BY <2>3, <2>4, <2>5, <2>6, <2>7, <2>8, <2>9, <2>1, FrameInv DEF RunInv, Moves
<1> QED BY <1>3, <1>4 DEF MarkRunning, Statement

LEMMA CreateExecutionInv ==
  ASSUME IInv, NEW r \in Runs, CreateExecution(r)
  PROVE  IInv'
<1>1. task[r].pc = "creating" /\ UNCHANGED <<cronJob, answers, calls, notices>>
  BY DEF CreateExecution
<1>2. /\ task[r].attempt = 1 /\ cronExecution[r] = NoRecord
      /\ faults[r] = 0 /\ answers[r] = 0 /\ calls[r] = 0 /\ notices[r] = Started
  BY <1>1, RunFacts DEF RunInv, Fresh, Early
<1> DEFINE created == cronExecution' = [cronExecution EXCEPT ![r] = Record("RUNNING", 1, NoReply)]
           first == IF RetryCount[task[r].job] >= 1 THEN "requesting" ELSE "failing"
<1>3. CASE /\ cronJob[task[r].job] # Absent
           /\ created /\ Proceed(r, first) /\ UNCHANGED faults
  <2>1. Moves(r, first, 1) BY <1>2, <1>3, RunFacts, ProceedMoves DEF Phases, Pending
  <2>2. Types' BY <1>1, <1>3, <2>1, RunFacts, RecordTypes DEF Types, Moves
  <2>3. Frame(r) BY <1>1, <1>3, <2>1 DEF Frame, Untouched, Moves
  <2>4. /\ cronExecution'[r].status = "RUNNING" /\ cronExecution'[r] # NoRecord
        /\ cronExecution'[r].attempt = 1
    BY <1>3, RunFacts DEF Types, Record, NoRecord
  <2>5. RunInv(r)' /\ WithinAttempts(r)'
    <3>1. RowPhase(r)'
      BY <1>1, <1>3, <2>1, <2>4 DEF RowPhase, Looping, Moves
    <3>2. Fresh(r)' /\ Announced(r)' /\ Counted(r)' /\ Blamed(r)' /\ WithinAttempts(r)'
      BY <1>1, <1>2, <1>3, <2>1, <2>4, RunFacts
      DEF Fresh, Announced, Counted, Blamed, Allowance, WithinAttempts, Early, Looping,
          Done, Moves
    <3> QED BY <3>1, <3>2 DEF RunInv
  <2>6. Accounts(r)' BY <2>1 DEF Accounts, Moves, InFlight, Pending
  <2> QED BY <2>1, <2>2, <2>3, <2>5, <2>6, FrameInv DEF Moves
<1>4. CASE /\ Proceed(r, "recovering")
           /\ \/ created /\ Fault(r) /\ cronJob[task[r].job] # Absent
              \/ UNCHANGED cronExecution /\ Fault(r)
              \/ UNCHANGED <<cronExecution, faults>> /\ cronJob[task[r].job] = Absent
  <2>1. Moves(r, "recovering", 1) BY <1>2, <1>4, RunFacts, ProceedMoves DEF Phases, Pending
  <2>2. Types'
    <3>1. cronExecution' \in [Runs -> RecordType]
      <4>1. Record("RUNNING", 1, NoReply) \in RecordType BY RecordTypes
      <4> QED BY <1>4, <4>1, RunFacts DEF Types
    <3>2. faults' \in [Runs -> 0 .. MaxFaults] BY <1>4, RunFacts, FaultCounted DEF Types
    <3> QED BY <1>1, <2>1, <3>1, <3>2, RunFacts DEF Types, Moves
  <2>3. Frame(r) BY <1>1, <1>4, <2>1, RunFacts, FaultCounted DEF Frame, Untouched, Moves, Types
  <2>4. \/ faults'[r] = 1
        \/ faults' = faults /\ cronJob[task[r].job] = Absent
    BY <1>2, <1>4, RunFacts, FaultCounted DEF Types
  <2>5. \/ cronExecution'[r] = NoRecord
        \/ /\ cronExecution'[r].status = "RUNNING" /\ cronExecution'[r] # NoRecord
           /\ cronJob[task[r].job] # Absent
    BY <1>2, <1>4, RunFacts DEF Types, Record, NoRecord
  <2>6. RunInv(r)' /\ WithinAttempts(r)'
    BY <1>1, <1>2, <2>1, <2>4, <2>5, RunFacts
    DEF RunInv, Fresh, Announced, Counted, RowPhase, Blamed, Allowance, WithinAttempts,
        Early, Looping, Done, Moves, NoRecord
  <2>7. Accounts(r)' BY <2>1 DEF Accounts, Moves, InFlight, Pending
  <2> QED BY <2>1, <2>2, <2>3, <2>6, <2>7, FrameInv DEF Moves
<1> QED BY <1>1, <1>3, <1>4 DEF CreateExecution, Statement, OpenRow

LEMMA AnswerMoves ==
  ASSUME task \in [Runs -> TaskType], NEW r \in Runs, NEW reply \in Replies,
         task' = [task EXCEPT ![r].pc = "committing", ![r].reply = reply]
  PROVE  Moves(r, "committing", task[r].attempt)
<1>1. \A w \in Runs \ {r} : Bystander(w) BY PhaseAsIs DEF Bystander
<1> DEFINE u == [task[r] EXCEPT !.pc = "committing", !.reply = reply]
<1>2. /\ u \in TaskType /\ u.pc = "committing"
      /\ u.job = task[r].job /\ u.attempt = task[r].attempt
  <2>1. task[r] \in TaskType OBVIOUS
  <2> QED BY <2>1 DEF TaskType, Phases, Pending
<1>3. task' = [task EXCEPT ![r] = u] OBVIOUS
<1> HIDE DEF u
<1> QED BY <1>1, <1>2, <1>3 DEF Moves

LEMMA AnswerInv ==
  ASSUME IInv, NEW r \in Runs, NEW reply \in Replies, Answer(r, reply)
  PROVE  IInv'
<1>1. /\ task[r].pc = "requesting" /\ UNCHANGED <<cronJob, cronExecution, faults, notices>>
      /\ calls' = [calls EXCEPT ![r] = @ + 1]
      /\ answers' = [answers EXCEPT ![r] = IF reply < 400 THEN @ + 1 ELSE @]
      /\ task' = [task EXCEPT ![r].pc = "committing", ![r].reply = reply]
  BY DEF Answer
<1>2. Moves(r, "committing", task[r].attempt) BY <1>1, RunFacts, AnswerMoves
<1>3. calls'[r] = calls[r] + 1 /\ answers'[r] \in {answers[r], answers[r] + 1}
  BY <1>1, RunFacts DEF Types
<1>4. Types' BY <1>1, <1>2, RunFacts DEF Types, Moves
<1>5. Frame(r) BY <1>1, <1>2, RunFacts DEF Frame, Untouched, Moves, Types
<1>6. RunInv(r)' /\ WithinAttempts(r)'
  BY <1>1, <1>2, <1>3, RunFacts
  DEF RunInv, Fresh, Announced, Counted, RowPhase, Blamed, Allowance, WithinAttempts,
      Early, Looping, Done, Moves
<1>7. Accounts(r)' BY <1>2 DEF Accounts, Moves, InFlight, Pending
<1> QED BY <1>2, <1>4, <1>5, <1>6, <1>7, FrameInv DEF Moves

LEMMA NoAnswerInv ==
  ASSUME IInv, NEW r \in Runs, NoAnswer(r)
  PROVE  IInv'
<1>1. /\ task[r].pc = "requesting" /\ UNCHANGED <<cronJob, cronExecution, faults, answers, notices>>
      /\ calls' = [calls EXCEPT ![r] = @ + 1] /\ AttemptFailed(r)
  BY DEF NoAnswer
<1> DEFINE next == IF task[r].attempt < RetryCount[task[r].job] THEN "backoff" ELSE "failing"
<1>2. Moves(r, next, task[r].attempt + 1) BY <1>1, RunFacts, AttemptFailedMoves
<1>3. calls'[r] = calls[r] + 1 BY <1>1, RunFacts DEF Types
<1>4. Types' BY <1>1, <1>2, RunFacts DEF Types, Moves
<1>5. Frame(r) BY <1>1, <1>2, RunFacts DEF Frame, Untouched, Moves, Types
<1>6. RunInv(r)' /\ WithinAttempts(r)'
  <2>1. Fresh(r)' /\ Announced(r)' /\ RowPhase(r)'
    BY <1>1, <1>2, RunFacts DEF RunInv, Fresh, Announced, RowPhase, Early, Looping, Done, Moves
  <2>2. Counted(r)' /\ WithinAttempts(r)'
    BY <1>1, <1>2, <1>3, RunFacts DEF RunInv, Counted, WithinAttempts, Moves
  <2>3. Blamed(r)'
    BY <1>1, <1>2, <1>3, RunFacts DEF RunInv, Blamed, Allowance, Moves
  <2> QED BY <2>1, <2>2, <2>3 DEF RunInv
<1>7. Accounts(r)' BY <1>2 DEF Accounts, Moves, InFlight, Pending
<1> QED BY <1>2, <1>4, <1>5, <1>6, <1>7, FrameInv DEF Moves

LEMMA RetryInv ==
  ASSUME IInv, NEW r \in Runs, Retry(r)
  PROVE  IInv'
<1>1. /\ task[r].pc = "backoff" /\ Proceed(r, "requesting")
      /\ UNCHANGED <<cronJob, cronExecution, faults, answers, calls, notices>>
  BY DEF Retry
<1>2. Moves(r, "requesting", task[r].attempt)
  BY <1>1, RunFacts, ProceedMoves DEF Phases, Pending
<1>3. Types' BY <1>1, <1>2, RunFacts DEF Types, Moves
<1>4. Frame(r) BY <1>1, <1>2 DEF Frame, Untouched, Moves
<1>5. RunInv(r)' /\ WithinAttempts(r)'
  BY <1>1, <1>2, RunFacts
  DEF RunInv, Fresh, Announced, Counted, RowPhase, Blamed, Allowance, WithinAttempts,
      Early, Looping, Done, Moves
<1>6. Accounts(r)' BY <1>2 DEF Accounts, Moves, InFlight, Pending
<1> QED BY <1>2, <1>3, <1>4, <1>5, <1>6, FrameInv DEF Moves

\* The effect of a completing transaction on the tables.
LEMMA CompleteEffect ==
  ASSUME IInv, NEW r \in Runs, NEW status \in Terminal, NEW attempt \in Nat,
         NEW reply \in Replies \union {NoReply}, Complete(r, status, attempt, reply)
  PROVE  /\ cronJob' \in [Jobs -> JobStatus \union {Absent}]
         /\ cronJob'[task[r].job] = status
         /\ \A j \in Jobs \ {task[r].job} : cronJob'[j] = cronJob[j]
         /\ cronExecution' \in [Runs -> RecordType]
         /\ cronExecution'[r].status = status /\ cronExecution'[r].attempt = attempt
         /\ cronExecution'[r] # NoRecord
         /\ \A w \in Runs \ {r} : cronExecution'[w] = cronExecution[w]
<1>1. Record(status, attempt, reply) \in RecordType /\ Record(status, attempt, reply) # NoRecord
  BY RecordTypes
<1>2. /\ Record(status, attempt, reply).status = status
      /\ Record(status, attempt, reply).attempt = attempt
  BY DEF Record
<1>3. status \in JobStatus BY DEF JobStatus, Terminal
<1> QED BY <1>1, <1>2, <1>3, RunFacts DEF Types, Complete, SetJob

\* Run r ends with a confirmed transaction.
LEMMA CompletedInv ==
  ASSUME IInv, NEW r \in Runs, NEW status \in Terminal, NEW reply \in Replies \union {NoReply},
         cronJob[task[r].job] # Absent, Complete(r, status, calls[r], reply),
         task' = Settled(r, "resolved"), Emit(r, status),
         UNCHANGED <<faults, answers, calls>>,
         notices[r] = Started,
         answers[r] <= faults[r] + (IF status = "FAILED" THEN 0 ELSE 1)
  PROVE  IInv'
<1>1. Moves(r, "resolved", task[r].attempt) BY RunFacts, SettledMoves DEF Done
<1>2. /\ cronJob' \in [Jobs -> JobStatus \union {Absent}]
      /\ cronJob'[task[r].job] = status
      /\ \A j \in Jobs \ {task[r].job} : cronJob'[j] = cronJob[j]
      /\ cronExecution' \in [Runs -> RecordType]
      /\ cronExecution'[r].status = status /\ cronExecution'[r].attempt = calls[r]
      /\ cronExecution'[r] # NoRecord
      /\ \A w \in Runs \ {r} : cronExecution'[w] = cronExecution[w]
  BY CompleteEffect, RunFacts
<1>3. status # Absent /\ status # "RUNNING" BY DEF Terminal
<1>4. /\ notices' \in [Runs -> Seq(Events)] /\ notices'[r] = Ended(status)
      /\ \A w \in Runs \ {r} : notices'[w] = notices[w]
  BY RunFacts, EndEvent, EventTypes DEF Emit, Types
<1>5. Types' BY <1>1, <1>2, <1>4, RunFacts DEF Types, Moves
<1>6. Frame(r)
  <2>1. ASSUME NEW w \in Runs \ {r} PROVE Untouched(w)
    <3>1. task[w].job \in Jobs BY RunFacts
    <3> QED BY <1>1, <1>2, <1>3, <1>4, <3>1 DEF Untouched, Moves
  <2> QED BY <1>2, <1>3, <2>1 DEF Frame
<1>7. RunInv(r)' /\ WithinAttempts(r)'
  <2>1. Fresh(r)' /\ Announced(r)' /\ RowPhase(r)' /\ WithinAttempts(r)'
    BY <1>1, <1>2, <1>3, <1>4
    DEF Fresh, Announced, RowPhase, WithinAttempts, Early, Looping, Done, Moves, Endings
  <2>2. Counted(r)'
    BY <1>1, RunFacts DEF RunInv, Counted, Moves
  <2>3. Blamed(r)'
    BY <1>1, <1>2, <1>4, RunFacts DEF Blamed, Allowance, Moves
  <2> QED BY <2>1, <2>2, <2>3 DEF RunInv
<1>8. cronJob'[task[r].job] # "RUNNING" BY <1>2, <1>3
<1> QED BY <1>1, <1>5, <1>6, <1>7, <1>8, FrameInv DEF Moves

\* The error of a write of run r: it was applied, refused, or without its row.
WriteError(r, effect) ==
  \/ cronJob[task[r].job] # Absent /\ effect /\ Fault(r)
  \/ UNCHANGED <<cronJob, cronExecution>> /\ Fault(r)
  \/ UNCHANGED <<cronJob, cronExecution, faults>> /\ cronJob[task[r].job] = Absent

LEMMA WriteErrorEffect ==
  ASSUME IInv, NEW r \in Runs, NEW status \in Terminal, NEW attempt \in Nat,
         NEW reply \in Replies \union {NoReply},
         WriteError(r, Complete(r, status, attempt, reply))
  PROVE  /\ cronJob' \in [Jobs -> JobStatus \union {Absent}]
         /\ cronJob'[task[r].job] \in {status, cronJob[task[r].job]}
         /\ cronJob'[task[r].job] = Absent <=> cronJob[task[r].job] = Absent
         /\ \A j \in Jobs \ {task[r].job} : cronJob'[j] = cronJob[j]
         /\ cronExecution' \in [Runs -> RecordType]
         /\ \/ cronExecution'[r] = cronExecution[r]
            \/ cronExecution'[r].status = status /\ cronJob[task[r].job] # Absent
         /\ \A w \in Runs \ {r} : cronExecution'[w] = cronExecution[w]
         /\ faults' \in [Runs -> 0 .. MaxFaults]
         /\ faults'[r] = faults[r] + 1 \/ cronJob[task[r].job] = Absent
         /\ \A w \in Runs \ {r} : faults'[w] = faults[w]
<1>1. status # Absent BY DEF Terminal
<1>2. CASE cronJob[task[r].job] # Absent /\ Complete(r, status, attempt, reply) /\ Fault(r)
  BY <1>1, <1>2, RunFacts, CompleteEffect, FaultCounted DEF Types
<1>3. CASE UNCHANGED <<cronJob, cronExecution>> /\ Fault(r)
  BY <1>3, RunFacts, FaultCounted DEF Types
<1>4. CASE UNCHANGED <<cronJob, cronExecution, faults>> /\ cronJob[task[r].job] = Absent
  BY <1>4, RunFacts DEF Types
<1> QED BY <1>2, <1>3, <1>4 DEF WriteError

LEMMA CommitSuccessInv ==
  ASSUME IInv, NEW r \in Runs, CommitSuccess(r)
  PROVE  IInv'
<1>1. task[r].pc = "committing" /\ UNCHANGED <<answers, calls>>
  BY DEF CommitSuccess
<1>2. /\ calls[r] = task[r].attempt /\ notices[r] = Started
      /\ task[r].attempt \in Nat /\ task[r].reply \in Replies \union {NoReply}
      /\ cronJob[task[r].job] # Absent => answers[r] <= faults[r] + 1
  BY <1>1, RunFacts DEF RunInv, Counted, Announced, Blamed, Allowance, Looping, TaskType
<1> DEFINE commit == Complete(r, "SUCCESS", task[r].attempt, task[r].reply)
<1>3. CASE /\ cronJob[task[r].job] # Absent /\ commit
           /\ task' = Settled(r, "resolved") /\ Emit(r, "SUCCESS") /\ UNCHANGED faults
  BY <1>1, <1>2, <1>3, CompletedInv DEF Terminal
<1>4. CASE WriteError(r, commit) /\ AttemptFailed(r) /\ UNCHANGED notices
  <2> DEFINE next == IF task[r].attempt < RetryCount[task[r].job] THEN "backoff" ELSE "failing"
  <2>1. Moves(r, next, task[r].attempt + 1) BY <1>4, RunFacts, AttemptFailedMoves
  <2>2. /\ cronJob' \in [Jobs -> JobStatus \union {Absent}]
        /\ cronJob'[task[r].job] \in {"SUCCESS", cronJob[task[r].job]}
        /\ cronJob'[task[r].job] = Absent <=> cronJob[task[r].job] = Absent
        /\ \A j \in Jobs \ {task[r].job} : cronJob'[j] = cronJob[j]
        /\ cronExecution' \in [Runs -> RecordType]
        /\ \/ cronExecution'[r] = cronExecution[r]
           \/ cronExecution'[r].status = "SUCCESS" /\ cronJob[task[r].job] # Absent
        /\ \A w \in Runs \ {r} : cronExecution'[w] = cronExecution[w]
        /\ faults' \in [Runs -> 0 .. MaxFaults]
        /\ faults'[r] = faults[r] + 1 \/ cronJob[task[r].job] = Absent
        /\ \A w \in Runs \ {r} : faults'[w] = faults[w]
    BY <1>2, <1>4, WriteErrorEffect DEF Terminal
  <2>3. Types' BY <1>1, <1>4, <2>1, <2>2, RunFacts DEF Types, Moves
  <2>4. Frame(r)
    <3>1. ASSUME NEW w \in Runs \ {r} PROVE Untouched(w)
      <4>1. task[w].job \in Jobs BY RunFacts
      <4> QED BY <1>1, <1>4, <2>1, <2>2, <4>1 DEF Untouched, Moves
    <3> QED BY <2>2, <3>1 DEF Frame
  <2>5. Fresh(r)' /\ Announced(r)' /\ RowPhase(r)'
    <3>1. cronExecution'[r].status = "SUCCESS" => faults'[r] >= 1
      <4>1. CASE faults'[r] = faults[r] + 1 BY <4>1, RunFacts
      <4>2. CASE cronJob[task[r].job] = Absent
        BY <2>2, <4>2, RunFacts DEF RunInv, RowPhase, NoRecord
      <4> QED BY <2>2, <4>1, <4>2
    <3>2. RowPhase(r)'
      BY <1>1, <1>2, <1>4, <2>1, <2>2, <3>1, RunFacts
      DEF RunInv, RowPhase, Looping, Done, Moves
    <3>3. Fresh(r)' /\ Announced(r)'
      BY <1>1, <1>2, <1>4, <2>1, <2>2, RunFacts
      DEF RunInv, Fresh, Announced, Early, Looping, Done, Moves
    <3> QED BY <3>2, <3>3
  <2>6. Counted(r)' /\ WithinAttempts(r)'
    BY <1>1, <1>2, <2>1, RunFacts DEF RunInv, Counted, WithinAttempts, Moves
  <2>7. Blamed(r)'
    BY <1>1, <1>2, <2>1, <2>2, RunFacts DEF Blamed, Allowance, Moves
  <2>8. Accounts(r)' BY <2>1 DEF Accounts, Moves, InFlight, Pending
  <2> QED BY <2>1, <2>3, <2>4, <2>5, <2>6, <2>7, <2>8, FrameInv DEF Moves, RunInv
<1> QED BY <1>3, <1>4 DEF CommitSuccess, Statement, WriteError

LEMMA CommitFailureInv ==
  ASSUME IInv, NEW r \in Runs, CommitFailure(r)
  PROVE  IInv'
<1>1. task[r].pc = "failing" /\ UNCHANGED <<answers, calls>>
  BY DEF CommitFailure
<1> DEFINE reply == cronExecution[r].responseStatus
<1>2. /\ calls[r] = task[r].attempt - 1 /\ notices[r] = Started
      /\ calls[r] \in Nat /\ reply \in Replies \union {NoReply}
      /\ cronJob[task[r].job] # Absent => answers[r] <= faults[r]
  <2>1. cronExecution[r] \in RecordType BY RunFacts DEF Types
  <2>2. reply \in Replies \union {NoReply} BY <2>1 DEF RecordType
  <2> QED BY <1>1, <2>2, RunFacts
          DEF RunInv, Counted, Announced, Blamed, Allowance, Looping
<1> DEFINE commit == Complete(r, "FAILED", task[r].attempt - 1, reply)
<1>3. CASE /\ cronJob[task[r].job] # Absent /\ commit
           /\ task' = Settled(r, "resolved") /\ Emit(r, "FAILED") /\ UNCHANGED faults
  <2>1. answers[r] <= faults[r] + 0 BY <1>2, <1>3, RunFacts
  <2>2. Complete(r, "FAILED", calls[r], reply) BY <1>2, <1>3
  <2> HIDE DEF reply
  <2> QED BY <1>1, <1>2, <1>3, <2>1, <2>2, CompletedInv DEF Terminal
<1>4. CASE WriteError(r, commit) /\ Proceed(r, "recovering") /\ UNCHANGED notices
  <2>1. Moves(r, "recovering", task[r].attempt)
    BY <1>4, RunFacts, ProceedMoves DEF Phases, Pending
  <2>2. /\ cronJob' \in [Jobs -> JobStatus \union {Absent}]
        /\ cronJob'[task[r].job] \in {"FAILED", cronJob[task[r].job]}
        /\ cronJob'[task[r].job] = Absent <=> cronJob[task[r].job] = Absent
        /\ \A j \in Jobs \ {task[r].job} : cronJob'[j] = cronJob[j]
        /\ cronExecution' \in [Runs -> RecordType]
        /\ \/ cronExecution'[r] = cronExecution[r]
           \/ cronExecution'[r].status = "FAILED" /\ cronJob[task[r].job] # Absent
        /\ \A w \in Runs \ {r} : cronExecution'[w] = cronExecution[w]
        /\ faults' \in [Runs -> 0 .. MaxFaults]
        /\ faults'[r] = faults[r] + 1 \/ cronJob[task[r].job] = Absent
        /\ \A w \in Runs \ {r} : faults'[w] = faults[w]
    <3>1. WriteError(r, Complete(r, "FAILED", calls[r], reply)) BY <1>2, <1>4
    <3> HIDE DEF reply
    <3> QED BY <1>2, <3>1, WriteErrorEffect DEF Terminal
  <2>3. Types' BY <1>1, <1>4, <2>1, <2>2, RunFacts DEF Types, Moves
  <2>4. Frame(r)
    <3>1. ASSUME NEW w \in Runs \ {r} PROVE Untouched(w)
      <4>1. task[w].job \in Jobs BY RunFacts
      <4> QED BY <1>1, <1>4, <2>1, <2>2, <4>1 DEF Untouched, Moves
    <3> QED BY <2>2, <3>1 DEF Frame
  <2>5. Fresh(r)' /\ Announced(r)' /\ RowPhase(r)'
    <3>1. cronExecution'[r].status = "SUCCESS" => faults'[r] >= 1
      <4>1. CASE faults'[r] = faults[r] + 1 BY <4>1, RunFacts
      <4>2. CASE cronJob[task[r].job] = Absent
        BY <2>2, <4>2, RunFacts DEF RunInv, RowPhase, NoRecord
      <4> QED BY <2>2, <4>1, <4>2
    <3>2. RowPhase(r)'
      BY <1>1, <1>2, <1>4, <2>1, <2>2, <3>1, RunFacts
      DEF RunInv, RowPhase, Looping, Done, Moves
    <3>3. Fresh(r)' /\ Announced(r)'
      BY <1>1, <1>2, <1>4, <2>1, <2>2, RunFacts
      DEF RunInv, Fresh, Announced, Early, Looping, Done, Moves
    <3> QED BY <3>2, <3>3
  <2>6. Counted(r)' /\ WithinAttempts(r)'
    BY <1>1, <1>2, <2>1, RunFacts DEF RunInv, Counted, WithinAttempts, Moves
  <2>7. Blamed(r)'
    BY <1>1, <1>2, <2>1, <2>2, RunFacts DEF Blamed, Allowance, Moves
  <2>8. Accounts(r)' BY <2>1 DEF Accounts, Moves, InFlight, Pending
  <2> QED BY <2>1, <2>3, <2>4, <2>5, <2>6, <2>7, <2>8, FrameInv DEF Moves, RunInv
<1> QED BY <1>3, <1>4 DEF CommitFailure, Statement, WriteError

LEMMA RecoverInv ==
  ASSUME IInv, NEW r \in Runs, Recover(r)
  PROVE  IInv'
<1>1. /\ task[r].pc = "recovering" /\ UNCHANGED <<cronExecution, answers, calls>>
      /\ Reject(r)
  BY DEF Recover, Statement
<1>2. /\ notices[r] = Started
      /\ cronJob[task[r].job] # Absent => faults[r] >= 1 /\ answers[r] <= faults[r] + Allowance(r)
  BY <1>1, RunFacts DEF RunInv, Announced, Blamed, Looping
<1>3. \/ /\ cronJob[task[r].job] # Absent /\ SetJob(r, "FAILED")
         /\ Emit(r, "FAILED") /\ UNCHANGED faults
      \/ /\ cronJob[task[r].job] # Absent /\ SetJob(r, "FAILED")
         /\ UNCHANGED notices /\ Fault(r)
      \/ UNCHANGED <<cronJob, notices>> /\ Fault(r)
      \/ UNCHANGED <<cronJob, notices, faults>> /\ cronJob[task[r].job] = Absent
  BY DEF Recover, Statement
<1>4. Moves(r, "rejected", task[r].attempt) BY <1>1, RunFacts, RejectMoves
<1>5. /\ notices' \in [Runs -> Seq(Events)]
      /\ \A w \in Runs \ {r} : notices'[w] = notices[w]
      /\ notices'[r] \in {Started, Ended("FAILED")}
      /\ faults' \in [Runs -> 0 .. MaxFaults]
      /\ \A w \in Runs \ {r} : faults'[w] = faults[w]
      /\ \/ faults'[r] = faults[r] + 1
         \/ faults' = faults /\ notices'[r] = Ended("FAILED")
         \/ faults' = faults /\ cronJob[task[r].job] = Absent
  <2>1. ASSUME Emit(r, "FAILED")
        PROVE  /\ notices' \in [Runs -> Seq(Events)] /\ notices'[r] = Ended("FAILED")
               /\ \A w \in Runs \ {r} : notices'[w] = notices[w]
    BY <1>2, <2>1, RunFacts, EndEvent, EventTypes DEF Emit, Types, Terminal
  <2> QED BY <1>2, <1>3, <2>1, RunFacts, FaultCounted DEF Types
<1>6. /\ cronJob' \in [Jobs -> JobStatus \union {Absent}]
      /\ cronJob'[task[r].job] \in {"FAILED", cronJob[task[r].job]}
      /\ cronJob'[task[r].job] = Absent <=> cronJob[task[r].job] = Absent
      /\ \A j \in Jobs \ {task[r].job} : cronJob'[j] = cronJob[j]
  BY <1>3, RunFacts DEF SetJob, Types, JobStatus
<1>7. Types' BY <1>1, <1>4, <1>5, <1>6, RunFacts DEF Types, Moves
<1>8. Frame(r)
  <2>1. ASSUME NEW w \in Runs \ {r} PROVE Untouched(w)
    <3>1. task[w].job \in Jobs BY RunFacts
    <3> QED BY <1>1, <1>4, <1>5, <1>6, <3>1 DEF Untouched, Moves
  <2> QED BY <1>6, <2>1 DEF Frame
<1>9. Fresh(r)' /\ Announced(r)' /\ RowPhase(r)'
  BY <1>1, <1>4, <1>5, <1>6, RunFacts
  DEF RunInv, Fresh, Announced, RowPhase, Early, Looping, Done, Moves, Endings, Terminal
<1>10. Counted(r)' /\ WithinAttempts(r)'
  BY <1>1, <1>4, RunFacts DEF RunInv, Counted, WithinAttempts, Moves
<1>11. Blamed(r)'
  <2>1. Allowance(r)' = Allowance(r) /\ Allowance(r) \in {0, 1}
    BY <1>1, <1>4 DEF Allowance, Moves
  <2> QED BY <1>1, <1>2, <1>4, <1>5, <1>6, <2>1, EventsDiffer, RunFacts DEF Blamed, Moves
<1>12. cronJob'[task[r].job] = "RUNNING" => Accounts(r)'
  <2>1. SUFFICES ASSUME cronJob'[task[r].job] = "RUNNING" PROVE faults'[r] >= 2
    BY <1>4 DEF Accounts, GaveUp, Moves
  <2>2. cronJob[task[r].job] # Absent BY <1>6, <2>1
  <2>3. faults'[r] = faults[r] + 1
    BY <1>3, <2>1, <2>2, RunFacts, FaultCounted DEF Types, SetJob
  <2> QED BY <1>2, <2>2, <2>3, RunFacts
<1> QED BY <1>4, <1>7, <1>8, <1>9, <1>10, <1>11, <1>12, FrameInv DEF Moves, RunInv

LEMMA ExecuteJobInv ==
  ASSUME IInv, NEW j \in Jobs, NEW p \in Processes,
         NEW manual \in BOOLEAN, NEW isManual \in BOOLEAN, ExecuteJob(j, p, manual, isManual)
  PROVE  IInv'
<1> DEFINE t == [Idle EXCEPT !.pc = IF HasSlot(p) THEN "starting" ELSE "waiting",
                             !.job = j, !.process = p, !.manual = manual,
                             !.priority = IF isManual THEN 1 ELSE 0]
<1>1. PICK r \in Runs : /\ task[r].pc = "idle" /\ task' = [task EXCEPT ![r] = t]
                        /\ UNCHANGED <<cronJob, cronExecution, faults, answers, calls, notices>>
  BY DEF ExecuteJob
<1>2. t \in TaskType /\ t.pc \in {"starting", "waiting"} /\ t.job = j /\ t.attempt = 1
  BY PopulationAssumption DEF Idle, TaskType, Phases, Pending
<1> HIDE DEF t
<1>3. task' \in [Runs -> TaskType] /\ task'[r] = t /\ \A w \in Runs \ {r} : task'[w] = task[w]
  BY <1>1, <1>2, RunFacts
<1>4. Types' BY <1>1, <1>3, RunFacts DEF Types
<1>5. Frame(r)
  BY <1>1, <1>3, RunFacts, PhaseAsIs DEF Frame, Untouched, Bystander
<1>6. RunInv(r)' /\ WithinAttempts(r)'
  <2>1. RetryCount[j] \in Nat BY RetryAssumption
  <2> QED BY <1>1, <1>2, <1>3, <2>1, RunFacts
      DEF RunInv, Fresh, Announced, Counted, RowPhase, Blamed, Allowance, WithinAttempts,
          Early, Looping, Done, NoRecord
<1>7. ~Accounts(r) BY <1>1 DEF Accounts, GaveUp, InFlight, Pending
<1> QED BY <1>1, <1>4, <1>5, <1>6, <1>7, FrameInv

LEMMA DeleteJobInv ==
  ASSUME IInv, NEW j \in Jobs, DeleteJob(j)
  PROVE  IInv'
<1>1. /\ cronJob' = [cronJob EXCEPT ![j] = Absent]
      /\ cronExecution' = [r \in Runs |-> IF task[r].job = j THEN NoRecord ELSE cronExecution[r]]
      /\ UNCHANGED <<task, faults, answers, calls, notices>>
  BY DEF DeleteJob
<1>2. Types' BY <1>1, RecordTypes DEF IInv, ExecutionTypeOK, Types
<1>3. ASSUME NEW r \in Runs PROVE RunInv(r)' /\ WithinAttempts(r)'
  <2>1. Fresh(r)' /\ Announced(r)' /\ Counted(r)' /\ WithinAttempts(r)'
    BY <1>1, RunFacts DEF RunInv, Fresh, Announced, Counted, WithinAttempts
  <2>2. CASE task[r].job = j
    <3>1. cronJob'[j] = Absent /\ cronExecution'[r] = NoRecord BY <1>1, <2>2, RunFacts DEF Types
    <3>2. NoRecord.status = "NONE" BY DEF NoRecord
    <3> QED BY <1>1, <2>1, <2>2, <3>1, <3>2 DEF RunInv, RowPhase, Blamed
  <2>3. CASE task[r].job # j
    <3>1. /\ cronJob'[task[r].job] = cronJob[task[r].job]
          /\ cronExecution'[r] = cronExecution[r]
      BY <1>1, <2>3, RunFacts DEF Types
    <3> QED BY <1>1, <2>1, <3>1, RunFacts DEF RunInv, RowPhase, Blamed, Allowance
  <2> QED BY <2>2, <2>3, <2>1
<1>4. NoLeakedRunning'
  BY <1>1 DEF IInv, ExecutionTypeOK, NoLeakedRunning, Accounts, GaveUp
<1> QED BY <1>2, <1>3, <1>4 DEF IInv, ExecutionTypeOK, Types

LEMMA StopInv ==
  ASSUME IInv, NEW p \in Processes, Stop(p)
  PROVE  IInv'
<1>1. task' = Wiped(p) /\ UNCHANGED <<cronJob, cronExecution, faults, answers, calls, notices>>
  BY DEF Stop
<1>2. Types' BY <1>1, WipedRuns DEF IInv, ExecutionTypeOK, Types
<1>3. ASSUME NEW w \in Runs PROVE Untouched(w)
  <2>1. Bystander(w) BY <1>1, RunFacts, WipedBystanders
  <2> QED BY <1>1, <2>1 DEF Untouched
<1>4. \A w \in Runs : RunInv(w)' /\ WithinAttempts(w)'
  BY <1>3, BystanderInv DEF IInv
<1>5. NoLeakedRunning'
  BY <1>1, <1>3, BystanderAccounts DEF IInv, NoLeakedRunning
<1> QED BY <1>2, <1>4, <1>5 DEF IInv, ExecutionTypeOK, Types

\* What the statement of run r does to the tables.
LEMMA EffectTables ==
  ASSUME IInv, NEW r \in Runs, Effect(r), cronJob[task[r].job] # Absent
  PROVE  /\ task[r].pc \in Pending
         /\ cronJob' \in [Jobs -> JobStatus \union {Absent}]
         /\ cronJob'[task[r].job] # Absent
         /\ \A j \in Jobs \ {task[r].job} : cronJob'[j] = cronJob[j]
         /\ cronExecution' \in [Runs -> RecordType]
         /\ \A w \in Runs \ {r} : cronExecution'[w] = cronExecution[w]
         /\ \/ cronExecution'[r] = cronExecution[r]
               /\ task[r].pc \in {"starting", "recovering"}
            \/ task[r].pc = "creating" /\ cronExecution'[r].status = "RUNNING"
            \/ task[r].pc = "committing" /\ cronExecution'[r].status = "SUCCESS"
            \/ task[r].pc = "failing" /\ cronExecution'[r].status = "FAILED"
<1>1. {"starting", "creating", "committing", "failing", "recovering"} \subseteq Pending
      /\ "RUNNING" \in JobStatus /\ "FAILED" \in JobStatus /\ Absent \notin Terminal
      /\ "SUCCESS" \in Terminal /\ "FAILED" \in Terminal
  BY DEF Pending, JobStatus, Terminal
<1>2. ASSUME NEW status \in JobStatus \ {Absent}, SetJob(r, status)
      PROVE  /\ cronJob' \in [Jobs -> JobStatus \union {Absent}]
             /\ cronJob'[task[r].job] # Absent
             /\ \A j \in Jobs \ {task[r].job} : cronJob'[j] = cronJob[j]
  BY <1>2, RunFacts DEF SetJob, Types
<1>3. CASE task[r].pc = "starting" /\ SetJob(r, "RUNNING") /\ UNCHANGED cronExecution
  BY <1>1, <1>2, <1>3, RunFacts DEF Types
<1>4. CASE task[r].pc = "creating" /\ OpenRow(r) /\ UNCHANGED cronJob
               /\ cronJob[task[r].job] # Absent
  <2>1. Record("RUNNING", 1, NoReply) \in RecordType BY RecordTypes
  <2>2. Record("RUNNING", 1, NoReply).status = "RUNNING" BY DEF Record
  <2> QED BY <1>1, <1>4, <2>1, <2>2, RunFacts DEF OpenRow, Types
<1>5. CASE /\ task[r].pc = "committing"
           /\ Complete(r, "SUCCESS", task[r].attempt, task[r].reply)
  <2>1. task[r].attempt \in Nat /\ task[r].reply \in Replies \union {NoReply}
    BY RunFacts DEF TaskType
  <2> QED BY <1>1, <1>5, <2>1, CompleteEffect
<1>6. CASE /\ task[r].pc = "failing"
           /\ Complete(r, "FAILED", task[r].attempt - 1, cronExecution[r].responseStatus)
  <2>1. task[r].attempt - 1 \in Nat BY <1>6, RunFacts DEF RunInv, Counted
  <2>2. cronExecution[r].responseStatus \in Replies \union {NoReply}
    <3>1. cronExecution[r] \in RecordType BY RunFacts DEF Types
    <3> QED BY <3>1 DEF RecordType
  <2> QED BY <1>1, <1>6, <2>1, <2>2, CompleteEffect
<1>7. CASE task[r].pc = "recovering" /\ SetJob(r, "FAILED") /\ UNCHANGED cronExecution
  BY <1>1, <1>2, <1>7, RunFacts DEF Types
<1> QED BY <1>3, <1>4, <1>5, <1>6, <1>7 DEF Effect

LEMMA StopAfterInv ==
  ASSUME IInv, NEW r \in Runs, StopAfter(r)
  PROVE  IInv'
<1>1. PICK p \in Processes : p = task[r].process BY RunFacts DEF TaskType
<1>2. /\ cronJob[task[r].job] # Absent /\ Effect(r) /\ task' = Wiped(p)
      /\ UNCHANGED <<faults, answers, calls, notices>>
  BY <1>1 DEF StopAfter
<1>3. "lost" \in Phases BY DEF Phases, Done
<1>4. task' \in [Runs -> TaskType] /\ \A w \in Runs : Bystander(w)
  BY <1>2, RunFacts, WipedBystanders
<1>5. /\ task'[r].pc = "lost" /\ task'[r].job = task[r].job
      /\ task'[r].attempt = task[r].attempt
  <2>1. task'[r] = InPhase(task[r], "lost")
    BY <1>1, <1>2, EffectTables DEF Wiped, Waiting, Active, On, Pending
  <2> QED BY <1>3, <2>1, RunFacts, PhaseOnly
<1>6. Types' BY <1>2, <1>4, EffectTables, RunFacts DEF Types
<1>7. Frame(r)
  <2>1. ASSUME NEW w \in Runs \ {r} PROVE Untouched(w)
    <3>1. task[w].job \in Jobs BY RunFacts
    <3> QED BY <1>2, <1>4, <3>1, EffectTables DEF Untouched
  <2> QED BY <1>2, <2>1, EffectTables DEF Frame
<1>8. RunInv(r)' /\ WithinAttempts(r)'
  <2>1. Fresh(r)' /\ Counted(r)' /\ WithinAttempts(r)'
    BY <1>2, <1>5, RunFacts DEF RunInv, Fresh, Early, Counted, WithinAttempts
  <2>2. Announced(r)'
    BY <1>2, <1>5, EffectTables, RunFacts
    DEF RunInv, Fresh, Announced, Early, Looping, Endings, Pending
  <2>3. RowPhase(r)' BY <1>2, <1>5, EffectTables DEF RowPhase, Done
  <2>4. Blamed(r)'
    BY <1>2, <1>5, EffectTables, RunFacts DEF RunInv, Fresh, Early, Blamed, Allowance, NoRecord
  <2> QED BY <2>1, <2>2, <2>3, <2>4 DEF RunInv
<1>9. Accounts(r)' BY <1>5 DEF Accounts
<1> QED BY <1>5, <1>6, <1>7, <1>8, <1>9, FrameInv

LEMMA NextInv == IInv /\ [Next]_vars => IInv'
<1> SUFFICES ASSUME IInv, [Next]_vars PROVE IInv' OBVIOUS
<1>1. ASSUME NEW r \in Runs, Step(r) PROVE IInv'
  BY <1>1, MarkRunningInv, CreateExecutionInv, AnswerInv, NoAnswerInv, RetryInv,
     CommitSuccessInv, CommitFailureInv, RecoverInv DEF Step
<1>2. ASSUME NEW r \in Runs, StopAfter(r) PROVE IInv'
  BY <1>2, StopAfterInv
<1>3. ASSUME NEW j \in Jobs, NEW p \in Processes, Tick(j, p) \/ Execute(j, p) PROVE IInv'
  BY <1>3, ExecuteJobInv DEF Tick, Execute
<1>4. ASSUME NEW j \in Jobs, DeleteJob(j) PROVE IInv'
  BY <1>4, DeleteJobInv
<1>5. ASSUME NEW p \in Processes, Stop(p) PROVE IInv'
  BY <1>5, StopInv
<1>6. CASE UNCHANGED vars
  <2> SUFFICES ASSUME UNCHANGED vars PROVE IInv' BY <1>6
  <2>1. ExecutionTypeOK' BY DEF vars, IInv, ExecutionTypeOK, WithinAttempts
  <2>2. NoLeakedRunning' BY DEF vars, IInv, NoLeakedRunning, Accounts, GaveUp
  <2>3. \A r \in Runs : RunInv(r)'
    BY DEF vars, IInv, RunInv, Fresh, Announced, Counted, RowPhase, Blamed, Allowance
  <2> QED BY <2>1, <2>2, <2>3 DEF IInv
<1> QED BY <1>1, <1>2, <1>3, <1>4, <1>5, <1>6 DEF Next

\* The inductive invariant holds in every reachable state, for all values of the
\* constants: any number of jobs, processes, slots, runs and database errors.
THEOREM Invariance == Spec => []IInv
<1>1. Init => IInv BY InitInv
<1>2. IInv /\ [Next]_vars => IInv' BY NextInv
<1> QED BY <1>1, <1>2, PTL DEF Spec

\* Type correctness: every variable stays in its type, and a run inside its loop
\* is at one of the retryCount attempts it may make.
THEOREM TypeCorrect == Spec => []ExecutionTypeOK
<1>1. IInv => ExecutionTypeOK BY DEF IInv
<1> QED BY <1>1, Invariance, PTL

\* A job is left RUNNING without a run under way only by the end of a process or
\* by database errors in the last writes of a run.
THEOREM RunningIsAccountedFor == Spec => []NoLeakedRunning
<1>1. IInv => NoLeakedRunning BY DEF IInv
<1> QED BY <1>1, Invariance, PTL

\* However the database fails, a run makes at most retryCount requests and the row
\* of a settled run has their number.
THEOREM AttemptsCorrect == Spec => []AttemptsAccounted
<1>1. IInv => AttemptsAccounted
  BY DEF IInv, RunInv, Counted, Blamed, AttemptsAccounted
<1> QED BY <1>1, Invariance, PTL

\* An endpoint that has answered is asked again, or its run recorded as FAILED, only
\* at the cost of a database error.
THEOREM AnswersCorrect == Spec => []AnswersAccounted
<1>1. IInv => AnswersAccounted
  BY DEF IInv, RunInv, Blamed, Allowance, AnswersAccounted
<1> QED BY <1>1, Invariance, PTL

\* A row is left RUNNING only by the end of a process or by a database error.
THEOREM RowsAccountedFor == Spec => []NoOrphanRow
<1>1. ASSUME IInv PROVE NoOrphanRow
  <2>1. ASSUME NEW r \in Runs, cronExecution[r].status = "RUNNING"
        PROVE  \/ task[r].pc \in (InFlight \ {"creating"}) \union {"lost"}
               \/ task[r].pc = "rejected" /\ faults[r] >= 1
    <3>1. cronExecution[r] # NoRecord BY <2>1 DEF NoRecord
    <3>2. RunInv(r) BY <1>1 DEF IInv
    <3> QED BY <2>1, <3>1, <3>2 DEF RunInv, RowPhase, Blamed, InFlight, Pending, Looping
  <2> QED BY <2>1 DEF NoOrphanRow
<1> QED BY <1>1, Invariance, PTL

\* Every run announces its start at most once and before its end, and the end that a
\* resolved run announces is the verdict of its row.
THEOREM EventsCorrect == Spec => []EventsMatchRow
<1>1. ASSUME IInv PROVE EventsMatchRow
  <2>1. SUFFICES ASSUME NEW r \in Runs
                 PROVE  /\ notices[r] \in Endings
                        /\ cronJob[JobOf(r)] # Absent =>
                             /\ At(r, "resolved") => notices[r] = Ended(cronExecution[r].status)
                             /\ At(r, "rejected") /\ notices[r] = Started => faults[r] >= 2
    BY DEF EventsMatchRow, Endings, Started, Ended
  <2>2. RunInv(r) /\ task[r].pc \in Phases
    BY <1>1 DEF IInv, ExecutionTypeOK, TaskType
  <2>3. notices[r] \in Endings
    BY <2>2 DEF RunInv, Fresh, Announced, Endings, Phases, Pending, Early, Looping, Done
  <2> QED BY <2>2, <2>3 DEF RunInv, Blamed, At
<1> QED BY <1>1, Invariance, PTL

\* Without a database error no step changes a verdict, except by deleting the job.
THEOREM VerdictsFinal == Spec => VerdictStable
<1> DEFINE Final == \A r \in Runs : cronExecution[r].status \in Terminal /\ faults[r] = 0 =>
                      cronExecution'[r] \in {cronExecution[r], NoRecord}
<1>1. ASSUME IInv, [Next]_vars PROVE Final
  <2> SUFFICES ASSUME NEW r \in Runs, cronExecution[r].status \in Terminal, faults[r] = 0
               PROVE  cronExecution'[r] \in {cronExecution[r], NoRecord}
    OBVIOUS
  <2>1. task[r].pc \in Done
    <3>1. RunInv(r) /\ task[r].pc \in Phases BY <1>1 DEF IInv, ExecutionTypeOK, TaskType
    <3>2. cronExecution[r] # NoRecord BY DEF NoRecord, Terminal
    <3> QED BY <3>1, <3>2 DEF RunInv, RowPhase, Blamed, Fresh, Terminal, ExecutionTypeOK
  <2>2. task[r].pc \notin {"creating", "committing", "failing"} BY <2>1 DEF Done
  <2>3. CASE \E q \in Runs : Step(q)
    <3>1. PICK q \in Runs : Step(q) BY <2>3
    <3>2. CASE q = r
      BY <2>2, <3>1, <3>2
      DEF Step, MarkRunning, CreateExecution, Answer, NoAnswer, Retry, CommitSuccess,
          CommitFailure, Recover, At
    <3>3. CASE q # r
      BY <1>1, <3>1, <3>3, RunFacts
      DEF Step, MarkRunning, CreateExecution, Answer, NoAnswer, Retry, CommitSuccess,
          CommitFailure, Recover, Statement, OpenRow, Complete, Types
    <3> QED BY <3>2, <3>3
  <2>4. CASE \E q \in Runs : StopAfter(q)
    <3>1. PICK q \in Runs : Effect(q) BY <2>4 DEF StopAfter
    <3>2. CASE q = r
      BY <2>1, <3>1, <3>2 DEF Effect, Done, At
    <3>3. CASE q # r
      BY <1>1, <3>1, <3>3, RunFacts DEF Effect, OpenRow, Complete, Types
    <3> QED BY <3>2, <3>3
  <2>5. CASE \E j \in Jobs, p \in Processes : Tick(j, p) \/ Execute(j, p)
    BY <2>5 DEF Tick, Execute, ExecuteJob
  <2>6. CASE \E j \in Jobs : DeleteJob(j)
    BY <2>6 DEF DeleteJob
  <2>7. CASE \E p \in Processes : Stop(p)
    BY <2>7 DEF Stop
  <2>8. CASE UNCHANGED vars
    BY <2>8 DEF vars
  <2> QED BY <1>1, <2>3, <2>4, <2>5, <2>6, <2>7, <2>8 DEF Next
<1>2. Spec => [][Final]_vars BY <1>1, Invariance, PTL DEF Spec
<1> QED BY <1>2 DEF VerdictStable

-----------------------------------------------------------------------------
(* The queue of a process: it keeps to MAX_CONCURRENT_EXECUTIONS, leaves   *)
(* no slot free while a run waits, and starts runs in their order.         *)

\* All runs have the same priority: no caller of executeJob passes isManual.
SamePriority == \A r \in Runs : task[r].priority = 0

\* Runs are numbered in the order in which they arrive.
InOrder == \A r, s \in Runs : r < s /\ task[r].pc = "idle" => task[s].pc = "idle"

\* As long as all have the same priority, manual and scheduled runs start in one order.
InTurn ==
  \A p \in Processes : \A r \in Waiting(p), s \in On(p) : r < s => At(s, "waiting")

QueueInv == SamePriority /\ InOrder /\ ConcurrencyLimit /\ WorkConserving /\ InTurn

\* What a step of a run, or the end of a process, may do to the queue of process p:
\* nothing, hand the slot of run x on, or empty it.
Untroubled(p) == Waiting(p)' = Waiting(p) /\ Active(p)' = Active(p)
HandsOn(p, x) == /\ x \in Active(p)
                 /\ Waiting(p)' = Waiting(p) \ NextUp(p)
                 /\ Active(p)' = (Active(p) \ {x}) \union NextUp(p)
Emptied(p) == Waiting(p)' = {} /\ Active(p)' = {}

\* No run arrives.
NoArrival == \A r \in Runs : /\ task'[r].priority = task[r].priority
                             /\ task'[r].process = task[r].process
                             /\ task'[r].pc = "idle" <=> task[r].pc = "idle"

QueueStep == NoArrival /\ \A p \in Processes :
               Untroubled(p) \/ Emptied(p) \/ \E x \in Runs : HandsOn(p, x)

-----------------------------------------------------------------------------
(* The sets of waiting and active runs.                                    *)

LEMMA QueueSets ==
  ASSUME NEW p \in Processes
  PROVE  \A r :
    /\ r \in Waiting(p) <=> r \in Runs /\ task[r].process = p /\ task[r].pc = "waiting"
    /\ r \in Active(p) <=> r \in Runs /\ task[r].process = p /\ task[r].pc \in Pending
    /\ r \in Waiting(p)' <=> r \in Runs /\ task'[r].process = p /\ task'[r].pc = "waiting"
    /\ r \in Active(p)' <=> r \in Runs /\ task'[r].process = p /\ task'[r].pc \in Pending
    /\ r \in On(p) <=> r \in Runs /\ task[r].process = p /\ task[r].pc # "idle"
    /\ r \in On(p)' <=> r \in Runs /\ task'[r].process = p /\ task'[r].pc # "idle"
BY DEF Waiting, Active, On, At, Pending

\* A queue whose runs have not moved.
LEMMA Unmoved ==
  ASSUME NEW p \in Processes,
         \A w \in Runs : /\ task'[w].process = task[w].process
                         /\ task[w].process = p =>
                              /\ task'[w].pc = "waiting" <=> task[w].pc = "waiting"
                              /\ task'[w].pc \in Pending <=> task[w].pc \in Pending
  PROVE  Untroubled(p)
<1>1. \A w : w \in Waiting(p)' <=> w \in Waiting(p)
  BY QueueSets
<1>2. \A w : w \in Active(p)' <=> w \in Active(p)
  BY QueueSets
<1>3. Waiting(p)' = Waiting(p) BY <1>1
<1>4. Active(p)' = Active(p) BY <1>2
<1> QED BY <1>3, <1>4 DEF Untroubled

LEMMA QueueFinite ==
  ASSUME NEW p \in Processes
  PROVE  /\ IsFiniteSet(Runs) /\ Runs \subseteq Nat
         /\ IsFiniteSet(Waiting(p)) /\ IsFiniteSet(Active(p))
         /\ Cardinality(Active(p)) \in Nat
<1>1. IsFiniteSet(Runs) /\ Runs \subseteq Nat
  BY BoundAssumption, FS_Interval DEF Runs
<1>2. Waiting(p) \in SUBSET Runs /\ Active(p) \in SUBSET Runs
  BY QueueSets
<1>3. IsFiniteSet(Waiting(p)) /\ IsFiniteSet(Active(p))
  BY <1>1, <1>2, FS_Subset
<1> QED BY <1>1, <1>3, FS_CardinalityType

\* A nonempty set of runs has a first one.
LEMMA FirstRun ==
  ASSUME NEW T, T \subseteq Nat, T # {}
  PROVE  \E x \in T : \A y \in T : x <= y
<1>1. PICK x \in T : \A y \in T : <<y, x>> \notin OpToRel(<, Nat)
  BY NatLessThanWellFounded, WFMin
<1>2. ASSUME NEW y \in T PROVE x <= y
  <2>1. x \in Nat /\ y \in Nat OBVIOUS
  <2>2. ~(y < x) BY <1>1, <2>1 DEF OpToRel
  <2> QED BY <2>1, <2>2
<1> QED BY <1>2

\* The run that p-queue starts next: one if any waits, the first of those that do.
LEMMA OneIsNext ==
  ASSUME SamePriority, NEW p \in Processes, Waiting(p) # {}
  PROVE  \E x \in Waiting(p) : NextUp(p) = {x} /\ \A y \in Waiting(p) : x <= y
<1>1. Waiting(p) \subseteq Runs /\ Runs \subseteq Nat
  BY QueueSets, QueueFinite
<1>2. PICK x \in Waiting(p) : \A y \in Waiting(p) : x <= y
  BY <1>1, FirstRun
<1>3. ASSUME NEW r \in Waiting(p), NEW s \in Waiting(p)
      PROVE  Ahead(r, s) <=> r <= s
  <2>1. task[r].priority = 0 /\ task[s].priority = 0
    BY <1>1 DEF SamePriority
  <2> QED BY <2>1 DEF Ahead
<1>4. \A r \in NextUp(p) : r \in Waiting(p) /\ \A s \in Waiting(p) : r <= s
  BY <1>3 DEF NextUp
<1>5. x \in NextUp(p)
  BY <1>2, <1>3 DEF NextUp
<1>6. ASSUME NEW r \in NextUp(p) PROVE r = x
  <2>1. r \in Nat /\ x \in Nat /\ r <= x /\ x <= r BY <1>1, <1>2, <1>4
  <2> QED BY <2>1
<1> QED BY <1>2, <1>5, <1>6

LEMMA NoneIsNext ==
  ASSUME NEW p \in Processes, Waiting(p) = {} PROVE NextUp(p) = {}
BY DEF NextUp

-----------------------------------------------------------------------------
(* Every step that brings no new run is a QueueStep.                       *)

\* A run moves from one await to the next.
LEMMA MovesOn ==
  ASSUME NEW r \in Runs, NEW phase \in Pending, NEW t,
         task[r].pc \in Pending, task' = [task EXCEPT ![r] = t],
         t.pc = phase, t.process = task[r].process, t.priority = task[r].priority,
         task \in [Runs -> TaskType]
  PROVE  QueueStep
<1>1. task'[r] = t /\ \A w \in Runs \ {r} : task'[w] = task[w]
  OBVIOUS
<1>2. NoArrival
  BY <1>1 DEF NoArrival, Pending
<1>3. ASSUME NEW p \in Processes PROVE Untroubled(p)
  <2>1. \A w \in Runs : /\ task'[w].pc = "waiting" <=> task[w].pc = "waiting"
                        /\ task'[w].pc \in Pending <=> task[w].pc \in Pending
                        /\ task'[w].process = task[w].process
    BY <1>1 DEF Pending
  <2> QED BY <2>1, Unmoved
<1> QED BY <1>2, <1>3 DEF QueueStep

LEMMA SettledQueue ==
  ASSUME task \in [Runs -> TaskType], NEW r \in Runs, NEW verdict \in Done,
         task[r].pc \in Pending, task' = Settled(r, verdict)
  PROVE  QueueStep
<1>1. PICK q \in Processes : q = task[r].process
  BY DEF TaskType
<1>2. \A w \in Runs : task'[w] = IF w = r THEN InPhase(task[w], verdict)
                                 ELSE IF w \in NextUp(q) THEN InPhase(task[w], "starting")
                                 ELSE task[w]
  BY <1>1 DEF Settled
<1>3. \A w \in Runs : task[w] \in TaskType OBVIOUS
<1>4. verdict \in Phases /\ "starting" \in Phases /\ "waiting" \notin Pending
      /\ "starting" \in Pending /\ verdict \notin Pending
      /\ verdict # "waiting" /\ verdict # "idle"
  BY DEF Phases, Pending, Done
<1>5. NextUp(q) \subseteq Waiting(q)
      /\ \A w \in NextUp(q) : w \in Runs /\ task[w].process = q /\ task[w].pc = "waiting"
  BY <1>1, QueueSets DEF NextUp
<1>6. ASSUME NEW w \in Runs
      PROVE  /\ task'[w].priority = task[w].priority /\ task'[w].process = task[w].process
             /\ task'[w].pc = IF w = r THEN verdict
                              ELSE IF w \in NextUp(q) THEN "starting" ELSE task[w].pc
  BY <1>2, <1>3, <1>4, PhaseOnly
<1>7. NoArrival BY <1>4, <1>5, <1>6 DEF NoArrival, Pending
<1>8. HandsOn(q, r)
  <2>1. r \in Active(q) /\ r \notin NextUp(q)
    BY <1>4, <1>1, <1>5, QueueSets
  <2>2. \A w : w \in Waiting(q)' <=> w \in Waiting(q) \ NextUp(q)
    BY <1>4, <1>6, <2>1, QueueSets
  <2>3. \A w : w \in Active(q)' <=> w \in (Active(q) \ {r}) \union NextUp(q)
    BY <1>4, <1>5, <1>6, <2>1, QueueSets
  <2>4. Waiting(q)' = Waiting(q) \ NextUp(q) BY <2>2
  <2>5. Active(q)' = (Active(q) \ {r}) \union NextUp(q) BY <2>3
  <2> QED BY <2>1, <2>4, <2>5 DEF HandsOn
<1>9. ASSUME NEW p \in Processes, p # q PROVE Untroubled(p)
  <2>1. \A w \in Runs : task[w].process = p =>
          task'[w].pc = task[w].pc /\ task'[w].process = p
    BY <1>5, <1>6, <1>9, <1>1
  <2> QED BY <1>6, <2>1, Unmoved
<1> QED BY <1>7, <1>8, <1>9 DEF QueueStep

\* The end of a process, with or without a run whose rejection caused it.
LEMMA WipedQueue ==
  ASSUME task \in [Runs -> TaskType], NEW q \in Processes, task' \in [Runs -> TaskType],
         \A w \in Runs : \/ task'[w] = Wiped(q)[w]
                         \/ /\ task[w].process = q /\ task[w].pc \in Pending
                            /\ task'[w] = InPhase(task[w], "rejected")
  PROVE  QueueStep
<1>1. "lost" \in Phases /\ "rejected" \in Phases /\ "lost" \notin Pending
      /\ "rejected" \notin Pending /\ "idle" \notin Pending
  BY DEF Phases, Done, Pending
<1>2. ASSUME NEW w \in Runs
      PROVE  /\ task'[w].priority = task[w].priority /\ task'[w].process = task[w].process
             /\ \/ /\ task[w].process = q /\ task[w].pc \in Pending \union {"waiting"}
                   /\ task'[w].pc \in {"lost", "rejected"}
                \/ /\ task[w].process # q \/ task[w].pc \notin Pending \union {"waiting"}
                   /\ task'[w].pc = task[w].pc
  <2>1. task[w] \in TaskType OBVIOUS
  <2>2. w \in Waiting(q) \union Active(q) <=>
          task[w].process = q /\ task[w].pc \in Pending \union {"waiting"}
    BY QueueSets
  <2>3. CASE task'[w] = Wiped(q)[w]
    BY <1>1, <2>1, <2>2, <2>3, PhaseOnly DEF Wiped
  <2>4. CASE /\ task[w].process = q /\ task[w].pc \in Pending
             /\ task'[w] = InPhase(task[w], "rejected")
    BY <1>1, <2>1, <2>4, PhaseOnly
  <2> QED BY <2>3, <2>4
<1>3. NoArrival BY <1>1, <1>2 DEF NoArrival
<1>4. Emptied(q) BY <1>1, <1>2, QueueSets DEF Emptied
<1>5. ASSUME NEW p \in Processes, p # q PROVE Untroubled(p)
  <2>1. \A w \in Runs : /\ task'[w].process = task[w].process
                        /\ task[w].process = p => task'[w].pc = task[w].pc
    BY <1>2, <1>5
  <2> QED BY <2>1, Unmoved
<1> QED BY <1>3, <1>4, <1>5 DEF QueueStep

LEMMA RejectQueue ==
  ASSUME task \in [Runs -> TaskType], NEW r \in Runs, task[r].pc \in Pending, Reject(r)
  PROVE  QueueStep
<1>1. CASE task[r].manual
  BY <1>1, SettledQueue DEF Reject, Done
<1>2. CASE ~task[r].manual
  <2>1. task[r].process \in Processes BY DEF TaskType
  <2>2. task' = [Wiped(task[r].process) EXCEPT ![r] = InPhase(task[r], "rejected")]
    BY <1>2 DEF Reject
  <2>3. task' \in [Runs -> TaskType] BY RejectRuns
  <2>4. \A w \in Runs : \/ task'[w] = Wiped(task[r].process)[w]
                        \/ w = r /\ task'[w] = InPhase(task[r], "rejected")
    BY <2>1, <2>2, WipedRuns
  <2> QED BY <2>1, <2>3, <2>4, WipedQueue
<1> QED BY <1>1, <1>2

LEMMA ProceedQueue ==
  ASSUME task \in [Runs -> TaskType], NEW r \in Runs, task[r].pc \in Pending,
         NEW phase \in Pending, Proceed(r, phase)
  PROVE  QueueStep
<1>1. task' = [task EXCEPT ![r] = InPhase(task[r], phase)] BY DEF Proceed
<1>2. task[r] \in TaskType /\ phase \in Phases BY DEF Phases
<1> QED BY <1>1, <1>2, PhaseOnly, MovesOn

LEMMA AttemptFailedQueue ==
  ASSUME task \in [Runs -> TaskType], NEW r \in Runs, task[r].pc \in Pending,
         AttemptFailed(r)
  PROVE  QueueStep
<1> DEFINE next == IF task[r].attempt < RetryCount[JobOf(r)] THEN "backoff" ELSE "failing"
           t == [task[r] EXCEPT !.attempt = @ + 1, !.pc = next]
<1>1. task' = [task EXCEPT ![r] = t] BY DEF AttemptFailed
<1>2. next \in Pending BY DEF Pending
<1>3. t.pc = next /\ t.process = task[r].process /\ t.priority = task[r].priority
  <2> HIDE DEF next
  <2>1. task[r] \in TaskType OBVIOUS
  <2> QED BY <2>1 DEF TaskType
<1> HIDE DEF t, next
<1> QED BY <1>1, <1>2, <1>3, MovesOn

\* A run that takes a step was under way.
LEMMA StepQueue ==
  ASSUME task \in [Runs -> TaskType], NEW r \in Runs, Step(r)
  PROVE  QueueStep
<1>1. {"creating", "requesting", "failing", "recovering", "backoff", "committing",
       "starting"} \subseteq Pending /\ "resolved" \in Done
  BY DEF Pending, Done
<1>2. CASE MarkRunning(r)
  <2>1. task[r].pc \in Pending /\ (Proceed(r, "creating") \/ Reject(r))
    BY <1>1, <1>2 DEF MarkRunning, Statement, At
  <2> QED BY <1>1, <2>1, ProceedQueue, RejectQueue
<1>3. CASE CreateExecution(r)
  <2>1. task[r].pc \in Pending /\ \E phase \in Pending : Proceed(r, phase)
    BY <1>1, <1>3 DEF CreateExecution, Statement, At
  <2> QED BY <2>1, ProceedQueue
<1>4. CASE NoAnswer(r)
  <2>1. task[r].pc \in Pending /\ AttemptFailed(r)
    BY <1>1, <1>4 DEF NoAnswer, At
  <2> QED BY <2>1, AttemptFailedQueue
<1>5. CASE Retry(r)
  <2>1. task[r].pc \in Pending /\ Proceed(r, "requesting")
    BY <1>1, <1>5 DEF Retry, At
  <2> QED BY <1>1, <2>1, ProceedQueue
<1>6. ASSUME NEW reply \in Replies, Answer(r, reply) PROVE QueueStep
  <2> DEFINE t == [task[r] EXCEPT !.pc = "committing", !.reply = reply]
  <2>1. task[r].pc \in Pending /\ task' = [task EXCEPT ![r] = t]
    BY <1>1, <1>6 DEF Answer, At
  <2>2. /\ t.pc = "committing" /\ t.process = task[r].process
        /\ t.priority = task[r].priority
    <3>1. task[r] \in TaskType OBVIOUS
    <3> QED BY <3>1 DEF TaskType
  <2> HIDE DEF t
  <2> QED BY <1>1, <2>1, <2>2, MovesOn
<1>7. CASE CommitSuccess(r)
  <2>1. task[r].pc \in Pending /\ (task' = Settled(r, "resolved") \/ AttemptFailed(r))
    BY <1>1, <1>7 DEF CommitSuccess, Statement, At
  <2> QED BY <1>1, <2>1, SettledQueue, AttemptFailedQueue
<1>8. CASE CommitFailure(r)
  <2>1. task[r].pc \in Pending /\ (task' = Settled(r, "resolved") \/ Proceed(r, "recovering"))
    BY <1>1, <1>8 DEF CommitFailure, Statement, At
  <2> QED BY <1>1, <2>1, SettledQueue, ProceedQueue
<1>9. CASE Recover(r)
  <2>1. task[r].pc \in Pending /\ Reject(r)
    BY <1>1, <1>9 DEF Recover, Statement, At
  <2> QED BY <2>1, RejectQueue
<1> QED BY <1>2, <1>3, <1>4, <1>5, <1>6, <1>7, <1>8, <1>9 DEF Step

LEMMA StopQueue ==
  ASSUME task \in [Runs -> TaskType], NEW p \in Processes, Stop(p)
  PROVE  QueueStep
BY WipedRuns, WipedQueue DEF Stop

LEMMA StopAfterQueue ==
  ASSUME task \in [Runs -> TaskType], NEW r \in Runs, StopAfter(r)
  PROVE  QueueStep
<1>1. PICK p \in Processes : task' = Wiped(p) BY DEF StopAfter, TaskType
<1> QED BY <1>1, WipedRuns, WipedQueue

-----------------------------------------------------------------------------
(* The invariant of the queue.                                             *)

\* The number of active runs after a slot has been handed on.
LEMMA HandedOn ==
  ASSUME SamePriority, NEW p \in Processes, NEW x \in Runs, HandsOn(p, x)
  PROVE  Cardinality(Active(p)') =
           IF Waiting(p) = {} THEN Cardinality(Active(p)) - 1 ELSE Cardinality(Active(p))
<1>1. /\ IsFiniteSet(Active(p)) /\ Cardinality(Active(p)) \in Nat
      /\ x \in Active(p) /\ Active(p)' = (Active(p) \ {x}) \union NextUp(p)
  BY QueueFinite DEF HandsOn
<1>2. /\ IsFiniteSet(Active(p) \ {x})
      /\ Cardinality(Active(p) \ {x}) = Cardinality(Active(p)) - 1
  BY <1>1, FS_RemoveElement
<1>3. CASE Waiting(p) = {}
  BY <1>1, <1>2, <1>3, NoneIsNext
<1>4. CASE Waiting(p) # {}
  <2>1. PICK y \in Waiting(p) : NextUp(p) = {y} BY <1>4, OneIsNext
  <2>2. y \notin Active(p) BY QueueSets DEF Pending
  <2>3. Cardinality((Active(p) \ {x}) \union {y}) = Cardinality(Active(p) \ {x}) + 1
    BY <1>2, <2>2, FS_AddElement
  <2> QED BY <1>1, <1>2, <1>4, <2>1, <2>3
<1> QED BY <1>3, <1>4

\* A QueueStep keeps the invariant.
LEMMA QueueStepInv ==
  ASSUME QueueInv, QueueStep
  PROVE  QueueInv'
<1>1. SamePriority' /\ InOrder'
  BY DEF QueueInv, SamePriority, InOrder, QueueStep, NoArrival
<1>2. ASSUME NEW p \in Processes
      PROVE  /\ Cardinality(Active(p)') <= MaxConcurrent
             /\ Waiting(p)' # {} => ~(Cardinality(Active(p)') < MaxConcurrent)
  <2>1. /\ Cardinality(Active(p)) \in Nat /\ Cardinality(Active(p)) <= MaxConcurrent
        /\ Waiting(p) # {} => ~(Cardinality(Active(p)) < MaxConcurrent)
    BY QueueFinite DEF QueueInv, ConcurrencyLimit, WorkConserving, HasSlot
  <2>2. CASE Untroubled(p) BY <2>1, <2>2 DEF Untroubled
  <2>3. CASE Emptied(p)
    BY <2>3, FS_EmptySet, ConcurrencyAssumption DEF Emptied
  <2>4. ASSUME NEW x \in Runs, HandsOn(p, x)
        PROVE  /\ Cardinality(Active(p)') <= MaxConcurrent
               /\ Waiting(p)' # {} => ~(Cardinality(Active(p)') < MaxConcurrent)
    <3>1. Waiting(p)' # {} => Waiting(p) # {} BY <2>4 DEF HandsOn
    <3> QED BY <2>1, <2>4, <3>1, HandedOn, ConcurrencyAssumption DEF QueueInv
  <2> QED BY <2>2, <2>3, <2>4 DEF QueueStep
<1>3. ASSUME NEW p \in Processes, NEW r \in Waiting(p)', NEW s \in On(p)', r < s
      PROVE  s \in Waiting(p)'
  <2>1. s \in On(p) /\ r \in Runs /\ s \in Runs
    BY QueueSets DEF QueueStep, NoArrival
  <2>2. r \in Waiting(p) => s \in Waiting(p)
    BY <1>3, <2>1, QueueSets DEF QueueInv, InTurn, At
  <2>3. CASE Untroubled(p) BY <2>2, <2>3 DEF Untroubled
  <2>4. CASE Emptied(p) BY <2>4 DEF Emptied
  <2>5. ASSUME NEW x \in Runs, HandsOn(p, x) PROVE s \in Waiting(p)'
    <3>1. r \in Waiting(p) /\ s \in Waiting(p) BY <2>2, <2>5 DEF HandsOn
    <3>2. PICK y \in Waiting(p) : NextUp(p) = {y} /\ \A z \in Waiting(p) : y <= z
      BY <3>1, OneIsNext DEF QueueInv
    <3>3. y # s
      <4>1. y <= r /\ r \in Nat /\ s \in Nat BY <2>1, <3>1, <3>2, QueueFinite
      <4> QED BY <1>3, <4>1
    <3> QED BY <2>5, <3>1, <3>2, <3>3 DEF HandsOn
  <2> QED BY <2>3, <2>4, <2>5 DEF QueueStep
<1>4. ConcurrencyLimit' /\ WorkConserving'
  BY <1>2 DEF ConcurrencyLimit, WorkConserving, HasSlot
<1>5. InTurn'
  BY <1>3, QueueSets DEF InTurn, At
<1> QED BY <1>1, <1>4, <1>5 DEF QueueInv

\* A new run is the last one; it starts only if none waits.
LEMMA ArrivalQueue ==
  ASSUME QueueInv, task \in [Runs -> TaskType], NEW j \in Jobs, NEW p \in Processes,
         NEW manual \in BOOLEAN, ExecuteJob(j, p, manual, FALSE)
  PROVE  QueueInv'
<1>1. PICK r \in Runs : /\ task[r].pc = "idle" /\ \A s \in Runs : s < r => task[s].pc # "idle"
                        /\ task'[r].process = p /\ task'[r].priority = 0
                        /\ task'[r].pc = IF HasSlot(p) THEN "starting" ELSE "waiting"
                        /\ \A w \in Runs \ {r} : task'[w] = task[w]
  <2> DEFINE t == [Idle EXCEPT !.pc = IF HasSlot(p) THEN "starting" ELSE "waiting",
                               !.job = j, !.process = p, !.manual = manual, !.priority = 0]
  <2>1. PICK r \in Runs : /\ task[r].pc = "idle" /\ \A s \in Runs : s < r => task[s].pc # "idle"
                          /\ task' = [task EXCEPT ![r] = t]
    BY DEF ExecuteJob, At
  <2>2. /\ t.process = p /\ t.priority = 0
        /\ t.pc = IF HasSlot(p) THEN "starting" ELSE "waiting"
    BY DEF Idle
  <2> HIDE DEF t
  <2>3. task'[r] = t /\ \A w \in Runs \ {r} : task'[w] = task[w] BY <2>1
  <2> QED BY <2>1, <2>2, <2>3
<1>2. /\ SamePriority /\ InOrder /\ InTurn
      /\ Cardinality(Active(p)) \in Nat /\ IsFiniteSet(Active(p))
      /\ Cardinality(Active(p)) <= MaxConcurrent
      /\ Waiting(p) # {} => ~HasSlot(p)
  BY QueueFinite DEF QueueInv, ConcurrencyLimit, WorkConserving
<1>3. SamePriority' BY <1>1, <1>2 DEF SamePriority
<1>4. InOrder'
  <2>1. SUFFICES ASSUME NEW s \in Runs, NEW u \in Runs, s < u, task'[s].pc = "idle"
                 PROVE  task'[u].pc = "idle"
    BY DEF InOrder
  <2>2. s # r /\ task[s].pc = "idle" BY <1>1, <2>1
  <2>3. u # r BY <1>1, <2>1, <2>2
  <2> QED BY <1>1, <1>2, <2>1, <2>2, <2>3 DEF InOrder
<1>5. \A q \in Processes, w \in Runs \ {r} :
        /\ w \in Waiting(q)' <=> w \in Waiting(q)
        /\ w \in Active(q)' <=> w \in Active(q)
        /\ w \in On(q)' <=> w \in On(q)
  BY <1>1, QueueSets
<1>6. \A q \in Processes : r \notin Waiting(q) /\ r \notin Active(q)
  BY <1>1, QueueSets DEF Pending
<1>7. \A q \in Processes \ {p} : r \notin Waiting(q)' /\ r \notin Active(q)' /\ r \notin On(q)'
  BY <1>1, QueueSets
<1>8. \A q \in Processes : \A w : w \in Waiting(q) \union Active(q) \union Waiting(q)'
                               \union Active(q)' \union On(q)' => w \in Runs
  BY QueueSets
<1>9. ASSUME NEW q \in Processes, q # p PROVE Untroubled(q)
  <2>1. \A w : w \in Waiting(q)' <=> w \in Waiting(q) BY <1>5, <1>6, <1>7, <1>8, <1>9
  <2>2. \A w : w \in Active(q)' <=> w \in Active(q) BY <1>5, <1>6, <1>7, <1>8, <1>9
  <2>3. Waiting(q)' = Waiting(q) BY <2>1
  <2>4. Active(q)' = Active(q) BY <2>2
  <2> QED BY <2>3, <2>4 DEF Untroubled
<1>10. CASE HasSlot(p)
  <2>1. Waiting(p) = {} /\ Cardinality(Active(p)) < MaxConcurrent
    BY <1>2, <1>10 DEF HasSlot
  <2>2. r \in Active(p)' /\ r \notin Waiting(p)' BY <1>1, <1>10, QueueSets DEF Pending
  <2>3. Waiting(p)' = {} BY <1>5, <1>8, <2>1, <2>2
  <2>4. \A w : w \in Active(p)' <=> w \in Active(p) \union {r} BY <1>5, <1>8, <2>2
  <2>5. Active(p)' = Active(p) \union {r} BY <2>4
  <2>6. Cardinality(Active(p)') <= MaxConcurrent
    <3>1. Cardinality(Active(p) \union {r}) = Cardinality(Active(p)) + 1
      BY <1>2, <1>6, FS_AddElement
    <3> QED BY <1>2, <2>1, <2>5, <3>1, ConcurrencyAssumption
  <2>7. ConcurrencyLimit' /\ WorkConserving'
    BY <1>9, <2>3, <2>6
    DEF QueueInv, ConcurrencyLimit, WorkConserving, HasSlot, Untroubled
  <2>8. InTurn'
    BY <1>2, <1>5, <1>7, <1>8, <1>9, <2>3, QueueSets DEF InTurn, Untroubled, At
  <2> QED BY <1>3, <1>4, <2>7, <2>8 DEF QueueInv
<1>11. CASE ~HasSlot(p)
  <2>1. r \in Waiting(p)' /\ r \notin Active(p)' BY <1>1, <1>11, QueueSets DEF Pending
  <2>2. \A w : w \in Active(p)' <=> w \in Active(p) BY <1>5, <1>6, <1>8, <2>1
  <2>3. Active(p)' = Active(p) BY <2>2
  <2>4. ConcurrencyLimit' /\ WorkConserving'
    BY <1>9, <1>11, <2>3
    DEF QueueInv, ConcurrencyLimit, WorkConserving, HasSlot, Untroubled
  <2>5. ASSUME NEW q \in Processes, NEW w \in Waiting(q)', NEW s \in On(q)', w < s
        PROVE  s \in Waiting(q)'
    <3>1. CASE s = r
      <4>1. q = p BY <1>7, <3>1
      <4> QED BY <2>1, <3>1, <4>1
    <3>2. CASE s # r /\ w = r
      <4>1. task[s].pc # "idle" /\ s \in Runs BY <1>1, <1>8, <3>2, QueueSets
      <4> QED BY <1>1, <1>2, <2>5, <3>2, <4>1 DEF InOrder
    <3>3. CASE s # r /\ w # r
      <4>1. w \in Waiting(q) /\ s \in On(q) BY <1>5, <1>8, <3>3
      <4>2. s \in Waiting(q) BY <1>2, <2>5, <4>1, <1>8, QueueSets DEF InTurn, At
      <4> QED BY <1>5, <1>8, <3>3, <4>2
    <3> QED BY <3>1, <3>2, <3>3
  <2>6. InTurn' BY <2>5, QueueSets DEF InTurn, At
  <2> QED BY <1>3, <1>4, <2>4, <2>6 DEF QueueInv
<1> QED BY <1>10, <1>11

LEMMA QueueInit == Init => QueueInv
<1> SUFFICES ASSUME Init PROVE QueueInv OBVIOUS
<1>1. \A r \in Runs : task[r].pc = "idle" /\ task[r].priority = 0
  BY DEF Init, Idle
<1>2. \A p \in Processes : Waiting(p) = {} /\ Active(p) = {}
  BY <1>1, QueueSets DEF Pending
<1>3. ConcurrencyLimit BY <1>2, FS_EmptySet, ConcurrencyAssumption DEF ConcurrencyLimit
<1> QED BY <1>1, <1>2, <1>3 DEF QueueInv, SamePriority, InOrder, WorkConserving, InTurn

LEMMA QueueNext == IInv /\ QueueInv /\ [Next]_vars => QueueInv'
<1> SUFFICES ASSUME IInv, QueueInv, [Next]_vars PROVE QueueInv' OBVIOUS
<1>1. task \in [Runs -> TaskType] BY DEF IInv, ExecutionTypeOK
<1>2. ASSUME NEW r \in Runs, Step(r) \/ StopAfter(r) PROVE QueueInv'
  BY <1>1, <1>2, StepQueue, StopAfterQueue, QueueStepInv
<1>3. ASSUME NEW j \in Jobs, NEW p \in Processes, Tick(j, p) \/ Execute(j, p)
      PROVE  QueueInv'
  BY <1>1, <1>3, ArrivalQueue DEF Tick, Execute
<1>4. ASSUME NEW p \in Processes, Stop(p) PROVE QueueInv'
  BY <1>1, <1>4, StopQueue, QueueStepInv
<1>5. CASE UNCHANGED task
  <2>1. QueueStep
    BY <1>5 DEF QueueStep, NoArrival, Untroubled, Waiting, Active, On, At
  <2> QED BY <2>1, QueueStepInv
<1>6. ASSUME NEW j \in Jobs, DeleteJob(j) PROVE QueueInv'
  BY <1>5, <1>6 DEF DeleteJob
<1>7. CASE UNCHANGED vars
  BY <1>5, <1>7 DEF vars
<1> QED BY <1>2, <1>3, <1>4, <1>6, <1>7 DEF Next

\* The invariant of the queue holds for every number of slots, runs and processes.
THEOREM QueueInvariance == Spec => []QueueInv
<1>1. Init => QueueInv BY QueueInit
<1>2. IInv /\ QueueInv /\ [Next]_vars => QueueInv' BY QueueNext
<1> QED BY <1>1, <1>2, Invariance, PTL DEF Spec

\* Whatever the number of runs and however they end, at most
\* MAX_CONCURRENT_EXECUTIONS are under way in a process.
THEOREM LimitKept == Spec => []ConcurrencyLimit
<1>1. QueueInv => ConcurrencyLimit BY DEF QueueInv
<1> QED BY <1>1, QueueInvariance, PTL

\* A run waits only while every slot of its process is taken.
THEOREM NoSlotIdle == Spec => []WorkConserving
<1>1. QueueInv => WorkConserving BY DEF QueueInv
<1> QED BY <1>1, QueueInvariance, PTL

\* Scheduled runs of a process start in the order in which they were handed over, and
\* so do its manual runs.
THEOREM FirstComeFirstServed == Spec => []NoOvertaking
<1>1. QueueInv => NoOvertaking BY DEF QueueInv, InTurn, NoOvertaking
<1> QED BY <1>1, QueueInvariance, PTL

-----------------------------------------------------------------------------
(* JobExecution implements RunLedger: every step of the scheduler, of a    *)
(* run, of the database and of a process that ends is a step of the ledger *)
(* or leaves it as it is.                                                  *)

\* A run in its loop has a row, as long as its job exists.
HasRow(r) ==
  task[r].pc \in {"requesting", "backoff", "committing", "failing"}
    /\ cronJob[task[r].job] # Absent => cronExecution[r].status # "NONE"

LedgerInv == IInv /\ \A r \in Runs : HasRow(r)

\* A step of run r, as far as it concerns the ledger's view of the runs.
StepOf(r) ==
  /\ task[r].pc \in Pending
  /\ task'[r].pc # "idle" /\ task'[r].job = task[r].job
  /\ \A w \in Runs \ {r} : Bystander(w) /\ cronExecution'[w] = cronExecution[w]
  /\ \A j \in Jobs : cronJob'[j] = Absent <=> cronJob[j] = Absent

-----------------------------------------------------------------------------
(* The ledger's variables under the steps of the system.                   *)

LEMMA RowOf ==
  ASSUME NEW r \in Runs
  PROVE  RowStatus[r] = cronExecution[r].status /\ RowStatus'[r] = cronExecution'[r].status
BY DEF RowStatus

LEMMA RowSet ==
  ASSUME NEW r \in Runs, cronExecution \in [Runs -> RecordType],
         cronExecution' \in [Runs -> RecordType],
         \A w \in Runs \ {r} : cronExecution'[w] = cronExecution[w]
  PROVE  RowStatus' = [RowStatus EXCEPT ![r] = cronExecution'[r].status]
BY DEF RowStatus

LEMMA RowSame ==
  ASSUME cronExecution' = cronExecution
  PROVE  RowStatus' = RowStatus
BY DEF RowStatus

LEMMA DisturbedSame ==
  ASSUME faults' = faults
  PROVE  Disturbed' = Disturbed
BY DEF Disturbed

LEMMA DisturbedMore ==
  ASSUME faults \in [Runs -> 0 .. MaxFaults], NEW r \in Runs, Fault(r)
  PROVE  Disturbed' = Disturbed \union {r}
<1>1. faults'[r] = faults[r] + 1 /\ \A w \in Runs \ {r} : faults'[w] = faults[w]
  BY FaultCounted
<1>2. faults'[r] > 0  BY <1>1, BoundAssumption
<1> QED BY <1>1, <1>2 DEF Disturbed

\* Runs end, and stay ended.
LEMMA OverGrows ==
  ASSUME NEW r \in Runs, StepOf(r)
  PROVE  /\ Over \subseteq Over' /\ Over' \subseteq Runs /\ r \notin Over
         /\ task'[r].pc \in Done => r \in Over'
<1>1. \A w \in Runs \ {r} : task[w].pc \in Done => task'[w].pc \in Done
  BY DEF StepOf, Bystander, Pending, Done
<1>2. task[r].pc \notin Done  BY DEF StepOf, Pending, Done
<1> QED BY <1>1, <1>2 DEF Over

\* A run that looks on keeps its job, and is idle no more and no less than before.
LEMMA OnlookerStays ==
  ASSUME IInv, NEW w \in Runs, Bystander(w)
  PROVE  task'[w].job = task[w].job /\ (task'[w].pc = "idle" <=> task[w].pc = "idle")
<1>1. task[w] \in TaskType /\ "starting" \in Phases /\ "lost" \in Phases
  BY RunFacts DEF Phases, Pending, Done
<1>2. task[w].pc \in Phases  BY <1>1, PhaseAsIs
<1>3. task'[w].pc \in Phases  BY <1>1, <1>2 DEF Bystander
<1>4. task'[w].job = task[w].job  BY <1>1, <1>3, PhaseOnly DEF Bystander
<1> QED BY <1>4 DEF Bystander, Pending

LEMMA GoneSame ==
  ASSUME IInv, NEW r \in Runs, StepOf(r)
  PROVE  Gone' = Gone
<1>1. \A w \in Runs : /\ task'[w].job = task[w].job
                      /\ task'[w].pc = "idle" <=> task[w].pc = "idle"
  BY OnlookerStays DEF StepOf, Pending
<1>2. \A w \in Runs : task[w].job \in Jobs  BY RunFacts
<1> QED BY <1>1, <1>2 DEF StepOf, Gone

\* A step of run r leaves the others their rows.
LEMMA OthersKeepRows ==
  ASSUME LedgerInv, NEW r \in Runs, StepOf(r), HasRow(r)'
  PROVE  \A w \in Runs : HasRow(w)'
<1>1. ASSUME NEW w \in Runs \ {r} PROVE HasRow(w)'
  <2>1. Bystander(w) /\ cronExecution'[w] = cronExecution[w]  BY DEF StepOf
  <2>2. task'[w].job = task[w].job /\ task[w].job \in Jobs
    BY <2>1, OnlookerStays, RunFacts DEF LedgerInv
  <2> QED BY <2>1, <2>2 DEF LedgerInv, HasRow, StepOf, Bystander
<1> QED BY <1>1

\* A step that changes the phase of run r alone, before it ends.
LEMMA OverSame ==
  ASSUME NEW r \in Runs, task[r].pc \notin Done, task'[r].pc \notin Done,
         \A w \in Runs \ {r} : task'[w].pc = task[w].pc
  PROVE  Over' = Over
BY DEF Over

\* The run that settles is the only one that ends.
LEMMA SettledOver ==
  ASSUME IInv, NEW r \in Runs, task' = Settled(r, "resolved")
  PROVE  Over' = Over \union {r}
<1>1. task'[r].pc = "resolved"
  BY RunFacts, SettledRuns, PhaseOnly DEF Done, Phases
<1>2. ASSUME NEW w \in Runs \ {r} PROVE task'[w].pc \in Done <=> task[w].pc \in Done
  <2>1. task[w] \in TaskType /\ "starting" \in Phases  BY RunFacts DEF Phases, Pending
  <2>2. \/ task'[w] = task[w]
        \/ task[w].pc = "waiting" /\ task'[w] = InPhase(task[w], "starting")
    BY DEF Settled, NextUp, Waiting, On
  <2> QED BY <2>1, <2>2, PhaseOnly DEF Done
<1> QED BY <1>1, <1>2 DEF Over, Done

-----------------------------------------------------------------------------
(* The steps of the ledger.                                                *)

\* A statement of run r that ends in an error, or with its process.
LEMMA ErrorDisturbs ==
  ASSUME IInv, NEW r \in Runs, StepOf(r), Fault(r), UNCHANGED notices,
         RowStatus' = RowStatus \/ Ledger!WriteRow(r)
  PROVE  Ledger!Disturb(r)
<1>1. Disturbed' = Disturbed \union {r}  BY RunFacts, DisturbedMore DEF Types
<1>2. Gone' = Gone  BY GoneSame
<1>3. /\ Over \subseteq Over' /\ Over' \in SUBSET Runs /\ r \notin Over
      /\ Over' = Over \union Over'
  BY OverGrows
<1> QED BY <1>1, <1>2, <1>3 DEF Ledger!Disturb

LEMMA EndVanishes ==
  ASSUME IInv, NEW r \in Runs, StepOf(r), task'[r].pc \in Done,
         UNCHANGED <<faults, notices>>,
         RowStatus' = RowStatus \/ Ledger!WriteRow(r)
  PROVE  Ledger!Vanish(r)
<1>1. Disturbed' = Disturbed  BY DisturbedSame
<1>2. Gone' = Gone  BY GoneSame
<1>3. /\ Over \subseteq Over' /\ Over' \in SUBSET Runs /\ r \notin Over /\ r \in Over'
      /\ Over' = Over \union Over'
  BY OverGrows
<1> QED BY <1>1, <1>2, <1>3 DEF Ledger!Vanish

LEMMA EventNames == Ledger!Nothing = <<>> /\ Ledger!Began = Started
                    /\ \A v : Ledger!Told(v) = Ended(v)
BY DEF Ledger!Nothing, Ledger!Began, Ledger!Told, Started, Ended

\* A run that is about to close its row finds it open, or closed by a transaction
\* whose confirmation was lost.
LEMMA Closable ==
  ASSUME LedgerInv, NEW r \in Runs, task[r].pc \in {"committing", "failing"},
         cronJob[task[r].job] # Absent
  PROVE  \/ cronExecution[r].status = "RUNNING"
         \/ cronExecution[r].status \in Terminal /\ r \in Disturbed
<1>1. cronExecution[r] \in RecordType /\ RunInv(r) /\ faults[r] \in Nat
  BY RunFacts DEF LedgerInv, Types
<1>2. cronExecution[r].status \in {"RUNNING"} \union Terminal
  BY <1>1 DEF LedgerInv, HasRow, RecordType
<1> QED BY <1>1, <1>2 DEF RunInv, RowPhase, Disturbed, Terminal, Done

\* A statement of run r that changes its row.
LEMMA WritesRow ==
  ASSUME LedgerInv, NEW r \in Runs, cronJob[task[r].job] # Absent,
         cronExecution' \in [Runs -> RecordType],
         \A w \in Runs \ {r} : cronExecution'[w] = cronExecution[w],
         \/ task[r].pc = "creating" /\ cronExecution'[r].status = "RUNNING"
         \/ /\ task[r].pc \in {"committing", "failing"}
            /\ cronExecution'[r].status \in Terminal
  PROVE  Ledger!WriteRow(r)
<1>1. /\ RunInv(r) /\ Types
      /\ RowStatus' = [RowStatus EXCEPT ![r] = cronExecution'[r].status]
      /\ RowStatus[r] = cronExecution[r].status
  BY RunFacts, RowSet, RowOf DEF LedgerInv, Types
<1>2. r \notin Gone  BY DEF Gone
<1>3. notices[r] = Ledger!Began
  BY <1>1, EventNames DEF RunInv, Fresh, Announced, Early, Looping
<1>4. CASE task[r].pc = "creating" /\ cronExecution'[r].status = "RUNNING"
  <2>1. RowStatus[r] = "NONE"  BY <1>1, <1>4 DEF RunInv, Fresh, Early, NoRecord
  <2> QED BY <1>1, <1>2, <1>3, <1>4, <2>1 DEF Ledger!WriteRow, Ledger!OpenRow, Ledger!SetRow
<1>5. CASE task[r].pc \in {"committing", "failing"} /\ cronExecution'[r].status \in Terminal
  <2>1. \E verdict \in Ledger!Verdicts : Ledger!CloseRow(r, verdict)
    BY <1>1, <1>5, Closable DEF Ledger!CloseRow, Ledger!SetRow, Ledger!Verdicts, Terminal
  <2> QED BY <1>2, <1>3, <2>1 DEF Ledger!WriteRow
<1> QED BY <1>4, <1>5

LEMMA InitLedger == Init => Ledger!Init
<1> SUFFICES ASSUME Init PROVE Ledger!Init OBVIOUS
<1>1. RowStatus = [r \in Runs |-> "NONE"]  BY DEF Init, RowStatus, NoRecord
<1>2. \A r \in Runs : task[r].pc = "idle"  BY DEF Init, Idle
<1>3. Disturbed = {} /\ Over = {} /\ Gone = {}
  BY <1>2 DEF Init, Disturbed, Over, Gone, Done
<1> QED BY <1>1, <1>3 DEF Init, Ledger!Init, Ledger!Nothing

LEMMA MarkRunningLedger ==
  ASSUME LedgerInv, NEW r \in Runs, MarkRunning(r)
  PROVE  /\ Ledger!Begin(r) \/ Ledger!Disturb(r) \/ Ledger!Vanish(r)
         /\ \A w \in Runs : HasRow(w)'
<1> USE DEF LedgerInv
<1>1. /\ task[r].pc = "starting" /\ task[r].job \in Jobs /\ notices[r] = <<>>
      /\ Types /\ task \in [Runs -> TaskType] /\ RowStatus' = RowStatus
  BY RunFacts, RowSame DEF MarkRunning, RunInv, Fresh, Early
<1>2. CASE /\ cronJob[task[r].job] # Absent /\ SetJob(r, "RUNNING")
           /\ Proceed(r, "creating") /\ Emit(r, "started") /\ UNCHANGED <<cronExecution, faults>>
  <2>1. Moves(r, "creating", task[r].attempt)
    BY <1>1, <1>2, ProceedMoves DEF Phases, Pending
  <2>2. StepOf(r)
    BY <1>1, <1>2, <2>1 DEF StepOf, Moves, Pending, SetJob, Types
  <2>3. \A w \in Runs \ {r} : task'[w].pc = task[w].pc  BY <1>1, <1>2 DEF Proceed
  <2>4. Over' = Over /\ r \notin Over  BY <1>1, <2>1, <2>3, OverSame DEF Moves, Done, Over
  <2>5. notices' = [notices EXCEPT ![r] = Started]
    BY <1>1, <1>2, StartEvent DEF Emit
  <2>6. Gone' = Gone /\ Disturbed' = Disturbed  BY <1>2, <2>2, GoneSame, DisturbedSame
  <2>7. HasRow(r)'  BY <2>1 DEF HasRow, Moves
  <2> QED BY <1>1, <2>2, <2>4, <2>5, <2>6, <2>7, EventNames, OthersKeepRows DEF Ledger!Begin
<1>3. CASE /\ Reject(r) /\ UNCHANGED <<cronExecution, notices>>
           /\ \/ SetJob(r, "RUNNING") /\ Fault(r) /\ cronJob[task[r].job] # Absent
              \/ UNCHANGED cronJob /\ Fault(r)
              \/ UNCHANGED <<cronJob, faults>>
  <2>1. Moves(r, "rejected", task[r].attempt)  BY <1>1, <1>3, RejectMoves
  <2>2. StepOf(r)
    BY <1>1, <1>3, <2>1 DEF StepOf, Moves, Pending, SetJob, Types
  <2>3. task'[r].pc \in Done  BY <2>1 DEF Moves, Done
  <2>4. HasRow(r)'  BY <2>1 DEF HasRow, Moves
  <2> QED BY <1>1, <1>3, <2>2, <2>3, <2>4, ErrorDisturbs, EndVanishes, OthersKeepRows
<1> QED BY <1>2, <1>3 DEF MarkRunning, Statement

\* A step that moves run r between two phases of its code is none of the ledger's.
LEMMA Unseen ==
  ASSUME LedgerInv, NEW r \in Runs, StepOf(r), task'[r].pc \notin Done,
         \A w \in Runs \ {r} : task'[w].pc = task[w].pc,
         UNCHANGED <<cronExecution, faults, notices>>
  PROVE  UNCHANGED Ledger!ledger
<1>1. RowStatus' = RowStatus /\ Disturbed' = Disturbed  BY RowSame, DisturbedSame
<1>2. Over' = Over  BY OverSame DEF StepOf, Pending, Done
<1>3. Gone' = Gone  BY GoneSame DEF LedgerInv
<1> QED BY <1>1, <1>2, <1>3 DEF Ledger!ledger

LEMMA CreateExecutionLedger ==
  ASSUME LedgerInv, NEW r \in Runs, CreateExecution(r)
  PROVE  /\ Ledger!Open(r) \/ Ledger!Disturb(r) \/ UNCHANGED Ledger!ledger
         /\ \A w \in Runs : HasRow(w)'
<1> USE DEF LedgerInv
<1>1. task[r].pc = "creating" /\ UNCHANGED <<cronJob, notices>>
  BY DEF CreateExecution
<1>2. Types /\ RunInv(r) /\ RetryCount[task[r].job] \in Nat  BY RunFacts
<1> DEFINE first == IF RetryCount[task[r].job] >= 1 THEN "requesting" ELSE "failing"
<1>3. ASSUME NEW phase \in {"requesting", "failing", "recovering"}, Proceed(r, phase),
             \A w \in Runs \ {r} : cronExecution'[w] = cronExecution[w]
      PROVE  /\ StepOf(r) /\ task'[r].pc = phase /\ task'[r].job = task[r].job
             /\ \A w \in Runs \ {r} : task'[w].pc = task[w].pc
  <2>1. Moves(r, phase, task[r].attempt)
    BY <1>2, <1>3, ProceedMoves DEF Types, Phases, Pending
  <2> QED BY <1>1, <1>3, <2>1 DEF StepOf, Moves, Pending, Proceed
<1>4. ASSUME OpenRow(r)
      PROVE  /\ cronExecution' \in [Runs -> RecordType]
             /\ cronExecution'[r].status = "RUNNING"
             /\ \A w \in Runs \ {r} : cronExecution'[w] = cronExecution[w]
  <2>1. Record("RUNNING", 1, NoReply) \in RecordType  BY RecordTypes
  <2> QED BY <1>2, <1>4, <2>1 DEF OpenRow, Record, Types
<1>5. CASE /\ cronJob[task[r].job] # Absent /\ OpenRow(r)
           /\ Proceed(r, first) /\ UNCHANGED faults
  <2>1. StepOf(r) /\ task'[r].pc = first /\ \A w \in Runs \ {r} : task'[w].pc = task[w].pc
    BY <1>3, <1>4, <1>5
  <2>2. Ledger!WriteRow(r)  BY <1>1, <1>4, <1>5, WritesRow
  <2>3. RowStatus[r] = "NONE" /\ RowStatus' = [RowStatus EXCEPT ![r] = "RUNNING"]
    <3>1. cronExecution[r].status = "NONE" /\ cronExecution \in [Runs -> RecordType]
      BY <1>1, <1>2 DEF RunInv, Fresh, Early, NoRecord, Types
    <3> QED BY <1>4, <1>5, <3>1, RowOf, RowSet
  <2>4. Over' = Over /\ r \notin Over
    BY <1>1, <2>1, OverSame DEF Done, Over
  <2>5. Gone' = Gone /\ Disturbed' = Disturbed  BY <1>5, <2>1, GoneSame, DisturbedSame
  <2>6. HasRow(r)'  BY <1>4, <1>5 DEF HasRow
  <2>7. Ledger!Open(r)
    BY <1>1, <2>2, <2>3, <2>4, <2>5 DEF Ledger!Open, Ledger!WriteRow, Ledger!OpenRow, Ledger!SetRow
  <2> QED BY <2>1, <2>6, <2>7, OthersKeepRows
<1>6. CASE /\ Proceed(r, "recovering")
           /\ \/ OpenRow(r) /\ cronJob[task[r].job] # Absent /\ Fault(r)
              \/ UNCHANGED cronExecution /\ Fault(r)
              \/ UNCHANGED <<cronExecution, faults>>
  <2>1. StepOf(r) /\ task'[r].pc = "recovering"
        /\ \A w \in Runs \ {r} : task'[w].pc = task[w].pc
    BY <1>3, <1>4, <1>6
  <2>2. HasRow(r)'  BY <2>1 DEF HasRow
  <2>3. Fault(r) => RowStatus' = RowStatus \/ Ledger!WriteRow(r)
    BY <1>1, <1>4, <1>6, RowSame, WritesRow
  <2>4. Fault(r) => Ledger!Disturb(r)  BY <1>1, <2>1, <2>3, ErrorDisturbs
  <2>5. ~Fault(r) => UNCHANGED Ledger!ledger  BY <1>1, <1>6, <2>1, Unseen DEF Done
  <2> QED BY <2>1, <2>2, <2>4, <2>5, OthersKeepRows
<1> QED BY <1>5, <1>6 DEF CreateExecution, Statement

LEMMA AttemptLedger ==
  ASSUME LedgerInv, NEW r \in Runs,
         NoAnswer(r) \/ Retry(r) \/ \E reply \in Replies : Answer(r, reply)
  PROVE  UNCHANGED Ledger!ledger /\ \A w \in Runs : HasRow(w)'
<1> USE DEF LedgerInv
<1> DEFINE looping == {"requesting", "backoff", "committing", "failing"}
<1>1. /\ task[r].pc \in {"requesting", "backoff"}
      /\ UNCHANGED <<cronJob, cronExecution, faults, notices>>
  BY DEF NoAnswer, Retry, Answer
<1>2. task \in [Runs -> TaskType] /\ task[r] \in TaskType  BY RunFacts
<1>3. /\ task'[r].pc \in looping /\ task'[r].job = task[r].job
      /\ \A w \in Runs \ {r} : Bystander(w) /\ task'[w].pc = task[w].pc
  <2>1. CASE NoAnswer(r)
    BY <1>2, <2>1, AttemptFailedMoves DEF NoAnswer, Moves, AttemptFailed
  <2>2. CASE Retry(r)
    BY <1>2, <2>2, ProceedMoves DEF Retry, Moves, Phases, Pending, Proceed
  <2>3. CASE \E reply \in Replies : Answer(r, reply)
    BY <1>2, <2>3, AnswerMoves DEF Answer, Moves
  <2> QED BY <2>1, <2>2, <2>3
<1>4. StepOf(r)  BY <1>1, <1>3 DEF StepOf, Pending
<1>5. UNCHANGED Ledger!ledger  BY <1>1, <1>3, <1>4, Unseen DEF Done
<1>6. HasRow(r)'  BY <1>1, <1>3 DEF HasRow
<1> QED BY <1>4, <1>5, <1>6, OthersKeepRows

\* The values a transaction of run r writes.
LEMMA WrittenValues ==
  ASSUME IInv, NEW r \in Runs
  PROVE  /\ task[r].reply \in Replies \union {NoReply} /\ task[r].attempt \in Nat
         /\ cronExecution[r].responseStatus \in Replies \union {NoReply}
         /\ task[r].pc = "failing" => task[r].attempt - 1 \in Nat
<1>1. task[r] \in TaskType /\ cronExecution[r] \in RecordType /\ RunInv(r) /\ calls[r] \in Nat
  BY RunFacts DEF Types
<1> QED BY <1>1 DEF TaskType, RecordType, RunInv, Counted

\* A confirmed transaction closes the row and announces its verdict.
LEMMA ConfirmedLedger ==
  ASSUME LedgerInv, NEW r \in Runs, NEW verdict \in Terminal, NEW attempt \in Nat,
         NEW reply \in Replies \union {NoReply},
         task[r].pc \in {"committing", "failing"}, cronJob[task[r].job] # Absent,
         Complete(r, verdict, attempt, reply),
         task' = Settled(r, "resolved"), Emit(r, verdict), UNCHANGED faults
  PROVE  Ledger!Close(r, verdict) /\ \A w \in Runs : HasRow(w)'
<1> USE DEF LedgerInv
<1>1. /\ cronJob'[task[r].job] = verdict
      /\ \A j \in Jobs \ {task[r].job} : cronJob'[j] = cronJob[j]
      /\ cronExecution' \in [Runs -> RecordType] /\ cronExecution'[r].status = verdict
      /\ \A w \in Runs \ {r} : cronExecution'[w] = cronExecution[w]
  BY CompleteEffect
<1>2. Types /\ RunInv(r)  BY RunFacts
<1>3. Moves(r, "resolved", task[r].attempt)  BY <1>2, SettledMoves DEF Types, Done
<1>4. StepOf(r)
  <2>1. \A j \in Jobs : cronJob'[j] = Absent <=> cronJob[j] = Absent
    BY <1>1 DEF Terminal
  <2> QED BY <1>1, <1>3, <2>1 DEF StepOf, Moves, Pending
<1>5. Over' = Over \union {r} /\ r \notin Over  BY SettledOver DEF Over, Done
<1>6. notices[r] = Started /\ notices' = [notices EXCEPT ![r] = Ended(verdict)]
  BY <1>2, EndEvent DEF RunInv, Announced, Looping, Emit
<1>7. RowStatus' = [RowStatus EXCEPT ![r] = verdict] /\ RowStatus[r] = cronExecution[r].status
  BY <1>1, <1>2, RowSet, RowOf DEF Types
<1>8. Ledger!CloseRow(r, verdict)
  BY <1>7, Closable DEF Ledger!CloseRow, Ledger!SetRow, Ledger!Verdicts, Terminal
<1>9. Gone' = Gone /\ Disturbed' = Disturbed /\ r \notin Gone
  BY <1>4, GoneSame, DisturbedSame DEF Gone
<1>10. Ledger!Close(r, verdict)
  BY <1>5, <1>6, <1>8, <1>9, EventNames DEF Ledger!Close
<1>11. HasRow(r)'  BY <1>3 DEF HasRow, Moves
<1> QED BY <1>4, <1>10, <1>11, OthersKeepRows

\* A transaction that ends in an error leaves the run at work.
LEMMA UnconfirmedLedger ==
  ASSUME LedgerInv, NEW r \in Runs, NEW verdict \in Terminal, NEW attempt \in Nat,
         NEW reply \in Replies \union {NoReply},
         task[r].pc \in {"committing", "failing"},
         WriteError(r, Complete(r, verdict, attempt, reply)),
         NEW phase \in Pending, NEW next, Moves(r, phase, next),
         \A w \in Runs \ {r} : task'[w].pc = task[w].pc, UNCHANGED notices
  PROVE  /\ Ledger!Disturb(r) \/ UNCHANGED Ledger!ledger
         /\ \A w \in Runs : HasRow(w)'
<1> USE DEF LedgerInv
<1>1. /\ cronJob'[task[r].job] = Absent <=> cronJob[task[r].job] = Absent
      /\ \A j \in Jobs \ {task[r].job} : cronJob'[j] = cronJob[j]
      /\ cronExecution' \in [Runs -> RecordType]
      /\ \/ cronExecution'[r] = cronExecution[r]
         \/ cronExecution'[r].status = verdict
      /\ \A w \in Runs \ {r} : cronExecution'[w] = cronExecution[w]
  BY WriteErrorEffect
<1>2. StepOf(r) /\ task'[r].pc = phase /\ task'[r].job = task[r].job
  BY <1>1 DEF StepOf, Moves, Pending
<1>3. HasRow(r)'
  BY <1>1, <1>2, RunFacts DEF HasRow, Terminal
<1>4. CASE cronJob[task[r].job] # Absent /\ Complete(r, verdict, attempt, reply) /\ Fault(r)
  <2>1. cronExecution'[r].status = verdict  BY <1>4, CompleteEffect
  <2>2. Ledger!WriteRow(r)  BY <1>1, <1>4, <2>1, WritesRow
  <2> QED BY <1>2, <1>3, <1>4, <2>2, ErrorDisturbs, OthersKeepRows
<1>5. CASE UNCHANGED <<cronJob, cronExecution>> /\ Fault(r)
  BY <1>2, <1>3, <1>5, RowSame, ErrorDisturbs, OthersKeepRows
<1>6. CASE UNCHANGED <<cronJob, cronExecution, faults>>
  <2>1. task'[r].pc \notin Done  BY <1>2 DEF Pending, Done
  <2> QED BY <1>2, <1>3, <1>6, <2>1, Unseen, OthersKeepRows
<1> QED BY <1>4, <1>5, <1>6 DEF WriteError

LEMMA CommitSuccessLedger ==
  ASSUME LedgerInv, NEW r \in Runs, CommitSuccess(r)
  PROVE  /\ Ledger!Close(r, "SUCCESS") \/ Ledger!Disturb(r) \/ UNCHANGED Ledger!ledger
         /\ \A w \in Runs : HasRow(w)'
<1> USE DEF LedgerInv
<1> DEFINE commit == Complete(r, "SUCCESS", task[r].attempt, task[r].reply)
<1>1. task[r].pc = "committing" /\ task \in [Runs -> TaskType]
  BY RunFacts DEF CommitSuccess
<1>2. CASE /\ cronJob[task[r].job] # Absent /\ commit
           /\ task' = Settled(r, "resolved") /\ Emit(r, "SUCCESS") /\ UNCHANGED faults
  BY <1>1, <1>2, WrittenValues, ConfirmedLedger DEF Terminal
<1>3. CASE WriteError(r, commit) /\ AttemptFailed(r) /\ UNCHANGED notices
  <2> DEFINE next == IF task[r].attempt < RetryCount[task[r].job] THEN "backoff" ELSE "failing"
  <2>1. Moves(r, next, task[r].attempt + 1)  BY <1>1, <1>3, AttemptFailedMoves
  <2>2. next \in Pending  BY DEF Pending
  <2>3. \A w \in Runs \ {r} : task'[w].pc = task[w].pc  BY <1>1, <1>3 DEF AttemptFailed
  <2> HIDE DEF next
  <2> QED BY <1>1, <1>3, <2>1, <2>2, <2>3, WrittenValues, UnconfirmedLedger DEF Terminal
<1> QED BY <1>2, <1>3 DEF CommitSuccess, Statement, WriteError

LEMMA CommitFailureLedger ==
  ASSUME LedgerInv, NEW r \in Runs, CommitFailure(r)
  PROVE  /\ Ledger!Close(r, "FAILED") \/ Ledger!Disturb(r) \/ UNCHANGED Ledger!ledger
         /\ \A w \in Runs : HasRow(w)'
<1> USE DEF LedgerInv
<1> DEFINE commit == Complete(r, "FAILED", task[r].attempt - 1, cronExecution[r].responseStatus)
<1>1. task[r].pc = "failing" /\ task \in [Runs -> TaskType]
  BY RunFacts DEF CommitFailure
<1>2. CASE /\ cronJob[task[r].job] # Absent /\ commit
           /\ task' = Settled(r, "resolved") /\ Emit(r, "FAILED") /\ UNCHANGED faults
  BY <1>1, <1>2, WrittenValues, ConfirmedLedger DEF Terminal
<1>3. CASE WriteError(r, commit) /\ Proceed(r, "recovering") /\ UNCHANGED notices
  <2>1. "recovering" \in Pending /\ "recovering" \in Phases  BY DEF Phases, Pending
  <2>2. Moves(r, "recovering", task[r].attempt)  BY <1>1, <1>3, <2>1, ProceedMoves
  <2>3. \A w \in Runs \ {r} : task'[w].pc = task[w].pc  BY <1>1, <1>3 DEF Proceed
  <2> QED BY <1>1, <1>3, <2>1, <2>2, <2>3, WrittenValues, UnconfirmedLedger DEF Terminal
<1> QED BY <1>2, <1>3 DEF CommitFailure, Statement, WriteError

LEMMA RecoverLedger ==
  ASSUME LedgerInv, NEW r \in Runs, Recover(r)
  PROVE  /\ Ledger!Abandon(r) \/ Ledger!Disturb(r) \/ Ledger!Vanish(r)
         /\ \A w \in Runs : HasRow(w)'
<1> USE DEF LedgerInv
<1>1. /\ task[r].pc = "recovering" /\ task[r].job \in Jobs /\ notices[r] = Started
      /\ Types /\ task \in [Runs -> TaskType] /\ faults[r] \in Nat /\ RunInv(r)
      /\ UNCHANGED cronExecution /\ RowStatus' = RowStatus
  BY RunFacts, RowSame DEF Recover, RunInv, Announced, Looping
<1>2. Reject(r) /\ \/ SetJob(r, "FAILED") /\ cronJob[task[r].job] # Absent
                   \/ UNCHANGED cronJob
  BY DEF Recover, Statement
<1>3. Moves(r, "rejected", task[r].attempt)  BY <1>1, <1>2, RejectMoves
<1>4. StepOf(r) /\ task'[r].pc \in Done /\ HasRow(r)'
  BY <1>1, <1>2, <1>3 DEF StepOf, Moves, Pending, Done, SetJob, Types, HasRow
<1>5. CASE cronJob[task[r].job] # Absent /\ Emit(r, "FAILED") /\ UNCHANGED faults
  <2>1. notices' = [notices EXCEPT ![r] = Ended("FAILED")]
    BY <1>1, <1>5, EndEvent DEF Emit, Terminal
  <2>2. r \in Disturbed /\ Disturbed' = Disturbed
    BY <1>1, <1>5, DisturbedSame DEF RunInv, Blamed, Disturbed
  <2>3. /\ Over' \in SUBSET Runs /\ Over' = Over \union Over' /\ r \in Over'
        /\ r \notin Over /\ Gone' = Gone
    BY <1>4, OverGrows, GoneSame
  <2>4. Ledger!Abandon(r)
    BY <1>1, <2>1, <2>2, <2>3, EventNames DEF Ledger!Abandon
  <2> QED BY <1>4, <2>4, OthersKeepRows
<1>6. CASE UNCHANGED notices /\ Fault(r)
  BY <1>1, <1>4, <1>6, ErrorDisturbs, OthersKeepRows
<1>7. CASE UNCHANGED <<notices, faults>>
  BY <1>1, <1>4, <1>7, EndVanishes, OthersKeepRows
<1> QED BY <1>5, <1>6, <1>7 DEF Recover, Statement

LEMMA StopAfterLedger ==
  ASSUME LedgerInv, NEW r \in Runs, StopAfter(r)
  PROVE  Ledger!Vanish(r) /\ \A w \in Runs : HasRow(w)'
<1> USE DEF LedgerInv
<1>1. PICK p \in Processes : p = task[r].process  BY RunFacts DEF TaskType
<1>2. /\ cronJob[task[r].job] # Absent /\ Effect(r) /\ task' = Wiped(p)
      /\ UNCHANGED <<faults, notices>> /\ Types /\ task[r] \in TaskType
  BY <1>1, RunFacts DEF StopAfter
<1>3. \A w \in Runs : Bystander(w)  BY <1>2, WipedBystanders DEF Types
<1>4. task[r].pc \in Pending /\ task'[r] = InPhase(task[r], "lost") /\ "lost" \in Phases
  BY <1>1, <1>2, EffectTables DEF Wiped, Waiting, Active, On, Pending, Phases, Done
<1>5. task'[r].pc = "lost" /\ task'[r].job = task[r].job  BY <1>2, <1>4, PhaseOnly
<1>6. StepOf(r) /\ HasRow(r)'
  BY <1>2, <1>3, <1>4, <1>5, EffectTables DEF StepOf, HasRow
<1>7. RowStatus' = RowStatus \/ Ledger!WriteRow(r)
  <2>1. CASE cronExecution'[r] = cronExecution[r]
    BY <1>2, <2>1, EffectTables, RowSame DEF RowStatus
  <2>2. CASE task[r].pc = "creating" /\ cronExecution'[r].status = "RUNNING"
    BY <1>2, <2>2, EffectTables, WritesRow
  <2>3. CASE task[r].pc = "committing" /\ cronExecution'[r].status = "SUCCESS"
    BY <1>2, <2>3, EffectTables, WritesRow DEF Terminal
  <2>4. CASE task[r].pc = "failing" /\ cronExecution'[r].status = "FAILED"
    BY <1>2, <2>4, EffectTables, WritesRow DEF Terminal
  <2> QED BY <1>2, <2>1, <2>2, <2>3, <2>4, EffectTables
<1>8. task'[r].pc \in Done  BY <1>5 DEF Done
<1> QED BY <1>2, <1>6, <1>7, <1>8, EndVanishes, OthersKeepRows

LEMMA StopLedger ==
  ASSUME LedgerInv, NEW p \in Processes, Stop(p)
  PROVE  (\E r \in Runs : Ledger!Vanish(r)) /\ \A w \in Runs : HasRow(w)'
<1> USE DEF LedgerInv
<1>1. task' = Wiped(p) /\ UNCHANGED <<cronJob, cronExecution, faults, notices>>
  BY DEF Stop
<1>2. task \in [Runs -> TaskType]  BY RunFacts DEF IInv, ExecutionTypeOK
<1>3. PICK r \in Runs : r \in Waiting(p) \union Active(p)
  BY DEF Stop, Waiting, Active, On
<1>4. \A w \in Runs : Bystander(w)  BY <1>1, <1>2, WipedBystanders
<1>5. \A w \in Runs : /\ task'[w].job = task[w].job /\ task[w].job \in Jobs
                      /\ task'[w].pc = "idle" <=> task[w].pc = "idle"
  BY <1>4, OnlookerStays, RunFacts
<1>6. RowStatus' = RowStatus /\ Disturbed' = Disturbed /\ Gone' = Gone
  BY <1>1, <1>5, RowSame, DisturbedSame DEF Gone
<1>7. r \notin Over /\ r \in Over'
  <2>1. task[r].pc \in {"waiting"} \union Pending  BY <1>3 DEF Waiting, Active
  <2>2. task[r] \in TaskType /\ "lost" \in Phases  BY <1>2 DEF Phases, Done
  <2>3. task'[r].pc = "lost"  BY <1>1, <1>3, <2>2, PhaseOnly DEF Wiped
  <2> QED BY <2>1, <2>3 DEF Over, Pending, Done
<1>8. Over' \in SUBSET Runs /\ Over' = Over \union Over'
  <2>1. \A w \in Runs : task[w].pc \in Done => task'[w].pc \in Done
    BY <1>4 DEF Bystander, Pending, Done
  <2> QED BY <2>1 DEF Over
<1>9. Ledger!Vanish(r)  BY <1>1, <1>6, <1>7, <1>8 DEF Ledger!Vanish
<1>10. \A w \in Runs : HasRow(w)'
  BY <1>1, <1>4, <1>5 DEF HasRow, Bystander
<1> QED BY <1>9, <1>10

\* Runs of a deleted job lose their rows, and no run of it has one.
LEMMA GoneDeletes ==
  ASSUME Gone \subseteq Gone', Over' = Over, UNCHANGED <<faults, notices>>,
         \A r \in Runs : RowStatus'[r] = IF r \in Gone' THEN "NONE" ELSE RowStatus[r]
  PROVE  Ledger!Delete(Gone') /\ Gone' \in SUBSET Runs
<1>1. RowStatus' = [r \in Runs |-> IF r \in Gone' THEN "NONE" ELSE RowStatus[r]]
  BY DEF RowStatus
<1>2. Gone' = Gone \union Gone' /\ Gone' \in SUBSET Runs  BY DEF Gone
<1>3. Disturbed' = Disturbed  BY DisturbedSame
<1> QED BY <1>1, <1>2, <1>3 DEF Ledger!Delete

LEMMA GoneHasNoRow ==
  ASSUME IInv, NEW r \in Runs, task[r].pc = "idle" \/ cronJob[task[r].job] = Absent
  PROVE  RowStatus[r] = "NONE"
BY RunFacts, RowOf DEF RunInv, RowPhase, Fresh, Early, NoRecord

LEMMA ExecuteJobLedger ==
  ASSUME LedgerInv, NEW j \in Jobs, NEW p \in Processes,
         NEW manual \in BOOLEAN, NEW isManual \in BOOLEAN, ExecuteJob(j, p, manual, isManual)
  PROVE  /\ \E runs \in SUBSET Runs : Ledger!Delete(runs)
         /\ \A w \in Runs : HasRow(w)'
<1> USE DEF LedgerInv
<1> DEFINE t == [Idle EXCEPT !.pc = IF HasSlot(p) THEN "starting" ELSE "waiting",
                             !.job = j, !.process = p, !.manual = manual,
                             !.priority = IF isManual THEN 1 ELSE 0]
<1>1. PICK r \in Runs : /\ task[r].pc = "idle" /\ task' = [task EXCEPT ![r] = t]
                        /\ UNCHANGED <<cronJob, cronExecution, faults, notices>>
  BY DEF ExecuteJob
<1>2. t.pc \in {"starting", "waiting"} /\ t.job = j
  BY DEF Idle
<1> HIDE DEF t
<1>3. task'[r] = t /\ \A w \in Runs \ {r} : task'[w] = task[w]
  BY <1>1, RunFacts
<1>4. Gone \subseteq Gone' /\ Gone' \subseteq Gone \union {r}
  BY <1>1, <1>3 DEF Gone
<1>5. Over' = Over  BY <1>1, <1>2, <1>3 DEF Over, Done
<1>6. RowStatus' = RowStatus /\ RowStatus[r] = "NONE" /\ \A w \in Gone : RowStatus[w] = "NONE"
  BY <1>1, RowSame, GoneHasNoRow DEF Gone
<1>7. Ledger!Delete(Gone') /\ Gone' \in SUBSET Runs
  BY <1>1, <1>4, <1>5, <1>6, GoneDeletes
<1>8. \A w \in Runs : HasRow(w)'
  BY <1>1, <1>2, <1>3 DEF HasRow
<1> QED BY <1>7, <1>8

LEMMA DeleteJobLedger ==
  ASSUME LedgerInv, NEW j \in Jobs, DeleteJob(j)
  PROVE  /\ \E runs \in SUBSET Runs : Ledger!Delete(runs)
         /\ \A w \in Runs : HasRow(w)'
<1> USE DEF LedgerInv
<1>1. /\ cronJob' = [cronJob EXCEPT ![j] = Absent]
      /\ cronExecution' = [r \in Runs |-> IF task[r].job = j THEN NoRecord ELSE cronExecution[r]]
      /\ UNCHANGED <<task, faults, notices>>
  BY DEF DeleteJob
<1>2. \A i \in Jobs : cronJob'[i] = IF i = j THEN Absent ELSE cronJob[i]
  BY <1>1 DEF IInv, ExecutionTypeOK
<1>3. \A r \in Runs : task[r].job \in Jobs  BY RunFacts
<1>4. Gone' = Gone \union {r \in Runs : task[r].pc # "idle" /\ task[r].job = j}
  BY <1>1, <1>2, <1>3 DEF Gone
<1>5. Over' = Over  BY <1>1 DEF Over
<1>6. ASSUME NEW r \in Runs
      PROVE  RowStatus'[r] = IF r \in Gone' THEN "NONE" ELSE RowStatus[r]
  <2>1. RowStatus'[r] = IF task[r].job = j THEN "NONE" ELSE RowStatus[r]
    BY <1>1, RowOf DEF NoRecord
  <2>2. r \in Gone \/ task[r].pc = "idle" => RowStatus[r] = "NONE"
    BY GoneHasNoRow DEF Gone
  <2> QED BY <1>4, <2>1, <2>2
<1>7. Ledger!Delete(Gone') /\ Gone' \in SUBSET Runs
  BY <1>1, <1>4, <1>5, <1>6, GoneDeletes
<1>8. \A w \in Runs : HasRow(w)'
  BY <1>1, <1>2, <1>3 DEF HasRow
<1> QED BY <1>7, <1>8

-----------------------------------------------------------------------------
(* The refinement.                                                         *)

LEMMA NextLedger ==
  ASSUME LedgerInv, [Next]_vars
  PROVE  LedgerInv' /\ [Ledger!Next]_(Ledger!ledger)
<1>1. IInv'  BY NextInv DEF LedgerInv
<1>2. ASSUME NEW r \in Runs, Step(r)
      PROVE  [Ledger!Next]_(Ledger!ledger) /\ \A w \in Runs : HasRow(w)'
  BY <1>2, MarkRunningLedger, CreateExecutionLedger, AttemptLedger, CommitSuccessLedger,
     CommitFailureLedger, RecoverLedger
  DEF Step, Ledger!Next, Ledger!Verdicts
<1>3. ASSUME NEW r \in Runs, StopAfter(r)
      PROVE  [Ledger!Next]_(Ledger!ledger) /\ \A w \in Runs : HasRow(w)'
  BY <1>3, StopAfterLedger DEF Ledger!Next
<1>4. ASSUME NEW j \in Jobs, NEW p \in Processes, Tick(j, p) \/ Execute(j, p)
      PROVE  [Ledger!Next]_(Ledger!ledger) /\ \A w \in Runs : HasRow(w)'
  BY <1>4, ExecuteJobLedger DEF Tick, Execute, Ledger!Next
<1>5. ASSUME NEW j \in Jobs, DeleteJob(j)
      PROVE  [Ledger!Next]_(Ledger!ledger) /\ \A w \in Runs : HasRow(w)'
  BY <1>5, DeleteJobLedger DEF Ledger!Next
<1>6. ASSUME NEW p \in Processes, Stop(p)
      PROVE  [Ledger!Next]_(Ledger!ledger) /\ \A w \in Runs : HasRow(w)'
  BY <1>6, StopLedger DEF Ledger!Next
<1>7. CASE UNCHANGED vars
  <2>1. RowStatus' = RowStatus /\ Disturbed' = Disturbed /\ Over' = Over /\ Gone' = Gone
    BY <1>7 DEF vars, RowStatus, Disturbed, Over, Gone
  <2>2. \A w \in Runs : HasRow(w)'  BY <1>7 DEF vars, LedgerInv, HasRow
  <2> QED BY <1>1, <1>7, <2>1, <2>2 DEF vars, LedgerInv, Ledger!ledger
<1> QED BY <1>1, <1>2, <1>3, <1>4, <1>5, <1>6, <1>7 DEF Next, LedgerInv

LEMMA InitKeeps == Init => LedgerInv
BY InitInv, Init => \A r \in Runs : task[r].pc = "idle" DEF LedgerInv, HasRow, Init, Idle

\* Whatever the database refuses or leaves unconfirmed, whichever process ends and
\* whichever job is deleted, the rows and events of the runs behave as RunLedger says.
THEOREM RunsKeepLedger == Spec => KeepsLedger
<1>1. LedgerInv /\ [Next]_vars => LedgerInv' /\ [Ledger!Next]_(Ledger!ledger)
  BY NextLedger
<1> QED BY <1>1, InitKeeps, InitLedger, PTL DEF Spec, KeepsLedger, Ledger!Spec

\* The theorems of RunLedgerProofs, about the system.
Promise == INSTANCE RunLedgerProofs WITH
  row <- RowStatus, announced <- notices, disturbed <- Disturbed, over <- Over, deleted <- Gone

LEMMA SamePromise ==
  /\ Ledger!Init => Promise!Init
  /\ [Ledger!Next]_(Ledger!ledger) => [Promise!Next]_(Promise!ledger)
  /\ Promise!Agreement => Ledger!Agreement
<1>1. Ledger!Init => Promise!Init
  BY DEF Ledger!Init, Promise!Init, Ledger!Nothing, Promise!Nothing
<1>2. Promise!Agreement => Ledger!Agreement
  BY DEF Ledger!Agreement, Promise!Agreement, Ledger!Told, Promise!Told, Ledger!Verdicts,
     Promise!Verdicts
<1>3. ASSUME NEW r \in Runs
      PROVE  /\ Ledger!Begin(r) => Promise!Begin(r)
             /\ Ledger!Open(r) => Promise!Open(r)
             /\ Ledger!Disturb(r) => Promise!Disturb(r)
             /\ Ledger!Abandon(r) => Promise!Abandon(r)
             /\ Ledger!Vanish(r) => Promise!Vanish(r)
             /\ \A v \in Ledger!Verdicts : Ledger!Close(r, v) => Promise!Close(r, v)
  <2> USE DEF Ledger!Nothing, Promise!Nothing, Ledger!Began, Promise!Began, Ledger!Told,
          Promise!Told, Ledger!Verdicts, Promise!Verdicts
  <2>1. Ledger!WriteRow(r) => Promise!WriteRow(r)
    BY DEF Ledger!WriteRow, Promise!WriteRow, Ledger!OpenRow, Promise!OpenRow,
       Ledger!CloseRow, Promise!CloseRow, Ledger!SetRow, Promise!SetRow
  <2>2. Ledger!Begin(r) => Promise!Begin(r)  BY DEF Ledger!Begin, Promise!Begin
  <2>3. Ledger!Open(r) => Promise!Open(r)
    BY DEF Ledger!Open, Promise!Open, Ledger!OpenRow, Promise!OpenRow, Ledger!SetRow, Promise!SetRow
  <2>4. Ledger!Disturb(r) => Promise!Disturb(r)  BY <2>1 DEF Ledger!Disturb, Promise!Disturb
  <2>5. Ledger!Abandon(r) => Promise!Abandon(r)  BY DEF Ledger!Abandon, Promise!Abandon
  <2>6. Ledger!Vanish(r) => Promise!Vanish(r)  BY <2>1 DEF Ledger!Vanish, Promise!Vanish
  <2>7. \A v \in Ledger!Verdicts : Ledger!Close(r, v) => Promise!Close(r, v)
    BY DEF Ledger!Close, Promise!Close, Ledger!CloseRow, Promise!CloseRow,
       Ledger!SetRow, Promise!SetRow
  <2> QED BY <2>2, <2>3, <2>4, <2>5, <2>6, <2>7
<1>4. \A runs \in SUBSET Runs : Ledger!Delete(runs) => Promise!Delete(runs)
  BY DEF Ledger!Delete, Promise!Delete
<1>5. Ledger!Verdicts = Promise!Verdicts  BY DEF Ledger!Verdicts, Promise!Verdicts
<1>6. Ledger!Next => Promise!Next
  BY <1>3, <1>4, <1>5 DEF Ledger!Next, Promise!Next
<1>7. UNCHANGED Ledger!ledger => UNCHANGED Promise!ledger
  BY DEF Ledger!ledger, Promise!ledger
<1> QED BY <1>1, <1>2, <1>6, <1>7

\* What the ledger promises, the system keeps: a verdict that was announced is that of
\* the row, unless the job was deleted or the database disturbed the run.
THEOREM VerdictsAgree == Spec => []Ledger!Agreement
<1>1. LedgerInv /\ [Next]_vars => LedgerInv' /\ [Promise!Next]_(Promise!ledger)
  BY NextLedger, SamePromise
<1>2. Init => Promise!Init  BY InitLedger, SamePromise
<1>3. Spec => Promise!Spec  BY <1>1, <1>2, InitKeeps, PTL DEF Spec, Promise!Spec
<1>4. Promise!Agreement => Ledger!Agreement  BY SamePromise
<1> QED BY <1>3, <1>4, Promise!LedgerAgrees, PTL
=============================================================================
