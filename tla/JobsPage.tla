-------------------------------- MODULE JobsPage --------------------------------
(***************************************************************************)
(* The page that lists the jobs (public/js/jobs.js) against the table      *)
(* CronJob.  The server commits a change and announces it afterwards, over *)
(* the WebsocketGateway, to the pages that are connected at that moment.   *)
(* The page answers most events by fetching the whole list again; those of *)
(* executions also write a status label into the rows it already shows.    *)
(* Events arrive in the order in which they were emitted, answers to       *)
(* fetches in any order, and nothing is fetched when a lost connection     *)
(* comes back.                                                             *)
(*                                                                         *)
(* Versions count the changes of the table, so that what the page has been *)
(* told can be compared with what it was told before.                      *)
(***************************************************************************)
EXTENDS Integers, Sequences, FiniteSets, FiniteSetsExt

CONSTANTS
  Jobs,        \* ids of CronJob rows
  Loads,       \* bound: calls of loadJobs under way at the same time
  MaxChanges,  \* bound: changes of the table
  MaxDrops     \* bound: lost connections, and fetches that fail

ASSUME BoundAssumption == MaxChanges \in Nat /\ MaxDrops \in Nat

VARIABLES
  cronJob,        \* table CronJob: the row of each job, Unborn or Deleted
  runs,           \* executions of each job that have marked it RUNNING
  announcements,  \* changes that are committed and not yet announced
  connected,      \* the socket of the page
  inbox,          \* events that have been emitted to it, in order
  answers,        \* requests of this page that have succeeded on the server
  timers,         \* calls of loadJobs that wait for their 500 ms
  loads,          \* calls of loadJobs that wait for their answer
  table,          \* the rows the page shows
  notice,         \* what it shows in their place
  drops,          \* how much of MaxDrops has been used
  version,        \* history: number of changes of the table
  unheard,        \* history: the last change the page was not told of, or not shown
  loaded,         \* history: the version of the list that was rendered last
  told,           \* history: the latest version of each job the page was told of
  intact          \* history: nothing older was written over it

server == <<cronJob, runs, announcements, version>>
page == <<timers, loads, table, notice, loaded, told, intact>>
vars == <<server, connected, inbox, answers, page, drops, unheard>>

-----------------------------------------------------------------------------
Unborn == [state |-> "unborn"]
Deleted == [state |-> "deleted"]
Terminal == {"SUCCESS", "FAILED"}
Row == [isActive : BOOLEAN, status : {"PENDING", "RUNNING"} \union Terminal,
        lastRunAt : 0 .. MaxChanges,   \* how often it was set
        nextRunAt : 0 .. MaxChanges]   \* how often it was computed anew

\* Mutant: the row is created without a status.
FirstRowBlank == [isActive |-> TRUE, status |-> "none", lastRunAt |-> 0, nextRunAt |-> 0]

FirstRow == [isActive |-> TRUE, status |-> "PENDING", lastRunAt |-> 0, nextRunAt |-> 0]
Exists(j) == cronJob[j] \in Row

\* findAll: one query, so the list is that of one version.
Listed == [j \in {j \in Jobs : Exists(j)} |-> cronJob[j]]
NoRows == [j \in {} |-> FirstRow]

\* What an event makes the page do: load the list, write a label, or both.
Event == [name : {"cron:created", "cron:updated", "cron:deleted",
                  "execution:started", "execution:completed"},
          job : Jobs, label : {"RUNNING", "none"} \union Terminal,
          version : 1 .. MaxChanges]
NoLoad == [pc |-> "idle"]
Sent == [pc |-> "sent"]
Answered(rows, v) == [pc |-> "answered", rows |-> rows, version |-> v]

Later(a, b) == IF a > b THEN a ELSE b

-----------------------------------------------------------------------------
\* The page has asked for its first list; the socket is connecting.
Init ==
  /\ cronJob \in [Jobs -> {Unborn, FirstRow}]
  /\ runs = [j \in Jobs |-> 0]
  /\ announcements = {} /\ connected = FALSE /\ inbox = <<>> /\ answers = 0
  /\ timers = 0 /\ table = NoRows /\ notice = "Loading..."
  /\ \E first \in Loads : loads = [l \in Loads |-> IF l = first THEN Sent ELSE NoLoad]
  /\ drops = 0 /\ version = 0 /\ unheard = 0
  /\ loaded = 0 /\ told = [j \in Jobs |-> 0] /\ intact = TRUE

\* A change of the table and the event it will be announced by; ours if this page has
\* asked for it and gets an answer.
Commit(j, row, name, label, ours) ==
  /\ version < MaxChanges
  /\ version' = version + 1
  /\ cronJob' = [cronJob EXCEPT ![j] = row]
  /\ announcements' = announcements \union
       {[event |-> [name |-> name, job |-> j, label |-> label, version |-> version + 1],
         ours |-> ours]}
  /\ UNCHANGED <<connected, inbox, answers, page, drops, unheard>>

Create(j, ours) ==
  /\ cronJob[j] = Unborn
  /\ Commit(j, FirstRow, "cron:created", "none", ours)
  /\ UNCHANGED runs

\* update, with a new expression.
Update(j, ours) ==
  /\ Exists(j)
  /\ Commit(j, [cronJob[j] EXCEPT !.nextRunAt = @ + 1], "cron:updated", "none", ours)
  /\ UNCHANGED runs

\* toggle.
Toggle(j, ours) ==
  /\ Exists(j)
  /\ Commit(j, [cronJob[j] EXCEPT !.isActive = ~@], "cron:updated", "none", ours)
  /\ UNCHANGED runs

Remove(j, ours) ==
  /\ Exists(j)
  /\ Commit(j, Deleted, "cron:deleted", "none", ours)
  /\ UNCHANGED runs

\* executeJobInternal marks the job RUNNING since now, and announces that before it goes on.
MarkRunning(j) ==
  /\ Exists(j)
  /\ Commit(j, [cronJob[j] EXCEPT !.status = "RUNNING", !.lastRunAt = @ + 1],
            "execution:started", "RUNNING", FALSE)
  /\ runs' = [runs EXCEPT ![j] = @ + 1]

\* Its last transaction, with the time of the next run, or the recovery, without; ours if
\* it was started by execute.
Complete(j, status, ours) ==
  /\ Exists(j) /\ runs[j] > 0
  /\ ~\E a \in announcements : a.event.job = j /\ a.event.name = "execution:started"
  /\ \E more \in IF status = "SUCCESS" \/ ours THEN {1} ELSE {0, 1} :
       Commit(j, [cronJob[j] EXCEPT !.status = status, !.nextRunAt = @ + more],
              "execution:completed", status, ours)
  /\ runs' = [runs EXCEPT ![j] = @ - 1]

\* disableJob announces nothing.
Disable(j) ==
  /\ Exists(j) /\ cronJob[j].isActive /\ version < MaxChanges
  /\ version' = version + 1 /\ unheard' = version + 1
  /\ cronJob' = [cronJob EXCEPT ![j].isActive = FALSE]
  /\ UNCHANGED <<runs, announcements, connected, inbox, answers, page, drops>>

\* The gateway emits the event; the request that caused it is answered.
Announce(a) ==
  /\ announcements' = announcements \ {a}
  /\ IF connected THEN inbox' = Append(inbox, a.event) /\ UNCHANGED unheard
                  ELSE unheard' = Later(unheard, a.event.version) /\ UNCHANGED inbox
  /\ answers' = IF a.ours THEN answers + 1 ELSE answers
  /\ UNCHANGED <<cronJob, runs, version, connected, page, drops>>

\* The process ends between the commit and the event, with the run that was to announce
\* itself, or registerJob throws.
Forget(a) ==
  /\ drops < MaxDrops /\ drops' = drops + 1
  /\ announcements' = announcements \ {a}
  /\ unheard' = Later(unheard, a.event.version)
  /\ runs' = IF a.event.name = "execution:started" THEN [runs EXCEPT ![a.event.job] = @ - 1]
             ELSE runs
  /\ UNCHANGED <<cronJob, version, connected, inbox, answers, page>>

\* The connection is lost with the events that were on their way.
Disconnect ==
  /\ connected /\ drops < MaxDrops /\ drops' = drops + 1
  /\ connected' = FALSE /\ inbox' = <<>>
  /\ unheard' = Max({unheard} \union {inbox[i].version : i \in DOMAIN inbox})
  /\ UNCHANGED <<server, answers, page>>

\* The handler of "connect" only logs.
Connect ==
  /\ ~connected /\ connected' = TRUE
  /\ UNCHANGED <<server, inbox, answers, page, drops, unheard>>

-----------------------------------------------------------------------------
(* The page.                                                               *)

\* loadJobs, up to its fetch.
Load(l) ==
  /\ loads[l] = NoLoad
  /\ loads' = [loads EXCEPT ![l] = Sent]

\* updateJobStatus: the label of a row that is shown.
Labelled(j, status) ==
  IF j \in DOMAIN table
  THEN [table EXCEPT ![j].status = status] ELSE table

\* Mutant: the label is thought enough when an execution has completed.
ReceiveNoReload(l) ==
  LET event == Head(inbox)
  IN  /\ inbox # <<>> /\ inbox' = Tail(inbox)
      /\ IF event.label = "none"
         THEN Load(l) /\ UNCHANGED <<timers, table, told, intact>>
         ELSE /\ table' = Labelled(event.job, event.label)
              /\ told' = [told EXCEPT ![event.job] = Later(@, event.version)]
              /\ intact' = (intact /\ event.version >= told[event.job])
              /\ UNCHANGED <<timers, loads>>
  /\ UNCHANGED <<server, connected, answers, drops, unheard, loaded, notice>>

\* The handlers of the socket's events.
Receive(l) ==
  LET event == Head(inbox)
  IN  /\ inbox # <<>> /\ inbox' = Tail(inbox)
      /\ IF event.label = "none"
         THEN Load(l) /\ UNCHANGED <<timers, table, told, intact>>
         ELSE /\ table' = Labelled(event.job, event.label)
              /\ told' = [told EXCEPT ![event.job] = Later(@, event.version)]
              /\ intact' = (intact /\ event.version >= told[event.job])
              /\ timers' = IF event.name = "execution:completed" THEN timers + 1 ELSE timers
              /\ UNCHANGED loads
  /\ UNCHANGED <<server, connected, answers, drops, unheard, loaded, notice>>

\* A timer of 500 ms ends.
TimerEnds(l) ==
  /\ timers > 0 /\ timers' = timers - 1
  /\ Load(l)
  /\ UNCHANGED <<server, connected, inbox, answers, drops, unheard,
                 table, notice, loaded, told, intact>>

\* toggleJob, executeJob, deleteJob and createJob load the list when their request
\* has succeeded.
Return(l) ==
  /\ answers > 0 /\ answers' = answers - 1
  /\ Load(l)
  /\ UNCHANGED <<server, connected, inbox, drops, unheard,
                 timers, table, notice, loaded, told, intact>>

\* The server reads the rows.
FindAll(l) ==
  /\ loads[l] = Sent
  /\ loads' = [loads EXCEPT ![l] = Answered(Listed, version)]
  /\ UNCHANGED <<server, connected, inbox, answers, drops, unheard,
                 timers, table, notice, loaded, told, intact>>

\* renderJobs replaces all that is shown, whatever has been shown meanwhile.
Render(l) ==
  /\ loads[l].pc = "answered"
  /\ table' = loads[l].rows /\ notice' = "none"
  /\ loaded' = loads[l].version
  /\ told' = [j \in Jobs |-> Later(told[j], loads[l].version)]
  /\ intact' = (\A j \in Jobs : loads[l].version >= told[j])
  /\ loads' = [loads EXCEPT ![l] = NoLoad]
  /\ UNCHANGED <<server, connected, inbox, answers, drops, unheard, timers>>

\* showError, if the fetch fails.
ShowError(l) ==
  /\ loads[l] # NoLoad /\ drops < MaxDrops /\ drops' = drops + 1
  /\ table' = NoRows /\ notice' = "Failed to load jobs" /\ intact' = FALSE
  /\ unheard' = version
  /\ loads' = [loads EXCEPT ![l] = NoLoad]
  /\ UNCHANGED <<server, connected, inbox, answers, timers, loaded, told>>

-----------------------------------------------------------------------------
Change ==
  \E j \in Jobs :
    \/ \E ours \in BOOLEAN :
         \/ Create(j, ours) \/ Update(j, ours) \/ Toggle(j, ours) \/ Remove(j, ours)
         \/ \E status \in Terminal : Complete(j, status, ours)
    \/ MarkRunning(j) \/ Disable(j)

Next ==
  \/ Change
  \/ \E a \in announcements : Announce(a) \/ Forget(a)
  \/ Disconnect \/ Connect
  \/ \E l \in Loads : Receive(l) \/ TimerEnds(l) \/ Return(l) \/ FindAll(l)
                        \/ Render(l) \/ ShowError(l)

Spec == Init /\ [][Next]_vars

-----------------------------------------------------------------------------
(* What the page promises.                                                 *)

LoadType == {NoLoad, Sent} \union
  {Answered(rows, v) : rows \in UNION {[S -> Row] : S \in SUBSET Jobs}, v \in 0 .. MaxChanges}

\* Every variable has its type; the page has been told of no change that was not made.
TypeOK ==
  /\ cronJob \in [Jobs -> Row \union {Unborn, Deleted}]
  /\ runs \in [Jobs -> 0 .. MaxChanges]
  /\ announcements \subseteq [event : Event, ours : BOOLEAN]
  /\ inbox \in Seq(Event) /\ connected \in BOOLEAN
  /\ {answers, timers, version, drops} \subseteq Nat
  /\ loads \in [Loads -> LoadType]
  /\ table \in UNION {[S -> Row] : S \in SUBSET Jobs}
  /\ notice \in {"none", "Loading...", "Failed to load jobs"}
  /\ {unheard, loaded} \subseteq 0 .. version /\ told \in [Jobs -> 0 .. version]

\* Nothing is on its way to the page.
Settled == /\ announcements = {} /\ inbox = <<>> /\ answers = 0 /\ timers = 0
           /\ \A l \in Loads : loads[l] = NoLoad

\* The event of a run that starts brings its label, and not its time.
AsShown(shown, row) ==
  \/ shown = row
  \/ row.status = "RUNNING" /\ [shown EXCEPT !.lastRunAt = row.lastRunAt] = row

\* When nothing is on its way any more, the page shows the table, row by row and label by
\* label, but for the time at which a run that is under way began, unless it was not told
\* of a change since the list it shows was read (disableJob, a lost connection, a process
\* that ended), a fetch failed, or an answer or a label older than what it showed was
\* written over it.
TableCurrent == Settled /\ unheard <= loaded /\ intact =>
  /\ notice = "none" /\ DOMAIN table = {j \in Jobs : Exists(j)}
  /\ \A j \in DOMAIN table : AsShown(table[j], cronJob[j])
=============================================================================
