----------------------------- MODULE ExecutionFeed -----------------------------
(***************************************************************************)
(* What the pages that show executions have in common: the dashboard ("/", *)
(* app.js) with its recent executions and the page of the logs ("/logs",   *)
(* logs.js).  A run announces itself before its row exists and its end     *)
(* after the row is closed; nothing announces to these pages that a job    *)
(* and its rows are gone.  Both pages fetch the rows through getGlobalLogs,*)
(* which removes HTML bodies of old rows from the database on the way and  *)
(* fails when such a row has been deleted meanwhile.                       *)
(*                                                                         *)
(* Versions count the changes of the tables, so that what a page shows can *)
(* be compared with what it could have known.                              *)
(***************************************************************************)
EXTENDS Integers, Sequences, FiniteSets

CONSTANTS
  Jobs,        \* ids of CronJob rows
  Executions,  \* ids of CronExecution rows
  Loads,       \* bound: fetches of the list under way at the same time
  MaxChanges,  \* bound: changes of the tables
  MaxDrops     \* bound: lost connections, lost announcements and failed fetches

ASSUME JobsAssumption == IsFiniteSet(Jobs)
ASSUME FeedAssumption == MaxChanges \in Nat /\ MaxDrops \in Nat

VARIABLES
  page,           \* the page that is open
  cronJob,        \* table CronJob: "active", "inactive" or "absent"
  cronExecution,  \* table CronExecution, the newest row first
  phase,          \* how far the run of an execution is
  announcements,  \* ended executions whose event is not emitted yet
  connected,      \* the socket of the page
  inbox,          \* names of the events emitted to it, in order
  timers,         \* reloads that wait for their delay
  loads,          \* fetches of /api/logs
  list,           \* the rows the page shows
  notice,         \* what it shows in their place
  drops,          \* how much of MaxDrops has been used
  version,        \* history: number of changes of the tables
  unheard,        \* history: the last change that no reload of the list will follow
  loaded,         \* history: the version of the list that was rendered last
  newest          \* history: the latest version that was rendered

server == <<cronJob, cronExecution, phase, announcements, version>>
socket == <<connected, inbox>>
shown == <<list, notice, loaded, newest>>

-----------------------------------------------------------------------------
Row == [id : Executions, job : Jobs, status : {"RUNNING", "SUCCESS", "FAILED"},
        body : {"none", "json", "html"}]  \* a row that FAILED has an error message
Opened(e, j) == [id |-> e, job |-> j, status |-> "RUNNING", body |-> "none"]
Closed(r, status, body) == [r EXCEPT !.status = status, !.body = body]
Cleaned(r) == [r EXCEPT !.body = "none"]
CleanedAt(answer, i) == [answer EXCEPT !.rows[i] = Cleaned(@)]

At(rows, e) == {i \in DOMAIN rows : rows[i].id = e}
Html(rows) == {i \in DOMAIN rows : rows[i].body = "html"}
\* The list a page shows of a table: no HTML.
Listing(rows) == [i \in DOMAIN rows |-> IF i \in Html(rows) THEN Cleaned(rows[i]) ELSE rows[i]]

\* The enumeration of a set of indices in their order.
Orders(S) == {f \in [1 .. Cardinality(S) -> S] : \A a, b \in DOMAIN f : a < b => f[a] < f[b]}

NoLoad == [pc |-> "idle"]
Sent == [pc |-> "sent"]
Answer(rows) == [pc |-> "answer", rows |-> rows, version |-> version]
Rejected == [pc |-> "rejected"]
Later(a, b) == IF a > b THEN a ELSE b

\* The events that make the open page load the list.
Reloads == IF page = "/logs" THEN {"execution:started", "execution:completed"}
                             ELSE {"execution:completed"}
\* A list that is read from now on will still be shown.
ReloadDue == \/ timers > 0
             \/ \E l \in Loads : loads[l] = Sent
             \/ \E i \in DOMAIN inbox : inbox[i] \in Reloads
Unnoticed == IF ReloadDue THEN unheard ELSE version + 1

\* A table with at most one old row, the page just opened.
FeedInit ==
  /\ cronJob \in [Jobs -> {"active", "absent"}]
  /\ cronExecution \in {<<>>} \union
       {<<[id |-> e, job |-> j, status |-> "SUCCESS", body |-> b]>> :
          e \in Executions, j \in {j \in Jobs : cronJob[j] = "active"}, b \in {"json", "html"}}
  /\ phase = [e \in Executions |-> IF At(cronExecution, e) # {} THEN "ended" ELSE "new"]
  /\ announcements = {} /\ connected = FALSE /\ inbox = <<>>
  /\ list = <<>> /\ notice = "Loading..."
  /\ drops = 0 /\ version = 0 /\ unheard = 0 /\ loaded = 0 /\ newest = 0

-----------------------------------------------------------------------------
(* The server.                                                             *)

Changed == version < MaxChanges /\ version' = version + 1
Emit(name) == inbox' = IF connected THEN Append(inbox, name) ELSE inbox

\* executeJobInternal announces the run, and creates its row afterwards.
Start(e) ==
  /\ phase[e] = "new" /\ phase' = [phase EXCEPT ![e] = "started"]
  /\ Emit("execution:started")
  /\ UNCHANGED <<page, cronJob, cronExecution, announcements, connected, timers, loads,
                 shown, drops, version, unheard>>

Open(e, j) ==
  /\ phase[e] = "started" /\ cronJob[j] # "absent" /\ Changed
  /\ phase' = [phase EXCEPT ![e] = "open"]
  /\ cronExecution' = <<Opened(e, j)>> \o cronExecution
  /\ unheard' = Unnoticed
  /\ UNCHANGED <<page, cronJob, announcements, socket, timers, loads, shown, drops>>

\* The transaction that ends the run; an HTML answer is not stored.
Close(e, status) ==
  /\ phase[e] = "open" /\ At(cronExecution, e) # {} /\ Changed
  /\ phase' = [phase EXCEPT ![e] = "ended"]
  /\ \E body \in IF status = "SUCCESS" THEN {"json", "none"} ELSE {"none"} :
       cronExecution' = [i \in DOMAIN cronExecution |->
         IF cronExecution[i].id = e THEN Closed(cronExecution[i], status, body)
                                    ELSE cronExecution[i]]
  /\ announcements' = announcements \union {e}
  /\ UNCHANGED <<page, cronJob, socket, timers, loads, shown, drops, unheard>>

Announce(e) ==
  /\ e \in announcements /\ announcements' = announcements \ {e}
  /\ Emit("execution:completed")
  /\ unheard' = IF connected THEN unheard ELSE version
  /\ UNCHANGED <<page, cronJob, cronExecution, phase, version, connected, timers, loads,
                 shown, drops>>

\* remove: the rows of the job go with it (onDelete: Cascade).
RemoveJob(j) ==
  /\ cronJob[j] # "absent" /\ Changed
  /\ cronJob' = [cronJob EXCEPT ![j] = "absent"]
  /\ \E order \in Orders({i \in DOMAIN cronExecution : cronExecution[i].job # j}) :
       cronExecution' = [k \in DOMAIN order |-> cronExecution[order[k]]]
  /\ unheard' = Unnoticed
  /\ UNCHANGED <<page, phase, announcements, socket, timers, loads, shown, drops>>

-----------------------------------------------------------------------------
(* Faults.                                                                 *)

Drop == drops < MaxDrops /\ drops' = drops + 1

\* The writes of a run fail: its job becomes FAILED, its end is announced, and its row
\* stays as it is.
Abandon(e) ==
  /\ phase[e] \in {"started", "open"} /\ Changed /\ Drop
  /\ phase' = [phase EXCEPT ![e] = "ended"]
  /\ announcements' = announcements \union {e}
  /\ UNCHANGED <<page, cronJob, cronExecution, socket, timers, loads, shown, unheard>>

\* The process ends before the event.
Forget(e) ==
  /\ e \in announcements /\ announcements' = announcements \ {e} /\ Drop
  /\ unheard' = version
  /\ UNCHANGED <<page, cronJob, cronExecution, phase, version, socket, timers, loads, shown>>

\* The events on their way are lost with the connection.
Disconnect ==
  /\ connected /\ Drop
  /\ connected' = FALSE /\ inbox' = <<>>
  /\ unheard' = IF inbox = <<>> THEN unheard ELSE version
  /\ UNCHANGED <<page, server, timers, loads, shown>>

\* The handler of "connect" only logs.
Connect ==
  /\ ~connected /\ connected' = TRUE
  /\ UNCHANGED <<page, server, inbox, timers, loads, shown, drops, unheard>>

-----------------------------------------------------------------------------
(* A fetch of /api/logs.                                                   *)

Fetch(l) == loads[l] = NoLoad /\ loads' = [loads EXCEPT ![l] = Sent]

\* findMany.
FindLogs(l) ==
  /\ loads[l] = Sent
  /\ loads' = [loads EXCEPT ![l] = Answer(cronExecution)]
  /\ UNCHANGED <<page, server, socket, timers, shown, drops, unheard>>

\* An HTML body among the rows found is removed from the table and from the answer; the
\* update of a row that is gone rejects the request.
CleanHtml(l) ==
  /\ loads[l].pc = "answer"
  /\ \E i \in Html(loads[l].rows) :
       LET here == At(cronExecution, loads[l].rows[i].id)
       IN  /\ loads' = [loads EXCEPT ![l] = IF here = {} THEN Rejected
                                            ELSE CleanedAt(@, i)]
           /\ cronExecution' = [k \in DOMAIN cronExecution |->
                IF k \in here THEN Cleaned(cronExecution[k]) ELSE cronExecution[k]]
  /\ UNCHANGED <<page, cronJob, phase, announcements, version, socket, timers, shown,
                 drops, unheard>>

\* The page shows the rows, whatever it has shown meanwhile.
ShowList(l) ==
  /\ loads[l].pc = "answer" /\ Html(loads[l].rows) = {}
  /\ list' = loads[l].rows /\ notice' = "none"
  /\ loaded' = loads[l].version /\ newest' = Later(newest, loads[l].version)
  /\ loads' = [loads EXCEPT ![l] = NoLoad]
  /\ UNCHANGED <<page, server, socket, timers, drops, unheard>>

\* An answer with an error, or none.
ShowFailure(l) ==
  /\ loads[l] # NoLoad
  /\ IF loads[l] = Rejected THEN UNCHANGED drops ELSE Drop
  /\ list' = <<>> /\ notice' = "Failed to load"
  /\ unheard' = version
  /\ loads' = [loads EXCEPT ![l] = NoLoad]
  /\ UNCHANGED <<page, server, socket, timers, loaded, newest>>

-----------------------------------------------------------------------------
(* What the pages promise of the list.                                     *)

LoadType == {NoLoad, Sent, Rejected} \union
  [pc : {"answer"}, rows : Seq(Row), version : 0 .. version]

FeedTypeOK ==
  /\ cronJob \in [Jobs -> {"active", "inactive", "absent"}]
  /\ cronExecution \in Seq(Row) /\ list \in Seq(Row)
  /\ phase \in [Executions -> {"new", "started", "open", "ended"}]
  /\ announcements \subseteq Executions /\ connected \in BOOLEAN
  /\ inbox \in Seq({"execution:started", "execution:completed"})
  /\ loads \in [Loads -> LoadType] /\ {timers, drops, version} \subseteq Nat
  /\ notice \in {"none", "Loading...", "Failed to load"}
  /\ {unheard, loaded, newest} \subseteq 0 .. version

ListSettled == /\ announcements = {} /\ inbox = <<>> /\ timers = 0
               /\ \A l \in Loads : loads[l] = NoLoad

\* When no event, reload or answer is on its way, the list shows the rows of CronExecution
\* in their order, unless a change came after the last reload (the row of a run that was
\* opened late, rows deleted with their job), an event or a fetch was lost, or an older
\* answer was rendered over a newer one.
ListCurrent ==
  ListSettled /\ notice = "none" /\ unheard <= loaded /\ loaded = newest
    => list = Listing(cronExecution)
=============================================================================
