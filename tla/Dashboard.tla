-------------------------------- MODULE Dashboard --------------------------------
(***************************************************************************)
(* The dashboard: four counts and the recent executions.  Two scripts fetch*)
(* /stats when it is opened: dashboard.js reads fields that the answer of  *)
(* getStats does not have and writes zeros, app.js writes the counts 100 ms*)
(* later and after every event of an execution.  Nothing is fetched when   *)
(* jobs change or a day ends.  getStats counts with queries of their own,  *)
(* each at its own moment between the request and its answer.              *)
(***************************************************************************)
EXTENDS ExecutionFeed

VARIABLES
  today,         \* executions that were started today
  stats,         \* the counts the page shows
  asks,          \* fetches of /stats by app.js
  zeros,         \* the fetch of /stats by dashboard.js waits for its answer
  spoilt,        \* history: no answer to app.js was rendered since those zeros
  statsUnheard,  \* history: the last change that no fetch of the counts will follow
  statsLoaded,   \* history: the version at which the counts shown were asked for
  statsNewest    \* history: the latest such version

statsVars == <<today, stats, asks, zeros, spoilt, statsUnheard, statsLoaded, statsNewest>>

-----------------------------------------------------------------------------
Stats == [total : Nat, active : Nat, successToday : Nat, failedToday : Nat]
NoStats == [total |-> 0, active |-> 0, successToday |-> 0, failedToday |-> 0]

\* The counts of the tables.
Counts ==
  LET count(status) == Cardinality({i \in DOMAIN cronExecution :
        cronExecution[i].status = status /\ cronExecution[i].id \in today})
  IN  [total |-> Cardinality({j \in Jobs : cronJob[j] # "absent"}),
       active |-> Cardinality({j \in Jobs : cronJob[j] = "active"}),
       successToday |-> count("SUCCESS"), failedToday |-> count("FAILED")]

NoAsk == [seen |-> {}, version |-> 0]
Asking(l) == asks[l] # NoAsk
\* A fetch of the counts will still be sent.
AskDue == timers > 0 \/ inbox # <<>>

DashboardInit ==
  /\ today \in {{}, {e \in Executions : phase[e] = "ended"}}
  /\ stats = NoStats /\ asks = [l \in Loads |-> NoAsk] /\ zeros = TRUE /\ spoilt = TRUE
  /\ statsUnheard = 0 /\ statsLoaded = 0 /\ statsNewest = 0

\* The timer of 100 ms, for both fetches of app.js.
DashboardOpened == timers = 1 /\ loads = [l \in Loads |-> NoLoad]

-----------------------------------------------------------------------------
(* The server, while the page is open.                                     *)

\* Each count of a request that is under way may be taken before or after a change.
Witness ==
  asks' = [l \in Loads |-> IF Asking(l) THEN [asks[l] EXCEPT !.seen = @ \union {Counts'}]
                                        ELSE NoAsk]
Rest == UNCHANGED <<stats, zeros, spoilt, statsLoaded, statsNewest>>
NotAnnounced == statsUnheard' = IF AskDue THEN statsUnheard ELSE version'
Lost == statsUnheard' = version

\* A change of the jobs, of which the page hears nothing.
SetJob(j, state) ==
  /\ cronJob[j] # state /\ Changed
  /\ cronJob' = [cronJob EXCEPT ![j] = state]
  /\ UNCHANGED <<page, cronExecution, phase, announcements, socket, timers, loads, shown,
                 drops, unheard, today>>

NewDay ==
  /\ today # {} /\ today' = {} /\ Changed
  /\ UNCHANGED <<page, cronJob, cronExecution, phase, announcements, socket, timers, loads,
                 shown, drops, unheard>>

DashboardServer ==
  \/ \E e \in Executions :
       \/ (Start(e) \/ Abandon(e)) /\ UNCHANGED statsVars
       \/ /\ \E j \in Jobs : Open(e, j)
          /\ today' = today \union {e} /\ Rest /\ Witness /\ UNCHANGED statsUnheard
       \/ /\ \E status \in {"SUCCESS", "FAILED"} : Close(e, status)
          /\ UNCHANGED <<today, statsUnheard>> /\ Rest /\ Witness
       \/ /\ Announce(e) /\ Rest /\ UNCHANGED <<today, asks>>
          /\ IF connected THEN UNCHANGED statsUnheard ELSE Lost
       \/ Forget(e) /\ Rest /\ Lost /\ UNCHANGED <<today, asks>>
  \/ \E j \in Jobs :
       /\ \/ RemoveJob(j) /\ UNCHANGED today
          \/ \E state \in {"active", "inactive"} : SetJob(j, state)
       /\ Rest /\ Witness /\ NotAnnounced
  \/ NewDay /\ Rest /\ Witness /\ NotAnnounced
  \/ Disconnect /\ Rest /\ Lost /\ UNCHANGED <<today, asks>>
  \/ Connect /\ UNCHANGED statsVars

-----------------------------------------------------------------------------
(* The page.                                                               *)

\* updateStats, up to its fetch.
UpdateStats(l) ==
  /\ ~Asking(l)
  /\ asks' = [asks EXCEPT ![l] = [seen |-> {Counts}, version |-> version]]
  /\ UNCHANGED <<today, stats, zeros, spoilt, statsUnheard, statsLoaded, statsNewest>>

\* 100 ms after the page was opened: updateStats and updateRecentExecutions.
DashboardTimerEnds(l) ==
  /\ timers > 0 /\ timers' = timers - 1
  /\ UpdateStats(l) /\ Fetch(l)
  /\ UNCHANGED <<page, server, socket, shown, drops, unheard>>

\* Mutant: the end of a run only updates the list.
DashboardReceiveList(l, k) ==
  /\ inbox # <<>> /\ inbox' = Tail(inbox)
  /\ IF Head(inbox) = "execution:completed"
     THEN Fetch(k) /\ UNCHANGED statsVars ELSE UpdateStats(l) /\ UNCHANGED loads
  /\ UNCHANGED <<page, server, connected, timers, shown, drops, unheard>>

\* The handlers of the events.
DashboardReceive(l, k) ==
  /\ inbox # <<>> /\ inbox' = Tail(inbox)
  /\ UpdateStats(l)
  /\ IF Head(inbox) = "execution:completed" THEN Fetch(k) ELSE UNCHANGED loads
  /\ UNCHANGED <<page, server, connected, timers, shown, drops, unheard>>

\* The answer of getStats: each count as it was at some moment of the request.
ShowStats(l) ==
  /\ Asking(l)
  /\ LET moments == asks[l].seen
     IN  stats' \in [total : {m.total : m \in moments}, active : {m.active : m \in moments},
                     successToday : {m.successToday : m \in moments},
                     failedToday : {m.failedToday : m \in moments}]
  /\ statsLoaded' = asks[l].version
  /\ statsNewest' = Later(statsNewest, asks[l].version)
  /\ asks' = [asks EXCEPT ![l] = NoAsk] /\ spoilt' = FALSE
  /\ UNCHANGED <<page, server, socket, timers, loads, shown, drops, unheard,
                 today, zeros, statsUnheard>>

\* It fails: the page keeps what it shows.
NoAnswer(l) ==
  /\ Asking(l) /\ Drop
  /\ asks' = [asks EXCEPT ![l] = NoAsk] /\ Lost
  /\ UNCHANGED <<page, server, socket, timers, loads, shown, unheard,
                 today, stats, zeros, spoilt, statsLoaded, statsNewest>>

\* loadDashboardData: the answer has no totalJobs, activeJobs, successToday or failedToday;
\* without an answer that is ok nothing is written.
LoadDashboardData ==
  /\ zeros /\ zeros' = FALSE
  /\ \/ stats' = NoStats /\ spoilt' = TRUE
     \/ UNCHANGED <<stats, spoilt>>
  /\ UNCHANGED <<page, server, socket, timers, loads, shown, drops, unheard,
                 today, asks, statsUnheard, statsLoaded, statsNewest>>

DashboardNext ==
  \/ \E l, k \in Loads : DashboardReceive(l, k)
  \/ \E l \in Loads :
       \/ DashboardTimerEnds(l) \/ ShowStats(l) \/ NoAnswer(l)
       \/ (FindLogs(l) \/ CleanHtml(l) \/ ShowList(l) \/ ShowFailure(l)) /\ UNCHANGED statsVars
  \/ LoadDashboardData

-----------------------------------------------------------------------------
(* What the page promises.                                                 *)

DashboardTypeOK ==
  /\ today \subseteq Executions /\ zeros \in BOOLEAN /\ spoilt \in BOOLEAN
  /\ stats \in Stats
  /\ asks \in [Loads -> [seen : SUBSET Stats, version : 0 .. version]]
  /\ {statsUnheard, statsLoaded, statsNewest} \subseteq 0 .. version

StatsSettled == /\ announcements = {} /\ inbox = <<>> /\ timers = 0 /\ ~zeros
                /\ \A l \in Loads : ~Asking(l)

\* When nothing is on its way, the four counts are those of the tables, although the
\* queries of getStats do not see one moment, unless the zeros of dashboard.js were
\* written last, a job changed or a day ended after the last fetch, an event or a fetch
\* was lost, or an older answer was rendered over a newer one.
StatsCurrent ==
  StatsSettled /\ ~spoilt /\ statsUnheard <= statsLoaded /\ statsLoaded = statsNewest
    => stats = Counts
=============================================================================
