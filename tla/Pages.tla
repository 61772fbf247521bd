--------------------------------- MODULE Pages ---------------------------------
(***************************************************************************)
(* One page of the application is open: the dashboard, the logs, or the    *)
(* form on the page of the jobs.  Every page loads app.js, so that all of  *)
(* them have a socket; what a page makes of the events is its own.  Leaving*)
(* a page ends all that it waits for, so each behaviour is that of one     *)
(* page and the server behind it.                                          *)
(***************************************************************************)
EXTENDS LogsPage, Dashboard, CronForm

feedVars == <<page, server, socket, timers, loads, shown, drops, unheard>>
vars == <<feedVars, logsVars, statsVars, formVars>>

-----------------------------------------------------------------------------
\* A page is opened.
Init ==
  /\ page \in {"/", "/logs", "/jobs"}
  /\ FeedInit /\ LogsInit /\ DashboardInit /\ FormInit
  /\ IF page = "/logs" THEN LogsOpened ELSE DashboardOpened

\* What the server does while the page of the logs is open.
LogsServer ==
  \/ \E e \in Executions :
       \/ Start(e) \/ Announce(e) \/ Abandon(e) \/ Forget(e)
       \/ \E j \in Jobs : Open(e, j)
       \/ \E status \in {"SUCCESS", "FAILED"} : Close(e, status)
  \/ \E j \in Jobs : RemoveJob(j)
  \/ Disconnect \/ Connect

Next ==
  \/ /\ page = "/"
     /\ DashboardServer \/ DashboardNext
     /\ UNCHANGED <<logsVars, formVars>>
  \/ /\ page = "/logs"
     /\ (LogsServer /\ UNCHANGED logsVars) \/ LogsNext
     /\ UNCHANGED <<statsVars, formVars>>
  \/ /\ page = "/jobs"
     /\ FormNext
     /\ UNCHANGED <<feedVars, logsVars, statsVars>>

Spec == Init /\ [][Next]_vars

\* Every variable of the pages has its type, and no index points outside of logsData.
TypeOK == FeedTypeOK /\ LogsTypeOK /\ DashboardTypeOK /\ FormTypeOK
=============================================================================
