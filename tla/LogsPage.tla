-------------------------------- MODULE LogsPage --------------------------------
(***************************************************************************)
(* The page of the logs (public/js/logs.js): its list, the array logsData  *)
(* its buttons point into by index, and the dialog that shows the response *)
(* of one row.  Every reload writes the array again while a dialog may be  *)
(* open.                                                                   *)
(***************************************************************************)
EXTENDS ExecutionFeed

CONSTANT MaxClicks  \* bound: openings of the dialog

VARIABLES
  logsData,   \* the rows by index; what a shorter list leaves stays at the end
  dialog,     \* the id of the row the dialog shows, or "closed"
  element,    \* #modal-response-body is in the document
  current,    \* currentModalLogIndex
  clipboard,  \* the id of the row whose body was copied last
  rendered,   \* history: a list was rendered since the dialog was opened
  clicks      \* how often the dialog was opened

logsVars == <<logsData, dialog, element, current, clipboard, rendered, clicks>>

-----------------------------------------------------------------------------
LogsInit == /\ logsData = <<>> /\ dialog = "closed" /\ element = TRUE
            /\ current = 0 /\ clipboard = "empty" /\ rendered = FALSE /\ clicks = 0

\* loadLogs is called at once when the page is opened.
LogsOpened == /\ timers = 0
              /\ \E first \in Loads : loads = [l \in Loads |-> IF l = first THEN Sent ELSE NoLoad]

\* Mutant: nothing follows the start of a run.
LogsReceiveEnd ==
  /\ inbox # <<>> /\ inbox' = Tail(inbox)
  /\ timers' = IF Head(inbox) = "execution:completed" THEN timers + 1 ELSE timers
  /\ UNCHANGED <<page, server, connected, loads, shown, drops, unheard, logsVars>>

\* The handlers of the events: a reload after 1000 ms or 500 ms.
LogsReceive ==
  /\ inbox # <<>> /\ inbox' = Tail(inbox)
  /\ timers' = timers + 1
  /\ UNCHANGED <<page, server, connected, loads, shown, drops, unheard, logsVars>>

LogsTimerEnds(l) ==
  /\ timers > 0 /\ timers' = timers - 1
  /\ Fetch(l)
  /\ UNCHANGED <<page, server, socket, shown, drops, unheard, logsVars>>

\* Mutant: the array is emptied first.
LogsRenderFresh(l) ==
  /\ ShowList(l)
  /\ logsData' = list'
  /\ rendered' = TRUE
  /\ UNCHANGED <<dialog, element, current, clipboard, clicks>>

\* Each row that is rendered is stored at its index.
LogsRender(l) ==
  /\ ShowList(l)
  /\ logsData' = list' \o SubSeq(logsData, Len(list') + 1, Len(logsData))
  /\ rendered' = TRUE
  /\ UNCHANGED <<dialog, element, current, clipboard, clicks>>

-----------------------------------------------------------------------------
(* The dialog.  A row has a button if it has a body or an error.           *)

Button(i) == i \in DOMAIN list /\ (list[i].body # "none" \/ list[i].status = "FAILED")

\* Mutant: the index is only stored for the first dialog.
ShowResponseModalOnce(i) ==
  /\ dialog = "closed" /\ Button(i) /\ clicks < MaxClicks /\ clicks' = clicks + 1
  /\ element
  /\ dialog' = logsData[i].id
  /\ current' = IF current = 0 THEN i ELSE current
  /\ element' = (logsData[i].status # "FAILED")
  /\ rendered' = FALSE
  /\ UNCHANGED <<page, server, socket, timers, loads, shown, drops, unheard, logsData, clipboard>>

\* showResponseModal: an error is shown in the place of the element that a later call
\* clears first, so that every later call throws.
ShowResponseModal(i) ==
  /\ dialog = "closed" /\ Button(i) /\ clicks < MaxClicks /\ clicks' = clicks + 1
  /\ element
  /\ dialog' = logsData[i].id
  /\ current' = i
  /\ element' = (logsData[i].status # "FAILED")
  /\ rendered' = FALSE
  /\ UNCHANGED <<page, server, socket, timers, loads, shown, drops, unheard, logsData, clipboard>>

CloseResponseModal ==
  /\ dialog # "closed" /\ dialog' = "closed"
  /\ UNCHANGED <<page, server, socket, timers, loads, shown, drops, unheard,
                 logsData, element, current, clipboard, rendered, clicks>>

\* copyResponseBody takes the row from the array when it is called; the button is hidden
\* for errors.
CopyResponseBody ==
  /\ dialog # "closed" /\ element
  /\ logsData[current].body # "none"
  /\ clipboard' = logsData[current].id
  /\ UNCHANGED <<page, server, socket, timers, loads, shown, drops, unheard,
                 logsData, dialog, element, current, rendered, clicks>>

LogsNext ==
  \/ \E l \in Loads :
       \/ LogsTimerEnds(l) \/ LogsRender(l)
       \/ (FindLogs(l) \/ CleanHtml(l) \/ ShowFailure(l)) /\ UNCHANGED logsVars
  \/ LogsReceive
  \/ \E i \in 1 .. Cardinality(Executions) : ShowResponseModal(i)
  \/ CloseResponseModal \/ CopyResponseBody

-----------------------------------------------------------------------------
(* What the page promises.                                                 *)

LogsTypeOK ==
  /\ logsData \in Seq(Row) /\ element \in BOOLEAN /\ rendered \in BOOLEAN
  /\ dialog \in Executions \union {"closed"} /\ clipboard \in Executions \union {"empty"}
  /\ current \in 0 .. Len(logsData) /\ clicks \in Nat
  /\ dialog # "closed" => current > 0

\* What is copied is what the dialog shows, unless the list was rendered while the dialog
\* was open: the array then holds another row at the index, or another version of it.
CopyMatches == [][clipboard' # clipboard /\ ~rendered => clipboard' = dialog]_<<clipboard, dialog>>
=============================================================================
