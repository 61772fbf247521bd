----------------------------- MODULE JobsPageProofs -----------------------------
(***************************************************************************)
(* Proofs about JobsPage for all jobs, any number of fetches at the same   *)
(* time, and all bounds.                                                   *)
(***************************************************************************)
EXTENDS JobsPage, FiniteSetTheorems, SequenceTheorems, WellFoundedInduction, TLAPS

-----------------------------------------------------------------------------
(* What is on its way to the page.                                         *)

\* The events that are not announced yet, and those that were emitted and not handled.
Pending == {a.event : a \in announcements} \union {inbox[i] : i \in DOMAIN inbox}

\* The lists of rows.
Tables == UNION {[S -> Row] : S \in SUBSET Jobs}

\* A fetch has been answered with these rows, of version v.
WillRender(l, rows, v) == loads[l] = Answered(rows, v)

\* A list that is read from now on will be shown, or something newer than version v; or it
\* is known that the page does not hear of something newer.
Due(v) ==
  \/ unheard > v \/ timers > 0 \/ answers > 0
  \/ \E e \in Pending : e.label # "RUNNING" /\ e.version > v
  \/ \E l \in Loads : loads[l] = Sent \/ \E rows, u : WillRender(l, rows, u) /\ u > v

\* Version v is old, and that will be noticed.
Stale(v) == v < version /\ Due(v)
Late(j, v) == Stale(v) \/ (v < version /\ told[j] > v)

Running(j) == Exists(j) /\ cronJob[j].status = "RUNNING"
Agrees(rows, j) ==
  IF Exists(j) THEN j \in DOMAIN rows /\ AsShown(rows[j], cronJob[j]) ELSE j \notin DOMAIN rows

\* Only the label and the time of a run are missing, and the label comes with the event.
OnceLabelled(shown, row) == [shown EXCEPT !.status = "RUNNING", !.lastRunAt = row.lastRunAt] = row
Relabel(rows, v, j) ==
  /\ Running(j) /\ j \in DOMAIN rows /\ OnceLabelled(rows[j], cronJob[j])
  /\ \E e \in Pending : e.label = "RUNNING" /\ e.job = j /\ e.version > v

\* The row of j in a list of version v is that of the table, or the list is old, or the
\* label comes.
Held(rows, v, j) == Agrees(rows, j) \/ Stale(v) \/ Relabel(rows, v, j)

-----------------------------------------------------------------------------
(* The inductive invariant.                                                *)

Named(e) ==
  /\ e.name = "execution:started" <=> e.label = "RUNNING"
  /\ e.name = "execution:completed" <=> e.label \in Terminal

\* No event is ahead of the table; the last one carries the status of the row; and if an
\* event says RUNNING, the job is, or that is old.
Truthful ==
  \A e \in Event : e \in Pending =>
    /\ e.version <= version /\ Named(e)
    /\ e.version = version /\ e.label # "none" => Exists(e.job) /\ cronJob[e.job].status = e.label
    /\ e.label = "RUNNING" => Running(e.job) \/ Late(e.job, e.version)

\* Each row of a list that will be shown is current, or that will be noticed, or the page has
\* been told of something newer and this list will not be taken for intact.
AnswersFresh ==
  \A l \in Loads, rows \in Tables, v \in Nat : WillRender(l, rows, v) =>
    v <= version /\ \A j \in Jobs : Held(rows, v, j) \/ Late(j, v)

\* Each row that is shown is current, or that will be noticed.
Shows(rows, v) == intact /\ notice = "none" /\ table = rows /\ loaded = v
TableFresh == \A rows \in Tables, v \in Nat : Shows(rows, v) => \A j \in Jobs : Held(rows, v, j)

\* What is shown has been told of, and as long as nothing is shown, a list is waited for.
LoadedTold == \A j \in Jobs : told[j] >= loaded
FirstAwaited == intact /\ notice # "none" => \E l \in Loads : loads[l] # NoLoad

\* The counters of a row and of a job are bounded by the number of changes; a run that has
\* not announced itself still counts.
Starting(j) == {a \in announcements : a.event.job = j /\ a.event.name = "execution:started"}
Bounded(row, v) == row.nextRunAt <= v /\ row.lastRunAt <= v
RowsBounded == \A j \in Jobs : Exists(j) => Bounded(cronJob[j], version)
RunsBounded ==
  /\ IsFiniteSet(announcements)
  /\ \A j \in Jobs : runs[j] <= version /\ Cardinality(Starting(j)) <= runs[j]

PageInv ==
  /\ TypeOK /\ version <= MaxChanges /\ RowsBounded /\ RunsBounded
  /\ Truthful /\ AnswersFresh /\ TableFresh /\ LoadedTold /\ FirstAwaited

-----------------------------------------------------------------------------
(* Types.                                                                  *)

\* TypeOK in parts.
TypeJobs == cronJob \in [Jobs -> Row \union {Unborn, Deleted}]
TypeRuns == runs \in [Jobs -> 0 .. MaxChanges]
TypeEvents == /\ announcements \subseteq [event : Event, ours : BOOLEAN]
              /\ inbox \in Seq(Event) /\ connected \in BOOLEAN
TypeLoads == loads \in [Loads -> LoadType]
TypeShown == table \in Tables /\ notice \in {"none", "Loading...", "Failed to load jobs"}
TypeCounts == /\ {answers, timers, version, drops} \subseteq Nat
              /\ {unheard, loaded} \subseteq 0 .. version /\ told \in [Jobs -> 0 .. version]

LEMMA TypeParts ==
  TypeOK <=> TypeJobs /\ TypeRuns /\ TypeEvents /\ TypeLoads /\ TypeShown /\ TypeCounts
  BY DEF TypeOK, TypeJobs, TypeRuns, TypeEvents, TypeLoads, TypeShown, TypeCounts, Tables

LEMMA TypePartsLater ==
  TypeOK' <=> TypeJobs' /\ TypeRuns' /\ TypeEvents' /\ TypeLoads' /\ TypeShown' /\ TypeCounts'
  BY DEF TypeOK, TypeJobs, TypeRuns, TypeEvents, TypeLoads, TypeShown, TypeCounts, Tables

LEMMA RowOfJob ==
  ASSUME TypeOK, NEW j \in Jobs
  PROVE  /\ Exists(j) => cronJob[j] \in Row
         /\ ~Exists(j) => cronJob[j] \in {Unborn, Deleted}
         /\ Unborn \notin Row /\ Deleted \notin Row
  BY DEF TypeOK, Exists, Row, Unborn, Deleted

\* The states of a fetch exclude each other.
LEMMA LoadStates ==
  /\ NoLoad # Sent /\ NoLoad.pc # "answered" /\ Sent.pc # "answered"
  /\ NoLoad \in LoadType /\ Sent \in LoadType
  /\ \A rows, v : /\ Answered(rows, v).pc = "answered"
                  /\ Answered(rows, v).rows = rows /\ Answered(rows, v).version = v
                  /\ Answered(rows, v) # NoLoad /\ Answered(rows, v) # Sent
  /\ \A rows, v, others, u : Answered(rows, v) = Answered(others, u) => rows = others /\ v = u
  /\ \A rows \in Tables, v \in 0 .. MaxChanges : Answered(rows, v) \in LoadType
  /\ \A x \in LoadType : x.pc = "answered" =>
       \E rows \in Tables, v \in 0 .. MaxChanges : x = Answered(rows, v)
  /\ \A rows, v : Answered(rows, v) \in LoadType => rows \in Tables /\ v \in 0 .. MaxChanges
<1>1. \A rows, v : /\ Answered(rows, v).pc = "answered"
                   /\ Answered(rows, v).rows = rows /\ Answered(rows, v).version = v
  BY DEF Answered
<1>2. NoLoad.pc = "idle" /\ Sent.pc = "sent" /\ NoLoad # Sent
  BY DEF NoLoad, Sent
<1>3. LoadType = {NoLoad, Sent} \union {Answered(rows, v) : rows \in Tables, v \in 0 .. MaxChanges}
  BY DEF LoadType, Tables
<1>4. \A rows, v, others, u : Answered(rows, v) = Answered(others, u) => rows = others /\ v = u
  <2> SUFFICES ASSUME NEW rows, NEW v, NEW others, NEW u, Answered(rows, v) = Answered(others, u)
               PROVE  rows = others /\ v = u
    OBVIOUS
  <2> QED
    BY <1>1
<1>5. \A x \in LoadType : x.pc = "answered" =>
        \E rows \in Tables, v \in 0 .. MaxChanges : x = Answered(rows, v)
  BY <1>2, <1>3
<1>6. \A rows, v : Answered(rows, v) \in LoadType => rows \in Tables /\ v \in 0 .. MaxChanges
  <2> SUFFICES ASSUME NEW rows, NEW v, Answered(rows, v) \in LoadType
               PROVE  rows \in Tables /\ v \in 0 .. MaxChanges
    OBVIOUS
  <2>1. PICK others \in Tables, u \in 0 .. MaxChanges : Answered(rows, v) = Answered(others, u)
    BY <1>1, <1>5
  <2> QED
    BY <1>4, <2>1
<1>7. \A rows \in Tables, v \in 0 .. MaxChanges : Answered(rows, v) \in LoadType
  BY <1>3
<1>8. NoLoad \in LoadType /\ Sent \in LoadType
  BY <1>3
<1>9. \A rows, v : Answered(rows, v) # NoLoad /\ Answered(rows, v) # Sent
  BY <1>1, <1>2
<1> QED
  BY <1>1, <1>2, <1>4, <1>5, <1>6, <1>7, <1>8, <1>9

LEMMA TableTypes ==
  /\ \A rows \in Tables : DOMAIN rows \in SUBSET Jobs /\ \A j \in DOMAIN rows : rows[j] \in Row
  /\ NoRows \in Tables
  /\ TypeOK => Listed \in Tables
<1>1. \A rows \in Tables : DOMAIN rows \in SUBSET Jobs /\ \A j \in DOMAIN rows : rows[j] \in Row
  BY DEF Tables
<1>2. NoRows \in [{} -> Row]
  BY DEF NoRows
<1>3. TypeOK => Listed \in [{j \in Jobs : Exists(j)} -> Row]
  BY DEF Listed, Exists
<1>4. \A S \in SUBSET Jobs : \A f \in [S -> Row] : f \in Tables
  BY DEF Tables
<1> QED
  BY <1>1, <1>2, <1>3, <1>4

\* A label that is written makes a list of rows a list of rows.
LEMMA LabelTypes ==
  ASSUME TypeOK, NEW j \in Jobs, NEW status \in {"RUNNING"} \union Terminal
  PROVE  /\ Labelled(j, status) \in Tables /\ DOMAIN Labelled(j, status) = DOMAIN table
         /\ \A k \in DOMAIN table :
              Labelled(j, status)[k] = IF k = j THEN [table[k] EXCEPT !.status = status]
                                                ELSE table[k]
<1>0. PICK S \in SUBSET Jobs : table \in [S -> Row]
  BY DEF TypeOK
<1>1. CASE j \in DOMAIN table
  <2>1. Labelled(j, status) = [table EXCEPT ![j].status = status]
    BY <1>1 DEF Labelled
  <2>2. [table[j] EXCEPT !.status = status] \in Row
    BY <1>0, <1>1 DEF Row
  <2>3. Labelled(j, status) \in [S -> Row]
    BY <1>0, <1>1, <2>1, <2>2
  <2> QED
    BY <1>0, <1>1, <2>1, <2>3 DEF Tables
<1>2. CASE j \notin DOMAIN table
  BY <1>0, <1>2 DEF Labelled, Tables
<1> QED
  BY <1>1, <1>2

\* The maximum of a set of numbers with a bound.
LEMMA MaxOfBounded ==
  ASSUME NEW n \in Nat, NEW S \in SUBSET (0 .. n), S # {}
  PROVE  Max(S) \in S /\ \A x \in S : Max(S) >= x
<1> DEFINE T == {n - x : x \in S}
<1>1. T \subseteq Nat /\ T # {}
  <2>1. \A x \in S : n - x \in Nat
    OBVIOUS
  <2>2. PICK x : x \in S
    OBVIOUS
  <2>3. n - x \in T
    BY <2>2
  <2> QED
    BY <2>1, <2>3
<1>2. PICK d \in T : \A y \in T : ~ (<<y, d>> \in OpToRel(<, Nat))
  BY <1>1, WFMin, NatLessThanWellFounded, Zenon
<1>3. \A y \in T : ~(y < d)
  BY <1>1, <1>2 DEF OpToRel
<1>4. PICK m \in S : d = n - m
  OBVIOUS
<1>5. \A x \in S : m >= x
  <2> SUFFICES ASSUME NEW x \in S PROVE m >= x
    OBVIOUS
  <2>1. n - x \in T
    OBVIOUS
  <2>2. ~(n - x < n - m)
    BY <1>3, <1>4, <2>1
  <2> QED
    BY <2>2
<1> QED
  BY <1>5 DEF Max

-----------------------------------------------------------------------------
(* What the actions do to the events and the table.                        *)

\* The row of a job that starts to run.
Begun(row) == [row EXCEPT !.status = "RUNNING", !.lastRunAt = @ + 1]

\* A change of the table, with what its callers make of it.
Committed(j, row, name, label, ours) ==
  /\ Commit(j, row, name, label, ours) /\ ours \in BOOLEAN
  /\ row \in Row \union {Deleted} /\ (row \in Row => Bounded(row, version + 1))
  /\ [name |-> name, job |-> j, label |-> label, version |-> version + 1] \in Event
  /\ name = "execution:started" <=> label = "RUNNING"
  /\ name = "execution:completed" <=> label \in Terminal
  /\ label # "none" => row \in Row /\ row.status = label
  /\ label = "RUNNING" => Exists(j) /\ row = Begun(cronJob[j])

LEMMA Commits ==
  ASSUME TypeOK, RowsBounded, NEW j \in Jobs,
         \/ MarkRunning(j)
         \/ \E ours \in BOOLEAN : \/ Create(j, ours) \/ Update(j, ours) \/ Toggle(j, ours) \/ Remove(j, ours)
                                  \/ \E status \in Terminal : Complete(j, status, ours)
  PROVE  \E row, name, label, ours : Committed(j, row, name, label, ours)
<1>a. version \in Nat /\ MaxChanges \in Nat
  BY TypeParts, BoundAssumption DEF TypeCounts
<1>b. Exists(j) =>
        /\ cronJob[j].isActive \in BOOLEAN
        /\ cronJob[j].lastRunAt \in 0 .. MaxChanges /\ cronJob[j].nextRunAt \in 0 .. MaxChanges
        /\ cronJob[j].status \in {"PENDING", "RUNNING"} \union Terminal
        /\ cronJob[j] = [isActive |-> cronJob[j].isActive, status |-> cronJob[j].status,
                         lastRunAt |-> cronJob[j].lastRunAt, nextRunAt |-> cronJob[j].nextRunAt]
        /\ cronJob[j].nextRunAt <= version /\ cronJob[j].lastRunAt <= version
  BY RowOfJob DEF Row, RowsBounded, Bounded
<1>c. ASSUME NEW name, NEW label, NEW row, NEW ours, Commit(j, row, name, label, ours),
             name \in {"cron:created", "cron:updated", "cron:deleted",
                       "execution:started", "execution:completed"},
             label \in {"RUNNING", "none"} \union Terminal
      PROVE  [name |-> name, job |-> j, label |-> label, version |-> version + 1] \in Event
  <2>1. version + 1 \in 1 .. MaxChanges
    BY <1>a, <1>c DEF Commit
  <2> QED
    BY <1>c, <2>1 DEF Event
<1>1. ASSUME NEW ours \in BOOLEAN, Create(j, ours)
      PROVE  Committed(j, FirstRow, "cron:created", "none", ours)
  <2>1. FirstRow \in Row /\ FirstRow.nextRunAt = 0 /\ FirstRow.lastRunAt = 0
    BY <1>a DEF FirstRow, Row
  <2>2. Bounded(FirstRow, version + 1)
    BY <1>a, <2>1 DEF Bounded
  <2> QED
    BY <1>c, <1>1, <2>1, <2>2 DEF Create, Committed, Terminal
<1>2. ASSUME NEW ours \in BOOLEAN, Toggle(j, ours)
      PROVE  \E row : Committed(j, row, "cron:updated", "none", ours)
  <2> DEFINE row == [cronJob[j] EXCEPT !.isActive = ~@]
  <2>1. Commit(j, row, "cron:updated", "none", ours) /\ Exists(j)
    BY <1>2 DEF Toggle
  <2>2. row \in Row /\ row.nextRunAt = cronJob[j].nextRunAt /\ row.lastRunAt = cronJob[j].lastRunAt
    BY <1>b, <2>1 DEF Row
  <2>3. Bounded(row, version + 1)
    BY <1>a, <1>b, <2>1, <2>2 DEF Bounded
  <2> QED
    BY <1>2, <1>c, <2>1, <2>2, <2>3 DEF Committed, Terminal
<1>6. ASSUME NEW ours \in BOOLEAN, Update(j, ours)
      PROVE  \E row : Committed(j, row, "cron:updated", "none", ours)
  <2> DEFINE row == [cronJob[j] EXCEPT !.nextRunAt = @ + 1]
  <2>1. Commit(j, row, "cron:updated", "none", ours) /\ Exists(j) /\ version < MaxChanges
    BY <1>6 DEF Update, Commit
  <2>2. cronJob[j].nextRunAt + 1 \in 0 .. MaxChanges /\ cronJob[j].nextRunAt + 1 <= version + 1
    BY <1>a, <1>b, <2>1
  <2>3. /\ row \in Row /\ row.nextRunAt = cronJob[j].nextRunAt + 1
        /\ row.lastRunAt = cronJob[j].lastRunAt
    BY <1>b, <2>1, <2>2 DEF Row
  <2>4. Bounded(row, version + 1)
    BY <1>a, <1>b, <2>1, <2>2, <2>3 DEF Bounded
  <2> QED
    BY <1>6, <1>c, <2>1, <2>3, <2>4 DEF Committed, Terminal
<1>3. ASSUME NEW ours \in BOOLEAN, Remove(j, ours)
      PROVE  Committed(j, Deleted, "cron:deleted", "none", ours)
  BY <1>c, <1>3, RowOfJob DEF Remove, Committed, Terminal
<1>4. ASSUME MarkRunning(j)
      PROVE  \E row : Committed(j, row, "execution:started", "RUNNING", FALSE)
  <2> DEFINE row == Begun(cronJob[j])
  <2>1. Commit(j, row, "execution:started", "RUNNING", FALSE) /\ Exists(j) /\ version < MaxChanges
    BY <1>4 DEF MarkRunning, Commit, Begun
  <2>0. cronJob[j].lastRunAt + 1 \in 0 .. MaxChanges /\ cronJob[j].lastRunAt + 1 <= version + 1
    BY <1>a, <1>b, <2>1
  <2>2. /\ row \in Row /\ row.nextRunAt = cronJob[j].nextRunAt /\ row.status = "RUNNING"
        /\ row.lastRunAt = cronJob[j].lastRunAt + 1
    BY <1>b, <2>0, <2>1 DEF Row, Begun
  <2>3. Bounded(row, version + 1)
    BY <1>a, <1>b, <2>0, <2>1, <2>2 DEF Bounded
  <2> QED
    BY <1>c, <2>1, <2>2, <2>3 DEF Committed, Terminal
<1>5. ASSUME NEW ours \in BOOLEAN, NEW status \in Terminal, Complete(j, status, ours)
      PROVE  \E row : Committed(j, row, "execution:completed", status, ours)
  <2>1. PICK more \in {0, 1} :
          Commit(j, [cronJob[j] EXCEPT !.status = status, !.nextRunAt = @ + more],
                 "execution:completed", status, ours)
    BY <1>5 DEF Complete
  <2> DEFINE row == [cronJob[j] EXCEPT !.status = status, !.nextRunAt = @ + more]
  <2>2. Exists(j) /\ version < MaxChanges
    BY <1>5, <2>1 DEF Complete, Commit
  <2>3. cronJob[j].nextRunAt + more \in 0 .. MaxChanges /\ cronJob[j].nextRunAt + more <= version + 1
    BY <1>a, <1>b, <2>2
  <2>4. /\ row \in Row /\ row.nextRunAt = cronJob[j].nextRunAt + more /\ row.status = status
        /\ row.lastRunAt = cronJob[j].lastRunAt
    BY <1>b, <2>2, <2>3 DEF Row
  <2>6. Bounded(row, version + 1)
    BY <1>a, <1>b, <2>2, <2>3, <2>4 DEF Bounded
  <2>5. status # "RUNNING" /\ status # "none"
    BY DEF Terminal
  <2> QED
    BY <1>5, <1>c, <2>1, <2>4, <2>5, <2>6 DEF Committed
<1> QED
  BY <1>1, <1>2, <1>3, <1>4, <1>5, <1>6

LEMMA CommitPending ==
  ASSUME NEW j, NEW row, NEW name, NEW label, NEW ours, Commit(j, row, name, label, ours)
  PROVE  Pending' = Pending \union
           {[name |-> name, job |-> j, label |-> label, version |-> version + 1]}
<1> DEFINE event == [name |-> name, job |-> j, label |-> label, version |-> version + 1]
<1> DEFINE announced == [event |-> event, ours |-> ours]
<1>1. inbox' = inbox /\ announcements' = announcements \union {announced}
  BY DEF Commit
<1>2. announced.event = event
  OBVIOUS
<1> HIDE DEF announced, event
<1>3. Pending' = Pending \union {event}
  BY <1>1, <1>2 DEF Pending
<1> QED
  BY <1>3 DEF event

\* An event that leaves without being handled is one that the page is known not to hear of.
PendingKept == \A e \in Event : e \in Pending => e \in Pending' \/ unheard' >= e.version

\* The events and the connection move, and nothing else.
Delivery == (\E a \in announcements : Announce(a) \/ Forget(a)) \/ Disconnect \/ Connect

LEMMA Deliveries ==
  ASSUME TypeOK, Truthful, Delivery
  PROVE  /\ UNCHANGED <<cronJob, version, page>>
         /\ Pending' \subseteq Pending /\ PendingKept /\ TypeEvents'
         /\ unheard' \in 0 .. version /\ unheard' >= unheard
         /\ answers' \in Nat /\ answers' >= answers /\ drops' \in Nat
<1> DEFINE Goal == /\ UNCHANGED <<cronJob, version, page>>
                   /\ Pending' \subseteq Pending /\ PendingKept /\ TypeEvents'
                   /\ unheard' \in 0 .. version /\ unheard' >= unheard
                   /\ answers' \in Nat /\ answers' >= answers /\ drops' \in Nat
<1>a. /\ announcements \subseteq [event : Event, ours : BOOLEAN] /\ connected \in BOOLEAN
      /\ inbox \in Seq(Event) /\ version \in Nat /\ unheard \in 0 .. version
      /\ answers \in Nat /\ drops \in Nat
  BY DEF TypeOK
<1>b. /\ DOMAIN inbox = 1 .. Len(inbox) /\ Len(inbox) \in Nat
      /\ \A i \in DOMAIN inbox : inbox[i] \in Event
  BY <1>a, LenProperties, ElementOfSeq
<1>c. \A e \in Pending : e \in Event /\ e.version \in 1 .. version
  <2>1. \A e \in Pending : e \in Event
    BY <1>a, <1>b DEF Pending
  <2> QED
    BY <1>a, <2>1 DEF Truthful, Event
<1>1. ASSUME NEW a \in announcements, Announce(a) PROVE Goal
  <2>0. a.event \in Event /\ a.event \in Pending /\ a.event.version \in 1 .. version
    BY <1>a, <1>c DEF Pending
  <2>1. UNCHANGED <<cronJob, version, page, drops, connected>> /\ announcements' = announcements \ {a}
    BY <1>1 DEF Announce
  <2>2. answers' \in Nat /\ answers' >= answers
    BY <1>1, <1>a DEF Announce
  <2>3. CASE connected
    <3>1. inbox' = Append(inbox, a.event) /\ unheard' = unheard
      BY <1>1, <2>3 DEF Announce
    <3>2. /\ inbox' \in Seq(Event) /\ Len(inbox') = Len(inbox) + 1
          /\ \A i \in 1 .. Len(inbox) : inbox'[i] = inbox[i]
          /\ inbox'[Len(inbox) + 1] = a.event
      BY <1>a, <2>0, <3>1, AppendProperties
    <3>3. DOMAIN inbox' = 1 .. Len(inbox) + 1
      BY <3>2, LenProperties
    <3>4. {inbox'[i] : i \in DOMAIN inbox'} = {inbox[i] : i \in DOMAIN inbox} \union {a.event}
      <4>1. \A i \in DOMAIN inbox' : i \in DOMAIN inbox \/ i = Len(inbox) + 1
        BY <1>b, <3>3
      <4>2. Len(inbox) + 1 \in DOMAIN inbox' /\ DOMAIN inbox \subseteq DOMAIN inbox'
        BY <1>b, <3>3
      <4> QED
        BY <1>b, <3>2, <4>1, <4>2
    <3>5. Pending' = Pending
      BY <2>1, <3>4 DEF Pending
    <3>6. TypeEvents'
      BY <1>a, <2>1, <3>2 DEF TypeEvents
    <3> QED
      BY <1>a, <2>1, <2>2, <3>1, <3>5, <3>6 DEF PendingKept
  <2>4. CASE ~connected
    <3>1. unheard' = Later(unheard, a.event.version) /\ inbox' = inbox
      BY <1>1, <2>4 DEF Announce
    <3>2. unheard' \in 0 .. version /\ unheard' >= unheard /\ unheard' >= a.event.version
      BY <1>a, <2>0, <3>1 DEF Later
    <3>3. Pending' \subseteq Pending /\ \A e \in Pending : e \in Pending' \/ e = a.event
      BY <2>1, <3>1 DEF Pending
    <3>4. TypeEvents'
      BY <1>a, <2>1, <3>1 DEF TypeEvents
    <3> QED
      BY <1>a, <2>1, <2>2, <3>2, <3>3, <3>4 DEF PendingKept
  <2> QED
    BY <2>3, <2>4
<1>2. ASSUME NEW a \in announcements, Forget(a) PROVE Goal
  <2>0. a.event \in Event /\ a.event \in Pending /\ a.event.version \in 1 .. version
    BY <1>a, <1>c DEF Pending
  <2>1. /\ UNCHANGED <<cronJob, version, page, connected, inbox, answers>>
        /\ announcements' = announcements \ {a} /\ drops' = drops + 1
        /\ unheard' = Later(unheard, a.event.version)
    BY <1>2 DEF Forget
  <2>2. unheard' \in 0 .. version /\ unheard' >= unheard /\ unheard' >= a.event.version
    BY <1>a, <2>0, <2>1 DEF Later
  <2>3. Pending' \subseteq Pending /\ \A e \in Pending : e \in Pending' \/ e = a.event
    BY <2>1 DEF Pending
  <2>4. TypeEvents'
    BY <1>a, <2>1 DEF TypeEvents
  <2> QED
    BY <1>a, <2>1, <2>2, <2>3, <2>4 DEF PendingKept
<1>3. CASE Disconnect
  <2> DEFINE S == {unheard} \union {inbox[i].version : i \in DOMAIN inbox}
  <2>1. /\ UNCHANGED <<cronJob, version, page, announcements, answers>>
        /\ drops' = drops + 1 /\ connected' = FALSE /\ inbox' = <<>> /\ unheard' = Max(S)
    BY <1>3 DEF Disconnect, server
  <2>2. S \in SUBSET (0 .. version) /\ S # {}
    <3>1. \A i \in DOMAIN inbox : inbox[i].version \in 0 .. version
      BY <1>a, <1>c DEF Pending
    <3> QED
      BY <1>a, <3>1
  <2>3. unheard' \in S /\ \A x \in S : unheard' >= x
    BY <1>a, <2>1, <2>2, MaxOfBounded
  <2>4. DOMAIN inbox' = {} /\ inbox' \in Seq(Event)
    BY <2>1, EmptySeq
  <2>5. Pending' \subseteq Pending
    BY <2>1, <2>4 DEF Pending
  <2>6. PendingKept
    BY <2>1, <2>3 DEF Pending, PendingKept
  <2>7. TypeEvents'
    BY <1>a, <2>1, <2>4 DEF TypeEvents
  <2> QED
    BY <1>a, <2>1, <2>2, <2>3, <2>5, <2>6, <2>7
<1>4. CASE Connect
  <2>1. /\ UNCHANGED <<cronJob, version, page, announcements, answers, inbox, drops, unheard>>
        /\ connected' = TRUE
    BY <1>4 DEF Connect, server
  <2>2. Pending' = Pending
    BY <2>1 DEF Pending
  <2>3. TypeEvents'
    BY <1>a, <2>1 DEF TypeEvents
  <2> QED
    BY <1>a, <2>1, <2>2, <2>3 DEF PendingKept
<1> QED
  BY <1>1, <1>2, <1>3, <1>4 DEF Delivery

\* The first event of the inbox is handled.
LEMMA Handled ==
  ASSUME TypeOK, inbox # <<>>, inbox' = Tail(inbox), UNCHANGED <<announcements, connected>>
  PROVE  /\ Head(inbox) \in Event /\ Head(inbox) \in Pending
         /\ Pending' \subseteq Pending /\ \A e \in Pending : e \in Pending' \/ e = Head(inbox)
         /\ TypeEvents'
<1>a. inbox \in Seq(Event)
  BY DEF TypeOK
<1>1. /\ inbox' \in Seq(Event) /\ Len(inbox') = Len(inbox) - 1 /\ Head(inbox) \in Event
      /\ \A i \in 1 .. Len(inbox') : inbox'[i] = inbox[i + 1]
  BY <1>a, HeadTailProperties
<1>2. /\ Len(inbox) \in Nat /\ DOMAIN inbox = 1 .. Len(inbox) /\ Len(inbox) > 0
      /\ Len(inbox') \in Nat /\ DOMAIN inbox' = 1 .. Len(inbox')
  BY <1>a, <1>1, LenProperties
<1>3. Head(inbox) = inbox[1] /\ 1 \in DOMAIN inbox
  BY <1>2
<1>4. \A i \in DOMAIN inbox' : i + 1 \in DOMAIN inbox
  BY <1>1, <1>2
<1>5. \A i \in DOMAIN inbox : i = 1 \/ (i - 1 \in DOMAIN inbox' /\ inbox'[i - 1] = inbox[i])
  BY <1>1, <1>2
<1>6. TypeEvents'
  BY <1>1 DEF TypeOK, TypeEvents
<1> QED
  BY <1>1, <1>2, <1>3, <1>4, <1>5, <1>6 DEF Pending

-----------------------------------------------------------------------------
(* What stays true of a list while the table and the events move.          *)

DueStays == \A v \in Nat : v < version /\ Due(v) => Due(v)'
Noticed == \A v \in Nat : v < version' => Due(v)'

LEMMA PendingTypes ==
  ASSUME TypeOK, Truthful
  PROVE  \A e \in Pending : e \in Event /\ e.job \in Jobs /\ e.version \in 1 .. version
<1>1. inbox \in Seq(Event) /\ announcements \subseteq [event : Event, ours : BOOLEAN] /\ version \in Nat
  BY DEF TypeOK
<1>2. \A i \in DOMAIN inbox : inbox[i] \in Event
  BY <1>1, LenProperties, ElementOfSeq
<1>3. \A e \in Pending : e \in Event
  BY <1>1, <1>2 DEF Pending
<1>4. \A e \in Event : e.job \in Jobs /\ e.version \in Nat /\ e.version >= 1
  BY DEF Event
<1> QED
  BY <1>1, <1>3, <1>4 DEF Truthful

\* Nothing that is waited for is lost; an answer that comes is the newest.
LEMMA DueSteady ==
  ASSUME TypeOK, {unheard', timers', answers'} \subseteq Nat,
         unheard' >= unheard, timers' >= timers, answers' >= answers,
         \A e \in Event : e \in Pending /\ e.label # "RUNNING" => e \in Pending' \/ unheard' >= e.version,
         \A e \in Pending : e \in Event,
         \A l \in Loads : loads[l] # NoLoad =>
           loads'[l] = loads[l] \/ (loads[l] = Sent /\ loads'[l] = Answered(Listed, version))
  PROVE  DueStays
<1> SUFFICES ASSUME NEW v \in Nat, v < version, Due(v) PROVE Due(v)'
  BY DEF DueStays
<1>0. /\ {unheard, timers, answers, version} \subseteq Nat
      /\ \A e \in Event : e.version \in Nat
  BY TypeParts DEF TypeCounts, Event
<1>1. CASE unheard > v \/ timers > 0 \/ answers > 0
  BY <1>0, <1>1 DEF Due
<1>2. ASSUME NEW e \in Pending, e.label # "RUNNING", e.version > v PROVE Due(v)'
  <2>1. CASE e \in Pending'
    BY <1>2, <2>1 DEF Due
  <2>2. CASE unheard' >= e.version
    BY <1>0, <1>2, <2>2 DEF Due
  <2> QED
    BY <1>2, <2>1, <2>2
<1>3. ASSUME NEW l \in Loads, loads[l] = Sent PROVE Due(v)'
  <2>1. loads'[l] = Sent \/ loads'[l] = Answered(Listed, version)
    BY <1>3, LoadStates
  <2>2. CASE loads'[l] = Sent
    BY <2>2 DEF Due
  <2>3. CASE loads'[l] = Answered(Listed, version)
    <3>1. PICK rows, u : loads'[l] = Answered(rows, u) /\ u > v
      BY <2>3
    <3> QED
      BY <3>1 DEF Due, WillRender
  <2> QED
    BY <2>1, <2>2, <2>3
<1>4. ASSUME NEW l \in Loads, NEW rows, NEW u, WillRender(l, rows, u), u > v PROVE Due(v)'
  <2>1. loads'[l] = Answered(rows, u)
    BY <1>4, LoadStates DEF WillRender
  <2> QED
    BY <1>4, <2>1 DEF Due, WillRender
<1> QED
  BY <1>1, <1>2, <1>3, <1>4 DEF Due

LEMMA DueBefore ==
  ASSUME TypeOK, Truthful, NEW v \in Nat, NEW u \in Nat, v <= u, Due(u)
  PROVE  Due(v)
<1>1. /\ unheard \in Nat /\ version \in Nat
      /\ \A e \in Pending : e.version \in 1 .. version
  BY PendingTypes, TypeParts DEF TypeCounts
<1>2. ASSUME NEW l \in Loads, NEW rows, NEW w, WillRender(l, rows, w) PROVE w \in Nat
  <2>1. Answered(rows, w) \in LoadType
    BY <1>2, TypeParts DEF TypeLoads, WillRender
  <2> QED
    BY <2>1, LoadStates
<1>3. ASSUME NEW l \in Loads, NEW rows, NEW w, WillRender(l, rows, w), w > u PROVE Due(v)
  <2>1. w > v
    BY <1>2, <1>3
  <2> QED
    BY <1>3, <2>1 DEF Due
<1>4. ASSUME NEW e \in Pending, e.label # "RUNNING", e.version > u PROVE Due(v)
  <2>1. e.version > v
    BY <1>1, <1>4
  <2> QED
    BY <1>4, <2>1 DEF Due
<1>5. CASE unheard > u
  BY <1>1, <1>5 DEF Due
<1> QED
  BY <1>3, <1>4, <1>5 DEF Due

LEMMA SentNoticed ==
  ASSUME NEW l \in Loads, loads'[l] = Sent
  PROVE  Noticed
  BY DEF Noticed, Due

LEMMA NoticedStays ==
  ASSUME version \in Nat, version' \in Nat, version' >= version, Noticed
  PROVE  DueStays
  BY DEF Noticed, DueStays

LateKept == \A j \in Jobs, v \in Nat : Late(j, v) => Late(j, v)'

LEMMA LateStays ==
  ASSUME TypeOK, version' \in Nat, version' >= version, DueStays,
         \A j \in Jobs : told'[j] \in Nat /\ told'[j] >= told[j]
  PROVE  LateKept
<1>1. version \in Nat /\ \A j \in Jobs : told[j] \in Nat
  BY TypeParts DEF TypeCounts
<1>2. ASSUME NEW j \in Jobs, NEW v \in Nat, Late(j, v) PROVE Late(j, v)'
  BY <1>1, <1>2 DEF Late, Stale, DueStays
<1> QED
  BY <1>2 DEF LateKept

\* A row of a job that does not change.
LEMMA HeldSteady ==
  ASSUME TypeOK, Truthful, version' \in Nat, version' >= version, DueStays, unheard' \in Nat,
         NEW j \in Jobs, cronJob'[j] = cronJob[j],
         \A e \in Event : e \in Pending /\ e.label = "RUNNING" /\ e.job = j =>
           e \in Pending' \/ unheard' >= e.version,
         NEW rows, NEW v \in Nat, Held(rows, v, j)
  PROVE  Held(rows, v, j)'
<1>0. version \in Nat
  BY TypeParts DEF TypeCounts
<1>1. CASE Agrees(rows, j)
  BY <1>1 DEF Agrees, Exists, Held
<1>2. CASE Stale(v)
  <2>1. v < version' /\ Due(v)'
    BY <1>0, <1>2 DEF Stale, DueStays
  <2> QED
    BY <2>1 DEF Stale, Held
<1>3. CASE Relabel(rows, v, j)
  <2>1. PICK e \in Pending : e.label = "RUNNING" /\ e.job = j /\ e.version > v
    BY <1>3 DEF Relabel
  <2>2. e \in Event /\ e.version \in 1 .. version
    BY PendingTypes
  <2>3. CASE e \in Pending'
    <3>1. Relabel(rows, v, j)'
      BY <1>3, <2>1, <2>3 DEF Relabel, Running, Exists
    <3> QED
      BY <3>1 DEF Held
  <2>4. CASE unheard' >= e.version
    <3>1. unheard' > v /\ v < version'
      BY <1>0, <2>1, <2>2, <2>4
    <3>2. Stale(v)'
      BY <3>1 DEF Stale, Due
    <3> QED
      BY <3>2 DEF Held
  <2> QED
    BY <2>1, <2>2, <2>3, <2>4
<1> QED
  BY <1>1, <1>2, <1>3 DEF Held

\* A list that is not old agrees with the table.
LEMMA NewestAgrees ==
  ASSUME TypeOK, Truthful, NEW j \in Jobs, NEW rows, Held(rows, version, j)
  PROVE  Agrees(rows, j)
<1>1. version \in Nat
  BY TypeParts DEF TypeCounts
<1>2. ~Stale(version)
  BY <1>1 DEF Stale
<1>3. ~Relabel(rows, version, j)
  BY <1>1, PendingTypes DEF Relabel
<1> QED
  BY <1>2, <1>3 DEF Held

\* Everything that is old will be noticed.
LEMMA HeldNoticed ==
  ASSUME TypeOK, Truthful, version' \in Nat, Noticed, version' = version \/ version' = version + 1,
         version' = version => cronJob' = cronJob,
         NEW j \in Jobs, NEW rows, NEW v \in Nat, v <= version, Held(rows, v, j)
  PROVE  Held(rows, v, j)'
<1>0. version \in Nat
  BY TypeParts DEF TypeCounts
<1>1. CASE v < version'
  BY <1>1 DEF Noticed, Stale, Held
<1>2. CASE v = version' /\ v = version
  <2>1. Agrees(rows, j)
    BY <1>2, NewestAgrees
  <2>2. cronJob' = cronJob
    BY <1>2
  <2>3. Agrees(rows, j)'
    BY <2>1, <2>2 DEF Agrees, Exists
  <2> QED
    BY <2>3 DEF Held
<1> QED
  BY <1>0, <1>1, <1>2

\* A label that says what the row of the table says changes nothing.
LEMMA LabelKnown ==
  ASSUME NEW row \in Row, NEW shown \in Row, AsShown(shown, row)
  PROVE  AsShown([shown EXCEPT !.status = row.status], row)
<1>1. shown.status = row.status
  BY DEF AsShown, Row
<1>2. [shown EXCEPT !.status = row.status] = shown
  BY <1>1 DEF Row
<1> QED
  BY <1>2

\* The label that was missing has come.
LEMMA LabelWritten ==
  ASSUME NEW row, NEW shown \in Row, OnceLabelled(shown, row), row.status = "RUNNING"
  PROVE  AsShown([shown EXCEPT !.status = "RUNNING"], row)
BY DEF AsShown, OnceLabelled, Row

\* A run begins: the label and the time are what is missing.
LEMMA LabelComes ==
  ASSUME NEW row \in Row, NEW shown, row.lastRunAt \in Nat,
         AsShown(shown, row) \/ OnceLabelled(shown, row)
  PROVE  OnceLabelled(shown, Begun(row))
<1>1. CASE shown = row
  BY <1>1 DEF OnceLabelled, Begun, Row
<1>2. CASE row.status = "RUNNING" /\ [shown EXCEPT !.lastRunAt = row.lastRunAt] = row
  BY <1>2 DEF OnceLabelled, Begun, Row
<1>3. CASE [shown EXCEPT !.status = "RUNNING", !.lastRunAt = row.lastRunAt] = row
  BY <1>3 DEF OnceLabelled, Begun, Row
<1> QED
  BY <1>1, <1>2, <1>3 DEF AsShown, OnceLabelled

\* A job starts to run: only the label and the time are missing.
LEMMA HeldMarked ==
  ASSUME TypeOK, Truthful, version' = version + 1, DueStays,
         NEW j \in Jobs, NEW row, NEW name, NEW label, NEW ours,
         Committed(j, row, name, label, ours), label = "RUNNING",
         NEW rows, NEW v \in Nat, v <= version, Held(rows, v, j)
  PROVE  Held(rows, v, j)'
<1>0. version \in Nat /\ v < version'
  BY TypeParts DEF TypeCounts
<1>1. CASE Stale(v)
  BY <1>0, <1>1 DEF Stale, DueStays, Held
<1>2. CASE Agrees(rows, j) \/ Relabel(rows, v, j)
  <2>1. /\ Exists(j) /\ row = Begun(cronJob[j])
        /\ row \in Row /\ row.status = "RUNNING" /\ cronJob' = [cronJob EXCEPT ![j] = row]
    BY DEF Committed, Commit
  <2>2. cronJob'[j] = row
    BY <2>1, TypeParts DEF TypeJobs
  <2>3. Running(j)'
    BY <2>1, <2>2 DEF Running, Exists
  <2>4. \E e \in Pending' : e.label = "RUNNING" /\ e.job = j /\ e.version > v
    <3> DEFINE event == [name |-> name, job |-> j, label |-> label, version |-> version + 1]
    <3>1. event \in Pending'
      BY CommitPending DEF Committed
    <3>2. event.label = "RUNNING" /\ event.job = j /\ event.version > v
      BY <1>0
    <3> QED
      BY <3>1, <3>2
  <2>5. j \in DOMAIN rows /\ OnceLabelled(rows[j], row)
    <3>1. j \in DOMAIN rows /\ cronJob[j] \in Row /\ cronJob[j].lastRunAt \in Nat
      BY <1>2, <2>1, RowOfJob DEF Agrees, Relabel, Row
    <3>2. AsShown(rows[j], cronJob[j]) \/ OnceLabelled(rows[j], cronJob[j])
      BY <1>2, <2>1 DEF Agrees, Relabel
    <3> QED
      BY <2>1, <3>1, <3>2, LabelComes
  <2>6. Relabel(rows, v, j)'
    BY <2>2, <2>3, <2>4, <2>5 DEF Relabel
  <2> QED
    BY <2>6 DEF Held
<1> QED
  BY <1>1, <1>2 DEF Held

\* The events that were on their way stay truthful.
LEMMA EventsKeep ==
  ASSUME TypeOK, Truthful, version' \in Nat, version' >= version, LateKept,
         UNCHANGED <<cronJob, version>> \/ (version' > version /\ Noticed)
           \/ (version' > version /\ \A j \in Jobs : Running(j) => Running(j)'),
         NEW e \in Event, e \in Pending
  PROVE  /\ e.version <= version' /\ Named(e)
         /\ e.version = version' /\ e.label # "none" => Exists(e.job)' /\ cronJob'[e.job].status = e.label
         /\ e.label = "RUNNING" => Running(e.job)' \/ Late(e.job, e.version)'
<1>0. version \in Nat /\ e.job \in Jobs /\ e.version \in 1 .. version
  BY PendingTypes, TypeParts DEF TypeCounts
<1>1. e.version <= version' /\ Named(e)
  BY <1>0 DEF Truthful
<1>2. e.version = version' /\ e.label # "none" => Exists(e.job)' /\ cronJob'[e.job].status = e.label
  <2> SUFFICES ASSUME e.version = version', e.label # "none"
               PROVE  Exists(e.job)' /\ cronJob'[e.job].status = e.label
    OBVIOUS
  <2>1. version' = version /\ cronJob' = cronJob
    BY <1>0
  <2> QED
    BY <2>1 DEF Truthful, Exists
<1>3. ASSUME e.label = "RUNNING" PROVE Running(e.job)' \/ Late(e.job, e.version)'
  <2>1. Running(e.job) \/ Late(e.job, e.version)
    BY <1>3 DEF Truthful
  <2>2. CASE Late(e.job, e.version)
    BY <1>0, <2>2 DEF LateKept
  <2>3. CASE Running(e.job) /\ cronJob' = cronJob
    BY <2>3 DEF Running, Exists
  <2>4. CASE version' > version /\ Noticed
    <3>1. e.version < version' /\ Due(e.version)'
      BY <1>0, <2>4 DEF Noticed
    <3> QED
      BY <3>1 DEF Late, Stale
  <2> QED
    BY <1>0, <2>1, <2>2, <2>3, <2>4
<1> QED
  BY <1>1, <1>2, <1>3

\* What the page will show is what it would have shown, or has just been read.
HeldOrLate == \A j \in Jobs, rows \in Tables, v \in Nat :
  v <= version /\ Held(rows, v, j) => Held(rows, v, j)' \/ Late(j, v)'
AnswersMove ==
  \A l \in Loads : \/ loads'[l] = loads[l] \/ loads'[l] \in {NoLoad, Sent}
                   \/ loads'[l] = Answered(Listed, version) /\ UNCHANGED <<cronJob, version>>

LEMMA ListedAgrees ==
  ASSUME NEW j \in Jobs
  PROVE  Agrees(Listed, j)
<1>1. DOMAIN Listed = {k \in Jobs : Exists(k)} /\ \A k \in DOMAIN Listed : Listed[k] = cronJob[k]
  BY DEF Listed
<1> QED
  BY <1>1 DEF Agrees, AsShown

LEMMA AnswersKeep ==
  ASSUME TypeOK, version' \in Nat, version' >= version, LateKept, HeldOrLate, AnswersMove,
         AnswersFresh
  PROVE  AnswersFresh'
<1>0. version \in Nat
  BY TypeParts DEF TypeCounts
<1> SUFFICES ASSUME NEW l \in Loads, NEW rows \in Tables, NEW v \in Nat, WillRender(l, rows, v)'
             PROVE  v <= version' /\ \A j \in Jobs : Held(rows, v, j)' \/ Late(j, v)'
  BY DEF AnswersFresh
<1>1. CASE loads'[l] = loads[l]
  <2>1. WillRender(l, rows, v)
    BY <1>1 DEF WillRender
  <2>2. v <= version /\ \A j \in Jobs : Held(rows, v, j) \/ Late(j, v)
    BY <2>1 DEF AnswersFresh
  <2> QED
    BY <1>0, <2>2 DEF HeldOrLate, LateKept
<1>2. CASE loads'[l] = Answered(Listed, version) /\ UNCHANGED <<cronJob, version>>
  <2>1. Answered(rows, v) = Answered(Listed, version)
    BY <1>2 DEF WillRender
  <2>2. rows = Listed /\ v = version
    BY <2>1, LoadStates
  <2>3. ASSUME NEW j \in Jobs PROVE Held(rows, v, j)'
    <3>1. Agrees(rows, j)
      BY <2>2, ListedAgrees
    <3>2. Agrees(rows, j)'
      BY <1>2, <3>1 DEF Agrees, Exists
    <3> QED
      BY <3>2 DEF Held
  <2> QED
    BY <1>0, <1>2, <2>2, <2>3
<1>3. loads'[l] \notin {NoLoad, Sent}
  BY LoadStates DEF WillRender
<1> QED
  BY <1>1, <1>2, <1>3 DEF AnswersMove

\* The page shows what it has shown, and still waits for the fetches it has sent.
HeldStays == \A j \in Jobs, rows \in Tables, v \in Nat :
  v <= version /\ Held(rows, v, j) => Held(rows, v, j)'
StillAwaited == \A l \in Loads : loads[l] # NoLoad => loads'[l] # NoLoad

LEMMA ViewsKeep ==
  ASSUME TypeOK, version' \in Nat, version' >= version, DueStays, HeldStays,
         AnswersMove, StillAwaited, AnswersFresh, TableFresh, LoadedTold, FirstAwaited,
         UNCHANGED <<table, notice, loaded, told, intact>>
  PROVE  AnswersFresh' /\ TableFresh' /\ LoadedTold' /\ FirstAwaited' /\ LateKept
<1>0. version \in Nat /\ \A j \in Jobs : told'[j] \in Nat /\ told'[j] >= told[j]
  BY TypeParts DEF TypeCounts
<1>1. LateKept
  BY <1>0, LateStays
<1>2. AnswersFresh'
  BY <1>1, AnswersKeep DEF HeldStays, HeldOrLate
<1>3. TableFresh'
  <2> SUFFICES ASSUME NEW rows \in Tables, NEW v \in Nat, Shows(rows, v)', NEW j \in Jobs
               PROVE  Held(rows, v, j)'
    BY DEF TableFresh
  <2>1. Shows(rows, v) /\ v <= version
    BY TypeParts DEF Shows, TypeCounts
  <2> QED
    BY <2>1 DEF TableFresh, HeldStays
<1>4. LoadedTold' /\ FirstAwaited'
  BY DEF LoadedTold, FirstAwaited, StillAwaited
<1> QED
  BY <1>1, <1>2, <1>3, <1>4

\* What the page shows and is told of, in one.
Views == Truthful /\ AnswersFresh /\ TableFresh /\ LoadedTold /\ FirstAwaited

\* The actions of the server ...
LEMMA CommitViews ==
  ASSUME TypeOK, Views, NEW j \in Jobs, NEW row, NEW name, NEW label, NEW ours,
         Committed(j, row, name, label, ours)
  PROVE  Views'
<1> DEFINE event == [name |-> name, job |-> j, label |-> label, version |-> version + 1]
<1>0. /\ version \in Nat /\ version' = version + 1 /\ UNCHANGED <<unheard, answers, page>>
      /\ cronJob' = [cronJob EXCEPT ![j] = row] /\ cronJob \in [Jobs -> Row \union {Unborn, Deleted}]
      /\ {unheard, timers, answers} \subseteq Nat
  BY TypeParts DEF Committed, Commit, TypeCounts, TypeJobs
<1>1. Pending' = Pending \union {event} /\ event \in Event
  BY CommitPending DEF Committed
<1>2. event.label = label /\ event.version = version + 1 /\ event.job = j /\ event.name = name
  OBVIOUS
<1> HIDE DEF event
<1>3. \A e \in Pending : e \in Event
  BY PendingTypes DEF Views
<1>4. {unheard', timers', answers'} \subseteq Nat /\ unheard' >= unheard /\ timers' >= timers /\ answers' >= answers
  BY <1>0 DEF page
<1>5. UNCHANGED <<loads, table, notice, loaded, told, intact>>
  BY <1>0 DEF page
<1>6. DueStays
  BY <1>1, <1>3, <1>4, <1>5, DueSteady
<1>7. label # "RUNNING" => Noticed
  BY <1>0, <1>1, <1>2 DEF Noticed, Due
<1>8. HeldStays
  <2> SUFFICES ASSUME NEW k \in Jobs, NEW rows \in Tables, NEW v \in Nat, v <= version, Held(rows, v, k)
               PROVE  Held(rows, v, k)'
    BY DEF HeldStays
  <2>1. CASE k # j
    <3>1. cronJob'[k] = cronJob[k] /\ version' \in Nat /\ version' >= version
      BY <1>0, <2>1
    <3> QED
      BY <1>1, <1>4, <1>6, <3>1, HeldSteady DEF Views
  <2>2. CASE k = j /\ label = "RUNNING"
    BY <1>0, <1>6, <2>2, HeldMarked DEF Views
  <2>3. CASE k = j /\ label # "RUNNING"
    <3>1. v < version' /\ Due(v)'
      BY <1>0, <1>7, <2>3 DEF Noticed
    <3> QED
      BY <3>1 DEF Held, Stale
  <2> QED
    BY <2>1, <2>2, <2>3
<1>9. AnswersMove /\ StillAwaited
  BY <1>5 DEF AnswersMove, StillAwaited
<1>10. AnswersFresh' /\ TableFresh' /\ LoadedTold' /\ FirstAwaited' /\ LateKept
  <2>1. version' \in Nat /\ version' >= version
    BY <1>0
  <2> QED
    BY <1>5, <1>6, <1>8, <1>9, <2>1, ViewsKeep DEF Views
<1>11. Truthful'
  <2>1. version' \in Nat /\ version' >= version /\ version' > version
    BY <1>0
  <2>2. label = "RUNNING" => \A k \in Jobs : Running(k) => Running(k)'
    BY <1>0 DEF Running, Exists, Committed
  <2>3. ASSUME NEW e \in Event, e \in Pending
        PROVE  /\ e.version <= version' /\ Named(e)
               /\ e.version = version' /\ e.label # "none"
                    => Exists(e.job)' /\ cronJob'[e.job].status = e.label
               /\ e.label = "RUNNING" => Running(e.job)' \/ Late(e.job, e.version)'
    BY <1>7, <1>10, <2>1, <2>2, <2>3, EventsKeep DEF Views
  <2>4. label # "none" => cronJob'[j] = row /\ row \in Row /\ row.status = label
    BY <1>0 DEF Committed
  <2>5. event.version <= version' /\ Named(event)
    BY <1>0, <1>2 DEF Committed, Named
  <2>6. label # "none" => Exists(j)' /\ cronJob'[j].status = label
    BY <2>4 DEF Exists
  <2>7. label = "RUNNING" => Running(j)'
    BY <2>6 DEF Running
  <2>8. \A e \in Pending' : e = event \/ e \in Pending
    BY <1>1
  <2> QED
    BY <1>2, <2>3, <2>5, <2>6, <2>7, <2>8 DEF Truthful
<1> QED
  BY <1>10, <1>11 DEF Views

LEMMA DisableViews ==
  ASSUME TypeOK, Views, NEW j \in Jobs, Disable(j)
  PROVE  Views'
<1>0. /\ version \in Nat /\ version' = version + 1 /\ unheard' = version + 1
      /\ UNCHANGED <<announcements, inbox, answers, timers>>
      /\ UNCHANGED <<loads, table, notice, loaded, told, intact>>
  BY TypeParts DEF Disable, TypeCounts, page
<1>1. version' \in Nat /\ version' >= version /\ version' > version
  BY <1>0
<1>2. Noticed
  BY <1>0 DEF Noticed, Due
<1>3. DueStays
  BY <1>0, <1>1, <1>2, NoticedStays
<1>4. HeldStays
  BY <1>0, <1>1, <1>2, HeldNoticed DEF HeldStays, Views
<1>5. AnswersMove /\ StillAwaited
  BY <1>0 DEF AnswersMove, StillAwaited
<1>6. AnswersFresh' /\ TableFresh' /\ LoadedTold' /\ FirstAwaited' /\ LateKept
  BY <1>0, <1>1, <1>3, <1>4, <1>5, ViewsKeep DEF Views
<1>7. Pending' = Pending
  BY <1>0 DEF Pending
<1>8. Truthful'
  BY <1>1, <1>2, <1>6, <1>7, EventsKeep DEF Truthful, Views
<1> QED
  BY <1>6, <1>8 DEF Views

LEMMA QuietViews ==
  ASSUME TypeOK, Views, UNCHANGED <<cronJob, version, page>>,
         Pending' \subseteq Pending, PendingKept,
         unheard' \in 0 .. version, unheard' >= unheard, answers' \in Nat, answers' >= answers
  PROVE  Views'
<1>1. UNCHANGED <<cronJob, version>>
  OBVIOUS
<1>2. UNCHANGED <<timers, loads, table, notice, loaded, told, intact>>
  BY DEF page
<1>3. /\ version' \in Nat /\ version' >= version /\ unheard' \in Nat
      /\ timers' \in Nat /\ timers' >= timers
  BY <1>1, <1>2, TypeParts DEF TypeCounts
<1>4. DueStays
  BY <1>1, <1>2, <1>3, PendingTypes, DueSteady DEF PendingKept, Views
<1>5. HeldStays
  BY <1>1, <1>3, <1>4, HeldSteady DEF PendingKept, HeldStays, Views
<1>6. AnswersMove /\ StillAwaited
  BY <1>2 DEF AnswersMove, StillAwaited
<1>7. AnswersFresh' /\ TableFresh' /\ LoadedTold' /\ FirstAwaited' /\ LateKept
  BY <1>2, <1>3, <1>4, <1>5, <1>6, ViewsKeep DEF Views
<1>8. Truthful'
  BY <1>1, <1>3, <1>7, EventsKeep DEF Truthful, Views
<1> QED
  BY <1>7, <1>8 DEF Views

LEMMA DeliveryViews == TypeOK /\ Views /\ Delivery => Views'
  BY Deliveries, QuietViews DEF Views

\* ... and those of the page.
LEMMA LoadViews ==
  ASSUME TypeOK, Views, NEW l \in Loads, Load(l), Pending' \subseteq Pending,
         UNCHANGED <<cronJob, version, table, notice, loaded, told, intact>>
  PROVE  Views'
<1>0. /\ version \in Nat /\ version' \in Nat /\ version' >= version
      /\ loads' = [loads EXCEPT ![l] = Sent] /\ loads[l] = NoLoad
      /\ loads \in [Loads -> LoadType]
  BY TypeParts DEF TypeCounts, TypeLoads, Load
<1>1. Noticed
  BY <1>0, SentNoticed
<1>2. DueStays
  BY <1>0, <1>1, NoticedStays
<1>3. HeldStays
  BY <1>0, <1>1, HeldNoticed DEF HeldStays, Views
<1>4. AnswersMove /\ StillAwaited
  BY <1>0, LoadStates DEF AnswersMove, StillAwaited
<1>5. AnswersFresh' /\ TableFresh' /\ LoadedTold' /\ FirstAwaited' /\ LateKept
  BY <1>0, <1>2, <1>3, <1>4, ViewsKeep DEF Views
<1>6. Truthful'
  BY <1>0, <1>5, EventsKeep DEF Truthful, Views
<1> QED
  BY <1>5, <1>6 DEF Views

LEMMA FindViews ==
  ASSUME TypeOK, Views, NEW l \in Loads, FindAll(l)
  PROVE  Views'
<1>0. /\ version \in Nat /\ version' = version /\ cronJob' = cronJob
      /\ loads' = [loads EXCEPT ![l] = Answered(Listed, version)] /\ loads[l] = Sent
      /\ loads \in [Loads -> LoadType]
      /\ UNCHANGED <<inbox, announcements, unheard, answers, timers>>
      /\ UNCHANGED <<table, notice, loaded, told, intact>>
      /\ {unheard, answers, timers} \subseteq Nat
  BY TypeParts DEF TypeCounts, TypeLoads, FindAll, server
<1>1. Pending' = Pending /\ \A e \in Pending : e \in Event
  BY <1>0, PendingTypes DEF Pending, Views
<1>2. \A k \in Loads : /\ k # l => loads'[k] = loads[k]
                       /\ loads'[l] = Answered(Listed, version)
  BY <1>0
<1>3. DueStays
  BY <1>0, <1>1, <1>2, DueSteady
<1>4. version' \in Nat /\ version' >= version /\ unheard' \in Nat
  BY <1>0
<1>5. HeldStays
  BY <1>0, <1>1, <1>3, <1>4, HeldSteady DEF HeldStays, Views
<1>6. AnswersMove /\ StillAwaited
  BY <1>0, <1>2, LoadStates DEF AnswersMove, StillAwaited
<1>7. AnswersFresh' /\ TableFresh' /\ LoadedTold' /\ FirstAwaited' /\ LateKept
  BY <1>0, <1>3, <1>4, <1>5, <1>6, ViewsKeep DEF Views
<1>8. Truthful'
  BY <1>0, <1>1, <1>4, <1>7, EventsKeep DEF Truthful, Views
<1> QED
  BY <1>7, <1>8 DEF Views

\* The label of an event is written into the row that is shown.
LEMMA Written ==
  ASSUME TypeOK, Views, NEW l \in Loads, Receive(l), Head(inbox).label # "none"
  PROVE  /\ inbox # <<>> /\ inbox' = Tail(inbox)
         /\ UNCHANGED <<cronJob, version, announcements, connected, answers, drops, unheard, loads,
                        loaded, notice>>
         /\ table' = Labelled(Head(inbox).job, Head(inbox).label)
         /\ Head(inbox) \in Event /\ Head(inbox) \in Pending /\ Head(inbox).job \in Jobs
         /\ Head(inbox).version \in 1 .. version
         /\ Pending' \subseteq Pending /\ \A e \in Pending : e \in Pending' \/ e = Head(inbox)
         /\ version \in Nat /\ \A j \in Jobs : told'[j] \in Nat /\ told'[j] >= told[j]
         /\ told'[Head(inbox).job] >= Head(inbox).version
         /\ intact' => intact /\ Head(inbox).version >= told[Head(inbox).job]
         /\ {unheard, answers, timers} \subseteq Nat
<1> DEFINE event == Head(inbox)
<1>1. /\ inbox # <<>> /\ inbox' = Tail(inbox)
      /\ UNCHANGED <<cronJob, version, announcements, connected, answers, drops, unheard, loads,
                     loaded, notice>>
      /\ table' = Labelled(event.job, event.label)
      /\ told' = [told EXCEPT ![event.job] = Later(@, event.version)]
      /\ intact' = (intact /\ event.version >= told[event.job])
  BY DEF Receive, server
<1>2. /\ event \in Event /\ event \in Pending
      /\ Pending' \subseteq Pending /\ \A e \in Pending : e \in Pending' \/ e = event
  BY <1>1, Handled
<1>3. event.job \in Jobs /\ event.version \in 1 .. version
  BY <1>2, PendingTypes DEF Views
<1>4. /\ told \in [Jobs -> 0 .. version] /\ version \in Nat
      /\ {unheard, answers, timers} \subseteq Nat
  BY TypeParts DEF TypeCounts
<1>5. told'[event.job] = Later(told[event.job], event.version)
  BY <1>1, <1>3, <1>4
<1>6. told'[event.job] \in Nat /\ told'[event.job] >= told[event.job] /\ told'[event.job] >= event.version
  BY <1>3, <1>4, <1>5 DEF Later
<1>7. \A j \in Jobs : j # event.job => told'[j] = told[j]
  BY <1>1, <1>4
<1>8. \A j \in Jobs : told'[j] \in Nat /\ told'[j] >= told[j]
  BY <1>4, <1>6, <1>7
<1> QED
  BY <1>1, <1>2, <1>3, <1>4, <1>6, <1>8

\* A run has completed: the list will be loaded.
LEMMA CompletedViews ==
  ASSUME TypeOK, Views, NEW l \in Loads, Receive(l), Head(inbox).label \in Terminal
  PROVE  Views'
<1> DEFINE event == Head(inbox)
<1>0. event.label # "none" /\ event.label \in {"RUNNING"} \union Terminal
  BY DEF Terminal
<1>1. /\ UNCHANGED <<cronJob, version, loads, loaded, notice>>
      /\ table' = Labelled(event.job, event.label)
      /\ event \in Event /\ event \in Pending /\ event.job \in Jobs /\ event.version \in 1 .. version
      /\ Pending' \subseteq Pending
      /\ version \in Nat /\ \A j \in Jobs : told'[j] \in Nat /\ told'[j] >= told[j]
      /\ intact' => intact /\ event.version >= told[event.job]
  BY <1>0, Written
<1>2. timers' > 0
  <2>1. event.name = "execution:completed"
    BY <1>1 DEF Views, Truthful, Named
  <2> QED
    BY <1>0, <2>1, Written DEF Receive
<1>3. version' \in Nat /\ version' >= version /\ Noticed
  BY <1>1, <1>2 DEF Noticed, Due
<1>4. DueStays
  BY <1>1, <1>3, NoticedStays
<1>5. HeldStays
  BY <1>1, <1>3, HeldNoticed DEF HeldStays, Views
<1>6. LateKept
  BY <1>1, <1>3, <1>4, LateStays
<1>7. AnswersFresh'
  <2>1. AnswersMove
    BY <1>1 DEF AnswersMove
  <2> QED
    BY <1>3, <1>5, <1>6, <2>1, AnswersKeep DEF HeldStays, HeldOrLate, Views
<1>8. TableFresh'
  <2> SUFFICES ASSUME NEW rows \in Tables, NEW v \in Nat, Shows(rows, v)', NEW j \in Jobs
               PROVE  Held(rows, v, j)'
    BY DEF TableFresh
  <2>1. /\ intact /\ notice = "none" /\ v = loaded /\ v <= version
        /\ event.version >= told[event.job] /\ told[event.job] >= loaded
        /\ rows = Labelled(event.job, event.label)
    BY <1>1, TypeParts DEF Shows, TypeCounts, Views, LoadedTold
  <2>2. CASE v < version
    BY <1>1, <1>3, <2>2 DEF Noticed, Held, Stale
  <2>3. CASE v = version
    <3>1. table \in Tables /\ Shows(table, v)
      BY <2>1, TypeParts DEF TypeShown, Shows
    <3>2. Held(table, version, j)
      BY <2>3, <3>1 DEF Views, TableFresh
    <3>3. Agrees(table, j)
      BY <3>2, NewestAgrees DEF Views
    <3>4. event.version = version
      <4>1. told[event.job] \in Nat /\ loaded \in Nat
        BY <1>1, TypeParts DEF TypeCounts
      <4> QED
        BY <1>1, <2>1, <2>3, <4>1
    <3>5. Exists(event.job) /\ cronJob[event.job].status = event.label
      BY <1>0, <1>1, <3>4 DEF Views, Truthful
    <3>6. /\ DOMAIN rows = DOMAIN table
          /\ \A k \in DOMAIN table : rows[k] = IF k = event.job
                                               THEN [table[k] EXCEPT !.status = event.label]
                                               ELSE table[k]
      BY <1>0, <1>1, <2>1, LabelTypes
    <3>7. Agrees(rows, j)
      <4>1. CASE j = event.job
        <5>1. /\ AsShown(table[j], cronJob[j]) /\ j \in DOMAIN table
              /\ table[j] \in Row /\ cronJob[j] \in Row
          BY <3>1, <3>3, <3>5, <4>1, RowOfJob, TableTypes DEF Agrees
        <5>2. AsShown([table[j] EXCEPT !.status = event.label], cronJob[j])
          BY <3>5, <4>1, <5>1, LabelKnown
        <5> QED
          BY <3>5, <3>6, <4>1, <5>1, <5>2 DEF Agrees
      <4>2. CASE j # event.job
        BY <3>3, <3>6, <4>2 DEF Agrees
      <4> QED
        BY <4>1, <4>2
    <3>8. Agrees(rows, j)'
      BY <1>1, <3>7 DEF Agrees, Exists
    <3> QED
      BY <3>8 DEF Held
  <2>4. loaded \in Nat
    BY <1>1, TypeParts DEF TypeCounts
  <2> QED
    BY <1>1, <2>1, <2>2, <2>3, <2>4
<1>9. LoadedTold' /\ FirstAwaited'
  <2>1. \A j \in Jobs : told[j] \in Nat /\ loaded \in Nat
    BY <1>1, TypeParts DEF TypeCounts
  <2> QED
    BY <1>1, <2>1 DEF LoadedTold, FirstAwaited, Views
<1>10. Truthful'
  BY <1>1, <1>3, <1>6, EventsKeep DEF Truthful, Views
<1> QED
  BY <1>7, <1>8, <1>9, <1>10 DEF Views

\* A run has started: the label is all that the page does.
LEMMA StartedViews ==
  ASSUME TypeOK, Views, NEW l \in Loads, Receive(l), Head(inbox).label = "RUNNING"
  PROVE  Views'
<1> DEFINE event == Head(inbox)
<1>0. event.label # "none" /\ event.label \in {"RUNNING"} \union Terminal
  OBVIOUS
<1>1. /\ UNCHANGED <<cronJob, version, loads, loaded, notice, unheard, answers>>
      /\ table' = Labelled(event.job, "RUNNING")
      /\ event \in Event /\ event \in Pending /\ event.job \in Jobs /\ event.version \in 1 .. version
      /\ Pending' \subseteq Pending /\ \A e \in Pending : e \in Pending' \/ e = event
      /\ version \in Nat /\ \A j \in Jobs : told'[j] \in Nat /\ told'[j] >= told[j]
      /\ told'[event.job] >= event.version
      /\ intact' => intact /\ event.version >= told[event.job]
      /\ {unheard, answers, timers} \subseteq Nat
  BY <1>0, Written
<1>2. timers' \in Nat /\ timers' >= timers
  <2>1. timers' = timers
    <3>1. event.name # "execution:completed"
      BY <1>1 DEF Views, Truthful, Named, Terminal
    <3> QED
      BY <1>0, <3>1 DEF Receive
  <2> QED
    BY <1>1, <2>1
<1>3. version' \in Nat /\ version' >= version /\ unheard' \in Nat
  BY <1>1
<1>4. DueStays
  <2>1. \A e \in Pending : e \in Event /\ (e.label # "RUNNING" => e \in Pending')
    BY <1>1, PendingTypes DEF Views
  <2> QED
    BY <1>1, <1>2, <2>1, DueSteady
<1>5. LateKept
  BY <1>1, <1>3, <1>4, LateStays
\* A job of which no event is pending but this one.
<1>6. ASSUME NEW rows \in Tables, NEW v \in Nat, v <= version, NEW j \in Jobs, Held(rows, v, j)
      PROVE  \/ Held(rows, v, j)'
             \/ j = event.job /\ event.version > v /\ Relabel(rows, v, j)
  <2>1. CASE j # event.job
    <3>1. \A e \in Event : e \in Pending /\ e.label = "RUNNING" /\ e.job = j => e \in Pending'
      BY <1>1, <2>1
    <3> QED
      BY <1>1, <1>3, <1>4, <1>6, <3>1, HeldSteady DEF Views
  <2>2. CASE Agrees(rows, j)
    BY <1>1, <2>2 DEF Held, Agrees, Exists
  <2>3. CASE Stale(v)
    BY <1>1, <1>4, <2>3 DEF Held, Stale, DueStays
  <2>4. CASE Relabel(rows, v, j) /\ j = event.job
    <3>1. PICK e \in Pending : e.label = "RUNNING" /\ e.job = j /\ e.version > v
      BY <2>4 DEF Relabel
    <3>2. CASE e \in Pending'
      <4>1. Relabel(rows, v, j)'
        BY <1>1, <2>4, <3>1, <3>2 DEF Relabel, Running, Exists
      <4> QED
        BY <4>1 DEF Held
    <3>3. CASE e = event
      BY <2>4, <3>1, <3>3
    <3> QED
      BY <1>1, <3>2, <3>3
  <2> QED
    BY <1>6, <2>1, <2>2, <2>3, <2>4 DEF Held
<1>7. AnswersFresh'
  <2>1. HeldOrLate
    <3> SUFFICES ASSUME NEW rows \in Tables, NEW v \in Nat, v <= version, NEW j \in Jobs,
                        Held(rows, v, j)
                 PROVE  Held(rows, v, j)' \/ Late(j, v)'
      BY DEF HeldOrLate
    <3>1. CASE j = event.job /\ event.version > v
      <4>1. told'[j] > v /\ v < version'
        BY <1>1, <3>1
      <4> QED
        BY <4>1 DEF Late
    <3> QED
      BY <1>6, <3>1
  <2>2. AnswersMove
    BY <1>1 DEF AnswersMove
  <2> QED
    BY <1>3, <1>5, <2>1, <2>2, AnswersKeep DEF Views
<1>8. TableFresh'
  <2> SUFFICES ASSUME NEW rows \in Tables, NEW v \in Nat, Shows(rows, v)', NEW j \in Jobs
               PROVE  Held(rows, v, j)'
    BY DEF TableFresh
  <2>1. /\ intact /\ notice = "none" /\ v = loaded /\ v <= version
        /\ event.version >= told[event.job] /\ told[event.job] >= loaded
        /\ rows = Labelled(event.job, "RUNNING")
    BY <1>1, TypeParts DEF Shows, TypeCounts, Views, LoadedTold
  <2>2. table \in Tables /\ Held(table, v, j)
    BY <2>1, TypeParts DEF TypeShown, Shows, Views, TableFresh
  <2>3. /\ DOMAIN rows = DOMAIN table
        /\ \A k \in DOMAIN table : rows[k] = IF k = event.job
                                             THEN [table[k] EXCEPT !.status = "RUNNING"]
                                             ELSE table[k]
    BY <1>1, <2>1, LabelTypes
  <2>4. CASE j # event.job
    <3>1. PICK before \in Tables : before = table
      BY <2>2
    <3>2. Held(before, v, j)'
      BY <1>6, <2>1, <2>2, <2>4, <3>1
    <3>3. \/ j \in DOMAIN rows /\ j \in DOMAIN before /\ rows[j] = before[j]
          \/ j \notin DOMAIN rows /\ j \notin DOMAIN before
      BY <2>3, <2>4, <3>1
    <3>4. CASE Agrees(before, j)'
      BY <3>3, <3>4 DEF Held, Agrees
    <3>5. CASE Relabel(before, v, j)'
      BY <3>3, <3>5 DEF Held, Relabel
    <3> QED
      BY <3>2, <3>4, <3>5 DEF Held
  <2>5. CASE j = event.job
    <3>1. CASE Stale(v)
      BY <1>1, <1>4, <3>1 DEF Held, Stale, DueStays
    <3>2. CASE Relabel(table, v, j)
      <4>0. /\ j \in DOMAIN table /\ rows[j] = [table[j] EXCEPT !.status = "RUNNING"]
            /\ OnceLabelled(table[j], cronJob[j]) /\ cronJob[j].status = "RUNNING" /\ Exists(j)
        BY <2>3, <2>5, <3>2 DEF Relabel, Running
      <4>1. j \in DOMAIN rows /\ AsShown(rows[j], cronJob[j]) /\ Exists(j)
        BY <2>2, <2>3, <4>0, LabelWritten, TableTypes
      <4>2. Agrees(rows, j)'
        BY <1>1, <4>1 DEF Agrees, Exists
      <4> QED
        BY <4>2 DEF Held
    <3>3. CASE Agrees(table, j) /\ Running(j)
      <4>1. /\ AsShown(table[j], cronJob[j]) /\ j \in DOMAIN table /\ cronJob[j].status = "RUNNING"
            /\ table[j] \in Row /\ cronJob[j] \in Row /\ Exists(j)
        BY <2>2, <3>3, RowOfJob, TableTypes DEF Agrees, Running
      <4>2. AsShown([table[j] EXCEPT !.status = "RUNNING"], cronJob[j])
        BY <4>1, LabelKnown
      <4>3. Agrees(rows, j)'
        BY <1>1, <2>3, <2>5, <4>1, <4>2 DEF Agrees, Exists
      <4> QED
        BY <4>3 DEF Held
    <3>4. CASE Late(j, event.version)
      <4>1. {loaded, told[event.job]} \subseteq Nat
        BY <1>1, TypeParts DEF TypeCounts
      <4>2. event.version < version /\ Due(event.version)
        BY <1>1, <2>1, <2>5, <3>4, <4>1 DEF Late, Stale
      <4>3. event.version \in Nat /\ v <= event.version /\ v < version
        BY <1>1, <2>1, <4>1, <4>2
      <4>4. Due(v)
        BY <4>2, <4>3, DueBefore DEF Views
      <4>5. Due(v)' /\ v < version'
        BY <1>1, <1>4, <4>3, <4>4 DEF DueStays
      <4> QED
        BY <4>5 DEF Held, Stale
    <3>5. Running(j) \/ Late(j, event.version)
      BY <1>1, <2>5 DEF Views, Truthful
    <3> QED
      BY <2>2, <3>1, <3>2, <3>3, <3>4, <3>5 DEF Held
  <2> QED
    BY <2>4, <2>5
<1>9. LoadedTold' /\ FirstAwaited'
  <2>1. \A j \in Jobs : told[j] \in Nat /\ loaded \in Nat
    BY <1>1, TypeParts DEF TypeCounts
  <2> QED
    BY <1>1, <2>1 DEF LoadedTold, FirstAwaited, Views
<1>10. Truthful'
  BY <1>1, <1>3, <1>5, EventsKeep DEF Truthful, Views
<1> QED
  BY <1>7, <1>8, <1>9, <1>10 DEF Views

\* A list replaces what is shown.
LEMMA RenderViews ==
  ASSUME TypeOK, Views, NEW l \in Loads, Render(l)
  PROVE  Views'
<1>a. /\ version \in Nat /\ loads \in [Loads -> LoadType] /\ loaded \in Nat
      /\ \A j \in Jobs : told[j] \in 0 .. version
      /\ {unheard, timers, answers} \subseteq Nat
  BY TypeParts DEF TypeCounts, TypeLoads
<1>b. PICK rows \in Tables, u \in 0 .. MaxChanges : WillRender(l, rows, u)
  BY <1>a, LoadStates DEF Render, WillRender
<1>c. /\ loads[l].rows = rows /\ loads[l].version = u /\ u \in Nat
      /\ u <= version /\ \A j \in Jobs : Held(rows, u, j) \/ Late(j, u)
  <2>1. loads[l].rows = rows /\ loads[l].version = u
    BY <1>b, LoadStates DEF WillRender
  <2>2. u \in Nat
    BY <1>b, BoundAssumption
  <2> QED
    BY <1>b, <2>1, <2>2 DEF Views, AnswersFresh
<1>1. /\ UNCHANGED <<cronJob, version, announcements, inbox, answers, unheard, timers>>
      /\ table' = rows /\ notice' = "none" /\ loaded' = u
      /\ told' = [j \in Jobs |-> Later(told[j], u)]
      /\ intact' = (\A j \in Jobs : u >= told[j])
      /\ loads' = [loads EXCEPT ![l] = NoLoad]
  BY <1>c DEF Render, server
<1>2. /\ version' \in Nat /\ version' >= version
      /\ \A j \in Jobs : told'[j] \in Nat /\ told'[j] >= told[j] /\ told'[j] >= u
  BY <1>a, <1>c, <1>1 DEF Later
<1>3. Pending' = Pending
  BY <1>1 DEF Pending
\* What was due still is, if it is newer than this list.
<1>4. ASSUME NEW v \in Nat, Due(v) PROVE Due(v)' \/ u > v
  <2>1. ASSUME NEW k \in Loads, k # l PROVE loads'[k] = loads[k]
    BY <1>a, <1>1, <2>1
  <2>2. loads[l] # Sent
    BY <1>b, LoadStates DEF WillRender
  <2>3. ASSUME NEW others, NEW w, WillRender(l, others, w) PROVE w = u
    <3>1. Answered(others, w) = Answered(rows, u)
      BY <1>b, <2>3 DEF WillRender
    <3> QED
      BY <3>1, LoadStates
  <2>4. ASSUME NEW k \in Loads, loads[k] = Sent PROVE Due(v)'
    <3>1. loads'[k] = Sent
      BY <2>1, <2>2, <2>4
    <3> QED
      BY <3>1 DEF Due
  <2>5. ASSUME NEW k \in Loads, NEW others, NEW w, WillRender(k, others, w), w > v
        PROVE  Due(v)' \/ u > v
    <3>1. CASE k = l
      BY <2>3, <2>5, <3>1
    <3>2. CASE k # l
      <4>1. loads'[k] = Answered(others, w)
        BY <2>1, <2>5, <3>2 DEF WillRender
      <4> QED
        BY <2>5, <4>1 DEF Due, WillRender
    <3> QED
      BY <3>1, <3>2
  <2> QED
    BY <1>1, <1>3, <1>4, <2>4, <2>5 DEF Due
<1>5. LateKept
  <2> SUFFICES ASSUME NEW j \in Jobs, NEW v \in Nat, Late(j, v) PROVE Late(j, v)'
    BY DEF LateKept
  <2>1. v < version'
    BY <1>1 DEF Late, Stale
  <2>2. Due(v)' \/ told'[j] > v
    BY <1>a, <1>c, <1>2, <1>4 DEF Late, Stale
  <2> QED
    BY <2>1, <2>2 DEF Late, Stale
<1>6. HeldOrLate
  <2> SUFFICES ASSUME NEW j \in Jobs, NEW others \in Tables, NEW v \in Nat, v <= version,
                      Held(others, v, j)
               PROVE  Held(others, v, j)' \/ Late(j, v)'
    BY DEF HeldOrLate
  <2>1. Agrees(others, j) => Agrees(others, j)'
    BY <1>1 DEF Agrees, Exists
  <2>2. Relabel(others, v, j) => Relabel(others, v, j)'
    BY <1>1, <1>3 DEF Relabel, Running, Exists
  <2>3. Stale(v) => Late(j, v)'
    BY <1>5 DEF LateKept, Late
  <2> QED
    BY <2>1, <2>2, <2>3 DEF Held
<1>7. AnswersFresh'
  <2>1. AnswersMove
    BY <1>a, <1>1 DEF AnswersMove
  <2> QED
    BY <1>2, <1>5, <1>6, <2>1, AnswersKeep DEF Views
<1>8. TableFresh'
  <2> SUFFICES ASSUME NEW shown \in Tables, NEW v \in Nat, Shows(shown, v)', NEW j \in Jobs
               PROVE  Held(shown, v, j)'
    BY DEF TableFresh
  <2>1. shown = rows /\ v = u /\ u >= told[j]
    BY <1>1 DEF Shows
  <2>2. CASE Stale(u) \/ Late(j, u)
    <3>1. Stale(u)
      BY <1>a, <1>c, <2>1, <2>2 DEF Late
    <3>2. Due(u)' /\ u < version'
      BY <1>c, <1>1, <1>4, <3>1 DEF Stale
    <3> QED
      BY <2>1, <3>2 DEF Held, Stale
  <2>3. CASE Agrees(rows, j)
    <3>1. Agrees(rows, j)'
      BY <1>1, <2>3 DEF Agrees, Exists
    <3> QED
      BY <2>1, <3>1 DEF Held
  <2>4. CASE Relabel(rows, u, j)
    <3>1. Relabel(rows, u, j)'
      BY <1>1, <1>3, <2>4 DEF Relabel, Running, Exists
    <3> QED
      BY <2>1, <3>1 DEF Held
  <2> QED
    BY <1>c, <2>2, <2>3, <2>4 DEF Held
<1>9. LoadedTold' /\ FirstAwaited'
  BY <1>1, <1>2 DEF LoadedTold, FirstAwaited
<1>10. Truthful'
  BY <1>1, <1>2, <1>3, <1>5, EventsKeep DEF Truthful, Views
<1> QED
  BY <1>7, <1>8, <1>9, <1>10 DEF Views

\* Nothing is shown any more.
LEMMA ErrorViews ==
  ASSUME TypeOK, Views, NEW l \in Loads, ShowError(l)
  PROVE  Views'
<1>1. /\ UNCHANGED <<cronJob, version, announcements, inbox, answers, timers, loaded, told>>
      /\ intact' = FALSE /\ unheard' = version /\ loads' = [loads EXCEPT ![l] = NoLoad]
  BY DEF ShowError, server
<1>2. /\ version \in Nat /\ version' \in Nat /\ version' >= version /\ loads \in [Loads -> LoadType]
      /\ \A j \in Jobs : told'[j] \in Nat /\ told'[j] >= told[j]
  BY <1>1, TypeParts DEF TypeCounts, TypeLoads
<1>3. Noticed
  BY <1>1, <1>2 DEF Noticed, Due
<1>4. DueStays
  BY <1>2, <1>3, NoticedStays
<1>5. LateKept
  BY <1>2, <1>4, LateStays
<1>6. HeldOrLate
  BY <1>1, <1>2, <1>3, HeldNoticed DEF HeldOrLate, Views
<1>7. AnswersFresh'
  <2>1. AnswersMove
    BY <1>1, <1>2 DEF AnswersMove
  <2> QED
    BY <1>2, <1>5, <1>6, <2>1, AnswersKeep DEF Views
<1>8. TableFresh' /\ FirstAwaited' /\ LoadedTold'
  BY <1>1 DEF TableFresh, Shows, FirstAwaited, LoadedTold, Views
<1>9. Pending' = Pending
  BY <1>1 DEF Pending
<1>10. Truthful'
  BY <1>1, <1>2, <1>5, <1>9, EventsKeep DEF Truthful, Views
<1> QED
  BY <1>7, <1>8, <1>10 DEF Views

-----------------------------------------------------------------------------
(* The types, and the counters.                                            *)

LEMMA CountsKeep ==
  ASSUME TypeOK, version' \in Nat, version' >= version, {answers', timers', drops'} \subseteq Nat,
         unheard' \in 0 .. version', UNCHANGED <<loaded, told>>
  PROVE  TypeCounts'
<1>1. /\ version \in Nat /\ loaded \in 0 .. version /\ told \in [Jobs -> 0 .. version]
  BY TypeParts DEF TypeCounts
<1>2. 0 .. version \subseteq 0 .. version'
  BY <1>1
<1>3. told' \in [Jobs -> 0 .. version'] /\ loaded' \in 0 .. version'
  BY <1>1, <1>2
<1> QED
  BY <1>3 DEF TypeCounts

LEMMA CommitTypes ==
  ASSUME TypeOK, RowsBounded, NEW j \in Jobs, NEW row, NEW name, NEW label, NEW ours,
         Committed(j, row, name, label, ours)
  PROVE  /\ TypeJobs' /\ TypeEvents' /\ TypeLoads' /\ TypeShown' /\ TypeCounts'
         /\ version' <= MaxChanges /\ RowsBounded'
<1> DEFINE announced ==
      [event |-> [name |-> name, job |-> j, label |-> label, version |-> version + 1], ours |-> ours]
<1>a. /\ version \in Nat /\ version < MaxChanges /\ version' = version + 1
      /\ cronJob \in [Jobs -> Row \union {Unborn, Deleted}]
      /\ cronJob' = [cronJob EXCEPT ![j] = row] /\ row \in Row \union {Deleted}
      /\ row \in Row => Bounded(row, version + 1)
      /\ UNCHANGED <<connected, inbox, answers, page, drops, unheard>>
      /\ announcements' = announcements \union {announced}
  BY TypeParts DEF TypeCounts, TypeJobs, Committed, Commit
<1>b. announced \in [event : Event, ours : BOOLEAN]
  BY DEF Committed
<1> HIDE DEF announced
<1>1. TypeJobs'
  BY <1>a DEF TypeJobs
<1>2. TypeEvents'
  BY <1>a, <1>b, TypeParts DEF TypeEvents
<1>3. TypeLoads' /\ TypeShown'
  BY <1>a, TypeParts DEF TypeLoads, TypeShown, page
<1>4. TypeCounts'
  <2>1. /\ version' \in Nat /\ version' >= version /\ unheard' \in 0 .. version'
        /\ {answers, timers, drops} \subseteq Nat
    BY <1>a, TypeParts DEF TypeCounts
  <2> QED
    BY <1>a, <2>1, CountsKeep DEF page
<1>5. version' <= MaxChanges
  BY <1>a, BoundAssumption
<1>6. RowsBounded'
  <2> SUFFICES ASSUME NEW k \in Jobs, Exists(k)' PROVE Bounded(cronJob'[k], version')
    BY DEF RowsBounded
  <2>1. CASE k = j
    BY <1>a, <2>1 DEF Exists
  <2>2. CASE k # j
    <3>1. Exists(k) /\ cronJob'[k] = cronJob[k]
      BY <1>a, <2>2 DEF Exists
    <3>2. /\ {cronJob[k].nextRunAt, cronJob[k].lastRunAt} \subseteq Nat
          /\ cronJob[k].nextRunAt <= version /\ cronJob[k].lastRunAt <= version
      BY <3>1 DEF RowsBounded, Bounded, Exists, Row
    <3> QED
      BY <1>a, <3>1, <3>2 DEF Bounded
  <2> QED
    BY <2>1, <2>2
<1> QED
  BY <1>1, <1>2, <1>3, <1>4, <1>5, <1>6

LEMMA DisableTypes ==
  ASSUME TypeOK, RowsBounded, NEW j \in Jobs, Disable(j)
  PROVE  /\ TypeJobs' /\ TypeEvents' /\ TypeLoads' /\ TypeShown' /\ TypeCounts'
         /\ version' <= MaxChanges /\ RowsBounded'
<1>a. /\ version \in Nat /\ version < MaxChanges /\ version' = version + 1 /\ unheard' = version + 1
      /\ cronJob \in [Jobs -> Row \union {Unborn, Deleted}] /\ cronJob[j] \in Row
      /\ cronJob' = [cronJob EXCEPT ![j].isActive = FALSE]
      /\ UNCHANGED <<announcements, connected, inbox, answers, page, drops>>
  BY TypeParts DEF TypeCounts, TypeJobs, Disable, Exists
<1> DEFINE row == [cronJob[j] EXCEPT !.isActive = FALSE]
<1>b. /\ row \in Row /\ cronJob' = [cronJob EXCEPT ![j] = row]
      /\ row.nextRunAt = cronJob[j].nextRunAt /\ row.lastRunAt = cronJob[j].lastRunAt
  BY <1>a DEF Row
<1> HIDE DEF row
<1>1. TypeJobs'
  BY <1>a, <1>b DEF TypeJobs
<1>2. TypeEvents' /\ TypeLoads' /\ TypeShown'
  BY <1>a, TypeParts DEF TypeEvents, TypeLoads, TypeShown, page
<1>3. TypeCounts'
  <2>1. /\ version' \in Nat /\ version' >= version /\ unheard' \in 0 .. version'
        /\ {answers, timers, drops} \subseteq Nat
    BY <1>a, TypeParts DEF TypeCounts
  <2> QED
    BY <1>a, <2>1, CountsKeep DEF page
<1>4. RowsBounded'
  <2> SUFFICES ASSUME NEW k \in Jobs, Exists(k)' PROVE Bounded(cronJob'[k], version')
    BY DEF RowsBounded
  <2>1. /\ Exists(k) /\ cronJob'[k].nextRunAt = cronJob[k].nextRunAt
        /\ cronJob'[k].lastRunAt = cronJob[k].lastRunAt
    BY <1>a, <1>b DEF Exists
  <2>2. /\ {cronJob[k].nextRunAt, cronJob[k].lastRunAt} \subseteq Nat
        /\ cronJob[k].nextRunAt <= version /\ cronJob[k].lastRunAt <= version
    BY <2>1 DEF RowsBounded, Bounded, Exists, Row
  <2> QED
    BY <1>a, <2>1, <2>2 DEF Bounded
<1>5. version' <= MaxChanges
  BY <1>a, BoundAssumption
<1> QED
  BY <1>1, <1>2, <1>3, <1>4, <1>5

\* A step that changes no row.
LEMMA RowsSame ==
  ASSUME TypeJobs, RowsBounded, version <= MaxChanges, UNCHANGED <<cronJob, version>>
  PROVE  TypeJobs' /\ RowsBounded' /\ version' <= MaxChanges
  BY DEF TypeJobs, RowsBounded, Exists

LEMMA DeliveryTypes ==
  ASSUME TypeOK, Truthful, RowsBounded, version <= MaxChanges, Delivery
  PROVE  /\ TypeJobs' /\ TypeEvents' /\ TypeLoads' /\ TypeShown' /\ TypeCounts'
         /\ version' <= MaxChanges /\ RowsBounded'
<1>1. /\ UNCHANGED <<cronJob, version, page>> /\ TypeEvents'
      /\ unheard' \in 0 .. version /\ answers' \in Nat /\ drops' \in Nat
  BY Deliveries
<1>2. TypeLoads' /\ TypeShown' /\ TypeCounts'
  BY <1>1, TypeParts DEF TypeLoads, TypeShown, TypeCounts, page
<1> QED
  BY <1>1, <1>2, RowsSame, TypeParts

LEMMA LoadTypes ==
  ASSUME TypeOK, NEW l \in Loads, NEW x \in LoadType, loads' = [loads EXCEPT ![l] = x]
  PROVE  TypeLoads'
  BY TypeParts DEF TypeLoads, LoadType

LEMMA PageTypes ==
  ASSUME TypeOK, Views, RowsBounded, version <= MaxChanges, NEW l \in Loads,
         \/ Receive(l) \/ TimerEnds(l) \/ Return(l) \/ FindAll(l) \/ Render(l) \/ ShowError(l)
  PROVE  /\ TypeJobs' /\ TypeEvents' /\ TypeLoads' /\ TypeShown' /\ TypeCounts'
         /\ version' <= MaxChanges /\ RowsBounded'
<1>a. UNCHANGED <<cronJob, announcements, version, connected>> /\ version \in Nat
  BY TypeParts DEF Receive, TimerEnds, Return, FindAll, Render, ShowError, server, TypeCounts
<1>b. TypeJobs' /\ RowsBounded' /\ version' <= MaxChanges
  BY <1>a, RowsSame, TypeParts
<1>c. inbox' = inbox => TypeEvents'
  BY <1>a, TypeParts DEF TypeEvents
<1>d. Load(l) => TypeLoads'
  BY LoadTypes, LoadStates DEF Load
<1>1. CASE Receive(l)
  <2>0. inbox # <<>> /\ inbox' = Tail(inbox)
    BY <1>1 DEF Receive
  <2>1. TypeEvents' /\ Head(inbox).label \in {"RUNNING", "none"} \union Terminal
    BY <1>a, <2>0, Handled DEF Event
  <2>2. CASE Head(inbox).label = "none"
    <3>1. Load(l) /\ UNCHANGED <<answers, drops, unheard, loaded, notice, timers, table, told>>
      BY <1>1, <2>2 DEF Receive
    <3>2. TypeShown' /\ TypeCounts'
      BY <1>a, <3>1, TypeParts DEF TypeShown, TypeCounts
    <3> QED
      BY <1>b, <1>d, <2>1, <3>1, <3>2
  <2>3. CASE Head(inbox).label # "none"
    <3>1. /\ UNCHANGED <<answers, drops, unheard, loads, loaded, notice>>
          /\ table' = Labelled(Head(inbox).job, Head(inbox).label)
          /\ Head(inbox).job \in Jobs /\ Head(inbox).version \in 1 .. version
      BY <1>1, <2>3, Written
    <3>2. TypeShown'
      BY <2>1, <2>3, <3>1, LabelTypes, TypeParts DEF TypeShown
    <3>3. /\ told' = [told EXCEPT ![Head(inbox).job] = Later(@, Head(inbox).version)]
          /\ timers' = timers \/ timers' = timers + 1
      BY <1>1, <2>3 DEF Receive
    <3>4. told' \in [Jobs -> 0 .. version] /\ timers' \in Nat
      <4>1. told \in [Jobs -> 0 .. version] /\ timers \in Nat
        BY TypeParts DEF TypeCounts
      <4>2. told[Head(inbox).job] \in 0 .. version
        BY <3>1, <4>1
      <4>3. Later(told[Head(inbox).job], Head(inbox).version) \in 0 .. version
        BY <1>a, <3>1, <4>2 DEF Later
      <4>4. told' \in [Jobs -> 0 .. version]
        BY <3>3, <4>1, <4>3
      <4>5. timers' \in Nat
        BY <3>3, <4>1
      <4> QED
        BY <4>4, <4>5
    <3>5. TypeCounts'
      BY <1>a, <3>1, <3>4, TypeParts DEF TypeCounts
    <3>6. TypeLoads'
      BY <3>1, TypeParts DEF TypeLoads
    <3> QED
      BY <1>b, <2>1, <3>2, <3>5, <3>6
  <2> QED
    BY <2>2, <2>3
<1>2. CASE TimerEnds(l) \/ Return(l)
  <2>1. /\ Load(l) /\ UNCHANGED <<inbox, drops, unheard, table, notice, loaded, told>>
        /\ timers' = timers \/ (timers > 0 /\ timers' = timers - 1)
        /\ answers' = answers \/ (answers > 0 /\ answers' = answers - 1)
    BY <1>2 DEF TimerEnds, Return
  <2>2. timers' \in Nat /\ answers' \in Nat
    BY <2>1, TypeParts DEF TypeCounts
  <2>3. TypeShown' /\ TypeCounts'
    BY <1>a, <2>1, <2>2, TypeParts DEF TypeShown, TypeCounts
  <2> QED
    BY <1>b, <1>c, <1>d, <2>1, <2>3
<1>3. CASE FindAll(l)
  <2>1. /\ UNCHANGED <<inbox, answers, drops, unheard, timers, table, notice, loaded, told>>
        /\ loads' = [loads EXCEPT ![l] = Answered(Listed, version)]
    BY <1>3 DEF FindAll
  <2>2. version \in 0 .. MaxChanges
    BY <1>a, BoundAssumption
  <2>3. TypeLoads'
    BY <2>1, <2>2, LoadTypes, LoadStates, TableTypes
  <2>4. TypeShown' /\ TypeCounts'
    BY <1>a, <2>1, TypeParts DEF TypeShown, TypeCounts
  <2> QED
    BY <1>b, <1>c, <2>1, <2>3, <2>4
<1>4. CASE Render(l)
  <2>1. PICK rows \in Tables, u \in 0 .. MaxChanges : loads[l] = Answered(rows, u)
    BY <1>4, LoadStates, TypeParts DEF Render, TypeLoads
  <2>2. loads[l].rows = rows /\ loads[l].version = u
    BY <2>1, LoadStates
  <2>3. /\ UNCHANGED <<inbox, answers, drops, unheard, timers>>
        /\ table' = rows /\ notice' = "none" /\ loaded' = u
        /\ told' = [j \in Jobs |-> Later(told[j], u)] /\ loads' = [loads EXCEPT ![l] = NoLoad]
    BY <1>4, <2>2 DEF Render
  <2>4. u \in 0 .. version
    <3>1. u \in Nat
      BY BoundAssumption
    <3>2. u <= version
      BY <2>1, <3>1 DEF Views, AnswersFresh, WillRender
    <3> QED
      BY <1>a, <3>1, <3>2
  <2>5. told' \in [Jobs -> 0 .. version]
    <3>1. \A j \in Jobs : Later(told[j], u) \in 0 .. version
      BY <1>a, <2>4, TypeParts DEF TypeCounts, Later
    <3> QED
      BY <2>3, <3>1
  <2>6. TypeShown'
    BY <2>3 DEF TypeShown
  <2>7. TypeCounts'
    BY <1>a, <2>3, <2>4, <2>5, TypeParts DEF TypeCounts
  <2>8. TypeLoads'
    BY <2>3, LoadTypes, LoadStates
  <2> QED
    BY <1>b, <1>c, <2>3, <2>6, <2>7, <2>8
<1>5. CASE ShowError(l)
  <2>1. /\ UNCHANGED <<inbox, answers, timers, loaded, told>> /\ unheard' = version
        /\ drops' = drops + 1 /\ table' = NoRows /\ notice' = "Failed to load jobs"
        /\ loads' = [loads EXCEPT ![l] = NoLoad]
    BY <1>5 DEF ShowError
  <2>2. TypeShown'
    BY <2>1, TableTypes DEF TypeShown
  <2>3. TypeLoads'
    BY <2>1, LoadTypes, LoadStates
  <2>4. drops' \in Nat /\ unheard' \in 0 .. version
    <3>1. drops \in Nat /\ drops' = drops + 1
      BY <2>1, TypeParts DEF TypeCounts
    <3>2. drops' \in Nat
      BY <3>1
    <3>3. unheard' = version
      BY <2>1
    <3>4. unheard' \in 0 .. version
      BY <1>a, <3>3
    <3> QED
      BY <3>2, <3>4
  <2>5. TypeCounts'
    BY <1>a, <2>1, <2>4, TypeParts DEF TypeCounts
  <2> QED
    BY <1>b, <1>c, <2>1, <2>2, <2>3, <2>5
<1> QED
  BY <1>1, <1>2, <1>3, <1>4, <1>5

\* The runs that have not announced themselves are finitely many.
LEMMA StartingFinite ==
  ASSUME IsFiniteSet(announcements), NEW j
  PROVE  IsFiniteSet(Starting(j)) /\ Cardinality(Starting(j)) \in Nat
<1>1. Starting(j) \in SUBSET announcements
  BY DEF Starting
<1> QED
  BY <1>1, FS_Subset, FS_CardinalityType

LEMMA StartingFiniteLater ==
  ASSUME NEW j
  PROVE  IsFiniteSet(announcements)' =>
           IsFiniteSet(Starting(j)') /\ Cardinality(Starting(j)') \in Nat
<1>1. Starting(j)' \subseteq announcements'
  BY DEF Starting
<1>2. ASSUME IsFiniteSet(announcements')
      PROVE  IsFiniteSet(Starting(j)') /\ Cardinality(Starting(j)') \in Nat
  BY <1>1, <1>2, FS_Subset, FS_CardinalityType
<1> QED
  BY <1>2

\* An announcement that is not that of a start changes nothing, and one that leaves less.
LEMMA StartingFewer ==
  ASSUME IsFiniteSet(announcements), IsFiniteSet(announcements'), NEW j,
         Starting(j)' \subseteq Starting(j)
  PROVE  /\ Cardinality(Starting(j)') \in Nat /\ Cardinality(Starting(j)) \in Nat
         /\ Cardinality(Starting(j)') <= Cardinality(Starting(j))
  BY StartingFinite, FS_Subset, FS_CardinalityType

\* A step that counts no run and adds no announcement of a start.
LEMMA RunsSame ==
  ASSUME TypeRuns, RunsBounded, version \in Nat, version' \in Nat, version' >= version, runs' = runs,
         IsFiniteSet(announcements'), \A j \in Jobs : Starting(j)' \subseteq Starting(j)
  PROVE  TypeRuns' /\ RunsBounded'
<1>1. ASSUME NEW j \in Jobs PROVE runs'[j] <= version' /\ Cardinality(Starting(j)') <= runs'[j]
  <2>1. runs[j] \in Nat /\ runs[j] <= version /\ Cardinality(Starting(j)) <= runs[j]
    BY DEF TypeRuns, RunsBounded
  <2>2. /\ Cardinality(Starting(j)') \in Nat /\ Cardinality(Starting(j)) \in Nat
        /\ Cardinality(Starting(j)') <= Cardinality(Starting(j))
    BY StartingFewer DEF RunsBounded
  <2> QED
    BY <2>1, <2>2
<1> QED
  BY <1>1 DEF TypeRuns, RunsBounded

LEMMA CommitRuns ==
  ASSUME TypeOK, RunsBounded, NEW j \in Jobs, NEW row, NEW name, NEW label, NEW ours,
         Commit(j, row, name, label, ours)
  PROVE  /\ IsFiniteSet(announcements')
         /\ \A k \in Jobs : name # "execution:started" \/ k # j => Starting(k)' = Starting(k)
         /\ Cardinality(Starting(j)') <= Cardinality(Starting(j)) + 1
         /\ version \in Nat /\ version < MaxChanges /\ version' = version + 1
<1> DEFINE announced ==
      [event |-> [name |-> name, job |-> j, label |-> label, version |-> version + 1], ours |-> ours]
<1>1. /\ announcements' = announcements \union {announced}
      /\ version \in Nat /\ version < MaxChanges /\ version' = version + 1
  BY TypeParts DEF Commit, TypeCounts
<1>2. announced.event.name = name /\ announced.event.job = j
  OBVIOUS
<1> HIDE DEF announced
<1>3. IsFiniteSet(announcements')
  BY <1>1, FS_AddElement DEF RunsBounded
<1>4. ASSUME NEW k \in Jobs, name # "execution:started" \/ k # j PROVE Starting(k)' = Starting(k)
  BY <1>1, <1>2, <1>4 DEF Starting
<1>5. Cardinality(Starting(j)') <= Cardinality(Starting(j)) + 1
  <2>1. IsFiniteSet(Starting(j)) /\ Cardinality(Starting(j)) \in Nat
    BY StartingFinite DEF RunsBounded
  <2>2. /\ IsFiniteSet(Starting(j) \union {announced})
        /\ Cardinality(Starting(j) \union {announced}) <= Cardinality(Starting(j)) + 1
    <3>1. /\ IsFiniteSet(Starting(j) \union {announced})
          /\ Cardinality(Starting(j) \union {announced}) =
               IF announced \in Starting(j) THEN Cardinality(Starting(j))
                                             ELSE Cardinality(Starting(j)) + 1
      BY <2>1, FS_AddElement
    <3> QED
      BY <2>1, <3>1
  <2>3. Starting(j)' \in SUBSET (Starting(j) \union {announced})
    BY <1>1 DEF Starting
  <2>4. Cardinality(Starting(j)') <= Cardinality(Starting(j) \union {announced})
    BY <2>2, <2>3, FS_Subset
  <2>5. /\ Cardinality(Starting(j)') \in Nat
        /\ Cardinality(Starting(j) \union {announced}) \in Nat
    BY <2>2, <2>3, FS_Subset, FS_CardinalityType
  <2> QED
    BY <2>1, <2>2, <2>4, <2>5
<1> QED
  BY <1>1, <1>3, <1>4, <1>5

LEMMA RunsStep ==
  ASSUME TypeOK, RunsBounded, version <= MaxChanges, [Next]_vars
  PROVE  TypeRuns' /\ RunsBounded'
<1>a. /\ version \in Nat /\ MaxChanges \in Nat /\ TypeRuns /\ IsFiniteSet(announcements)
      /\ \A j \in Jobs : /\ runs[j] \in Nat /\ runs[j] <= version
                         /\ Cardinality(Starting(j)) <= runs[j] /\ Cardinality(Starting(j)) \in Nat
  BY TypeParts, BoundAssumption, StartingFinite DEF TypeCounts, TypeRuns, RunsBounded
\* The counter of one job moves.
<1>b. ASSUME NEW j \in Jobs, NEW n \in Nat, runs' = [runs EXCEPT ![j] = n],
             version' \in Nat, version' >= version, version' <= MaxChanges, n <= version',
             Cardinality(Starting(j)') <= n,
             IsFiniteSet(announcements'), \A k \in Jobs : k # j => Starting(k)' \subseteq Starting(k)
      PROVE  TypeRuns' /\ RunsBounded'
  <2>1. runs'[j] = n /\ \A k \in Jobs : k # j => runs'[k] = runs[k]
    BY <1>a, <1>b DEF TypeRuns
  <2>2. TypeRuns'
    <3>1. n \in 0 .. MaxChanges
      BY <1>a, <1>b
    <3> QED
      BY <1>a, <1>b, <3>1 DEF TypeRuns
  <2>3. ASSUME NEW k \in Jobs PROVE runs'[k] <= version' /\ Cardinality(Starting(k)') <= runs'[k]
    <3>1. CASE k = j
      BY <1>b, <2>1, <3>1
    <3>2. CASE k # j
      <4>1. /\ Cardinality(Starting(k)') \in Nat
            /\ Cardinality(Starting(k)') <= Cardinality(Starting(k))
        BY <1>a, <1>b, <3>2, StartingFewer
      <4> QED
        BY <1>a, <1>b, <2>1, <3>2, <4>1
    <3> QED
      BY <3>1, <3>2
  <2> QED
    BY <1>b, <2>2, <2>3 DEF RunsBounded
<1>1. ASSUME NEW j \in Jobs, MarkRunning(j) PROVE TypeRuns' /\ RunsBounded'
  <2>1. PICK row : Commit(j, row, "execution:started", "RUNNING", FALSE)
    BY <1>1 DEF MarkRunning
  <2>2. /\ IsFiniteSet(announcements')
        /\ \A k \in Jobs : k # j => Starting(k)' = Starting(k)
        /\ Cardinality(Starting(j)') <= Cardinality(Starting(j)) + 1
        /\ version < MaxChanges /\ version' = version + 1
    BY <2>1, CommitRuns
  <2>3. runs' = [runs EXCEPT ![j] = runs[j] + 1]
    BY <1>1 DEF MarkRunning
  <2>4. Cardinality(Starting(j)') \in Nat
    BY <2>2, StartingFiniteLater
  <2>5. /\ runs[j] + 1 \in Nat /\ version' \in Nat /\ version' >= version /\ version' <= MaxChanges
        /\ runs[j] + 1 <= version' /\ Cardinality(Starting(j)') <= runs[j] + 1
    BY <1>a, <2>2, <2>4
  <2> QED
    BY <1>b, <2>2, <2>3, <2>5
<1>2. ASSUME NEW j \in Jobs, NEW status \in Terminal, NEW ours, Complete(j, status, ours)
      PROVE  TypeRuns' /\ RunsBounded'
  <2>1. PICK row : Commit(j, row, "execution:completed", status, ours)
    BY <1>2 DEF Complete
  <2>2. /\ IsFiniteSet(announcements')
        /\ \A k \in Jobs : Starting(k)' = Starting(k)
        /\ version < MaxChanges /\ version' = version + 1
    BY <2>1, CommitRuns
  <2>3. runs' = [runs EXCEPT ![j] = runs[j] - 1] /\ runs[j] > 0
    BY <1>2 DEF Complete
  <2>4. Starting(j)' = {}
    BY <1>2, <2>2 DEF Complete, Starting
  <2>5. Cardinality(Starting(j)') = 0
    BY <2>4, FS_EmptySet
  <2>6. /\ runs[j] - 1 \in Nat /\ version' \in Nat /\ version' >= version /\ version' <= MaxChanges
        /\ runs[j] - 1 <= version' /\ Cardinality(Starting(j)') <= runs[j] - 1
    BY <1>a, <2>2, <2>3, <2>5
  <2> QED
    BY <1>b, <2>2, <2>3, <2>6
<1>3. ASSUME NEW j \in Jobs, NEW ours, Create(j, ours) \/ Update(j, ours) \/ Toggle(j, ours) \/ Remove(j, ours)
      PROVE  TypeRuns' /\ RunsBounded'
  <2>1. PICK row, name : Commit(j, row, name, "none", ours) /\ name # "execution:started"
    BY <1>3 DEF Create, Update, Toggle, Remove
  <2>2. /\ IsFiniteSet(announcements')
        /\ \A k \in Jobs : Starting(k)' = Starting(k)
        /\ version' = version + 1
    BY <2>1, CommitRuns
  <2>3. runs' = runs /\ version' \in Nat /\ version' >= version
    BY <1>3, <1>a, <2>2 DEF Create, Update, Toggle, Remove
  <2> QED
    BY <1>a, <2>2, <2>3, RunsSame
<1>4. ASSUME NEW j \in Jobs, Disable(j) PROVE TypeRuns' /\ RunsBounded'
  <2>1. UNCHANGED <<announcements, runs>> /\ version' = version + 1
    BY <1>4 DEF Disable
  <2>2. version' \in Nat /\ version' >= version /\ \A k \in Jobs : Starting(k)' = Starting(k)
    BY <1>a, <2>1 DEF Starting
  <2> QED
    BY <1>a, <2>1, <2>2, RunsSame
<1>5. ASSUME NEW a \in announcements, Announce(a) \/ Forget(a)
      PROVE  /\ IsFiniteSet(announcements') /\ version' = version
             /\ announcements' = announcements \ {a}
             /\ \A k \in Jobs : Starting(k)' = Starting(k) \ {a}
  <2>1. announcements' = announcements \ {a} /\ version' = version
    BY <1>5 DEF Announce, Forget
  <2> QED
    BY <1>a, <2>1, FS_RemoveElement DEF Starting
<1>6. ASSUME NEW a \in announcements, Announce(a) PROVE TypeRuns' /\ RunsBounded'
  <2>1. runs' = runs /\ version' \in Nat /\ version' >= version
    BY <1>a, <1>5, <1>6 DEF Announce
  <2> QED
    BY <1>a, <1>5, <1>6, <2>1, RunsSame
<1>7. ASSUME NEW a \in announcements, Forget(a) PROVE TypeRuns' /\ RunsBounded'
  <2>1. CASE a.event.name = "execution:started"
    <3> DEFINE j == a.event.job
    <3>1. j \in Jobs /\ runs' = [runs EXCEPT ![j] = runs[j] - 1]
      BY <1>7, <2>1, TypeParts DEF Forget, TypeEvents, Event
    <3>2. a \in Starting(j) /\ IsFiniteSet(Starting(j))
      BY <1>a, <2>1, StartingFinite DEF Starting
    <3>3. Cardinality(Starting(j)') = Cardinality(Starting(j)) - 1
      BY <1>5, <1>7, <3>1, <3>2, FS_RemoveElement
    <3>4. Cardinality(Starting(j)') \in Nat
      BY <1>5, <1>7, StartingFiniteLater
    <3>5. /\ runs[j] - 1 \in Nat /\ version' \in Nat /\ version' >= version
          /\ runs[j] - 1 <= version' /\ Cardinality(Starting(j)') <= runs[j] - 1
      BY <1>a, <1>5, <1>7, <3>1, <3>3, <3>4
    <3>6. version' <= MaxChanges
      BY <1>5, <1>7
    <3> QED
      BY <1>b, <1>5, <1>7, <3>1, <3>5, <3>6
  <2>2. CASE a.event.name # "execution:started"
    <3>1. runs' = runs /\ version' \in Nat /\ version' >= version
      BY <1>a, <1>5, <1>7, <2>2 DEF Forget
    <3> QED
      BY <1>a, <1>5, <1>7, <3>1, RunsSame
  <2> QED
    BY <2>1, <2>2
<1>8. ASSUME UNCHANGED <<announcements, runs, version>> PROVE TypeRuns' /\ RunsBounded'
  BY <1>8 DEF TypeRuns, RunsBounded, Starting, TypeOK
<1>9. ASSUME NEW l \in Loads,
             \/ Receive(l) \/ TimerEnds(l) \/ Return(l) \/ FindAll(l) \/ Render(l) \/ ShowError(l)
      PROVE  UNCHANGED <<announcements, runs, version>>
  BY <1>9 DEF Receive, TimerEnds, Return, FindAll, Render, ShowError, server
<1>10. Disconnect \/ Connect \/ UNCHANGED vars => UNCHANGED <<announcements, runs, version>>
  BY DEF Disconnect, Connect, vars, server
<1> QED
  BY <1>1, <1>2, <1>3, <1>4, <1>6, <1>7, <1>8, <1>9, <1>10 DEF Next, Change

-----------------------------------------------------------------------------
(* The theorems.                                                           *)

LEMMA Start == Init => PageInv
<1> SUFFICES ASSUME Init PROVE PageInv
  OBVIOUS
<1>1. /\ cronJob \in [Jobs -> {Unborn, FirstRow}] /\ runs = [j \in Jobs |-> 0]
      /\ announcements = {} /\ connected = FALSE /\ inbox = <<>> /\ answers = 0
      /\ timers = 0 /\ table = NoRows /\ notice = "Loading..."
      /\ drops = 0 /\ version = 0 /\ unheard = 0
      /\ loaded = 0 /\ told = [j \in Jobs |-> 0] /\ intact = TRUE
  BY DEF Init
<1>2. PICK first \in Loads : loads = [l \in Loads |-> IF l = first THEN Sent ELSE NoLoad]
  BY DEF Init
<1>3. FirstRow \in Row /\ FirstRow.nextRunAt = 0 /\ FirstRow.lastRunAt = 0
  BY BoundAssumption DEF FirstRow, Row
<1>4. TypeJobs
  BY <1>1, <1>3 DEF TypeJobs
<1>5. TypeRuns
  BY <1>1, BoundAssumption DEF TypeRuns
<1>6. TypeEvents
  BY <1>1, EmptySeq DEF TypeEvents
<1>7. TypeLoads
  BY <1>2, LoadStates DEF TypeLoads
<1>8. TypeShown
  BY <1>1, TableTypes DEF TypeShown
<1>9. TypeCounts
  BY <1>1 DEF TypeCounts
<1>10. TypeOK
  BY <1>4, <1>5, <1>6, <1>7, <1>8, <1>9, TypeParts
<1>11. version <= MaxChanges
  BY <1>1, BoundAssumption
<1>12. RowsBounded
  BY <1>1, <1>3, RowOfJob, <1>10 DEF RowsBounded, Bounded
<1>13. RunsBounded
  <2>1. \A j \in Jobs : Starting(j) = {}
    BY <1>1 DEF Starting
  <2>2. \A j \in Jobs : Cardinality(Starting(j)) = 0 /\ runs[j] = 0
    BY <1>1, <2>1, FS_EmptySet
  <2>3. IsFiniteSet(announcements)
    BY <1>1, FS_EmptySet
  <2> QED
    BY <1>1, <2>2, <2>3 DEF RunsBounded
<1>14. Pending = {}
  BY <1>1 DEF Pending
<1>15. \A l \in Loads : \A rows, v : ~WillRender(l, rows, v)
  BY <1>2, LoadStates DEF WillRender
<1>16. AnswersFresh
  BY <1>15 DEF AnswersFresh
<1>17. TableFresh /\ LoadedTold /\ Truthful
  BY <1>1, <1>14 DEF TableFresh, Shows, LoadedTold, Truthful
<1>18. FirstAwaited
  BY <1>2, LoadStates DEF FirstAwaited
<1> QED
  BY <1>10, <1>11, <1>12, <1>13, <1>16, <1>17, <1>18 DEF PageInv

LEMMA Step == PageInv /\ [Next]_vars => PageInv'
<1> SUFFICES ASSUME PageInv, [Next]_vars PROVE PageInv'
  OBVIOUS
<1>0. TypeOK /\ Views /\ RowsBounded /\ RunsBounded /\ version <= MaxChanges
  BY DEF PageInv, Views
<1>1. TypeRuns' /\ RunsBounded'
  BY <1>0, RunsStep
<1> DEFINE Rest == /\ TypeJobs' /\ TypeEvents' /\ TypeLoads' /\ TypeShown' /\ TypeCounts'
                   /\ version' <= MaxChanges /\ RowsBounded'
<1>2. ASSUME NEW j \in Jobs,
             \/ MarkRunning(j)
             \/ \E ours \in BOOLEAN : \/ Create(j, ours) \/ Update(j, ours) \/ Toggle(j, ours) \/ Remove(j, ours)
                                      \/ \E status \in Terminal : Complete(j, status, ours)
      PROVE  Views' /\ Rest
  <2>1. PICK row, name, label, ours : Committed(j, row, name, label, ours)
    BY <1>0, <1>2, Commits
  <2> QED
    BY <1>0, <2>1, CommitViews, CommitTypes
<1>3. ASSUME NEW j \in Jobs, Disable(j) PROVE Views' /\ Rest
  BY <1>0, <1>3, DisableViews, DisableTypes
<1>4. ASSUME Delivery PROVE Views' /\ Rest
  BY <1>0, <1>4, DeliveryViews, DeliveryTypes DEF Views
<1>5. ASSUME NEW l \in Loads, Receive(l) PROVE Views' /\ Rest
  <2>1. /\ inbox # <<>> /\ inbox' = Tail(inbox)
        /\ UNCHANGED <<announcements, connected, cronJob, version, notice, loaded>>
    BY <1>5 DEF Receive, server
  <2>2. Head(inbox).label \in {"RUNNING", "none"} \union Terminal /\ Pending' \subseteq Pending
    BY <1>0, <2>1, Handled DEF Event
  <2>3. CASE Head(inbox).label = "none"
    <3>1. Load(l) /\ UNCHANGED <<timers, table, told, intact>>
      BY <1>5, <2>3 DEF Receive
    <3>2. Views'
      BY <1>0, <2>1, <2>2, <3>1, LoadViews
    <3> QED
      BY <1>0, <1>5, <3>2, PageTypes
  <2>4. CASE Head(inbox).label # "none"
    <3>1. Views'
      BY <1>0, <1>5, <2>2, <2>4, CompletedViews, StartedViews
    <3> QED
      BY <1>0, <1>5, <3>1, PageTypes
  <2> QED
    BY <2>3, <2>4
<1>6. ASSUME NEW l \in Loads, TimerEnds(l) \/ Return(l) PROVE Views' /\ Rest
  <2>1. /\ Load(l) /\ UNCHANGED <<cronJob, version, table, notice, loaded, told, intact>>
        /\ Pending' \subseteq Pending
    BY <1>6 DEF TimerEnds, Return, server, Pending
  <2>2. Views'
    BY <1>0, <2>1, LoadViews
  <2> QED
    BY <1>0, <1>6, <2>2, PageTypes
<1>7. ASSUME NEW l \in Loads, FindAll(l) \/ Render(l) \/ ShowError(l) PROVE Views' /\ Rest
  <2>1. Views'
    BY <1>0, <1>7, FindViews, RenderViews, ErrorViews
  <2> QED
    BY <1>0, <1>7, <2>1, PageTypes
<1>8. ASSUME UNCHANGED vars PROVE Views' /\ Rest
  <2>1. /\ UNCHANGED <<cronJob, version, page, announcements, connected, inbox>>
        /\ UNCHANGED <<answers, drops, unheard>>
    BY <1>8 DEF vars, server
  <2>2. Pending' = Pending
    BY <2>1 DEF Pending
  <2>3. unheard \in 0 .. version /\ answers \in Nat /\ version \in Nat
    BY <1>0, TypeParts DEF TypeCounts
  <2>4. /\ unheard' \in 0 .. version /\ unheard' >= unheard
        /\ answers' \in Nat /\ answers' >= answers
    BY <2>1, <2>3
  <2>5. Views'
    BY <1>0, <2>1, <2>2, <2>4, QuietViews DEF PendingKept
  <2>6. TypeEvents' /\ TypeLoads' /\ TypeShown' /\ TypeCounts'
    BY <1>0, <2>1, TypeParts DEF TypeEvents, TypeLoads, TypeShown, TypeCounts, page
  <2> QED
    BY <1>0, <2>1, <2>5, <2>6, RowsSame, TypeParts
<1>9. ASSUME Views' /\ Rest PROVE PageInv'
  BY <1>1, <1>9, TypePartsLater DEF Views, PageInv
<1> QED
  BY <1>2, <1>3, <1>4, <1>5, <1>6, <1>7, <1>8, <1>9 DEF Next, Change, Delivery

\* What always holds of the page and makes its promise hold: each row that is shown, or will
\* be, is that of the table, or that list is old and something is on its way that replaces it,
\* or only the label RUNNING is missing and its event is on its way.
THEOREM Invariance == Spec => []PageInv
<1> QED
  BY Start, Step, PTL DEF Spec

\* Every variable has its type; the page has been told of no change that was not made, and
\* no counter of runs falls below zero.
THEOREM TypeCorrect == Spec => []TypeOK
<1>1. PageInv => TypeOK
  BY DEF PageInv
<1> QED
  BY <1>1, Invariance, PTL

\* When nothing is on its way to the page, it shows the jobs as they are in the table, with
\* the exceptions that TableCurrent names.
THEOREM TableIsCurrent == Spec => []TableCurrent
<1>1. PageInv => TableCurrent
  <2> SUFFICES ASSUME PageInv, Settled, unheard <= loaded, intact
               PROVE  /\ notice = "none" /\ DOMAIN table = {j \in Jobs : Exists(j)}
                      /\ \A j \in DOMAIN table : AsShown(table[j], cronJob[j])
    BY DEF TableCurrent
  <2>1. notice = "none"
    BY DEF PageInv, FirstAwaited, Settled
  <2>2. table \in Tables /\ loaded \in Nat /\ unheard \in Nat /\ version \in Nat
    <3>1. TypeShown /\ TypeCounts
      BY TypeParts DEF PageInv
    <3>2. table \in Tables
      BY <3>1 DEF TypeShown
    <3>3. version \in Nat /\ loaded \in 0 .. version /\ unheard \in 0 .. version
      BY <3>1 DEF TypeCounts
    <3>4. loaded \in Nat /\ unheard \in Nat
      BY <3>3
    <3> QED
      BY <3>2, <3>3, <3>4
  <2>3. Pending = {}
    BY DEF Settled, Pending
  <2>4. ~Due(loaded)
    BY <2>2, <2>3, LoadStates DEF Settled, Due, WillRender
  <2>5. ASSUME NEW j \in Jobs PROVE Agrees(table, j)
    <3>1. Held(table, loaded, j)
      BY <2>1, <2>2 DEF PageInv, TableFresh, Shows
    <3> QED
      BY <2>3, <2>4, <3>1 DEF Held, Stale, Relabel
  <2>6. DOMAIN table \subseteq Jobs
    BY <2>2 DEF Tables
  <2>7. /\ DOMAIN table = {j \in Jobs : Exists(j)}
        /\ \A j \in DOMAIN table : AsShown(table[j], cronJob[j])
    BY <2>5, <2>6 DEF Agrees
  <2> QED
    BY <2>1, <2>7
<1> QED
  BY <1>1, Invariance, PTL
=============================================================================
