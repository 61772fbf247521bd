------------------------------ MODULE PagesProofs ------------------------------
(***************************************************************************)
(* Proofs about Pages for all jobs, executions and texts, any number of    *)
(* fetches and validations at the same time, and all bounds.               *)
(***************************************************************************)
EXTENDS Pages, FiniteSetTheorems, SequenceTheorems, TLAPS

-----------------------------------------------------------------------------
(* The form (CronForm).                                                    *)

\* What is shown last is the verdict of the text, once the timer has ended ...
Matches == ~debounce /\ latest = issued /\ ~unknown => verdict = VerdictOf(text)

\* ... because the validation issued last is then that of the text.
LastAsked == \A r \in requests : r.number = issued /\ ~debounce => r.of = text

FormInv == FormTypeOK /\ Matches /\ LastAsked

\* The server answers for the texts of five fields, and the page decides the others.
LEMMA VerdictsOfTexts ==
  /\ \A t \in Texts : VerdictOf(t) \in Verdicts
  /\ \A t \in Valid \union Invalid : VerdictOf(t) = Answered(t) /\ Answered(t) \in Verdicts
  /\ \A t \in Valid \union Invalid : Error(t) \in Verdicts
  /\ VerdictOf(Empty) = Hidden /\ Hidden \in Verdicts /\ LooksValid \in Verdicts
  /\ Empty \in Texts /\ Valid \union Invalid \subseteq Texts /\ Presets \subseteq Texts
<1>1. \A t \in Valid \union Invalid : Answered(t) \in Verdicts
  BY DEF Answered, Verdicts
<1>2. \A t \in Valid \union Invalid : t # Empty /\ t \notin Odd
  BY TextAssumption
<1>3. \A t \in Valid \union Invalid : VerdictOf(t) = Answered(t)
  BY <1>2 DEF VerdictOf
<1>4. \A t \in Texts : VerdictOf(t) \in Verdicts
  BY <1>1, <1>3 DEF VerdictOf, Verdicts, Texts
<1> QED
  BY <1>1, <1>3, <1>4, TextAssumption DEF VerdictOf, Verdicts, Texts

\* FormTypeOK in two parts, of which only the second needs arithmetic.
FormShown ==
  text \in Texts /\ debounce \in BOOLEAN /\ unknown \in BOOLEAN /\ verdict \in Verdicts
FormAsked ==
  /\ requests \subseteq [of : Valid \union Invalid, number : 1 .. issued]
  /\ latest \in 0 .. issued /\ {edits, issued} \subseteq Nat

LEMMA FormStart == FormInit => FormInv
<1> SUFFICES ASSUME FormInit PROVE FormInv
  OBVIOUS
<1> USE VerdictsOfTexts DEF FormInit
<1>1. FormTypeOK
  <2>1. text \in Texts /\ debounce \in BOOLEAN /\ unknown \in BOOLEAN
    OBVIOUS
  <2>2. requests \subseteq [of : Valid \union Invalid, number : 1 .. issued]
    OBVIOUS
  <2>3. verdict \in Verdicts
    OBVIOUS
  <2>4. latest \in 0 .. issued /\ {edits, issued} \subseteq Nat
    OBVIOUS
  <2> QED
    BY <2>1, <2>2, <2>3, <2>4 DEF FormTypeOK
<1>2. Matches /\ LastAsked
  BY DEF Matches, LastAsked
<1> QED
  BY <1>1, <1>2 DEF FormInv

\* A validation of t, after which the field holds t.
LEMMA ValidateKeeps ==
  ASSUME FormInv, NEW t \in Texts, Validate(t), text' = t, debounce' \in BOOLEAN, edits' \in Nat
  PROVE  FormInv'
<1>1. CASE t \in Valid \union Invalid
  <2> DEFINE r == [of |-> t, number |-> issued + 1]
  <2>1. /\ issued' = issued + 1 /\ requests' = requests \union {r}
        /\ UNCHANGED <<verdict, latest, unknown>>
    BY <1>1 DEF Validate
  <2>2. FormTypeOK'
    BY <1>1, <2>1 DEF FormInv, FormTypeOK
  <2>3. Matches'
    BY <2>1 DEF FormInv, FormTypeOK, Matches
  <2>4. LastAsked'
    BY <2>1 DEF FormInv, FormTypeOK, LastAsked
  <2> QED
    BY <2>2, <2>3, <2>4 DEF FormInv
<1>2. CASE t \notin Valid \union Invalid
  <2>1. /\ issued' = issued + 1 /\ latest' = issued + 1 /\ verdict' = VerdictOf(t)
        /\ unknown' = FALSE /\ requests' = requests
    BY <1>2 DEF Validate
  <2>a. FormShown'
    BY <2>1, VerdictsOfTexts DEF FormInv, FormTypeOK, FormShown
  <2>b. FormAsked'
    BY <2>1, VerdictsOfTexts DEF FormInv, FormTypeOK, FormAsked
  <2>2. FormTypeOK'
    BY <2>a, <2>b DEF FormTypeOK, FormShown, FormAsked
  <2>3. Matches'
    BY <2>1 DEF Matches
  <2>4. LastAsked'
    BY <2>1 DEF FormInv, FormTypeOK, LastAsked
  <2> QED
    BY <2>2, <2>3, <2>4 DEF FormInv
<1> QED
  BY <1>1, <1>2

LEMMA FormStep == FormInv /\ (FormNext \/ UNCHANGED formVars) => FormInv'
<1> SUFFICES ASSUME FormInv, FormNext \/ UNCHANGED formVars PROVE FormInv'
  OBVIOUS
<1> USE VerdictsOfTexts DEF Edit
<1>a. edits' = edits + 1 => edits' \in Nat
  BY DEF FormInv, FormTypeOK
<1>1. ASSUME NEW t \in Texts, Input(t) PROVE FormInv'
  BY <1>1 DEF Input, FormInv, FormTypeOK, Matches, LastAsked
<1>2. CASE DebounceEnds
  BY <1>2, ValidateKeeps DEF DebounceEnds, FormInv, FormTypeOK
<1>3. CASE Blur
  <2>1. /\ text \in Texts /\ Validate(text) /\ text' = text
        /\ debounce' \in BOOLEAN /\ edits' \in Nat
    BY <1>3, <1>a DEF Blur, FormInv, FormTypeOK
  <2> QED
    BY <2>1, ValidateKeeps
<1>4. CASE Clear
  <2>a. FormShown'
    BY <1>4 DEF Clear, FormInv, FormTypeOK, FormShown
  <2>b. FormAsked'
    BY <1>4, <1>a DEF Clear, FormInv, FormTypeOK, FormAsked
  <2>1. FormTypeOK'
    BY <2>a, <2>b DEF FormTypeOK, FormShown, FormAsked
  <2>2. Matches' /\ LastAsked'
    BY <1>4 DEF Clear, FormInv, FormTypeOK, Matches, LastAsked
  <2> QED
    BY <2>1, <2>2 DEF FormInv
<1>5. ASSUME NEW t \in Presets, ChoosePreset(t) PROVE FormInv'
  <2>1. /\ t \in Texts /\ Validate(t) /\ text' = t
        /\ debounce' \in BOOLEAN /\ edits' \in Nat
    BY <1>5, <1>a DEF ChoosePreset, FormInv, FormTypeOK
  <2> QED
    BY <2>1, ValidateKeeps
<1>6. ASSUME NEW r \in requests, ShowVerdict(r) PROVE FormInv'
  <2>1. /\ r.of \in Valid \union Invalid /\ r.number \in 1 .. issued
        /\ r.number = issued /\ ~debounce => r.of = text
    BY DEF FormInv, FormTypeOK, LastAsked
  <2>a. FormShown'
    BY <1>6, <2>1 DEF ShowVerdict, FormInv, FormTypeOK, FormShown
  <2>b. FormAsked'
    BY <1>6, <2>1 DEF ShowVerdict, FormInv, FormTypeOK, FormAsked
  <2>2. FormTypeOK'
    BY <2>a, <2>b DEF FormTypeOK, FormShown, FormAsked
  <2>3. Matches'
    BY <1>6, <2>1 DEF ShowVerdict, Matches
  <2>4. LastAsked'
    BY <1>6 DEF ShowVerdict, FormInv, LastAsked
  <2> QED
    BY <2>2, <2>3, <2>4 DEF FormInv
<1>7. ASSUME NEW r \in requests, NoVerdict(r) PROVE FormInv'
  <2>1. r.number \in 1 .. issued
    BY DEF FormInv, FormTypeOK
  <2>a. FormShown'
    BY <1>7, <2>1 DEF NoVerdict, FormInv, FormTypeOK, FormShown
  <2>b. FormAsked'
    BY <1>7, <2>1 DEF NoVerdict, FormInv, FormTypeOK, FormAsked
  <2>2. FormTypeOK'
    BY <2>a, <2>b DEF FormTypeOK, FormShown, FormAsked
  <2>3. Matches'
    BY <1>7 DEF NoVerdict, FormInv, Matches
  <2>4. LastAsked'
    BY <1>7 DEF NoVerdict, FormInv, LastAsked
  <2> QED
    BY <2>2, <2>3, <2>4 DEF FormInv
<1>8. ASSUME NEW r \in requests, ShowRefusal(r) PROVE FormInv'
  <2>1. r.of \in Valid \union Invalid /\ r.number \in 1 .. issued
    BY DEF FormInv, FormTypeOK
  <2>a. FormShown'
    BY <1>8, <2>1 DEF ShowRefusal, FormInv, FormTypeOK, FormShown
  <2>b. FormAsked'
    BY <1>8, <2>1 DEF ShowRefusal, FormInv, FormTypeOK, FormAsked
  <2>2. FormTypeOK'
    BY <2>a, <2>b DEF FormTypeOK, FormShown, FormAsked
  <2>3. Matches'
    BY <1>8 DEF ShowRefusal, Matches
  <2>4. LastAsked'
    BY <1>8 DEF ShowRefusal, FormInv, LastAsked
  <2> QED
    BY <2>2, <2>3, <2>4 DEF FormInv
<1>9. CASE UNCHANGED formVars
  BY <1>9 DEF formVars, FormInv, FormTypeOK, Matches, LastAsked
<1> QED
  BY <1>1, <1>2, <1>3, <1>4, <1>5, <1>6, <1>7, <1>8, <1>9 DEF FormNext

-----------------------------------------------------------------------------
(* The types of the feed (ExecutionFeed).                                  *)

Names == {"execution:started", "execution:completed"}
Hears(name) == \E i \in DOMAIN inbox : inbox[i] = name

\* An event that is emitted is the last of the inbox.
LEMMA Emitted ==
  ASSUME inbox \in Seq(Names), NEW name \in Names, Emit(name)
  PROVE  /\ inbox' \in Seq(Names)
         /\ \A n : Hears(n) => Hears(n)'
         /\ connected => Hears(name)'
         /\ inbox' = <<>> => inbox = <<>> /\ ~connected
<1>1. CASE connected
  <2>1. inbox' = Append(inbox, name)
    BY <1>1 DEF Emit
  <2>2. /\ inbox' \in Seq(Names) /\ inbox' # <<>> /\ Len(inbox') = Len(inbox) + 1
        /\ \A i \in 1 .. Len(inbox) : inbox'[i] = inbox[i]
        /\ inbox'[Len(inbox) + 1] = name
    BY <2>1, AppendProperties
  <2>3. Len(inbox) \in Nat /\ DOMAIN inbox = 1 .. Len(inbox) /\ DOMAIN inbox' = 1 .. Len(inbox) + 1
    BY <2>2, LenProperties
  <2> QED
    BY <1>1, <2>2, <2>3 DEF Hears
<1>2. CASE ~connected
  BY <1>2 DEF Emit, Hears
<1> QED
  BY <1>1, <1>2

\* The first event is taken.
LEMMA Taken ==
  ASSUME inbox \in Seq(Names), inbox # <<>>, inbox' = Tail(inbox)
  PROVE  /\ inbox' \in Seq(Names) /\ Head(inbox) \in Names
         /\ \A n : Hears(n) /\ n # Head(inbox) => Hears(n)'
<1>1. /\ inbox' \in Seq(Names) /\ Len(inbox') = Len(inbox) - 1 /\ Head(inbox) \in Names
      /\ \A i \in 1 .. Len(inbox') : inbox'[i] = inbox[i + 1]
  BY HeadTailProperties
<1>2. /\ Len(inbox) \in Nat /\ DOMAIN inbox = 1 .. Len(inbox)
      /\ Len(inbox') \in Nat /\ DOMAIN inbox' = 1 .. Len(inbox')
  BY <1>1, LenProperties
<1>3. Head(inbox) = inbox[1]
  OBVIOUS
<1>4. ASSUME NEW n, NEW i \in DOMAIN inbox, inbox[i] = n, n # Head(inbox)
      PROVE  Hears(n)'
  <2>1. i \in 2 .. Len(inbox)
    BY <1>2, <1>3, <1>4
  <2>2. i - 1 \in DOMAIN inbox' /\ inbox'[i - 1] = n
    BY <1>1, <1>2, <1>4, <2>1
  <2> QED
    BY <2>2 DEF Hears
<1> QED
  BY <1>1, <1>4 DEF Hears

\* FeedTypeOK in parts.
FeedTables ==
  /\ cronJob \in [Jobs -> {"active", "inactive", "absent"}] /\ cronExecution \in Seq(Row)
  /\ phase \in [Executions -> {"new", "started", "open", "ended"}]
  /\ announcements \subseteq Executions
FeedSocket == connected \in BOOLEAN /\ inbox \in Seq(Names)
FeedShown == list \in Seq(Row) /\ notice \in {"none", "Loading...", "Failed to load"}
FeedCounts == /\ {timers, drops, version} \subseteq Nat
              /\ {unheard, loaded, newest} \subseteq 0 .. version
FeedLoads == loads \in [Loads -> LoadType]

LEMMA FeedParts ==
  /\ FeedTypeOK <=> FeedTables /\ FeedSocket /\ FeedShown /\ FeedCounts /\ FeedLoads
  /\ FeedTypeOK' <=> FeedTables' /\ FeedSocket' /\ FeedShown' /\ FeedCounts' /\ FeedLoads'
  BY DEF FeedTypeOK, FeedTables, FeedSocket, FeedShown, FeedCounts, FeedLoads, Names

\* An answer that is waited for.
Answering(l) == loads[l].pc = "answer"

LEMMA LoadTypes ==
  ASSUME FeedTypeOK
  PROVE  /\ {NoLoad, Sent, Rejected} \subseteq LoadType
         /\ \A l \in Loads : Answering(l) =>
              /\ loads[l] = [pc |-> "answer", rows |-> loads[l].rows, version |-> loads[l].version]
              /\ loads[l].rows \in Seq(Row) /\ loads[l].version \in 0 .. version
         /\ \A l \in Loads : ~Answering(l) => loads[l] \in {NoLoad, Sent, Rejected}
         /\ \A rows \in Seq(Row), v \in 0 .. version :
              [pc |-> "answer", rows |-> rows, version |-> v] \in LoadType
         /\ \A l \in Loads : loads[l] \in {NoLoad, Sent, Rejected} => ~Answering(l)
         /\ version' \in Nat /\ version' >= version => LoadType \subseteq LoadType'
         /\ NoLoad # Sent /\ NoLoad # Rejected /\ Sent # Rejected
<1>1. version \in Nat /\ loads \in [Loads -> LoadType]
  BY DEF FeedTypeOK
<1> QED
  BY <1>1 DEF LoadType, NoLoad, Sent, Rejected, Answering

LEMMA LoadsKeep ==
  ASSUME FeedTypeOK, version' \in Nat, version' >= version
  PROVE  /\ loads' = loads => FeedLoads'
         /\ \A l \in Loads, x \in LoadType : loads' = [loads EXCEPT ![l] = x] => FeedLoads'
  BY LoadTypes DEF FeedTypeOK, FeedLoads

LEMMA Grows ==
  ASSUME FeedTypeOK, Changed
  PROVE  version' = version + 1 /\ version' \in Nat /\ version' >= version
  BY FeedParts DEF FeedCounts, Changed

\* The rows of the table in the order they had, without some of them.
LEMMA Selected ==
  ASSUME NEW S, S \subseteq DOMAIN cronExecution, cronExecution \in Seq(Row),
         NEW order \in Orders(S), NEW rows, rows = [k \in DOMAIN order |-> cronExecution[order[k]]]
  PROVE  /\ rows \in Seq(Row)
         /\ \A e \in Executions : At(rows, e) # {} => At(cronExecution, e) # {}
<1>1. /\ Len(cronExecution) \in Nat /\ DOMAIN cronExecution = 1 .. Len(cronExecution)
      /\ \A i \in DOMAIN cronExecution : cronExecution[i] \in Row
  BY LenProperties, ElementOfSeq
<1>2. Cardinality(S) \in Nat
  <2>1. IsFiniteSet(1 .. Len(cronExecution))
    BY <1>1, FS_Interval
  <2>2. IsFiniteSet(S)
    BY <1>1, <2>1, FS_Subset
  <2> QED
    BY <2>2, FS_CardinalityType
<1>3. order \in [1 .. Cardinality(S) -> S] /\ DOMAIN order = 1 .. Cardinality(S)
  BY DEF Orders
<1>4. rows \in [1 .. Cardinality(S) -> Row]
  BY <1>1, <1>3
<1>5. rows \in Seq(Row)
  BY <1>2, <1>4, SeqDef
<1>6. \A k \in DOMAIN rows : order[k] \in DOMAIN cronExecution /\ rows[k] = cronExecution[order[k]]
  BY <1>1, <1>3
<1> QED
  BY <1>5, <1>6 DEF At

\* The table with some rows replaced.
LEMMA Replaced ==
  ASSUME cronExecution \in Seq(Row), NEW rows, DOMAIN rows = DOMAIN cronExecution,
         rows = [i \in DOMAIN cronExecution |-> rows[i]], \A i \in DOMAIN rows : rows[i] \in Row
  PROVE  rows \in Seq(Row)
<1>1. Len(cronExecution) \in Nat /\ DOMAIN cronExecution = 1 .. Len(cronExecution)
  BY LenProperties
<1>2. rows \in [1 .. Len(cronExecution) -> Row]
  BY <1>1
<1> QED
  BY <1>1, <1>2, SeqDef

LEMMA RowTypes ==
  /\ \A e \in Executions, j \in Jobs : Opened(e, j) \in Row
  /\ \A r \in Row, status \in {"SUCCESS", "FAILED"}, body \in {"json", "none"} :
       Closed(r, status, body) \in Row /\ Closed(r, status, body).id = r.id
  /\ \A r \in Row : /\ Cleaned(r) \in Row /\ Cleaned(r).id = r.id /\ Cleaned(r).body = "none"
                    /\ Cleaned(r).status = r.status
  BY DEF Row, Opened, Closed, Cleaned

LEMMA OpenTypes ==
  ASSUME FeedTypeOK, NEW e \in Executions, NEW j \in Jobs, Open(e, j)
  PROVE  FeedTypeOK'
<1>1. <<Opened(e, j)>> \in Seq(Row) /\ cronExecution \in Seq(Row)
  <2>1. Opened(e, j) \in Row
    BY DEF Opened, Row
  <2>2. <<Opened(e, j)>> \in Seq(Row)
    BY <2>1
  <2> QED
    BY <2>2, FeedParts DEF FeedTables
<1>2. cronExecution' \in Seq(Row)
  BY <1>1, ConcatProperties DEF Open
<1>3. FeedTables' /\ FeedSocket' /\ FeedShown'
  BY <1>2, FeedParts DEF Open, FeedTables, FeedSocket, FeedShown, shown, socket
<1>4. FeedCounts'
  BY FeedParts DEF Open, FeedCounts, Changed, Unnoticed, shown
<1>5. FeedLoads'
  BY LoadsKeep, Grows DEF Open
<1> QED
  BY <1>3, <1>4, <1>5, FeedParts

LEMMA CloseTypes ==
  ASSUME FeedTypeOK, NEW e \in Executions, NEW status \in {"SUCCESS", "FAILED"}, Close(e, status)
  PROVE  FeedTypeOK'
<1>1. PICK body \in {"json", "none"} :
        cronExecution' = [i \in DOMAIN cronExecution |->
          IF cronExecution[i].id = e THEN Closed(cronExecution[i], status, body)
                                     ELSE cronExecution[i]]
  BY DEF Close
<1>2. \A i \in DOMAIN cronExecution : cronExecution[i] \in Row
  BY ElementOfSeq, LenProperties DEF FeedTypeOK
<1>3. cronExecution' \in Seq(Row)
  BY <1>1, <1>2, RowTypes, Replaced DEF FeedTypeOK
<1>4. FeedTables' /\ FeedSocket' /\ FeedShown'
  BY <1>3, FeedParts DEF Close, FeedTables, FeedSocket, FeedShown, shown, socket
<1>5. FeedCounts'
  BY FeedParts DEF Close, FeedCounts, Changed, shown
<1>6. FeedLoads'
  BY LoadsKeep, Grows DEF Close
<1> QED
  BY <1>4, <1>5, <1>6, FeedParts

LEMMA RemoveTypes ==
  ASSUME FeedTypeOK, NEW j \in Jobs, RemoveJob(j)
  PROVE  FeedTypeOK'
<1>1. cronExecution' \in Seq(Row)
  BY Selected DEF RemoveJob, FeedTypeOK
<1>2. FeedTables' /\ FeedSocket' /\ FeedShown'
  BY <1>1, FeedParts DEF RemoveJob, FeedTables, FeedSocket, FeedShown, shown, socket
<1>3. FeedCounts'
  BY FeedParts DEF RemoveJob, FeedCounts, Changed, Unnoticed, shown
<1>4. FeedLoads'
  BY LoadsKeep, Grows DEF RemoveJob
<1> QED
  BY <1>2, <1>3, <1>4, FeedParts

\* SetJob and NewDay change no row of CronExecution.
LEMMA ChangeTypes ==
  ASSUME FeedTypeOK, (\E j \in Jobs, state \in {"active", "inactive"} : SetJob(j, state)) \/ NewDay
  PROVE  FeedTypeOK'
<1>1. FeedTables' /\ FeedSocket' /\ FeedShown'
  BY FeedParts DEF SetJob, NewDay, FeedTables, FeedSocket, FeedShown, shown, socket
<1>2. FeedCounts'
  BY FeedParts DEF SetJob, NewDay, FeedCounts, Changed, shown
<1>3. FeedLoads'
  BY LoadsKeep, Grows DEF SetJob, NewDay
<1> QED
  BY <1>1, <1>2, <1>3, FeedParts

LEMMA RunTypes ==
  ASSUME FeedTypeOK, NEW e \in Executions, Start(e) \/ Announce(e) \/ Abandon(e) \/ Forget(e)
  PROVE  FeedTypeOK'
<1>1. FeedTables' /\ FeedShown'
  BY FeedParts DEF Start, Announce, Abandon, Forget, FeedTables, FeedShown, shown
<1>2. inbox' \in Seq(Names) /\ connected' \in BOOLEAN
  BY FeedParts, Emitted DEF Start, Announce, Abandon, Forget, FeedSocket, socket, Names
<1>3. FeedCounts'
  <2>1. drops \in Nat /\ (drops' = drops \/ drops' = drops + 1)
    BY FeedParts DEF Start, Announce, Abandon, Forget, Drop, FeedCounts
  <2>2. version \in Nat /\ (version' = version \/ version' = version + 1)
    BY FeedParts DEF Start, Announce, Abandon, Forget, Changed, FeedCounts
  <2>3. unheard' \in {unheard, version}
    BY DEF Start, Announce, Abandon, Forget
  <2>4. UNCHANGED <<timers, loaded, newest>>
    BY DEF Start, Announce, Abandon, Forget, shown
  <2> QED
    BY <2>1, <2>2, <2>3, <2>4, FeedParts DEF FeedCounts
<1>4. FeedLoads'
  <2>1. loads' = loads /\ (version' = version \/ Changed)
    BY DEF Start, Announce, Abandon, Forget
  <2>2. version \in Nat
    BY FeedParts DEF FeedCounts
  <2> QED
    BY <2>1, <2>2, LoadsKeep, Grows
<1> QED
  BY <1>1, <1>2, <1>3, <1>4, FeedParts DEF FeedSocket

LEMMA ConnectionTypes ==
  ASSUME FeedTypeOK, Connect \/ Disconnect
  PROVE  FeedTypeOK'
<1>1. FeedTables' /\ FeedShown'
  BY FeedParts DEF Connect, Disconnect, FeedTables, FeedShown, shown, server
<1>2. FeedSocket'
  <2>1. inbox \in Seq(Names) /\ <<>> \in Seq(Names)
    BY FeedParts, EmptySeq DEF FeedSocket
  <2> QED
    BY <2>1 DEF Connect, Disconnect, FeedSocket
<1>3. FeedCounts'
  BY FeedParts DEF Connect, Disconnect, Drop, FeedCounts, shown, server
<1>4. FeedLoads'
  BY FeedParts DEF Connect, Disconnect, server, FeedLoads, LoadType
<1> QED
  BY <1>1, <1>2, <1>3, <1>4, FeedParts

LEMMA FetchTypes ==
  ASSUME FeedTypeOK, NEW l \in Loads, FindLogs(l) \/ CleanHtml(l) \/ ShowList(l) \/ ShowFailure(l)
  PROVE  FeedTypeOK'
<1>a. version' = version /\ version \in Nat /\ loads \in [Loads -> LoadType]
  BY FeedParts DEF FindLogs, CleanHtml, ShowList, ShowFailure, server, FeedCounts, FeedLoads
<1>b. version' \in Nat /\ version' >= version
  BY <1>a
<1>c. NoLoad \in LoadType /\ Rejected \in LoadType
  BY LoadTypes
<1>d. \A x \in LoadType : loads' = [loads EXCEPT ![l] = x] => FeedLoads'
  BY <1>b, LoadsKeep
<1>1. CASE FindLogs(l)
  <2>1. Answer(cronExecution) \in LoadType
    BY <1>a, LoadTypes, FeedParts DEF Answer, FeedTables
  <2>2. FeedLoads'
    BY <1>1, <1>d, <2>1 DEF FindLogs
  <2>3. FeedTables' /\ FeedSocket' /\ FeedShown'
    BY <1>1, FeedParts DEF FindLogs, server, socket, shown, FeedTables, FeedSocket, FeedShown
  <2>4. FeedCounts'
    BY <1>1, FeedParts DEF FindLogs, server, shown, FeedCounts
  <2> QED
    BY <2>2, <2>3, <2>4, FeedParts
<1>2. CASE CleanHtml(l)
  <2>1. PICK i \in Html(loads[l].rows) :
          LET here == At(cronExecution, loads[l].rows[i].id)
          IN  /\ loads' = [loads EXCEPT ![l] = IF here = {} THEN Rejected
                                               ELSE CleanedAt(@, i)]
              /\ cronExecution' = [k \in DOMAIN cronExecution |->
                   IF k \in here THEN Cleaned(cronExecution[k]) ELSE cronExecution[k]]
    BY <1>2 DEF CleanHtml
  <2>2. /\ loads[l] = [pc |-> "answer", rows |-> loads[l].rows, version |-> loads[l].version]
        /\ loads[l].rows \in Seq(Row) /\ loads[l].version \in 0 .. version
    BY <1>2, LoadTypes DEF CleanHtml, Answering
  <2> DEFINE rows == [loads[l].rows EXCEPT ![i] = Cleaned(loads[l].rows[i])]
  <2>3. i \in 1 .. Len(loads[l].rows)
    BY <2>2, LenProperties DEF Html
  <2>4. rows \in Seq(Row)
    BY <2>2, <2>3, ExceptSeq, ElementOfSeq, RowTypes
  <2>5. CleanedAt(loads[l], i) = [pc |-> "answer", rows |-> rows, version |-> loads[l].version]
    BY <2>2 DEF CleanedAt
  <2>6. [pc |-> "answer", rows |-> rows, version |-> loads[l].version] \in LoadType
    BY <2>2, <2>4, LoadTypes
  <2>7. FeedLoads'
    <3>1. \E x \in LoadType : loads' = [loads EXCEPT ![l] = x]
      <4>1. CASE At(cronExecution, loads[l].rows[i].id) = {}
        BY <1>c, <2>1, <4>1
      <4>2. CASE At(cronExecution, loads[l].rows[i].id) # {}
        <5>1. loads' = [loads EXCEPT ![l] = CleanedAt(loads[l], i)]
          BY <2>1, <4>2
        <5> QED
          BY <2>5, <2>6, <5>1
      <4> QED
        BY <4>1, <4>2
    <3> QED
      BY <1>d, <3>1
  <2>8. cronExecution' \in Seq(Row)
    <3>1. \A k \in DOMAIN cronExecution : cronExecution[k] \in Row
      BY ElementOfSeq, LenProperties, FeedParts DEF FeedTables
    <3> QED
      BY <2>1, <3>1, RowTypes, Replaced, FeedParts DEF FeedTables
  <2>9. FeedTables' /\ FeedSocket' /\ FeedShown'
    BY <1>2, <2>8, FeedParts DEF CleanHtml, socket, shown, FeedTables, FeedSocket, FeedShown
  <2>10. FeedCounts'
    BY <1>2, FeedParts DEF CleanHtml, shown, FeedCounts
  <2> QED
    BY <2>7, <2>9, <2>10, FeedParts
<1>3. CASE ShowList(l)
  <2>1. /\ loads[l].rows \in Seq(Row) /\ loads[l].version \in 0 .. version
    BY <1>3, LoadTypes DEF ShowList, Answering
  <2>2. FeedLoads'
    BY <1>3, <1>c, <1>d DEF ShowList
  <2>3. FeedTables' /\ FeedSocket' /\ FeedShown'
    BY <1>3, <2>1, FeedParts DEF ShowList, server, socket, FeedTables, FeedSocket, FeedShown
  <2>4. FeedCounts'
    BY <1>3, <2>1, FeedParts DEF ShowList, server, FeedCounts, Later
  <2> QED
    BY <2>2, <2>3, <2>4, FeedParts
<1>4. CASE ShowFailure(l)
  <2>1. FeedLoads'
    BY <1>4, <1>c, <1>d DEF ShowFailure
  <2>2. /\ UNCHANGED <<page, server, socket, timers, loaded, newest>> /\ unheard' = version
        /\ list' = <<>> /\ notice' = "Failed to load"
    BY <1>4 DEF ShowFailure
  <2>3. list' \in Seq(Row)
    BY <2>2, EmptySeq
  <2>4. FeedTables' /\ FeedSocket' /\ FeedShown'
    BY <2>2, <2>3, FeedParts DEF server, socket, FeedTables, FeedSocket, FeedShown
  <2>5. drops' \in Nat
    <3>1. drops' = drops \/ drops' = drops + 1
      BY <1>4 DEF ShowFailure, Drop
    <3> QED
      BY <3>1, FeedParts DEF FeedCounts
  <2>6. FeedCounts'
    <3>1. UNCHANGED <<timers, version, loaded, newest>> /\ unheard' = version
      BY <2>2 DEF server
    <3> QED
      BY <2>5, <3>1, FeedParts DEF FeedCounts
  <2> QED
    BY <2>1, <2>4, <2>6, FeedParts
<1> QED
  BY <1>1, <1>2, <1>3, <1>4

\* The handlers of the pages take events, send fetches and lose answers of their own.
TakesEvent == inbox # <<>> /\ inbox' = Tail(inbox)
Fetches == \E l \in Loads : Fetch(l)

LEMMA HandlerTypes ==
  ASSUME FeedTypeOK, UNCHANGED <<server, connected, shown, unheard>>,
         inbox' = inbox \/ TakesEvent, loads' = loads \/ Fetches,
         timers' = timers \/ timers' = timers + 1 \/ (timers > 0 /\ timers' = timers - 1),
         drops' = drops \/ Drop
  PROVE  FeedTypeOK'
<1>1. FeedTables' /\ FeedShown'
  BY FeedParts DEF FeedTables, FeedShown, server, shown
<1>2. FeedSocket'
  <2>1. inbox' \in Seq(Names)
    BY FeedParts, Taken DEF FeedSocket, TakesEvent
  <2> QED
    BY <2>1, FeedParts DEF FeedSocket
<1>3. FeedCounts'
  <2>1. timers' \in Nat
    BY FeedParts DEF FeedCounts
  <2>2. drops' \in Nat
    <3>1. drops' = drops \/ drops' = drops + 1
      BY DEF Drop
    <3> QED
      BY <3>1, FeedParts DEF FeedCounts
  <2>3. UNCHANGED <<version, unheard, loaded, newest>>
    BY DEF server, shown
  <2> QED
    BY <2>1, <2>2, <2>3, FeedParts DEF FeedCounts
<1>4. FeedLoads'
  <2>1. version' = version /\ version \in Nat
    BY FeedParts DEF server, FeedCounts
  <2>2. version' \in Nat /\ version' >= version
    BY <2>1
  <2>3. loads' = loads \/ \E l \in Loads : loads' = [loads EXCEPT ![l] = Sent]
    BY DEF Fetches, Fetch
  <2>4. Sent \in LoadType
    BY LoadTypes
  <2> QED
    BY <2>2, <2>3, <2>4, LoadsKeep
<1> QED
  BY <1>1, <1>2, <1>3, <1>4, FeedParts

\* What a step makes of the feed: the server changes it, a fetch moves, or the page handles
\* an event, a timer or a fetch of its own.
ServerMoves ==
  \/ \E e \in Executions : \/ Start(e) \/ Announce(e) \/ Abandon(e) \/ Forget(e)
                           \/ \E j \in Jobs : Open(e, j)
                           \/ \E status \in {"SUCCESS", "FAILED"} : Close(e, status)
  \/ \E j \in Jobs : RemoveJob(j) \/ \E state \in {"active", "inactive"} : SetJob(j, state)
  \/ NewDay \/ Disconnect \/ Connect
FetchMoves == \E l \in Loads : FindLogs(l) \/ CleanHtml(l) \/ ShowList(l) \/ ShowFailure(l)
\* An event that is taken is followed by a timer or by a fetch if it makes the page load.
Heeds ==
  inbox' # inbox =>
    \/ timers' = timers + 1 \/ Fetches
    \/ page # "/logs" /\ Head(inbox) # "execution:completed"
PageMoves ==
  /\ UNCHANGED <<page, server, connected, shown, unheard>>
  /\ inbox' = inbox \/ TakesEvent
  /\ loads' = loads \/ Fetches
  /\ \/ timers' = timers \/ timers' = timers + 1
     \/ timers > 0 /\ timers' = timers - 1 /\ Fetches
  /\ drops' = drops \/ Drop
  /\ Heeds

LEMMA FeedTypesKeep ==
  ASSUME FeedTypeOK, ServerMoves \/ FetchMoves \/ PageMoves
  PROVE  FeedTypeOK'
<1>1. CASE ServerMoves
  BY <1>1, OpenTypes, CloseTypes, RemoveTypes, ChangeTypes, RunTypes, ConnectionTypes DEF ServerMoves
<1>2. CASE FetchMoves
  BY <1>2, FetchTypes DEF FetchMoves
<1>3. CASE PageMoves
  BY <1>3, HandlerTypes DEF PageMoves
<1> QED
  BY <1>1, <1>2, <1>3

LEMMA FeedMoves == [Next]_vars => ServerMoves \/ FetchMoves \/ PageMoves
<1> SUFFICES ASSUME [Next]_vars PROVE ServerMoves \/ FetchMoves \/ PageMoves
  OBVIOUS
<1> USE DEF FetchMoves, PageMoves, Heeds, TakesEvent, Fetches
<1>1. CASE page = "/" /\ DashboardServer
  BY <1>1 DEF DashboardServer, ServerMoves
<1>2. CASE page = "/" /\ DashboardNext
  <2>1. ASSUME NEW l \in Loads, NEW k \in Loads, DashboardReceive(l, k)
        PROVE  PageMoves
    BY <1>2, <2>1 DEF DashboardReceive
  <2>2. ASSUME NEW l \in Loads,
               DashboardTimerEnds(l) \/ ShowStats(l) \/ NoAnswer(l) \/ LoadDashboardData
        PROVE  PageMoves
    BY <2>2 DEF DashboardTimerEnds, ShowStats, NoAnswer, LoadDashboardData, socket
  <2>3. CASE LoadDashboardData
    BY <2>3 DEF LoadDashboardData, socket
  <2> QED
    BY <1>2, <2>1, <2>2, <2>3 DEF DashboardNext
<1>3. CASE page = "/logs" /\ LogsServer
  BY <1>3 DEF LogsServer, ServerMoves
<1>4. CASE page = "/logs" /\ LogsNext
  <2>1. CASE LogsReceive
    BY <2>1 DEF LogsReceive
  <2>2. ASSUME NEW l \in Loads, LogsTimerEnds(l) PROVE PageMoves
    BY <2>2 DEF LogsTimerEnds, socket
  <2>3. ASSUME NEW l \in Loads, LogsRender(l) PROVE FetchMoves
    BY <2>3 DEF LogsRender
  <2>4. ASSUME NEW i, ShowResponseModal(i) \/ CloseResponseModal \/ CopyResponseBody
        PROVE  PageMoves
    BY <2>4 DEF ShowResponseModal, CloseResponseModal, CopyResponseBody, socket
  <2>5. CASE CloseResponseModal \/ CopyResponseBody
    BY <2>5 DEF CloseResponseModal, CopyResponseBody, socket
  <2> QED
    BY <1>4, <2>1, <2>2, <2>3, <2>4, <2>5 DEF LogsNext
<1>5. CASE UNCHANGED feedVars
  BY <1>5 DEF feedVars, socket
<1> QED
  BY <1>1, <1>2, <1>3, <1>4, <1>5 DEF Next, vars

-----------------------------------------------------------------------------
(* The list (ExecutionFeed).                                               *)

\* A load from which something newer than version v will be shown, or an error.
LoadDue(l, v) == loads[l] \in {Sent, Rejected} \/ (Answering(l) /\ loads[l].version > v)

\* A list of version v will not stay, or is known not to be current.
ListDue(v) ==
  \/ unheard > v \/ timers > 0 \/ announcements # {} \/ newest > v
  \/ \E name \in Reloads : Hears(name)
  \/ \E l \in Loads : LoadDue(l, v)

\* Rows of version v are those of the table, or they are old and it will be noticed.
FreshList(rows, v) == Listing(rows) = Listing(cronExecution) \/ (v < version /\ ListDue(v))

\* The rows, of version v, that load l will show, and those that are shown.
WillShow(l, rows, v) == loads[l] = [pc |-> "answer", rows |-> rows, version |-> v]
Shows(rows, v) == notice = "none" /\ list = rows /\ loaded = v /\ newest = v

ListInv ==
  /\ \A rows \in Seq(Row), v \in Nat :
       Shows(rows, v) \/ (\E l \in Loads : WillShow(l, rows, v)) => FreshList(rows, v)
  /\ Html(list) = {}

\* What a step may not undo, and that it does not change the rows in silence.
DueStays == \A v \in Nat : v < version /\ ListDue(v) => ListDue(v)'
RowsNoticed ==
  \/ Listing(cronExecution)' = Listing(cronExecution)
  \/ version' > version /\ \A v \in Nat : v <= version => ListDue(v)'

LEMMA FreshKept ==
  ASSUME FeedTypeOK, version' \in Nat, version' >= version, DueStays, RowsNoticed,
         NEW rows, NEW v \in 0 .. version, FreshList(rows, v)
  PROVE  FreshList(rows, v)'
<1>1. version \in Nat /\ v \in Nat /\ v <= version
  BY FeedParts DEF FeedCounts
<1>2. CASE v < version /\ ListDue(v)
  BY <1>1, <1>2 DEF DueStays, FreshList
<1>3. CASE Listing(rows) = Listing(cronExecution) /\ Listing(cronExecution)' = Listing(cronExecution)
  BY <1>3 DEF FreshList
<1>4. CASE version' > version /\ \A u \in Nat : u <= version => ListDue(u)'
  BY <1>1, <1>4 DEF FreshList
<1> QED
  BY <1>2, <1>3, <1>4 DEF RowsNoticed, FreshList

LEMMA Reloading ==
  /\ Reloads \subseteq Names /\ "execution:completed" \in Reloads
  /\ page # "/logs" => \A name \in Reloads : name = "execution:completed"
  /\ page' = page => Reloads' = Reloads
  BY DEF Reloads, Names

LEMMA ReloadDueIsDue ==
  ASSUME ReloadDue
  PROVE  timers > 0 \/ (\E l \in Loads : loads[l] = Sent) \/ \E name \in Reloads : Hears(name)
  BY DEF ReloadDue, Hears

\* A step that leaves the fetches and the timers alone.
LEMMA DueKept ==
  ASSUME FeedTypeOK, UNCHANGED <<page, timers, loads, newest>>,
         unheard' \in Nat, \/ unheard' >= unheard
                           \/ unheard' >= version,
         \/ announcements = {} \/ announcements' # {}
         \/ Hears("execution:completed")' \/ unheard' >= version,
         \A name \in Names : Hears(name) => Hears(name)' \/ unheard' >= version
  PROVE  DueStays
<1> SUFFICES ASSUME NEW v \in Nat, v < version, ListDue(v) PROVE ListDue(v)'
  BY DEF DueStays
<1>1. version \in Nat /\ unheard \in Nat
  BY FeedParts DEF FeedCounts
<1>2. CASE unheard' >= version
  BY <1>1, <1>2 DEF ListDue
<1>3. ASSUME unheard > v, unheard' >= unheard PROVE ListDue(v)'
  BY <1>1, <1>3 DEF ListDue
<1>4. CASE timers > 0 \/ newest > v
  BY <1>4 DEF ListDue
<1>5. ASSUME NEW l \in Loads, LoadDue(l, v) PROVE ListDue(v)'
  <2>1. LoadDue(l, v)'
    BY <1>5 DEF LoadDue, Answering, Sent, Rejected
  <2> QED
    BY <2>1 DEF ListDue
<1>6. ASSUME NEW name \in Reloads, Hears(name), ~(unheard' >= version) PROVE ListDue(v)'
  BY <1>6, Reloading DEF ListDue
<1>7. ASSUME announcements # {}, ~(unheard' >= version) PROVE ListDue(v)'
  BY <1>7, Reloading DEF ListDue
<1> QED
  BY <1>2, <1>3, <1>4, <1>5, <1>6, <1>7 DEF ListDue

\* A change of the rows that the page hears nothing of.
LEMMA UnnoticedSteady ==
  ASSUME FeedTypeOK, Changed, unheard' = Unnoticed,
         UNCHANGED <<page, announcements, inbox, timers, loads, newest>>
  PROVE  DueStays /\ RowsNoticed
<1>1. version \in Nat /\ unheard \in Nat /\ unheard <= version
  BY FeedParts DEF FeedCounts
<1>2. unheard' \in Nat /\ unheard' >= unheard
  BY <1>1 DEF Unnoticed
<1>3. DueStays
  BY <1>2, DueKept DEF Hears
<1>4. ASSUME NEW v \in Nat, v <= version PROVE ListDue(v)'
  <2>1. CASE ReloadDue
    <3>1. CASE timers > 0
      BY <3>1 DEF ListDue
    <3>2. ASSUME NEW l \in Loads, loads[l] = Sent PROVE ListDue(v)'
      <4>1. LoadDue(l, v)'
        BY <3>2 DEF LoadDue, Sent
      <4> QED
        BY <4>1 DEF ListDue
    <3>3. ASSUME NEW name \in Reloads, Hears(name) PROVE ListDue(v)'
      BY <3>3, Reloading DEF ListDue, Hears
    <3> QED
      BY <2>1, <3>1, <3>2, <3>3, ReloadDueIsDue
  <2>2. CASE ~ReloadDue
    BY <1>1, <1>4, <2>2 DEF Unnoticed, ListDue
  <2> QED
    BY <2>1, <2>2
<1> QED
  BY <1>1, <1>3, <1>4 DEF RowsNoticed, Changed

LEMMA ServerSteady ==
  ASSUME FeedTypeOK, ServerMoves
  PROVE  DueStays /\ RowsNoticed
<1>a. version \in Nat /\ unheard \in Nat /\ inbox \in Seq(Names)
  BY FeedParts DEF FeedCounts, FeedSocket
<1>1. ASSUME NEW e \in Executions, Start(e) PROVE DueStays /\ RowsNoticed
  <2>1. /\ UNCHANGED <<page, cronExecution, announcements, timers, loads, newest, unheard>>
        /\ Emit("execution:started")
    BY <1>1 DEF Start, shown
  <2>2. \A n : Hears(n) => Hears(n)'
    BY <1>a, <2>1, Emitted DEF Names
  <2> QED
    BY <1>a, <2>1, <2>2, DueKept DEF RowsNoticed
<1>2. ASSUME NEW e \in Executions, Announce(e) PROVE DueStays /\ RowsNoticed
  <2>1. /\ UNCHANGED <<page, cronExecution, timers, loads, newest>>
        /\ Emit("execution:completed") /\ unheard' = IF connected THEN unheard ELSE version
    BY <1>2 DEF Announce, shown
  <2>2. \A n : Hears(n) => Hears(n)'
    BY <1>a, <2>1, Emitted DEF Names
  <2>3. connected => Hears("execution:completed")'
    BY <1>a, <2>1, Emitted DEF Names
  <2> QED
    BY <1>a, <2>1, <2>2, <2>3, DueKept DEF RowsNoticed
<1>3. ASSUME NEW e \in Executions, Abandon(e) PROVE DueStays /\ RowsNoticed
  <2>1. /\ UNCHANGED <<page, cronExecution, inbox, timers, loads, newest, unheard>>
        /\ announcements' # {}
    BY <1>3 DEF Abandon, shown, socket
  <2> QED
    BY <1>a, <2>1, DueKept DEF RowsNoticed, Hears
<1>4. ASSUME NEW e \in Executions, Forget(e) PROVE DueStays /\ RowsNoticed
  <2>1. UNCHANGED <<page, cronExecution, timers, loads, newest>> /\ unheard' = version
    BY <1>4 DEF Forget, shown, socket
  <2> QED
    BY <1>a, <2>1, DueKept DEF RowsNoticed
<1>5. ASSUME NEW e \in Executions, NEW j \in Jobs, Open(e, j) PROVE DueStays /\ RowsNoticed
  <2>1. /\ Changed /\ unheard' = Unnoticed
        /\ UNCHANGED <<page, announcements, inbox, timers, loads, newest>>
    BY <1>5 DEF Open, shown, socket
  <2> QED
    BY <2>1, UnnoticedSteady
<1>6. ASSUME NEW e \in Executions, NEW status \in {"SUCCESS", "FAILED"}, Close(e, status)
      PROVE  DueStays /\ RowsNoticed
  <2>1. /\ UNCHANGED <<page, inbox, timers, loads, newest, unheard>>
        /\ announcements' # {} /\ Changed
    BY <1>6 DEF Close, shown, socket
  <2>2. RowsNoticed
    BY <1>a, <2>1 DEF RowsNoticed, ListDue, Changed
  <2> QED
    BY <1>a, <2>1, <2>2, DueKept DEF Hears
<1>7. ASSUME NEW j \in Jobs, RemoveJob(j) PROVE DueStays /\ RowsNoticed
  <2>1. /\ Changed /\ unheard' = Unnoticed
        /\ UNCHANGED <<page, announcements, inbox, timers, loads, newest>>
    BY <1>7 DEF RemoveJob, shown, socket
  <2> QED
    BY <2>1, UnnoticedSteady
<1>8. ASSUME (\E j \in Jobs, state \in {"active", "inactive"} : SetJob(j, state)) \/ NewDay \/ Connect
      PROVE  DueStays /\ RowsNoticed
  <2>1. UNCHANGED <<page, cronExecution, announcements, inbox, timers, loads, newest, unheard>>
    BY <1>8 DEF SetJob, NewDay, Connect, shown, socket, server
  <2> QED
    BY <1>a, <2>1, DueKept DEF RowsNoticed, Hears
<1>9. CASE Disconnect
  <2>1. /\ UNCHANGED <<page, cronExecution, announcements, timers, loads, newest>>
        /\ unheard' = IF inbox = <<>> THEN unheard ELSE version
    BY <1>9 DEF Disconnect, shown, server
  <2>2. inbox = <<>> => \A n : ~Hears(n)
    BY DEF Hears
  <2> QED
    BY <1>a, <2>1, <2>2, DueKept DEF RowsNoticed
<1> QED
  BY <1>1, <1>2, <1>3, <1>4, <1>5, <1>6, <1>7, <1>8, <1>9 DEF ServerMoves

\* A handler that takes an event of Reloads starts a timer or a fetch in its place.
LEMMA PageSteady ==
  ASSUME FeedTypeOK, PageMoves
  PROVE  DueStays /\ RowsNoticed
<1>1. UNCHANGED <<page, cronExecution, announcements, unheard, newest>>
  BY DEF PageMoves, server, shown
<1>2. timers \in Nat /\ inbox \in Seq(Names)
  BY FeedParts DEF FeedCounts, FeedSocket
<1>3. Fetches => \A v \in Nat : ListDue(v)'
  <2>1. loads \in [Loads -> LoadType]
    BY FeedParts DEF FeedLoads
  <2>2. ASSUME NEW l \in Loads, Fetch(l), NEW v \in Nat PROVE ListDue(v)'
    <3>1. LoadDue(l, v)'
      BY <2>1, <2>2 DEF Fetch, LoadDue
    <3> QED
      BY <3>1 DEF ListDue
  <2> QED
    BY <2>2 DEF Fetches
<1>4. ASSUME NEW v \in Nat, v < version, ListDue(v) PROVE ListDue(v)'
  <2>1. CASE Fetches
    BY <1>3, <2>1
  <2>2. CASE timers' = timers + 1
    BY <1>2, <2>2 DEF ListDue
  <2>3. CASE ~Fetches /\ timers' # timers + 1
    <3>1. loads' = loads /\ timers' = timers
      BY <2>3 DEF PageMoves
    <3>2. \A name \in Reloads : Hears(name) => Hears(name)'
      <4>1. CASE inbox' = inbox
        BY <4>1 DEF Hears
      <4>2. CASE inbox' # inbox
        <5>1. TakesEvent /\ page # "/logs" /\ Head(inbox) # "execution:completed"
          BY <2>3, <4>2 DEF PageMoves, Heeds
        <5>2. \A name \in Reloads : name # Head(inbox)
          BY <5>1, Reloading
        <5> QED
          BY <1>2, <5>1, <5>2, Taken DEF TakesEvent
      <4> QED
        BY <4>1, <4>2
    <3>3. \A l \in Loads : LoadDue(l, v) => LoadDue(l, v)'
      BY <3>1 DEF LoadDue, Answering, Sent, Rejected
    <3> QED
      BY <1>1, <1>4, <3>1, <3>2, <3>3, Reloading DEF ListDue
  <2> QED
    BY <2>1, <2>2, <2>3
<1> QED
  BY <1>1, <1>4 DEF DueStays, RowsNoticed

LEMMA ListKeep ==
  ASSUME FeedTypeOK, ListInv, DueStays, RowsNoticed, version' \in Nat, version' >= version,
         UNCHANGED <<list, notice, loaded, newest>>, loads' = loads \/ Fetches
  PROVE  ListInv'
<1>1. ASSUME NEW rows \in Seq(Row), NEW v \in Nat, NEW l \in Loads, WillShow(l, rows, v)'
      PROVE  FreshList(rows, v)'
  <2>1. loads \in [Loads -> LoadType]
    BY FeedParts DEF FeedLoads
  <2>2. WillShow(l, rows, v)
    BY <1>1, <2>1 DEF Fetches, Fetch, WillShow, Sent
  <2>3. v \in 0 .. version
    BY <2>2, LoadTypes DEF WillShow, Answering
  <2> QED
    BY <2>2, <2>3, FreshKept DEF ListInv
<1>2. ASSUME NEW rows \in Seq(Row), NEW v \in Nat, Shows(rows, v)' PROVE FreshList(rows, v)'
  <2>1. Shows(rows, v) /\ v \in 0 .. version
    BY <1>2, FeedParts DEF Shows, FeedCounts
  <2> QED
    BY <2>1, FreshKept DEF ListInv
<1>3. Html(list)' = {}
  BY DEF ListInv, Html
<1> QED
  BY <1>1, <1>2, <1>3 DEF ListInv

\* A fetch that has moved, and the others.
LEMMA OthersFresh ==
  ASSUME FeedTypeOK, ListInv, DueStays, RowsNoticed, version' = version,
         NEW k \in Loads, NEW x, loads' = [loads EXCEPT ![k] = x]
  PROVE  \A rows \in Seq(Row), v \in Nat, l \in Loads :
           WillShow(l, rows, v)' /\ l # k => FreshList(rows, v)'
<1> SUFFICES ASSUME NEW rows \in Seq(Row), NEW v \in Nat, NEW l \in Loads,
                    WillShow(l, rows, v)', l # k
             PROVE  FreshList(rows, v)'
  OBVIOUS
<1>1. loads \in [Loads -> LoadType] /\ version \in Nat
  BY FeedParts DEF FeedLoads, FeedCounts
<1>2. WillShow(l, rows, v)
  BY <1>1 DEF WillShow
<1>3. v \in 0 .. version /\ version' \in Nat /\ version' >= version
  BY <1>1, <1>2, LoadTypes DEF WillShow, Answering
<1> QED
  BY <1>2, <1>3, FreshKept DEF ListInv

LEMMA MovedDue ==
  ASSUME FeedTypeOK, UNCHANGED <<page, announcements, inbox, timers, unheard>>,
         newest' \in Nat, newest' >= newest, NEW k \in Loads, NEW x, loads' = [loads EXCEPT ![k] = x],
         \A v \in Nat : v < version /\ LoadDue(k, v) => LoadDue(k, v)' \/ newest' > v
  PROVE  DueStays
<1> SUFFICES ASSUME NEW v \in Nat, v < version, ListDue(v) PROVE ListDue(v)'
  BY DEF DueStays
<1>1. loads \in [Loads -> LoadType] /\ newest \in Nat
  BY FeedParts DEF FeedLoads, FeedCounts
<1>2. \A l \in Loads : l # k /\ LoadDue(l, v) => LoadDue(l, v)'
  BY <1>1 DEF LoadDue, Answering, Sent, Rejected
<1>3. \A name \in Reloads : Hears(name) => name \in Reloads' /\ Hears(name)'
  BY Reloading DEF Hears
<1>4. newest > v => newest' > v
  BY <1>1
<1> QED
  BY <1>2, <1>3, <1>4 DEF ListDue

\* What the page shows of one row.
ListedRow(r) == IF r.body = "html" THEN Cleaned(r) ELSE r

LEMMA ListedRows ==
  /\ \A rows : Listing(rows) = [i \in DOMAIN rows |-> ListedRow(rows[i])]
  /\ \A r \in Row : r.body # "json" => ListedRow(Cleaned(r)) = ListedRow(r)
<1>1. \A rows : Listing(rows) = [i \in DOMAIN rows |-> ListedRow(rows[i])]
  BY DEF Listing, ListedRow, Html
<1>2. ASSUME NEW r \in Row, r.body # "json" PROVE ListedRow(Cleaned(r)) = ListedRow(r)
  <2>1. CASE r.body = "html"
    BY <2>1, RowTypes DEF ListedRow
  <2>2. CASE r.body = "none"
    <3>1. Cleaned(r) = r
      BY <2>2 DEF Cleaned, Row
    <3> QED
      BY <3>1
  <2> QED
    BY <1>2, <2>1, <2>2 DEF Row
<1> QED
  BY <1>1, <1>2

\* A row that may have an HTML body is closed and was not closed with a body of its own ...
Old(e) == phase[e] = "ended" /\ \A i \in At(cronExecution, e) : cronExecution[i].body # "json"

\* ... so that removing the body changes nothing that is listed.
HtmlInv ==
  /\ \A i \in Html(cronExecution) : Old(cronExecution[i].id)
  /\ \A rows \in Seq(Row), v \in Nat, l \in Loads :
       WillShow(l, rows, v) => \A i \in Html(rows) : Old(rows[i].id)

LEMMA RowsInTable ==
  ASSUME FeedTypeOK
  PROVE  /\ \A i \in DOMAIN cronExecution : cronExecution[i] \in Row
         /\ DOMAIN cronExecution = 1 .. Len(cronExecution) /\ Len(cronExecution) \in Nat
  BY FeedParts, LenProperties, ElementOfSeq DEF FeedTables

LEMMA OldStays ==
  ASSUME FeedTypeOK, ServerMoves \/ FetchMoves \/ PageMoves, NEW e \in Executions, Old(e)
  PROVE  Old(e)'
<1> USE DEF Old, At
<1>1. CASE UNCHANGED <<cronExecution, phase>>
  BY <1>1
<1>2. ASSUME NEW o \in Executions, Start(o) \/ Abandon(o)
      PROVE  Old(e)'
  <2>1. /\ cronExecution' = cronExecution /\ phase[o] # "ended"
        /\ phase' = [phase EXCEPT ![o] = "started"] \/ phase' = [phase EXCEPT ![o] = "ended"]
    BY <1>2 DEF Start, Abandon
  <2> QED
    BY <2>1, FeedParts DEF FeedTables
<1>3. ASSUME NEW o \in Executions, NEW j \in Jobs, Open(o, j) PROVE Old(e)'
  <2>1. /\ cronExecution' = <<Opened(o, j)>> \o cronExecution /\ phase[o] # "ended"
        /\ phase' = [phase EXCEPT ![o] = "open"]
    BY <1>3 DEF Open
  <2>2. phase'[e] = "ended" /\ e # o
    BY <2>1, FeedParts DEF FeedTables
  <2>3. \A i \in DOMAIN cronExecution' :
          \/ cronExecution'[i] = Opened(o, j)
          \/ i - 1 \in DOMAIN cronExecution /\ cronExecution'[i] = cronExecution[i - 1]
    BY <2>1, RowsInTable
  <2>4. Opened(o, j).id = o
    BY DEF Opened
  <2> QED
    BY <2>2, <2>3, <2>4
<1>4. ASSUME NEW o \in Executions, NEW status \in {"SUCCESS", "FAILED"}, Close(o, status)
      PROVE  Old(e)'
  <2>1. PICK body \in {"json", "none"} :
          cronExecution' = [i \in DOMAIN cronExecution |->
            IF cronExecution[i].id = o THEN Closed(cronExecution[i], status, body)
                                       ELSE cronExecution[i]]
    BY <1>4 DEF Close
  <2>2. phase[o] # "ended" /\ phase' = [phase EXCEPT ![o] = "ended"]
    BY <1>4 DEF Close
  <2>3. phase'[e] = "ended" /\ e # o
    BY <2>2, FeedParts DEF FeedTables
  <2>4. \A i \in DOMAIN cronExecution' :
          /\ i \in DOMAIN cronExecution
          /\ cronExecution'[i].id = e => cronExecution'[i] = cronExecution[i]
    BY <2>1, <2>3, RowsInTable, RowTypes
  <2> QED
    BY <2>3, <2>4
<1>5. ASSUME NEW j \in Jobs, RemoveJob(j) PROVE Old(e)'
  <2> DEFINE S == {i \in DOMAIN cronExecution : cronExecution[i].job # j}
  <2>1. PICK order \in Orders(S) : cronExecution' = [k \in DOMAIN order |-> cronExecution[order[k]]]
    BY <1>5 DEF RemoveJob
  <2>2. order \in [1 .. Cardinality(S) -> S] /\ phase' = phase
    BY <1>5 DEF RemoveJob, Orders
  <2>3. \A i \in DOMAIN cronExecution' :
          order[i] \in DOMAIN cronExecution /\ cronExecution'[i] = cronExecution[order[i]]
    BY <2>1, <2>2
  <2> QED
    BY <2>2, <2>3
<1>6. ASSUME NEW k \in Loads, CleanHtml(k) PROVE Old(e)'
  <2>1. /\ phase' = phase /\ DOMAIN cronExecution' = DOMAIN cronExecution
        /\ \A i \in DOMAIN cronExecution :
             cronExecution'[i] = cronExecution[i] \/ cronExecution'[i] = Cleaned(cronExecution[i])
    BY <1>6 DEF CleanHtml
  <2> QED
    BY <2>1, RowsInTable, RowTypes
<1>7. CASE ServerMoves
  <2>1. ASSUME NEW o \in Executions, Announce(o) \/ Forget(o) PROVE Old(e)'
    BY <1>1, <2>1 DEF Announce, Forget
  <2>2. ASSUME NEW j \in Jobs, NEW state, SetJob(j, state) PROVE Old(e)'
    BY <1>1, <2>2 DEF SetJob
  <2>3. CASE NewDay \/ Disconnect \/ Connect
    BY <1>1, <2>3 DEF NewDay, Disconnect, Connect, server
  <2> QED
    BY <1>2, <1>3, <1>4, <1>5, <1>7, <2>1, <2>2, <2>3 DEF ServerMoves
<1>8. CASE FetchMoves
  <2>1. ASSUME NEW k \in Loads, FindLogs(k) \/ ShowList(k) \/ ShowFailure(k) PROVE Old(e)'
    BY <1>1, <2>1 DEF FindLogs, ShowList, ShowFailure, server
  <2> QED
    BY <1>6, <1>8, <2>1 DEF FetchMoves
<1>9. CASE PageMoves
  BY <1>1, <1>9 DEF PageMoves, server
<1> QED
  BY <1>7, <1>8, <1>9

\* HTML bodies are in old rows from the start: no step writes one.
LEMMA HtmlComes ==
  ASSUME FeedTypeOK, ServerMoves \/ FetchMoves \/ PageMoves
  PROVE  \A i \in Html(cronExecution') :
           \E m \in Html(cronExecution) : cronExecution'[i].id = cronExecution[m].id
<1> USE DEF Html
<1>1. CASE UNCHANGED cronExecution
  BY <1>1
<1>2. ASSUME NEW o \in Executions, NEW j \in Jobs, Open(o, j), NEW i \in Html(cronExecution')
      PROVE  \E m \in Html(cronExecution) : cronExecution'[i].id = cronExecution[m].id
  <2>1. cronExecution' = <<Opened(o, j)>> \o cronExecution
    BY <1>2 DEF Open
  <2>2. \/ cronExecution'[i] = Opened(o, j)
        \/ i - 1 \in DOMAIN cronExecution /\ cronExecution'[i] = cronExecution[i - 1]
    BY <1>2, <2>1, RowsInTable
  <2>3. Opened(o, j).body = "none" /\ cronExecution'[i].body = "html"
    BY <1>2 DEF Opened
  <2> QED
    BY <2>2, <2>3
<1>3. ASSUME NEW o \in Executions, NEW status \in {"SUCCESS", "FAILED"}, Close(o, status),
             NEW i \in Html(cronExecution')
      PROVE  \E m \in Html(cronExecution) : cronExecution'[i].id = cronExecution[m].id
  <2>1. PICK body \in {"json", "none"} :
          cronExecution' = [m \in DOMAIN cronExecution |->
            IF cronExecution[m].id = o THEN Closed(cronExecution[m], status, body)
                                       ELSE cronExecution[m]]
    BY <1>3 DEF Close
  <2>2. \A r \in Row : Closed(r, status, body).body = body
    BY DEF Row, Closed
  <2>3. i \in DOMAIN cronExecution /\ cronExecution'[i] = cronExecution[i]
    BY <1>3, <2>1, <2>2, RowsInTable
  <2> QED
    BY <1>3, <2>3
<1>4. ASSUME NEW j \in Jobs, RemoveJob(j), NEW i \in Html(cronExecution')
      PROVE  \E m \in Html(cronExecution) : cronExecution'[i].id = cronExecution[m].id
  <2> DEFINE S == {m \in DOMAIN cronExecution : cronExecution[m].job # j}
  <2>1. PICK order \in Orders(S) : cronExecution' = [k \in DOMAIN order |-> cronExecution[order[k]]]
    BY <1>4 DEF RemoveJob
  <2>2. order \in [1 .. Cardinality(S) -> S]
    BY DEF Orders
  <2>3. order[i] \in DOMAIN cronExecution /\ cronExecution'[i] = cronExecution[order[i]]
    BY <1>4, <2>1, <2>2
  <2> QED
    BY <1>4, <2>3
<1>5. ASSUME NEW k \in Loads, CleanHtml(k), NEW i \in Html(cronExecution')
      PROVE  \E m \in Html(cronExecution) : cronExecution'[i].id = cronExecution[m].id
  <2>1. /\ DOMAIN cronExecution' = DOMAIN cronExecution
        /\ \A m \in DOMAIN cronExecution :
             cronExecution'[m] = cronExecution[m] \/ cronExecution'[m] = Cleaned(cronExecution[m])
    BY <1>5 DEF CleanHtml
  <2>2. i \in DOMAIN cronExecution /\ cronExecution'[i] = cronExecution[i]
    BY <1>5, <2>1, RowsInTable, RowTypes
  <2> QED
    BY <1>5, <2>2
<1>6. CASE ServerMoves
  <2>1. ASSUME NEW o \in Executions, Start(o) \/ Announce(o) \/ Abandon(o) \/ Forget(o)
        PROVE  UNCHANGED cronExecution
    BY <2>1 DEF Start, Announce, Abandon, Forget
  <2>2. ASSUME NEW j \in Jobs, NEW state, SetJob(j, state) PROVE UNCHANGED cronExecution
    BY <2>2 DEF SetJob
  <2>3. NewDay \/ Disconnect \/ Connect => UNCHANGED cronExecution
    BY DEF NewDay, Disconnect, Connect, server
  <2> QED
    BY <1>1, <1>2, <1>3, <1>4, <1>6, <2>1, <2>2, <2>3 DEF ServerMoves
<1>7. CASE FetchMoves
  <2>1. ASSUME NEW k \in Loads, FindLogs(k) \/ ShowList(k) \/ ShowFailure(k)
        PROVE  UNCHANGED cronExecution
    BY <2>1 DEF FindLogs, ShowList, ShowFailure, server
  <2> QED
    BY <1>1, <1>5, <1>7, <2>1 DEF FetchMoves
<1>8. CASE PageMoves
  BY <1>1, <1>8 DEF PageMoves, server
<1> QED
  BY <1>6, <1>7, <1>8

\* What a load will show after a step: what it would have shown before, the table, or the
\* former without the body of one row.
LEMMA LoadComes ==
  ASSUME FeedTypeOK, ServerMoves \/ FetchMoves \/ PageMoves,
         NEW rows \in Seq(Row), NEW v \in Nat, NEW l \in Loads, WillShow(l, rows, v)'
  PROVE  \/ WillShow(l, rows, v)
         \/ rows = cronExecution
         \/ \E old \in Seq(Row) : /\ WillShow(l, old, v)
                                  /\ \A i \in Html(rows) : i \in Html(old) /\ rows[i].id = old[i].id
<1>0. loads \in [Loads -> LoadType]
  BY FeedParts DEF FeedLoads
<1>1. CASE loads' = loads
  BY <1>1 DEF WillShow
<1>2. CASE Fetches
  BY <1>0, <1>2 DEF Fetches, Fetch, WillShow, Sent
<1>3. ASSUME NEW k \in Loads, FindLogs(k)
      PROVE  WillShow(l, rows, v) \/ rows = cronExecution
  BY <1>0, <1>3 DEF FindLogs, WillShow, Answer
<1>4. ASSUME NEW k \in Loads, ShowList(k) \/ ShowFailure(k) PROVE WillShow(l, rows, v)
  <2>1. loads' = [loads EXCEPT ![k] = NoLoad]
    BY <1>4 DEF ShowList, ShowFailure
  <2> QED
    BY <1>0, <2>1 DEF WillShow, NoLoad
<1>5. ASSUME NEW k \in Loads, CleanHtml(k), ~WillShow(l, rows, v)
      PROVE  \E old \in Seq(Row) : /\ WillShow(l, old, v)
                                   /\ \A i \in Html(rows) : i \in Html(old) /\ rows[i].id = old[i].id
  <2>1. PICK i \in Html(loads[k].rows) :
          \/ loads' = [loads EXCEPT ![k] = Rejected]
          \/ loads' = [loads EXCEPT ![k] = CleanedAt(loads[k], i)]
    <3>1. PICK i \in Html(loads[k].rows) :
            loads' = [loads EXCEPT ![k] = IF At(cronExecution, loads[k].rows[i].id) = {}
                                          THEN Rejected ELSE CleanedAt(@, i)]
      BY <1>5 DEF CleanHtml
    <3>2. CASE At(cronExecution, loads[k].rows[i].id) = {}
      BY <3>1, <3>2
    <3>3. CASE At(cronExecution, loads[k].rows[i].id) # {}
      BY <3>1, <3>3
    <3> QED
      BY <3>2, <3>3
  <2>2. k = l /\ loads'[l] # Rejected
    BY <1>0, <1>5, <2>1 DEF WillShow, Rejected
  <2>3. loads'[l] = CleanedAt(loads[l], i)
    BY <1>0, <2>1, <2>2
  <2>4. Answering(l)
    BY <1>5, <2>2 DEF CleanHtml, Answering
  <2>5. PICK old \in Seq(Row), u \in Nat : WillShow(l, old, u)
    <3>1. /\ loads[l] = [pc |-> "answer", rows |-> loads[l].rows, version |-> loads[l].version]
          /\ loads[l].rows \in Seq(Row) /\ loads[l].version \in 0 .. version
      BY <2>4, LoadTypes
    <3> QED
      BY <3>1 DEF WillShow
  <2>6. u = v /\ rows = [old EXCEPT ![i] = Cleaned(old[i])]
    BY <2>3, <2>5 DEF CleanedAt, WillShow
  <2>7. DOMAIN old = 1 .. Len(old) /\ \A m \in DOMAIN old : old[m] \in Row
    BY LenProperties, ElementOfSeq
  <2>8. \A m \in Html(rows) : m \in Html(old) /\ rows[m].id = old[m].id
    BY <2>6, <2>7, RowTypes DEF Html
  <2> QED
    BY <2>5, <2>6, <2>8
<1>6. ServerMoves => loads' = loads
  BY DEF ServerMoves, Start, Announce, Abandon, Forget, Open, Close, RemoveJob, SetJob, NewDay,
         Disconnect, Connect
<1> QED
  BY <1>1, <1>2, <1>3, <1>4, <1>5, <1>6 DEF FetchMoves, PageMoves

LEMMA HtmlKept ==
  ASSUME FeedTypeOK, HtmlInv, ServerMoves \/ FetchMoves \/ PageMoves
  PROVE  HtmlInv'
<1>1. ASSUME NEW i \in Html(cronExecution)' PROVE Old(cronExecution[i].id)'
  <2>1. PICK m \in Html(cronExecution) : cronExecution'[i].id = cronExecution[m].id
    BY HtmlComes DEF Html
  <2>2. PICK e : e = cronExecution[m].id
    OBVIOUS
  <2>3. e \in Executions /\ Old(e)
    BY <2>2, RowsInTable DEF HtmlInv, Html, Row
  <2> QED
    <3>1. Old(e)' /\ e = cronExecution'[i].id
      BY <2>1, <2>2, <2>3, OldStays
    <3> QED
      BY <3>1 DEF Old
<1>2. ASSUME NEW rows \in Seq(Row), NEW v \in Nat, NEW l \in Loads, WillShow(l, rows, v)',
             NEW i \in Html(rows)
      PROVE  Old(rows[i].id)'
  <2>0. i \in DOMAIN rows /\ rows[i] \in Row
    BY <1>2, LenProperties, ElementOfSeq DEF Html
  <2>1. rows[i].id \in Executions
    BY <2>0 DEF Row
  <2>2. Old(rows[i].id)
    BY <1>2, LoadComes DEF HtmlInv
  <2> QED
    BY <2>1, <2>2, OldStays
<1> QED
  BY <1>1, <1>2 DEF HtmlInv

LEMMA FetchKeeps ==
  ASSUME FeedTypeOK, HtmlInv, ListInv, NEW k \in Loads,
         FindLogs(k) \/ CleanHtml(k) \/ ShowList(k) \/ ShowFailure(k)
  PROVE  DueStays /\ RowsNoticed /\ ListInv'
<1>a. /\ version \in Nat /\ newest \in Nat /\ newest <= version
      /\ loads \in [Loads -> LoadType] /\ cronExecution \in Seq(Row)
  BY FeedParts DEF FeedCounts, FeedLoads, FeedTables
<1>b. /\ version' = version /\ version' \in Nat /\ version' >= version
      /\ UNCHANGED <<page, announcements, inbox, timers>>
  <2>1. UNCHANGED <<version, page, announcements, inbox, timers>>
    BY DEF FindLogs, CleanHtml, ShowList, ShowFailure, server, socket
  <2> QED
    BY <1>a, <2>1
\* If what is shown, and the fetches but this one, are left as they are.
<1>c. ASSUME UNCHANGED <<list, notice, loaded, newest>>, DueStays, RowsNoticed,
             NEW x, loads' = [loads EXCEPT ![k] = x],
             \A rows \in Seq(Row), v \in Nat : WillShow(k, rows, v)' => FreshList(rows, v)'
      PROVE  ListInv'
  <2>1. ASSUME NEW rows \in Seq(Row), NEW v \in Nat, Shows(rows, v)' PROVE FreshList(rows, v)'
    <3>1. Shows(rows, v) /\ v \in 0 .. version
      BY <1>c, <2>1, FeedParts DEF Shows, FeedCounts
    <3> QED
      BY <1>b, <1>c, <3>1, FreshKept DEF ListInv
  <2>2. ASSUME NEW rows \in Seq(Row), NEW v \in Nat, NEW l \in Loads, WillShow(l, rows, v)'
        PROVE  FreshList(rows, v)'
    <3>1. CASE l = k
      BY <1>c, <2>2, <3>1
    <3>2. CASE l # k
      BY <1>b, <1>c, <2>2, <3>2, OthersFresh
    <3> QED
      BY <3>1, <3>2
  <2>3. Html(list)' = {}
    BY <1>c DEF ListInv, Html
  <2> QED
    BY <2>1, <2>2, <2>3 DEF ListInv
<1>1. CASE FindLogs(k)
  <2>1. /\ loads[k] = Sent /\ loads' = [loads EXCEPT ![k] = Answer(cronExecution)]
        /\ UNCHANGED <<unheard, newest, cronExecution, list, notice, loaded>>
    BY <1>1 DEF FindLogs, server, shown
  <2>2. \A v \in Nat : v < version => LoadDue(k, v)'
    BY <1>a, <2>1 DEF LoadDue, Answering, Answer
  <2>3. DueStays
    <3>1. newest' \in Nat /\ newest' >= newest
      BY <1>a, <2>1
    <3> QED
      BY <1>b, <2>1, <2>2, <3>1, MovedDue
  <2>4. RowsNoticed
    BY <2>1 DEF RowsNoticed
  <2>5. ASSUME NEW rows \in Seq(Row), NEW v \in Nat, WillShow(k, rows, v)'
        PROVE  FreshList(rows, v)'
    <3>1. rows = cronExecution
      BY <1>a, <2>1, <2>5 DEF WillShow, Answer
    <3> QED
      BY <2>1, <3>1 DEF FreshList
  <2> QED
    BY <1>c, <2>1, <2>3, <2>4, <2>5
<1>2. CASE CleanHtml(k)
  <2>1. UNCHANGED <<unheard, newest, list, notice, loaded>>
    BY <1>2 DEF CleanHtml, shown
  <2>2. PICK i \in Html(loads[k].rows) :
          LET here == At(cronExecution, loads[k].rows[i].id)
          IN  /\ loads' = [loads EXCEPT ![k] = IF here = {} THEN Rejected ELSE CleanedAt(@, i)]
              /\ cronExecution' = [m \in DOMAIN cronExecution |->
                   IF m \in here THEN Cleaned(cronExecution[m]) ELSE cronExecution[m]]
    BY <1>2 DEF CleanHtml
  <2>3. PICK rows \in Seq(Row), v \in Nat : WillShow(k, rows, v) /\ v <= version
    <3>1. Answering(k)
      BY <1>2 DEF CleanHtml, Answering
    <3>2. /\ loads[k] = [pc |-> "answer", rows |-> loads[k].rows, version |-> loads[k].version]
          /\ loads[k].rows \in Seq(Row) /\ loads[k].version \in 0 .. version
      BY <3>1, LoadTypes
    <3> QED
      BY <1>a, <3>2 DEF WillShow
  <2> DEFINE cleaned == [rows EXCEPT ![i] = Cleaned(rows[i])]
  <2>4. loads[k].rows = rows /\ DOMAIN rows = 1 .. Len(rows) /\ \A m \in DOMAIN rows : rows[m] \in Row
    BY <2>3, LenProperties, ElementOfSeq DEF WillShow
  <2>5. i \in DOMAIN rows /\ rows[i].body = "html" /\ Old(rows[i].id)
    BY <2>2, <2>3, <2>4 DEF Html, HtmlInv
  <2>6. \A m \in At(cronExecution, rows[i].id) : cronExecution[m].body # "json"
    BY <2>5 DEF Old
  <2>7. \/ loads' = [loads EXCEPT ![k] = Rejected]
        \/ loads' = [loads EXCEPT ![k] = CleanedAt(loads[k], i)]
    <3>1. CASE At(cronExecution, loads[k].rows[i].id) = {}
      BY <2>2, <3>1
    <3>2. CASE At(cronExecution, loads[k].rows[i].id) # {}
      BY <2>2, <3>2
    <3> QED
      BY <3>1, <3>2
  <2>8. CleanedAt(loads[k], i) = [pc |-> "answer", rows |-> cleaned, version |-> v]
    BY <2>3 DEF CleanedAt, WillShow
  <2>9. Listing(cronExecution') = Listing(cronExecution)
    <3>1. /\ DOMAIN cronExecution' = DOMAIN cronExecution
          /\ \A m \in DOMAIN cronExecution :
               ListedRow(cronExecution'[m]) = ListedRow(cronExecution[m])
      BY <2>2, <2>4, <2>6, ListedRows, RowsInTable
    <3> QED
      BY <3>1, ListedRows
  <2>10. Listing(cleaned) = Listing(rows)
    <3>1. DOMAIN cleaned = DOMAIN rows /\ \A m \in DOMAIN rows : ListedRow(cleaned[m]) = ListedRow(rows[m])
      BY <2>4, <2>5, ListedRows
    <3> QED
      BY <3>1, ListedRows
  <2>11. RowsNoticed
    BY <2>9 DEF RowsNoticed, Listing, Html
  <2>12. \A u \in Nat : u < version /\ LoadDue(k, u) => LoadDue(k, u)'
    <3>1. CASE loads' = [loads EXCEPT ![k] = Rejected]
      BY <1>a, <3>1 DEF LoadDue
    <3>2. CASE loads' = [loads EXCEPT ![k] = [pc |-> "answer", rows |-> cleaned, version |-> v]]
      <4>1. /\ loads'[k].pc = "answer" /\ loads'[k].version = v /\ loads[k].version = v
            /\ loads[k].pc = "answer"
        BY <1>a, <2>3, <3>2 DEF WillShow
      <4> QED
        BY <4>1 DEF LoadDue, Answering, Sent, Rejected
    <3> QED
      BY <2>7, <2>8, <3>1, <3>2
  <2>13. DueStays
    BY <1>a, <1>b, <2>1, <2>7, <2>12, MovedDue
  <2>14. ASSUME NEW now \in Seq(Row), NEW u \in Nat, WillShow(k, now, u)' PROVE FreshList(now, u)'
    <3>1. now = cleaned /\ u = v
      BY <1>a, <2>7, <2>8, <2>14 DEF WillShow, Rejected
    <3>2. FreshList(rows, v)'
      BY <1>a, <1>b, <2>3, <2>11, <2>13, FreshKept DEF ListInv
    <3> QED
      BY <2>10, <3>1, <3>2 DEF FreshList
  <2> QED
    BY <1>c, <2>1, <2>7, <2>11, <2>13, <2>14
<1>3. CASE ShowList(k)
  <2>1. PICK rows \in Seq(Row), v \in Nat : WillShow(k, rows, v) /\ v <= version
    <3>1. Answering(k)
      BY <1>3 DEF ShowList, Answering
    <3>2. /\ loads[k] = [pc |-> "answer", rows |-> loads[k].rows, version |-> loads[k].version]
          /\ loads[k].rows \in Seq(Row) /\ loads[k].version \in 0 .. version
      BY <3>1, LoadTypes
    <3> QED
      BY <1>a, <3>2 DEF WillShow
  <2>2. /\ list' = rows /\ loaded' = v /\ Html(rows) = {} /\ newest' = Later(newest, v)
        /\ loads' = [loads EXCEPT ![k] = NoLoad] /\ UNCHANGED <<unheard, cronExecution>>
    BY <1>3, <2>1 DEF ShowList, WillShow, server
  <2>3. newest' \in Nat /\ newest' >= newest /\ newest' >= v
    BY <1>a, <2>2 DEF Later
  <2>4. RowsNoticed
    BY <2>2 DEF RowsNoticed
  <2>5. \A u \in Nat : LoadDue(k, u) => newest' > u
    BY <2>1, <2>3 DEF LoadDue, WillShow, Sent, Rejected
  <2>6. DueStays
    BY <1>b, <2>2, <2>3, <2>5, MovedDue
  <2>7. ASSUME NEW now \in Seq(Row), NEW u \in Nat, Shows(now, u)' PROVE FreshList(now, u)'
    <3>1. now = rows /\ u = v
      BY <2>2, <2>7 DEF Shows
    <3> QED
      BY <1>a, <1>b, <2>1, <2>4, <2>6, <3>1, FreshKept DEF ListInv
  <2>8. ASSUME NEW now \in Seq(Row), NEW u \in Nat, NEW l \in Loads, WillShow(l, now, u)'
        PROVE  FreshList(now, u)'
    <3>1. l # k
      BY <1>a, <2>2, <2>8 DEF WillShow, NoLoad
    <3> QED
      BY <1>b, <2>2, <2>4, <2>6, <2>8, <3>1, OthersFresh
  <2>9. Html(list)' = {}
    BY <2>2 DEF Html
  <2> QED
    BY <2>4, <2>6, <2>7, <2>8, <2>9 DEF ListInv
<1>4. CASE ShowFailure(k)
  <2>1. /\ list' = <<>> /\ notice' # "none" /\ unheard' = version
        /\ loads' = [loads EXCEPT ![k] = NoLoad] /\ UNCHANGED cronExecution
    BY <1>4 DEF ShowFailure, server
  <2>2. DueStays
    BY <1>a, <2>1 DEF DueStays, ListDue
  <2>3. RowsNoticed
    BY <2>1 DEF RowsNoticed
  <2>4. ASSUME NEW now \in Seq(Row), NEW u \in Nat, NEW l \in Loads, WillShow(l, now, u)'
        PROVE  FreshList(now, u)'
    <3>1. l # k
      BY <1>a, <2>1, <2>4 DEF WillShow, NoLoad
    <3> QED
      BY <1>b, <2>1, <2>2, <2>3, <2>4, <3>1, OthersFresh
  <2>5. Html(list)' = {}
    BY <2>1 DEF Html
  <2> QED
    BY <2>1, <2>2, <2>3, <2>4, <2>5 DEF ListInv, Shows
<1> QED
  BY <1>1, <1>2, <1>3, <1>4

FeedInv == FeedTypeOK /\ HtmlInv /\ ListInv

LEMMA FeedStart == Init => FeedInv
<1> SUFFICES ASSUME Init PROVE FeedInv
  OBVIOUS
<1>0. FeedInit
  BY DEF Init
<1>1. \/ cronExecution = <<>>
      \/ \E e \in Executions, j \in Jobs, b \in {"json", "html"} :
           cronExecution = <<[id |-> e, job |-> j, status |-> "SUCCESS", body |-> b]>>
  BY <1>0 DEF FeedInit
<1>2. cronExecution \in Seq(Row)
  <2>1. ASSUME NEW e \in Executions, NEW j \in Jobs, NEW b \in {"json", "html"}
        PROVE  <<[id |-> e, job |-> j, status |-> "SUCCESS", body |-> b]>> \in Seq(Row)
    <3>1. [id |-> e, job |-> j, status |-> "SUCCESS", body |-> b] \in Row
      BY DEF Row
    <3> QED
      BY <3>1
  <2> QED
    BY <1>1, <2>1, EmptySeq
<1>3. FeedTables
  BY <1>0, <1>2 DEF FeedInit, FeedTables
<1>4. FeedSocket /\ FeedShown
  BY <1>0, EmptySeq DEF FeedInit, FeedSocket, FeedShown
<1>5. /\ timers \in Nat
      /\ loads \in [Loads -> {NoLoad, Sent}]
  BY DEF Init, LogsOpened, DashboardOpened
<1>6. FeedCounts
  BY <1>0, <1>5 DEF FeedInit, FeedCounts
<1>7. FeedLoads
  BY <1>5 DEF FeedLoads, LoadType
<1>8. \A i \in Html(cronExecution) : Old(cronExecution[i].id)
  <2>1. CASE cronExecution = <<>>
    BY <2>1 DEF Html
  <2>2. ASSUME NEW e \in Executions, NEW j \in Jobs, NEW b \in {"json", "html"},
               cronExecution = <<[id |-> e, job |-> j, status |-> "SUCCESS", body |-> b]>>,
               NEW i \in Html(cronExecution)
        PROVE  Old(cronExecution[i].id)
    <3>1. DOMAIN cronExecution = {1} /\ cronExecution[1].id = e /\ cronExecution[1].body = b
      BY <2>2
    <3>2. i = 1 /\ b = "html"
      BY <2>2, <3>1 DEF Html
    <3>3. phase[e] = "ended"
      BY <1>0, <3>1 DEF FeedInit, At
    <3> QED
      BY <3>1, <3>2, <3>3 DEF Old, At
  <2> QED
    BY <1>1, <2>1, <2>2
<1>9. \A rows, v, l : l \in Loads => ~WillShow(l, rows, v)
  BY <1>5 DEF WillShow, NoLoad, Sent
<1>10. HtmlInv
  BY <1>8, <1>9 DEF HtmlInv
<1>11. ListInv
  BY <1>0, <1>9 DEF FeedInit, ListInv, Shows, Html
<1> QED
  BY <1>3, <1>4, <1>6, <1>7, <1>10, <1>11, FeedParts DEF FeedInv

LEMMA FeedStep == FeedInv /\ [Next]_vars => FeedInv'
<1> SUFFICES ASSUME FeedInv, [Next]_vars PROVE FeedInv'
  OBVIOUS
<1> USE DEF FeedInv
<1>1. ServerMoves \/ FetchMoves \/ PageMoves
  BY FeedMoves
<1>2. FeedTypeOK'
  BY <1>1, FeedTypesKeep
<1>3. HtmlInv'
  BY <1>1, HtmlKept
<1>4. CASE FetchMoves
  BY <1>2, <1>3, <1>4, FetchKeeps DEF FetchMoves
<1>5. CASE ServerMoves
  <2>1. UNCHANGED <<list, notice, loaded, newest, loads>>
    BY <1>5 DEF ServerMoves, Start, Announce, Abandon, Forget, Open, Close, RemoveJob, SetJob,
                NewDay, Disconnect, Connect, shown
  <2>2. version' = version \/ Changed
    BY <1>5 DEF ServerMoves, Start, Announce, Abandon, Forget, Open, Close, RemoveJob, SetJob,
                NewDay, Disconnect, Connect, server
  <2>3. version' \in Nat /\ version' >= version
    BY <2>2, Grows, FeedParts DEF FeedCounts
  <2> QED
    BY <1>2, <1>3, <1>5, <2>1, <2>3, ServerSteady, ListKeep
<1>6. CASE PageMoves
  <2>1. /\ UNCHANGED <<list, notice, loaded, newest, version>>
        /\ loads' = loads \/ Fetches
    BY <1>6 DEF PageMoves, shown, server
  <2>2. version' \in Nat /\ version' >= version
    BY <2>1, FeedParts DEF FeedCounts
  <2> QED
    BY <1>2, <1>3, <1>6, <2>1, <2>2, PageSteady, ListKeep
<1> QED
  BY <1>1, <1>4, <1>5, <1>6

LEMMA ListFollows == FeedInv => ListCurrent
<1> SUFFICES ASSUME FeedInv, ListSettled, notice = "none", unheard <= loaded, loaded = newest
             PROVE  list = Listing(cronExecution)
  BY DEF ListCurrent
<1>1. list \in Seq(Row) /\ loaded \in Nat /\ unheard \in Nat
  <2>1. FeedShown /\ FeedCounts
    BY FeedParts DEF FeedInv
  <2> QED
    BY <2>1 DEF FeedShown, FeedCounts
<1>2. FreshList(list, loaded)
  <2>1. PICK rows \in Seq(Row), v \in Nat : rows = list /\ v = loaded
    BY <1>1
  <2>2. FreshList(rows, v)
    BY <2>1 DEF FeedInv, ListInv, Shows
  <2> QED
    BY <2>1, <2>2
<1>3. ~ListDue(loaded)
  BY <1>1 DEF ListSettled, ListDue, Hears, LoadDue, Answering, NoLoad, Sent, Rejected
<1>4. Listing(list) = list
  <2>1. Html(list) = {} /\ list = [i \in DOMAIN list |-> list[i]]
    BY <1>1, LenProperties DEF FeedInv, ListInv
  <2> QED
    BY <2>1 DEF Listing
<1> QED
  BY <1>2, <1>3, <1>4 DEF FreshList

-----------------------------------------------------------------------------
(* The dialog (LogsPage).                                                  *)

\* As long as no list was rendered, the index points to the row of the dialog ...
Pointed == dialog # "closed" /\ ~rendered => logsData[current].id = dialog

\* ... and no row is shown that is not in the array.
Stored == page = "/logs" => Len(list) <= Len(logsData)

LogsInv == LogsTypeOK /\ Pointed /\ Stored

LEMMA LogsStart == Init => LogsInv
<1> SUFFICES ASSUME Init PROVE LogsInv
  OBVIOUS
<1>1. LogsInit /\ list = <<>>
  BY DEF Init, FeedInit
<1>2. LogsTypeOK
  <2>1. logsData \in Seq(Row) /\ Len(logsData) = 0
    BY <1>1, EmptySeq DEF LogsInit
  <2>2. current \in 0 .. Len(logsData) /\ clicks \in Nat
    BY <1>1, <2>1 DEF LogsInit
  <2> QED
    BY <1>1, <2>1, <2>2 DEF LogsInit, LogsTypeOK
<1> QED
  BY <1>1, <1>2 DEF LogsInv, LogsInit, Pointed, Stored

LEMMA LogsStep == FeedInv /\ FeedInv' /\ LogsInv /\ [Next]_vars => LogsInv'
<1> SUFFICES ASSUME FeedInv, FeedInv', LogsInv, [Next]_vars PROVE LogsInv'
  OBVIOUS
<1>1. list \in Seq(Row) /\ list' \in Seq(Row) /\ logsData \in Seq(Row)
  BY FeedParts DEF FeedInv, FeedShown, LogsInv, LogsTypeOK
<1>2. ASSUME UNCHANGED <<page, logsVars>>, page # "/logs" \/ UNCHANGED list \/ list' = <<>>
      PROVE  LogsInv'
  <2>1. LogsTypeOK' /\ Pointed'
    BY <1>2 DEF logsVars, LogsInv, LogsTypeOK, Pointed
  <2>2. Len(logsData) \in Nat /\ Len(<<>>) = 0
    BY <1>1, LenProperties
  <2>3. Stored'
    BY <1>2, <2>2 DEF logsVars, LogsInv, Stored
  <2> QED
    BY <2>1, <2>3 DEF LogsInv
<1>3. ASSUME NEW l \in Loads, LogsRender(l) PROVE LogsInv'
  <2>1. /\ logsData' = list' \o SubSeq(logsData, Len(list') + 1, Len(logsData)) /\ rendered' = TRUE
        /\ UNCHANGED <<dialog, element, current, clipboard, clicks>>
    BY <1>3 DEF LogsRender
  <2> DEFINE rest == SubSeq(logsData, Len(list') + 1, Len(logsData))
  <2>2. Len(list') \in Nat /\ Len(logsData) \in Nat
    BY <1>1, LenProperties
  <2>3. \A i \in Len(list') + 1 .. Len(logsData) : logsData[i] \in Row
    BY <1>1, <2>2, ElementOfSeq
  <2>4. rest \in Seq(Row) /\ Len(rest) >= 0 /\ Len(rest) >= Len(logsData) - Len(list')
    BY <2>2, <2>3, SubSeqProperties
  <2>5. logsData' \in Seq(Row) /\ Len(logsData') = Len(list') + Len(rest)
    BY <1>1, <2>1, <2>4, ConcatProperties
  <2>6. Len(rest) \in Nat
    BY <2>4, LenProperties
  <2>7. Len(logsData') >= Len(logsData) /\ Len(logsData') >= Len(list')
    BY <2>2, <2>4, <2>5, <2>6
  <2>8. current' \in 0 .. Len(logsData')
    BY <2>1, <2>2, <2>5, <2>6, <2>7 DEF LogsInv, LogsTypeOK
  <2>9. LogsTypeOK'
    BY <2>1, <2>5, <2>8 DEF LogsInv, LogsTypeOK
  <2> QED
    BY <2>1, <2>7, <2>9 DEF LogsInv, Pointed, Stored
<1>4. ASSUME NEW i, ShowResponseModal(i), page = "/logs" PROVE LogsInv'
  <2>1. /\ i \in DOMAIN list /\ dialog' = logsData[i].id /\ current' = i /\ rendered' = FALSE
        /\ clicks' = clicks + 1 /\ element' = (logsData[i].status # "FAILED")
        /\ UNCHANGED <<page, list, logsData, clipboard>>
    BY <1>4 DEF ShowResponseModal, Button, shown
  <2>2. i \in 1 .. Len(logsData)
    BY <1>1, <1>4, <2>1, LenProperties DEF LogsInv, Stored
  <2>3. logsData[i].id \in Executions
    <3>1. logsData[i] \in Row
      BY <1>1, <2>2, ElementOfSeq
    <3> QED
      BY <3>1 DEF Row
  <2>4. Len(logsData) \in Nat
    BY <1>1, LenProperties
  <2>5. /\ current' \in 0 .. Len(logsData') /\ clicks' \in Nat
        /\ dialog' # "closed" => current' > 0
    BY <2>1, <2>2, <2>4 DEF LogsInv, LogsTypeOK
  <2>6. element' \in BOOLEAN /\ rendered' \in BOOLEAN
    BY <2>1
  <2>7. LogsTypeOK'
    BY <2>1, <2>3, <2>5, <2>6 DEF LogsInv, LogsTypeOK
  <2>8. Pointed'
    BY <2>1 DEF Pointed
  <2>9. Stored'
    BY <2>1 DEF LogsInv, Stored
  <2> QED
    BY <2>7, <2>8, <2>9 DEF LogsInv
<1>5. CASE CloseResponseModal
  BY <1>5 DEF CloseResponseModal, shown, LogsInv, LogsTypeOK, Pointed, Stored
<1>6. CASE CopyResponseBody
  <2>1. /\ dialog # "closed" /\ clipboard' = logsData[current].id
        /\ UNCHANGED <<page, list, logsData, dialog, element, current, rendered, clicks>>
    BY <1>6 DEF CopyResponseBody, shown
  <2>2. current \in 1 .. Len(logsData)
    <3>1. Len(logsData) \in Nat
      BY <1>1, LenProperties
    <3> QED
      BY <2>1, <3>1 DEF LogsInv, LogsTypeOK
  <2>3. clipboard' \in Executions
    <3>1. logsData[current] \in Row
      BY <1>1, <2>2, ElementOfSeq
    <3> QED
      BY <2>1, <3>1 DEF Row
  <2> QED
    BY <2>1, <2>3 DEF LogsInv, LogsTypeOK, Pointed, Stored
<1>7. CASE page = "/" /\ UNCHANGED logsVars /\ (DashboardServer \/ DashboardNext)
  <2>1. page' = page
    BY <1>7, FeedMoves DEF DashboardServer, DashboardNext, Start, Abandon, Open, Close, Announce,
       Forget, RemoveJob, SetJob, NewDay, Disconnect, Connect, DashboardReceive,
       DashboardTimerEnds, ShowStats, NoAnswer, LoadDashboardData, FindLogs, CleanHtml, ShowList,
       ShowFailure
  <2> QED
    BY <1>2, <1>7, <2>1
<1>8. CASE page = "/logs" /\ LogsServer /\ UNCHANGED logsVars
  <2>1. UNCHANGED <<page, list>>
    BY <1>8 DEF LogsServer, Start, Abandon, Open, Close, Announce, Forget, RemoveJob, Disconnect,
       Connect, shown
  <2> QED
    BY <1>2, <1>8, <2>1
<1>9. CASE page = "/logs" /\ LogsNext
  <2>1. ASSUME NEW l \in Loads,
               \/ LogsTimerEnds(l)
               \/ (FindLogs(l) \/ CleanHtml(l) \/ ShowFailure(l)) /\ UNCHANGED logsVars
        PROVE  LogsInv'
    <3>1. UNCHANGED <<page, logsVars>> /\ (UNCHANGED list \/ list' = <<>>)
      BY <2>1 DEF LogsTimerEnds, FindLogs, CleanHtml, ShowFailure, shown
    <3> QED
      BY <1>2, <3>1
  <2>2. CASE LogsReceive
    <3>1. UNCHANGED <<page, list, logsVars>>
      BY <2>2 DEF LogsReceive, shown
    <3> QED
      BY <1>2, <3>1
  <2> QED
    BY <1>3, <1>4, <1>5, <1>6, <1>9, <2>1, <2>2 DEF LogsNext
<1>10. CASE UNCHANGED <<feedVars, logsVars>>
  BY <1>2, <1>10 DEF feedVars, shown
<1> QED
  BY <1>7, <1>8, <1>9, <1>10 DEF Next, vars

\* What is copied is what the dialog shows.
LEMMA CopyStep ==
  LogsInv /\ [Next]_vars => [clipboard' # clipboard /\ ~rendered => clipboard' = dialog]_<<clipboard, dialog>>
<1> SUFFICES ASSUME LogsInv, [Next]_vars, clipboard' # clipboard, ~rendered
             PROVE  clipboard' = dialog
  OBVIOUS
<1>1. CopyResponseBody
  BY DEF Next, vars, logsVars, LogsNext, LogsTimerEnds, LogsRender, LogsReceive,
     ShowResponseModal, CloseResponseModal
<1> QED
  BY <1>1 DEF CopyResponseBody, LogsInv, Pointed

-----------------------------------------------------------------------------
(* The counts (Dashboard).                                                 *)

\* What getStats counts.
Present == {j \in Jobs : cronJob[j] # "absent"}
Active == {j \in Jobs : cronJob[j] = "active"}
EndedToday(status) ==
  {i \in DOMAIN cronExecution : cronExecution[i].status = status /\ cronExecution[i].id \in today}

LEMMA CountsAre ==
  /\ Counts = [total |-> Cardinality(Present), active |-> Cardinality(Active),
               successToday |-> Cardinality(EndedToday("SUCCESS")),
               failedToday |-> Cardinality(EndedToday("FAILED"))]
  /\ Counts' = [total |-> Cardinality(Present'), active |-> Cardinality(Active'),
                successToday |-> Cardinality(EndedToday("SUCCESS")'),
                failedToday |-> Cardinality(EndedToday("FAILED")')]
  BY DEF Counts, Present, Active, EndedToday

LEMMA EndedTodayFinite ==
  ASSUME FeedTypeOK, NEW status
  PROVE  IsFiniteSet(EndedToday(status)) /\ Cardinality(EndedToday(status)) \in Nat
<1>1. IsFiniteSet(1 .. Len(cronExecution))
  BY RowsInTable, FS_Interval
<1>2. EndedToday(status) \subseteq 1 .. Len(cronExecution)
  BY RowsInTable DEF EndedToday
<1> QED
  BY <1>1, <1>2, FS_Subset, FS_CardinalityType

\* The counts are numbers because there are finitely many jobs.
LEMMA CountsType == FeedTypeOK => Counts \in Stats
<1> SUFFICES ASSUME FeedTypeOK PROVE Counts \in Stats
  OBVIOUS
<1>1. IsFiniteSet(Present) /\ IsFiniteSet(Active)
  BY JobsAssumption, FS_Subset DEF Present, Active
<1>2. Cardinality(Present) \in Nat /\ Cardinality(Active) \in Nat
  BY <1>1, FS_CardinalityType
<1> QED
  BY <1>2, CountsAre, EndedTodayFinite DEF Stats

LEMMA CountsTypeLater == FeedTypeOK' => (Counts \in Stats)'
  BY CountsType, PTL

\* Rows that are as they were, but for their bodies, count as they did.
LEMMA SameCounts ==
  ASSUME UNCHANGED <<cronJob, today>>, DOMAIN cronExecution' = DOMAIN cronExecution,
         \A i \in DOMAIN cronExecution :
           /\ cronExecution'[i].status = cronExecution[i].status
           /\ cronExecution'[i].id = cronExecution[i].id
  PROVE  Counts' = Counts
<1>1. Present' = Present /\ Active' = Active
  BY DEF Present, Active
<1>2. EndedToday("SUCCESS")' = EndedToday("SUCCESS") /\ EndedToday("FAILED")' = EndedToday("FAILED")
  BY DEF EndedToday
<1> QED
  BY <1>1, <1>2, CountsAre

\* An execution that has no row yet.
NoRowYet == \A e \in Executions : phase[e] \in {"new", "started"} => At(cronExecution, e) = {}

\* A row that is opened does not count: it is RUNNING, and was the first of its execution.
LEMMA OpenCounts ==
  ASSUME FeedTypeOK, NoRowYet, NEW e \in Executions, NEW j \in Jobs, Open(e, j),
         today' = today \union {e}
  PROVE  Counts' = Counts
<1>1. /\ cronExecution' = <<Opened(e, j)>> \o cronExecution /\ cronJob' = cronJob
      /\ At(cronExecution, e) = {}
  BY DEF Open, NoRowYet
<1>2. /\ DOMAIN cronExecution' = 1 .. Len(cronExecution) + 1
      /\ cronExecution'[1] = Opened(e, j)
      /\ \A i \in 1 .. Len(cronExecution) : cronExecution'[i + 1] = cronExecution[i]
  BY <1>1, RowsInTable
<1>3. Opened(e, j).status = "RUNNING"
  BY DEF Opened
<1>4. ASSUME NEW status \in {"SUCCESS", "FAILED"}
      PROVE  Cardinality(EndedToday(status)') = Cardinality(EndedToday(status))
  <2> DEFINE f == [i \in EndedToday(status) |-> i + 1]
  <2>1. EndedToday(status) \subseteq 1 .. Len(cronExecution)
    BY RowsInTable DEF EndedToday
  <2>2. \A i \in 1 .. Len(cronExecution) : i + 1 \in EndedToday(status)' <=> i \in EndedToday(status)
    BY <1>1, <1>2, RowsInTable DEF EndedToday, At
  <2>3. 1 \notin EndedToday(status)'
    BY <1>2, <1>3 DEF EndedToday
  <2>4. \A i \in EndedToday(status)' : i - 1 \in EndedToday(status)
    BY <1>2, <2>2, <2>3, RowsInTable DEF EndedToday
  <2>5. f \in [EndedToday(status) -> EndedToday(status)']
    BY <2>1, <2>2
  <2>6. \A a, b \in EndedToday(status) : f[a] = f[b] => a = b
    BY <2>1
  <2>7. \A t \in EndedToday(status)' : \E s \in EndedToday(status) : f[s] = t
    <3>1. \A t \in EndedToday(status)' : t \in Int
      BY <1>2 DEF EndedToday
    <3> QED
      BY <2>4, <3>1
  <2>8. f \in Bijection(EndedToday(status), EndedToday(status)')
    BY <2>5, <2>6, <2>7 DEF Bijection, Injection, Surjection, IsInjective
  <2> QED
    BY <2>8, EndedTodayFinite, FS_Bijection DEF ExistsBijection
<1>5. Present' = Present /\ Active' = Active
  BY <1>1 DEF Present, Active
<1> QED
  BY <1>4, <1>5, CountsAre

\* An execution that has none keeps having none until it is open.
LEMMA NoRowKept ==
  ASSUME FeedTypeOK, NoRowYet, ServerMoves \/ FetchMoves \/ PageMoves
  PROVE  NoRowYet'
<1> SUFFICES ASSUME NEW e \in Executions, phase'[e] \in {"new", "started"}
             PROVE  At(cronExecution', e) = {}
  BY DEF NoRowYet, At
<1>0. phase \in [Executions -> {"new", "started", "open", "ended"}]
  BY FeedParts DEF FeedTables
<1> USE DEF At
<1>1. CASE UNCHANGED <<cronExecution, phase>>
  BY <1>1 DEF NoRowYet
<1>2. ASSUME NEW o \in Executions, Start(o) \/ Abandon(o) PROVE At(cronExecution', e) = {}
  <2>1. /\ cronExecution' = cronExecution
        /\ \/ phase[o] = "new" /\ phase' = [phase EXCEPT ![o] = "started"]
           \/ phase' = [phase EXCEPT ![o] = "ended"]
    BY <1>2 DEF Start, Abandon
  <2>2. phase[e] \in {"new", "started"}
    BY <1>0, <2>1
  <2> QED
    BY <2>1, <2>2 DEF NoRowYet
<1>3. ASSUME NEW o \in Executions, NEW j \in Jobs, Open(o, j) PROVE At(cronExecution', e) = {}
  <2>1. /\ cronExecution' = <<Opened(o, j)>> \o cronExecution
        /\ phase' = [phase EXCEPT ![o] = "open"]
    BY <1>3 DEF Open
  <2>2. e # o /\ phase[e] \in {"new", "started"}
    BY <1>0, <2>1
  <2>3. \A i \in DOMAIN cronExecution' :
          \/ cronExecution'[i] = Opened(o, j)
          \/ i - 1 \in DOMAIN cronExecution /\ cronExecution'[i] = cronExecution[i - 1]
    BY <2>1, RowsInTable
  <2>4. Opened(o, j).id = o
    BY DEF Opened
  <2> QED
    BY <2>2, <2>3, <2>4 DEF NoRowYet
<1>4. ASSUME NEW o \in Executions, NEW status \in {"SUCCESS", "FAILED"}, Close(o, status)
      PROVE  At(cronExecution', e) = {}
  <2>1. PICK body \in {"json", "none"} :
          cronExecution' = [i \in DOMAIN cronExecution |->
            IF cronExecution[i].id = o THEN Closed(cronExecution[i], status, body)
                                       ELSE cronExecution[i]]
    BY <1>4 DEF Close
  <2>2. phase' = [phase EXCEPT ![o] = "ended"]
    BY <1>4 DEF Close
  <2>3. phase[e] \in {"new", "started"}
    BY <1>0, <2>2
  <2>4. \A i \in DOMAIN cronExecution' :
          i \in DOMAIN cronExecution /\ cronExecution'[i].id = cronExecution[i].id
    BY <2>1, RowsInTable, RowTypes
  <2> QED
    BY <2>3, <2>4 DEF NoRowYet
<1>5. ASSUME NEW j \in Jobs, RemoveJob(j) PROVE At(cronExecution', e) = {}
  <2> DEFINE S == {i \in DOMAIN cronExecution : cronExecution[i].job # j}
  <2>1. PICK order \in Orders(S) : cronExecution' = [k \in DOMAIN order |-> cronExecution[order[k]]]
    BY <1>5 DEF RemoveJob
  <2>2. order \in [1 .. Cardinality(S) -> S] /\ phase' = phase
    BY <1>5 DEF RemoveJob, Orders
  <2>3. \A i \in DOMAIN cronExecution' :
          order[i] \in DOMAIN cronExecution /\ cronExecution'[i] = cronExecution[order[i]]
    BY <2>1, <2>2
  <2> QED
    BY <2>2, <2>3 DEF NoRowYet
<1>6. ASSUME NEW k \in Loads, CleanHtml(k) PROVE At(cronExecution', e) = {}
  <2>1. /\ phase' = phase /\ DOMAIN cronExecution' = DOMAIN cronExecution
        /\ \A i \in DOMAIN cronExecution :
             cronExecution'[i] = cronExecution[i] \/ cronExecution'[i] = Cleaned(cronExecution[i])
    BY <1>6 DEF CleanHtml
  <2> QED
    BY <2>1, RowsInTable, RowTypes DEF NoRowYet
<1>7. CASE ServerMoves
  <2>1. ASSUME NEW o \in Executions, Announce(o) \/ Forget(o)
        PROVE  UNCHANGED <<cronExecution, phase>>
    BY <2>1 DEF Announce, Forget
  <2>2. ASSUME NEW j \in Jobs, NEW state, SetJob(j, state) PROVE UNCHANGED <<cronExecution, phase>>
    BY <2>2 DEF SetJob
  <2>3. NewDay \/ Disconnect \/ Connect => UNCHANGED <<cronExecution, phase>>
    BY DEF NewDay, Disconnect, Connect, server
  <2> QED
    BY <1>1, <1>2, <1>3, <1>4, <1>5, <1>7, <2>1, <2>2, <2>3 DEF ServerMoves
<1>8. CASE FetchMoves
  <2>1. ASSUME NEW k \in Loads, FindLogs(k) \/ ShowList(k) \/ ShowFailure(k)
        PROVE  UNCHANGED <<cronExecution, phase>>
    BY <2>1 DEF FindLogs, ShowList, ShowFailure, server
  <2> QED
    BY <1>1, <1>6, <1>8, <2>1 DEF FetchMoves
<1>9. CASE PageMoves
  BY <1>1, <1>9 DEF PageMoves, server
<1> QED
  BY <1>7, <1>8, <1>9

\* Counts of version v will not stay, or are known not to be current.
StatsDue(v) ==
  \/ statsUnheard > v \/ timers > 0 \/ inbox # <<>> \/ announcements # {} \/ statsNewest > v
  \/ \E l \in Loads : Asking(l) /\ asks[l].version > v

\* The counts seen for version v were those of the tables all along, or they are old and it
\* will be noticed.
FreshStats(seen, v) == seen = {Counts} \/ (v < version /\ StatsDue(v))

\* The counts seen so far for the answer to fetch l, and those that are shown.
Counting(l, seen, v) == Asking(l) /\ asks[l] = [seen |-> seen, version |-> v]
Displays(seen, v) == ~spoilt /\ seen = {stats} /\ statsLoaded = v /\ statsNewest = v

StatsFresh == \A seen \in SUBSET Stats, v \in Nat :
  Displays(seen, v) \/ (\E l \in Loads : Counting(l, seen, v)) => FreshStats(seen, v)

StatsInv == NoRowYet /\ IF page = "/" THEN StatsFresh ELSE spoilt

StatsDueStays == \A v \in Nat : v < version /\ StatsDue(v) => StatsDue(v)'
CountsNoticed ==
  Counts' = Counts \/ (version' > version /\ \A v \in Nat : v <= version => StatsDue(v)')

LEMMA StatsKept ==
  ASSUME version \in Nat, version' \in Nat, version' >= version, StatsDueStays, CountsNoticed,
         NEW seen, NEW v \in 0 .. version, FreshStats(seen, v)
  PROVE  FreshStats(seen, v)' /\ \A after : after = seen \union {Counts'} => FreshStats(after, v)'
<1>1. CASE v < version /\ StatsDue(v)
  BY <1>1 DEF StatsDueStays, FreshStats
<1>2. CASE version' > version /\ \A u \in Nat : u <= version => StatsDue(u)'
  BY <1>2 DEF FreshStats
<1>3. CASE seen = {Counts} /\ Counts' = Counts
  BY <1>3 DEF FreshStats
<1> QED
  BY <1>1, <1>2, <1>3 DEF FreshStats, CountsNoticed

\* DashboardTypeOK in parts.
StatsShown == today \subseteq Executions /\ zeros \in BOOLEAN /\ spoilt \in BOOLEAN /\ stats \in Stats
StatsAsked == asks \in [Loads -> [seen : SUBSET Stats, version : 0 .. version]]
StatsCounts == {statsUnheard, statsLoaded, statsNewest} \subseteq 0 .. version

LEMMA StatsParts ==
  /\ DashboardTypeOK <=> StatsShown /\ StatsAsked /\ StatsCounts
  /\ DashboardTypeOK' <=> StatsShown' /\ StatsAsked' /\ StatsCounts'
  BY DEF DashboardTypeOK, StatsShown, StatsAsked, StatsCounts

LEMMA VersionGrows ==
  ASSUME FeedTypeOK, ServerMoves \/ FetchMoves \/ PageMoves
  PROVE  version \in Nat /\ version' \in Nat /\ version' >= version
<1>1. version \in Nat
  BY FeedParts DEF FeedCounts
<1>2. version' = version \/ Changed
  BY DEF ServerMoves, FetchMoves, PageMoves, Start, Announce, Abandon, Forget, Open, Close,
         RemoveJob, SetJob, NewDay, Disconnect, Connect, FindLogs, CleanHtml, ShowList, ShowFailure,
         server
<1> QED
  BY <1>1, <1>2, Grows

\* The counts of a fetch that goes on while the server moves.
LEMMA AskingComes ==
  ASSUME DashboardTypeOK, asks' = asks \/ Witness,
         NEW seen, NEW v, NEW l \in Loads, Counting(l, seen, v)'
  PROVE  \E old \in SUBSET Stats :
           Counting(l, old, v) /\ (seen = old \/ seen = old \union {Counts'})
<1>0. asks \in [Loads -> [seen : SUBSET Stats, version : 0 .. version]]
  BY DEF DashboardTypeOK
<1>1. CASE asks' = asks
  <2>1. Counting(l, seen, v)
    BY <1>1 DEF Counting, Asking
  <2> QED
    BY <1>0, <2>1 DEF Counting
<1>2. CASE Witness
  <2>1. Asking(l)
    BY <1>0, <1>2 DEF Witness, Counting, Asking
  <2>2. asks'[l] = [asks[l] EXCEPT !.seen = @ \union {Counts'}]
    BY <1>2, <2>1 DEF Witness
  <2>3. PICK old \in SUBSET Stats, u \in 0 .. version : asks[l] = [seen |-> old, version |-> u]
    BY <1>0
  <2>4. u = v /\ seen = old \union {Counts'}
    BY <2>2, <2>3 DEF Counting
  <2> QED
    BY <2>1, <2>3, <2>4 DEF Counting
<1> QED
  BY <1>1, <1>2

LEMMA ServerFresh ==
  ASSUME DashboardTypeOK, StatsFresh, StatsDueStays, CountsNoticed,
         version \in Nat, version' \in Nat, version' >= version,
         UNCHANGED <<stats, spoilt, statsLoaded, statsNewest>>, asks' = asks \/ Witness
  PROVE  StatsFresh'
<1>1. ASSUME NEW seen \in SUBSET Stats, NEW v \in Nat, Displays(seen, v)' PROVE FreshStats(seen, v)'
  <2>1. Displays(seen, v)
    BY <1>1 DEF Displays
  <2>2. v \in 0 .. version
    BY <2>1, StatsParts DEF Displays, StatsCounts
  <2> QED
    BY <2>1, <2>2, StatsKept DEF StatsFresh
<1>2. ASSUME NEW seen \in SUBSET Stats, NEW v \in Nat, NEW l \in Loads, Counting(l, seen, v)'
      PROVE  FreshStats(seen, v)'
  <2>1. PICK old \in SUBSET Stats :
          Counting(l, old, v) /\ (seen = old \/ seen = old \union {Counts'})
    BY <1>2, AskingComes
  <2>2. v \in 0 .. version
    BY <2>1, StatsParts DEF Counting, StatsAsked
  <2>3. FreshStats(old, v)
    BY <2>1 DEF StatsFresh
  <2> QED
    BY <2>1, <2>2, <2>3, StatsKept
<1> QED
  BY <1>1, <1>2 DEF StatsFresh

LEMMA ServerAsked ==
  ASSUME DashboardTypeOK, Counts' \in Stats, version \in Nat, version' \in Nat, version' >= version,
         asks' = asks \/ Witness
  PROVE  StatsAsked'
<1>1. asks \in [Loads -> [seen : SUBSET Stats, version : 0 .. version]]
  BY DEF DashboardTypeOK
<1>2. CASE asks' = asks
  BY <1>1, <1>2 DEF StatsAsked
<1>3. CASE Witness
  <2>1. ASSUME NEW l \in Loads
        PROVE  /\ [asks[l] EXCEPT !.seen = @ \union {Counts'}]
                    \in [seen : SUBSET Stats, version : 0 .. version']
               /\ NoAsk \in [seen : SUBSET Stats, version : 0 .. version']
    BY <1>1 DEF NoAsk
  <2> QED
    BY <1>3, <2>1 DEF Witness, StatsAsked
<1> QED
  BY <1>2, <1>3

\* A step that takes no timer and ends no fetch of the counts.
LEMMA StatsDueKept ==
  ASSUME DashboardTypeOK, version \in Nat, UNCHANGED <<timers, statsNewest>>, asks' = asks \/ Witness,
         statsUnheard' \in Nat, statsUnheard' >= statsUnheard \/ statsUnheard' >= version,
         inbox' = <<>> => inbox = <<>> \/ statsUnheard' >= version,
         announcements' = {} => announcements = {} \/ inbox' # <<>> \/ statsUnheard' >= version
  PROVE  StatsDueStays
<1> SUFFICES ASSUME NEW v \in Nat, v < version, StatsDue(v) PROVE StatsDue(v)'
  BY DEF StatsDueStays
<1>1. statsUnheard \in Nat /\ asks \in [Loads -> [seen : SUBSET Stats, version : 0 .. version]]
  BY StatsParts DEF StatsCounts, StatsAsked
<1>2. CASE statsUnheard' >= version
  BY <1>2 DEF StatsDue
<1>3. CASE statsUnheard' >= statsUnheard /\ statsUnheard > v
  BY <1>1, <1>3 DEF StatsDue
<1>4. ASSUME NEW l \in Loads, Asking(l) PROVE Asking(l)' /\ asks'[l].version = asks[l].version
  <2>1. CASE asks' = asks
    BY <1>4, <2>1 DEF Asking
  <2>2. CASE Witness
    <3>1. asks'[l] = [asks[l] EXCEPT !.seen = @ \union {Counts'}]
      BY <1>4, <2>2 DEF Witness
    <3>2. asks[l] \in [seen : SUBSET Stats, version : 0 .. version]
      BY <1>1
    <3>3. asks'[l].seen = asks[l].seen \union {Counts'} /\ asks'[l].version = asks[l].version
      BY <3>1, <3>2
    <3> QED
      BY <3>3 DEF Asking, NoAsk
  <2> QED
    BY <2>1, <2>2
<1>5. ASSUME NEW l \in Loads, Asking(l), asks[l].version > v PROVE StatsDue(v)'
  BY <1>4, <1>5 DEF StatsDue
<1>6. ASSUME inbox # <<>> \/ announcements # {}, ~(statsUnheard' >= version) PROVE StatsDue(v)'
  BY <1>6 DEF StatsDue
<1>7. CASE timers > 0 \/ statsNewest > v
  BY <1>7 DEF StatsDue
<1> QED
  BY <1>2, <1>3, <1>5, <1>6, <1>7 DEF StatsDue

\* A change that is announced to nobody.
LEMMA NotAnnouncedSteady ==
  ASSUME FeedTypeOK, DashboardTypeOK, Changed, NotAnnounced, Witness,
         UNCHANGED <<timers, inbox, announcements, statsNewest>>
  PROVE  StatsDueStays /\ CountsNoticed /\ statsUnheard' \in 0 .. version'
<1>1. version \in Nat /\ version' = version + 1 /\ statsUnheard \in 0 .. version
  BY Grows, FeedParts, StatsParts DEF FeedCounts, StatsCounts
<1>2. statsUnheard' = statsUnheard \/ statsUnheard' = version + 1
  BY <1>1 DEF NotAnnounced
<1>3. StatsDueStays
  <2>1. statsUnheard' \in Nat /\ statsUnheard' >= statsUnheard
    BY <1>1, <1>2
  <2> QED
    BY <1>1, <2>1, StatsDueKept
<1>4. ASSUME NEW v \in Nat, v <= version PROVE StatsDue(v)'
  <2>1. CASE AskDue
    BY <2>1 DEF AskDue, StatsDue
  <2>2. CASE ~AskDue
    BY <1>1, <1>4, <2>2 DEF NotAnnounced, StatsDue
  <2> QED
    BY <2>1, <2>2
<1> QED
  BY <1>1, <1>2, <1>3, <1>4 DEF CountsNoticed

LEMMA DashboardServerSteady ==
  ASSUME FeedTypeOK, DashboardTypeOK, NoRowYet, DashboardServer
  PROVE  /\ StatsDueStays /\ CountsNoticed
         /\ UNCHANGED <<page, stats, zeros, spoilt, statsLoaded, statsNewest>>
         /\ asks' = asks \/ Witness
         /\ today' \subseteq Executions /\ statsUnheard' \in 0 .. version'
<1> DEFINE Goal == /\ StatsDueStays /\ CountsNoticed
                   /\ UNCHANGED <<page, stats, zeros, spoilt, statsLoaded, statsNewest>>
                   /\ asks' = asks \/ Witness
                   /\ today' \subseteq Executions /\ statsUnheard' \in 0 .. version'
<1>a. /\ version \in Nat /\ statsUnheard \in 0 .. version /\ today \subseteq Executions
      /\ inbox \in Seq(Names)
  BY FeedParts, StatsParts DEF FeedCounts, FeedSocket, StatsCounts, StatsShown
<1>b. statsUnheard \in Nat
  BY <1>a
<1>c. UNCHANGED <<cronJob, cronExecution, today>> => Counts' = Counts
  BY SameCounts
<1>1. ASSUME NEW e \in Executions, Start(e), UNCHANGED statsVars PROVE Goal
  <2>1. /\ UNCHANGED <<page, cronJob, cronExecution, announcements, timers, version>>
        /\ Emit("execution:started") /\ UNCHANGED statsVars
    BY <1>1 DEF Start
  <2>2. inbox' = <<>> => inbox = <<>>
    BY <1>a, <2>1, Emitted DEF Names
  <2>3. StatsDueStays
    BY <1>a, <1>b, <2>1, <2>2, StatsDueKept DEF statsVars
  <2> QED
    BY <1>a, <1>c, <2>1, <2>3 DEF statsVars, CountsNoticed
<1>2. ASSUME NEW e \in Executions, Abandon(e), UNCHANGED statsVars PROVE Goal
  <2>1. /\ UNCHANGED <<page, cronJob, cronExecution, inbox, timers>>
        /\ announcements' # {} /\ Changed /\ UNCHANGED statsVars
    BY <1>2 DEF Abandon, socket
  <2>2. StatsDueStays
    BY <1>a, <1>b, <2>1, StatsDueKept DEF statsVars
  <2>3. statsUnheard' \in 0 .. version'
    BY <1>a, <2>1 DEF statsVars, Changed
  <2> QED
    BY <1>a, <1>c, <2>1, <2>2, <2>3 DEF statsVars, CountsNoticed
<1>3. ASSUME NEW e \in Executions, NEW j \in Jobs, Open(e, j),
             today' = today \union {e}, Rest, Witness, UNCHANGED statsUnheard
      PROVE  Goal
  <2>1. /\ UNCHANGED <<page, announcements, inbox, timers>> /\ Changed
    BY <1>3 DEF Open, socket
  <2>2. Counts' = Counts
    BY <1>3, OpenCounts
  <2>3. StatsDueStays
    BY <1>a, <1>b, <1>3, <2>1, StatsDueKept DEF Rest
  <2>4. statsUnheard' \in 0 .. version'
    BY <1>a, <1>3, <2>1 DEF Changed
  <2> QED
    BY <1>a, <1>3, <2>1, <2>2, <2>3, <2>4 DEF Rest, CountsNoticed
<1>4. ASSUME NEW e \in Executions, NEW status \in {"SUCCESS", "FAILED"}, Close(e, status),
             UNCHANGED <<today, statsUnheard>>, Rest, Witness
      PROVE  Goal
  <2>1. /\ UNCHANGED <<page, inbox, timers>> /\ announcements' # {} /\ Changed
    BY <1>4 DEF Close, socket
  <2>2. CountsNoticed
    BY <1>a, <2>1 DEF CountsNoticed, StatsDue, Changed
  <2>3. StatsDueStays
    BY <1>a, <1>b, <1>4, <2>1, StatsDueKept DEF Rest
  <2>4. statsUnheard' \in 0 .. version'
    BY <1>a, <1>4, <2>1 DEF Changed
  <2> QED
    BY <1>a, <1>4, <2>1, <2>2, <2>3, <2>4 DEF Rest
<1>5. ASSUME NEW e \in Executions, Announce(e), Rest, UNCHANGED <<today, asks>>,
             IF connected THEN UNCHANGED statsUnheard ELSE Lost
      PROVE  Goal
  <2>1. /\ UNCHANGED <<page, cronJob, cronExecution, timers, version>>
        /\ Emit("execution:completed")
    BY <1>5 DEF Announce
  <2>2. inbox' = <<>> => inbox = <<>> /\ ~connected
    BY <1>a, <2>1, Emitted DEF Names
  <2>3. statsUnheard' \in 0 .. version' /\ statsUnheard' \in Nat /\ (connected \/ statsUnheard' = version)
    BY <1>a, <1>5, <2>1 DEF Lost
  <2>4. StatsDueStays
    BY <1>a, <1>b, <1>5, <2>1, <2>2, <2>3, StatsDueKept DEF Rest
  <2> QED
    BY <1>a, <1>c, <1>5, <2>1, <2>3, <2>4 DEF Rest, CountsNoticed
<1>6. ASSUME (\E e \in Executions : Forget(e)) \/ Disconnect, Rest, Lost, UNCHANGED <<today, asks>>
      PROVE  Goal
  <2>1. UNCHANGED <<page, cronJob, cronExecution, timers, version>>
    BY <1>6 DEF Forget, Disconnect, server
  <2>2. statsUnheard' \in 0 .. version' /\ statsUnheard' \in Nat /\ statsUnheard' = version
    BY <1>a, <1>6, <2>1 DEF Lost
  <2>3. StatsDueStays
    BY <1>a, <1>b, <1>6, <2>1, <2>2, StatsDueKept DEF Rest
  <2> QED
    BY <1>a, <1>c, <1>6, <2>1, <2>2, <2>3 DEF Rest, CountsNoticed
<1>7. ASSUME \/ \E j \in Jobs : RemoveJob(j) /\ UNCHANGED today
             \/ \E j \in Jobs, state \in {"active", "inactive"} : SetJob(j, state)
             \/ NewDay,
             Rest, Witness, NotAnnounced
      PROVE  Goal
  <2>1. Changed /\ UNCHANGED <<page, timers, inbox, announcements>> /\ today' \subseteq Executions
    BY <1>a, <1>7 DEF RemoveJob, SetJob, NewDay, socket
  <2> QED
    BY <1>7, <2>1, NotAnnouncedSteady DEF Rest
<1>8. ASSUME Connect, UNCHANGED statsVars PROVE Goal
  <2>1. UNCHANGED <<page, cronJob, cronExecution, announcements, inbox, timers, version>>
    BY <1>8 DEF Connect, server
  <2>2. StatsDueStays
    BY <1>a, <1>b, <1>8, <2>1, StatsDueKept DEF statsVars
  <2> QED
    BY <1>a, <1>c, <1>8, <2>1, <2>2 DEF statsVars, CountsNoticed
<1> QED
  BY <1>1, <1>2, <1>3, <1>4, <1>5, <1>6, <1>7, <1>8 DEF DashboardServer

\* A fetch is sent with the counts as they are.
LEMMA UpdateKeeps ==
  ASSUME FeedTypeOK, DashboardTypeOK, StatsFresh, NEW l \in Loads, UpdateStats(l), UNCHANGED server
  PROVE  StatsFresh' /\ DashboardTypeOK'
<1>a. /\ version \in Nat /\ version' = version
      /\ asks \in [Loads -> [seen : SUBSET Stats, version : 0 .. version]]
  BY FeedParts, StatsParts DEF FeedCounts, StatsAsked, server
<1>b. /\ UNCHANGED <<today, stats, zeros, spoilt, statsUnheard, statsLoaded, statsNewest>>
      /\ asks' = [asks EXCEPT ![l] = [seen |-> {Counts}, version |-> version]]
  BY DEF UpdateStats
<1>c. Counts' = Counts
  BY <1>b, SameCounts DEF server
<1>d. version' \in Nat /\ version' >= version /\ CountsNoticed
  BY <1>a, <1>c DEF CountsNoticed
<1>1. StatsDueStays
  <2>1. asks'[l].version = version /\ asks'[l].seen = {Counts}
    BY <1>a, <1>b
  <2>2. Asking(l)'
    BY <2>1 DEF Asking, NoAsk
  <2> QED
    BY <2>1, <2>2 DEF StatsDueStays, StatsDue
<1>2. ASSUME NEW seen \in SUBSET Stats, NEW v \in Nat, Displays(seen, v)' PROVE FreshStats(seen, v)'
  <2>1. Displays(seen, v) /\ v \in 0 .. version
    BY <1>b, <1>2, StatsParts DEF Displays, StatsCounts
  <2>2. FreshStats(seen, v)
    BY <2>1 DEF StatsFresh
  <2> QED
    BY <1>a, <1>d, <1>1, <2>1, <2>2, StatsKept
<1>3. ASSUME NEW seen \in SUBSET Stats, NEW v \in Nat, NEW k \in Loads, Counting(k, seen, v)'
      PROVE  FreshStats(seen, v)'
  <2>1. CASE k = l
    <3>1. seen = {Counts}
      BY <1>a, <1>b, <1>3, <2>1 DEF Counting
    <3> QED
      BY <1>c, <3>1 DEF FreshStats
  <2>2. CASE k # l
    <3>1. Counting(k, seen, v) /\ v \in 0 .. version
      BY <1>a, <1>b, <1>3, <2>2 DEF Counting, Asking
    <3>2. FreshStats(seen, v)
      BY <3>1 DEF StatsFresh
    <3> QED
      BY <1>a, <1>d, <1>1, <3>1, <3>2, StatsKept
  <2> QED
    BY <2>1, <2>2
<1>4. StatsAsked'
  <2>1. [seen |-> {Counts}, version |-> version] \in [seen : SUBSET Stats, version : 0 .. version]
    BY <1>a, CountsType
  <2> QED
    BY <1>a, <1>b, <2>1 DEF StatsAsked
<1>5. StatsShown' /\ StatsCounts'
  BY <1>a, <1>b, StatsParts DEF StatsShown, StatsCounts
<1> QED
  BY <1>2, <1>3, <1>4, <1>5, StatsParts DEF StatsFresh

\* A fetch of the counts ends.
LEMMA AnswerKeeps ==
  ASSUME FeedTypeOK, DashboardTypeOK, StatsFresh, NEW l \in Loads, ShowStats(l) \/ NoAnswer(l)
  PROVE  StatsFresh' /\ DashboardTypeOK'
<1>a. /\ version \in Nat /\ statsNewest \in 0 .. version
      /\ asks \in [Loads -> [seen : SUBSET Stats, version : 0 .. version]]
  BY FeedParts, StatsParts DEF FeedCounts, StatsAsked, StatsCounts
<1>b. /\ UNCHANGED <<cronJob, cronExecution, announcements, version, inbox, timers, today, zeros>>
      /\ Asking(l) /\ asks' = [asks EXCEPT ![l] = NoAsk]
  BY DEF ShowStats, NoAnswer, server, socket
<1>c. Counts' = Counts
  BY <1>b, SameCounts
<1>d. PICK moments \in SUBSET Stats, u \in 0 .. version : Counting(l, moments, u)
  BY <1>a, <1>b DEF Counting
<1>e. FreshStats(moments, u)
  BY <1>a, <1>d DEF StatsFresh
<1>f. \A k \in Loads : /\ k # l => asks'[k] = asks[k]
                       /\ Asking(k)' => k # l /\ Asking(k)
                       /\ k # l /\ Asking(k) => Asking(k)'
  BY <1>a, <1>b DEF Asking
<1>g. version' \in Nat /\ version' >= version /\ CountsNoticed
  BY <1>a, <1>b, <1>c DEF CountsNoticed
<1>1. CASE ShowStats(l)
  <2>1. /\ stats' \in [total : {m.total : m \in moments}, active : {m.active : m \in moments},
                       successToday : {m.successToday : m \in moments},
                       failedToday : {m.failedToday : m \in moments}]
        /\ statsLoaded' = u /\ statsNewest' = Later(statsNewest, u) /\ spoilt' = FALSE
        /\ statsUnheard' = statsUnheard
    BY <1>1, <1>d DEF ShowStats, Counting
  <2>2. statsNewest' \in 0 .. version /\ statsNewest' >= statsNewest /\ statsNewest' >= u
    BY <1>a, <2>1 DEF Later
  <2>3. StatsDueStays
    <3> SUFFICES ASSUME NEW v \in Nat, v < version, StatsDue(v) PROVE StatsDue(v)'
      BY DEF StatsDueStays
    <3>1. ASSUME NEW k \in Loads, Asking(k), asks[k].version > v PROVE StatsDue(v)'
      <4>1. CASE k = l
        BY <1>a, <1>d, <2>2, <3>1, <4>1 DEF StatsDue, Counting
      <4>2. CASE k # l
        BY <1>f, <3>1, <4>2 DEF StatsDue
      <4> QED
        BY <4>1, <4>2
    <3> QED
      BY <1>a, <1>b, <2>1, <2>2, <3>1 DEF StatsDue
  <2>4. FreshStats(moments, u)'
    BY <1>a, <1>b, <1>c, <1>e, <2>3, StatsKept DEF CountsNoticed
  <2>5. stats' \in Stats
    BY <2>1 DEF Stats
  <2>6. moments = {Counts} => stats' = Counts
    <3>1. Counts \in Stats
      BY CountsType
    <3> QED
      BY <2>1, <3>1 DEF Stats
  <2>7. ASSUME NEW seen \in SUBSET Stats, NEW v \in Nat, Displays(seen, v)' PROVE FreshStats(seen, v)'
    <3>1. seen = {stats'} /\ v = u
      BY <2>1, <2>7 DEF Displays
    <3> QED
      BY <1>c, <2>4, <2>6, <3>1 DEF FreshStats
  <2>8. ASSUME NEW seen \in SUBSET Stats, NEW v \in Nat, NEW k \in Loads, Counting(k, seen, v)'
        PROVE  FreshStats(seen, v)'
    <3>1. Counting(k, seen, v) /\ v \in 0 .. version
      BY <1>a, <1>f, <2>8 DEF Counting
    <3>2. FreshStats(seen, v)
      BY <3>1 DEF StatsFresh
    <3> QED
      BY <1>a, <1>g, <2>3, <3>1, <3>2, StatsKept
  <2>9. StatsAsked'
    BY <1>a, <1>b DEF StatsAsked, NoAsk
  <2>10. StatsShown'
    BY <1>b, <2>1, <2>5, StatsParts DEF StatsShown
  <2>11. StatsCounts'
    BY <1>a, <1>b, <2>1, <2>2, StatsParts DEF StatsCounts
  <2> QED
    BY <2>7, <2>8, <2>9, <2>10, <2>11, StatsParts DEF StatsFresh
<1>2. CASE NoAnswer(l)
  <2>1. /\ UNCHANGED <<stats, spoilt, statsLoaded, statsNewest>> /\ statsUnheard' = version
    BY <1>2 DEF NoAnswer, Lost
  <2>2. StatsDueStays
    BY <1>a, <2>1 DEF StatsDueStays, StatsDue
  <2>3. ASSUME NEW seen \in SUBSET Stats, NEW v \in Nat, Displays(seen, v)' PROVE FreshStats(seen, v)'
    <3>1. Displays(seen, v) /\ v \in 0 .. version
      BY <2>1, <2>3, StatsParts DEF Displays, StatsCounts
    <3>2. FreshStats(seen, v)
      BY <3>1 DEF StatsFresh
    <3> QED
      BY <1>a, <1>g, <2>2, <3>1, <3>2, StatsKept
  <2>4. ASSUME NEW seen \in SUBSET Stats, NEW v \in Nat, NEW k \in Loads, Counting(k, seen, v)'
        PROVE  FreshStats(seen, v)'
    <3>1. Counting(k, seen, v) /\ v \in 0 .. version
      BY <1>a, <1>f, <2>4 DEF Counting
    <3>2. FreshStats(seen, v)
      BY <3>1 DEF StatsFresh
    <3> QED
      BY <1>a, <1>g, <2>2, <3>1, <3>2, StatsKept
  <2>5. StatsAsked'
    BY <1>a, <1>b DEF StatsAsked, NoAsk
  <2>6. StatsShown'
    BY <1>b, <2>1, StatsParts DEF StatsShown
  <2>7. StatsCounts'
    BY <1>a, <1>b, <2>1, StatsParts DEF StatsCounts
  <2> QED
    BY <2>3, <2>4, <2>5, <2>6, <2>7, StatsParts DEF StatsFresh
<1> QED
  BY <1>1, <1>2

\* A fetch of the list moves, or the page writes the zeros of dashboard.js.
LEMMA BesidesKeeps ==
  ASSUME FeedTypeOK, DashboardTypeOK, StatsFresh,
         (FetchMoves /\ UNCHANGED statsVars) \/ LoadDashboardData
  PROVE  StatsFresh' /\ DashboardTypeOK'
<1>a. version \in Nat /\ statsUnheard \in 0 .. version
  BY FeedParts, StatsParts DEF FeedCounts, StatsCounts
<1>b. /\ UNCHANGED <<cronJob, version, announcements, inbox, timers>>
      /\ UNCHANGED <<today, asks, statsUnheard, statsLoaded, statsNewest>>
  BY DEF FetchMoves, FindLogs, CleanHtml, ShowList, ShowFailure, LoadDashboardData, statsVars,
     server, socket
<1>c. statsUnheard \in Nat /\ version' \in Nat /\ version' >= version
  BY <1>a, <1>b
<1>1. Counts' = Counts
  <2>1. CASE UNCHANGED cronExecution
    BY <1>b, <2>1, SameCounts
  <2>2. ASSUME NEW l \in Loads, CleanHtml(l) PROVE Counts' = Counts
    <3>1. /\ DOMAIN cronExecution' = DOMAIN cronExecution
          /\ \A i \in DOMAIN cronExecution :
               cronExecution'[i] = cronExecution[i] \/ cronExecution'[i] = Cleaned(cronExecution[i])
      BY <2>2 DEF CleanHtml
    <3> QED
      BY <1>b, <3>1, RowsInTable, RowTypes, SameCounts
  <2> QED
    BY <2>1, <2>2 DEF FetchMoves, FindLogs, ShowList, ShowFailure, LoadDashboardData, server
<1>2. StatsDueStays /\ CountsNoticed
  BY <1>a, <1>b, <1>c, <1>1, StatsDueKept DEF CountsNoticed
<1>3. StatsAsked' /\ StatsCounts'
  BY <1>b, StatsParts DEF StatsAsked, StatsCounts
<1>4. CASE UNCHANGED statsVars
  <2>1. StatsFresh'
    BY <1>a, <1>c, <1>2, <1>4, ServerFresh DEF statsVars
  <2>2. StatsShown'
    BY <1>4, StatsParts DEF statsVars, StatsShown
  <2> QED
    BY <1>3, <2>1, <2>2, StatsParts
<1>5. CASE LoadDashboardData
  <2>1. /\ zeros' = FALSE /\ UNCHANGED <<asks, statsLoaded, statsNewest>>
        /\ (spoilt' = TRUE /\ stats' = NoStats) \/ UNCHANGED <<stats, spoilt>>
    BY <1>5 DEF LoadDashboardData
  <2>2. StatsShown'
    <3>1. NoStats \in Stats
      BY DEF NoStats, Stats
    <3>2. stats' \in Stats /\ spoilt' \in BOOLEAN
      BY <2>1, <3>1, StatsParts DEF StatsShown
    <3> QED
      BY <1>b, <2>1, <3>2, StatsParts DEF StatsShown
  <2>3. ASSUME NEW seen \in SUBSET Stats, NEW v \in Nat,
               Displays(seen, v)' \/ \E l \in Loads : Counting(l, seen, v)'
        PROVE  FreshStats(seen, v)'
    <3>1. Displays(seen, v) \/ \E l \in Loads : Counting(l, seen, v)
      BY <2>1, <2>3 DEF Displays, Counting, Asking
    <3>2. FreshStats(seen, v)
      BY <3>1, StatsParts DEF StatsFresh
    <3>3. v \in 0 .. version
      <4>1. CASE Displays(seen, v)
        BY <4>1, StatsParts DEF Displays, StatsCounts
      <4>2. ASSUME NEW l \in Loads, Counting(l, seen, v) PROVE v \in 0 .. version
        BY <4>2, StatsParts DEF Counting, StatsAsked
      <4> QED
        BY <3>1, <4>1, <4>2
    <3> QED
      BY <1>a, <1>c, <1>2, <3>2, <3>3, StatsKept
  <2>4. StatsFresh'
    BY <2>3 DEF StatsFresh
  <2> QED
    BY <1>3, <2>2, <2>4, StatsParts
<1> QED
  BY <1>4, <1>5

LEMMA StatsStart == Init => DashboardTypeOK /\ StatsInv
<1> SUFFICES ASSUME Init PROVE DashboardTypeOK /\ StatsInv
  OBVIOUS
<1>1. DashboardInit /\ FeedInit
  BY DEF Init
<1>2. StatsCounts
  BY <1>1 DEF DashboardInit, FeedInit, StatsCounts
<1>3. StatsShown
  BY <1>1 DEF DashboardInit, StatsShown, NoStats, Stats
<1>4. NoAsk \in [seen : SUBSET Stats, version : 0 .. version]
  BY <1>1 DEF FeedInit, NoAsk
<1>5. StatsAsked
  BY <1>1, <1>4 DEF DashboardInit, StatsAsked
<1>6. NoRowYet
  BY <1>1 DEF FeedInit, NoRowYet
<1>7. spoilt /\ \A l \in Loads : ~Asking(l)
  BY <1>1 DEF DashboardInit, Asking
<1>8. StatsInv
  BY <1>6, <1>7 DEF StatsInv, StatsFresh, Displays, Counting
<1> QED
  BY <1>2, <1>3, <1>5, <1>8, StatsParts

LEMMA StatsStep ==
  FeedInv /\ DashboardTypeOK /\ StatsInv /\ [Next]_vars => DashboardTypeOK' /\ StatsInv'
<1> SUFFICES ASSUME FeedTypeOK, DashboardTypeOK, StatsInv, [Next]_vars
             PROVE  DashboardTypeOK' /\ StatsInv'
  BY DEF FeedInv
<1>a. version \in Nat /\ version' \in Nat /\ version' >= version
  BY FeedMoves, VersionGrows
<1>b. NoRowYet'
  BY FeedMoves, NoRowKept DEF StatsInv
<1>c. page' = page
  BY DEF Next, vars, feedVars, DashboardServer, DashboardNext, LogsServer, LogsNext, Start, Announce,
     Abandon, Forget, Open, Close, RemoveJob, SetJob, NewDay, Disconnect, Connect, FindLogs, CleanHtml,
     ShowList, ShowFailure, DashboardReceive, DashboardTimerEnds, ShowStats, NoAnswer,
     LoadDashboardData, LogsReceive, LogsTimerEnds, LogsRender, ShowResponseModal,
     CloseResponseModal, CopyResponseBody
<1>1. CASE UNCHANGED statsVars /\ page # "/"
  <2>1. spoilt'
    BY <1>1 DEF statsVars, StatsInv
  <2>2. StatsInv'
    BY <1>b, <1>c, <1>1, <2>1 DEF StatsInv
  <2>3. StatsShown'
    BY <1>1, StatsParts DEF statsVars, StatsShown
  <2>4. StatsCounts'
    BY <1>a, <1>1, StatsParts DEF statsVars, StatsCounts
  <2>5. StatsAsked'
    <3>1. \A l \in Loads : asks[l] \in [seen : SUBSET Stats, version : 0 .. version']
      BY <1>a, StatsParts DEF StatsAsked
    <3> QED
      BY <1>1, <3>1, StatsParts DEF statsVars, StatsAsked
  <2> QED
    BY <2>2, <2>3, <2>4, <2>5, StatsParts
<1>2. ASSUME page = "/", StatsFresh' /\ DashboardTypeOK' PROVE DashboardTypeOK' /\ StatsInv'
  BY <1>b, <1>c, <1>2 DEF StatsInv
<1>3. CASE page = "/" /\ DashboardServer
  <2>1. /\ StatsDueStays /\ CountsNoticed
        /\ UNCHANGED <<page, stats, zeros, spoilt, statsLoaded, statsNewest>>
        /\ asks' = asks \/ Witness
        /\ today' \subseteq Executions /\ statsUnheard' \in 0 .. version'
    BY <1>3, DashboardServerSteady DEF StatsInv
  <2>2. StatsFresh'
    BY <1>a, <1>3, <2>1, ServerFresh DEF StatsInv
  <2>3. FeedTypeOK'
    BY FeedMoves, FeedTypesKeep
  <2>4. Counts' \in Stats
    BY <2>3, CountsTypeLater
  <2>5. StatsAsked'
    BY <1>a, <2>1, <2>4, ServerAsked
  <2>6. StatsShown'
    BY <2>1, StatsParts DEF StatsShown
  <2>7. StatsCounts'
    BY <1>a, <2>1, StatsParts DEF StatsCounts
  <2> QED
    BY <1>2, <1>3, <2>2, <2>5, <2>6, <2>7, StatsParts
<1>4. CASE page = "/" /\ DashboardNext
  <2>0. StatsFresh
    BY <1>4 DEF StatsInv
  <2>1. ASSUME NEW l \in Loads, NEW k \in Loads, DashboardReceive(l, k)
        PROVE  StatsFresh' /\ DashboardTypeOK'
    BY <2>0, <2>1, UpdateKeeps DEF DashboardReceive
  <2>2. ASSUME NEW l \in Loads, DashboardTimerEnds(l)
        PROVE  StatsFresh' /\ DashboardTypeOK'
    BY <2>0, <2>2, UpdateKeeps DEF DashboardTimerEnds
  <2>3. ASSUME NEW l \in Loads, ShowStats(l) \/ NoAnswer(l)
        PROVE  StatsFresh' /\ DashboardTypeOK'
    BY <2>0, <2>3, AnswerKeeps
  <2>4. CASE FetchMoves /\ UNCHANGED statsVars
    BY <1>2, <1>4, <2>0, <2>4, BesidesKeeps
  <2>5. CASE LoadDashboardData
    BY <1>2, <1>4, <2>0, <2>5, BesidesKeeps
  <2> QED
    BY <1>2, <1>4, <2>1, <2>2, <2>3, <2>4, <2>5 DEF DashboardNext, FetchMoves
<1>5. CASE UNCHANGED vars
  <2>1. UNCHANGED statsVars /\ UNCHANGED <<cronJob, cronExecution, version, announcements, inbox, timers>>
    BY <1>5 DEF vars, feedVars, server, socket
  <2>2. Counts' = Counts
    BY <2>1, SameCounts DEF statsVars
  <2>3. StatsDueStays /\ CountsNoticed
    BY <2>1, <2>2 DEF StatsDueStays, CountsNoticed, StatsDue, Asking, statsVars
  <2>4. StatsShown' /\ StatsCounts' /\ StatsAsked'
    BY <2>1, StatsParts DEF StatsShown, StatsCounts, StatsAsked, statsVars
  <2>5. page = "/" => StatsFresh'
    BY <1>a, <2>1, <2>3, ServerFresh DEF StatsInv, statsVars
  <2>6. page # "/" => StatsInv'
    BY <1>b, <1>c, <2>1 DEF StatsInv, statsVars
  <2> QED
    BY <1>2, <2>4, <2>5, <2>6, StatsParts
<1>6. page # "/" /\ Next => UNCHANGED statsVars
  BY DEF Next
<1> QED
  BY <1>1, <1>3, <1>4, <1>5, <1>6 DEF Next

LEMMA StatsFollows == FeedInv /\ DashboardTypeOK /\ StatsInv => StatsCurrent
<1> SUFFICES ASSUME FeedInv, DashboardTypeOK, StatsInv, StatsSettled, ~spoilt,
                    statsUnheard <= statsLoaded, statsLoaded = statsNewest
             PROVE  stats = Counts
  BY DEF StatsCurrent
<1>1. page = "/" /\ StatsFresh
  BY DEF StatsInv
<1>2. stats \in Stats /\ statsLoaded \in Nat /\ statsUnheard \in Nat
  <2>1. StatsShown /\ StatsCounts /\ version \in Nat
    BY FeedParts, StatsParts DEF FeedInv, FeedCounts
  <2> QED
    BY <2>1 DEF StatsShown, StatsCounts
<1>3. FreshStats({stats}, statsLoaded)
  <2>1. PICK seen \in SUBSET Stats, v \in Nat : seen = {stats} /\ v = statsLoaded
    BY <1>2
  <2>2. FreshStats(seen, v)
    BY <1>1, <2>1 DEF StatsFresh, Displays
  <2> QED
    BY <2>1, <2>2
<1>4. ~StatsDue(statsLoaded)
  BY <1>2 DEF StatsSettled, StatsDue
<1> QED
  BY <1>3, <1>4 DEF FreshStats

-----------------------------------------------------------------------------
(* The theorems.                                                           *)

\* What always holds of the pages and makes their promises hold: each list and each count
\* that is shown or will be is current or will be seen to be old, the dialog belongs to the
\* row it points to until a list is rendered, and the last validation is that of the text.
PagesInv == FeedInv /\ LogsInv /\ DashboardTypeOK /\ StatsInv /\ FormInv

THEOREM Invariance == Spec => []PagesInv
<1>1. Init => PagesInv
  BY FeedStart, LogsStart, StatsStart, FormStart DEF Init, PagesInv
<1>2. PagesInv /\ [Next]_vars => PagesInv'
  <2> SUFFICES ASSUME PagesInv, [Next]_vars PROVE PagesInv'
    OBVIOUS
  <2>1. FeedInv'
    BY FeedStep DEF PagesInv
  <2>2. LogsInv'
    BY <2>1, LogsStep DEF PagesInv
  <2>3. DashboardTypeOK' /\ StatsInv'
    BY StatsStep DEF PagesInv
  <2>4. FormNext \/ UNCHANGED formVars
    BY DEF Next, vars
  <2>5. FormInv'
    BY <2>4, FormStep DEF PagesInv
  <2> QED
    BY <2>1, <2>2, <2>3, <2>5 DEF PagesInv
<1> QED
  BY <1>1, <1>2, PTL DEF Spec

\* Every variable of the pages has its type, and no index points outside of logsData.
THEOREM TypeCorrect == Spec => []TypeOK
<1>1. PagesInv => TypeOK
  BY DEF PagesInv, FeedInv, LogsInv, FormInv, TypeOK
<1> QED
  BY <1>1, Invariance, PTL

\* When nothing is on its way, the list of a page shows the rows of CronExecution, with the
\* exceptions that ListCurrent names.
THEOREM ListIsCurrent == Spec => []ListCurrent
<1>1. PagesInv => ListCurrent
  BY ListFollows DEF PagesInv
<1> QED
  BY <1>1, Invariance, PTL

\* When nothing is on its way, the four counts of the dashboard are those of the tables,
\* with the exceptions that StatsCurrent names.
THEOREM StatsAreCurrent == Spec => []StatsCurrent
<1>1. PagesInv => StatsCurrent
  BY StatsFollows DEF PagesInv
<1> QED
  BY <1>1, Invariance, PTL

\* Once the timer has ended and every validation is answered, the form shows the verdict of
\* the text in its field, unless an older answer was shown last or what is shown was made of an error.
THEOREM VerdictIsCurrent == Spec => []VerdictCurrent
<1>1. PagesInv => VerdictCurrent
  BY DEF PagesInv, FormInv, Matches, VerdictCurrent
<1> QED
  BY <1>1, Invariance, PTL

\* What copyResponseBody copies is what the dialog shows, unless a list was rendered while
\* the dialog was open.
THEOREM CopiesMatch == Spec => CopyMatches
<1>1. PagesInv /\ [Next]_vars
        => [clipboard' # clipboard /\ ~rendered => clipboard' = dialog]_<<clipboard, dialog>>
  BY CopyStep DEF PagesInv
<1> QED
  BY <1>1, Invariance, PTL DEF Spec, CopyMatches
=============================================================================
