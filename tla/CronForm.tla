-------------------------------- MODULE CronForm --------------------------------
(***************************************************************************)
(* The field for the cron expression in the form of the page of the jobs   *)
(* (public/js/jobs.js).  What is typed is validated 500 ms after the last  *)
(* key, or when the field is left; a preset is validated at once.  An      *)
(* expression with five fields is validated by the server, whose answers   *)
(* come in any order and are shown whatever the field holds by then.       *)
(***************************************************************************)
EXTENDS Integers, FiniteSets

CONSTANTS
  Valid,      \* expressions the server accepts
  Invalid,    \* expressions of five fields it refuses
  Odd,        \* texts that do not have five fields
  Presets,    \* expressions that can be chosen
  MaxEdits,   \* bound: changes of the field, and how often it is left
  MaxRequests \* bound: validations under way at the same time

Empty == "empty"
Texts == Valid \union Invalid \union Odd \union {Empty}

ASSUME TextAssumption == /\ Presets \subseteq Valid
                         /\ (Odd \union {Empty}) \intersect (Valid \union Invalid) = {}
ASSUME FormAssumption == MaxEdits \in Nat /\ MaxRequests \in Nat

VARIABLES
  text,       \* the value of the field
  debounce,   \* the timer of 500 ms runs
  requests,   \* validations that wait for the server
  verdict,    \* what is shown under the field
  edits,      \* how often the field was changed or left
  issued,     \* history: number of validations
  latest,     \* history: the number of the one whose verdict is shown
  unknown     \* history: what is shown is not what the server says of an expression

formVars == <<text, debounce, requests, verdict, edits, issued, latest, unknown>>

-----------------------------------------------------------------------------
Hidden == [kind |-> "hidden"]
FiveFields == [kind |-> "exactly 5 fields"]
NextRun(t) == [kind |-> "next run", of |-> t]
Error(t) == [kind |-> "error", of |-> t]
LooksValid == [kind |-> "looks valid"]
Verdicts == {Hidden, FiveFields, LooksValid} \union {NextRun(t) : t \in Valid}
              \union {Error(t) : t \in Valid \union Invalid}

\* What the server answers for five fields; the rest is decided by the page.
Answered(t) == IF t \in Valid THEN NextRun(t) ELSE Error(t)
VerdictOf(t) == IF t = Empty THEN Hidden ELSE IF t \in Odd THEN FiveFields ELSE Answered(t)

FormInit == /\ text = Empty /\ debounce = FALSE /\ requests = {} /\ verdict = Hidden
            /\ edits = 0 /\ issued = 0 /\ latest = 0 /\ unknown = FALSE

\* validateCronExpression.
Validate(t) ==
  /\ issued' = issued + 1
  /\ IF t \in Valid \union Invalid
     THEN /\ Cardinality(requests) < MaxRequests
          /\ requests' = requests \union {[of |-> t, number |-> issued + 1]}
          /\ UNCHANGED <<verdict, latest, unknown>>
     ELSE /\ verdict' = VerdictOf(t) /\ latest' = issued + 1 /\ unknown' = FALSE
          /\ UNCHANGED requests

Edit(t) == edits < MaxEdits /\ edits' = edits + 1 /\ text' = t

\* A key: the timer starts again.
Input(t) ==
  /\ Edit(t) /\ t # text /\ debounce' = TRUE
  /\ UNCHANGED <<requests, verdict, issued, latest, unknown>>

DebounceEnds ==
  /\ debounce /\ debounce' = FALSE
  /\ Validate(text)
  /\ UNCHANGED <<text, edits>>

\* The field is left.
Blur ==
  /\ debounce' = FALSE
  /\ Validate(text) /\ edits < MaxEdits /\ edits' = edits + 1
  /\ UNCHANGED text

\* Mutant: a preset is not validated.
ChoosePresetOnly(t) ==
  /\ Edit(t) /\ UNCHANGED <<debounce, requests, verdict, issued, latest, unknown>>

\* applyCronPreset; the timer of an earlier key goes on.
ChoosePreset(t) ==
  /\ Edit(t) /\ Validate(t) /\ UNCHANGED debounce

\* "custom", and the form that is closed or submitted: the field and the verdict are
\* cleared, the timer and the requests are not.
Clear ==
  /\ Edit(Empty)
  /\ verdict' = Hidden /\ issued' = issued + 1 /\ latest' = issued + 1 /\ unknown' = FALSE
  /\ UNCHANGED <<debounce, requests>>

\* An answer with a verdict.
ShowVerdict(r) ==
  /\ requests' = requests \ {r}
  /\ verdict' = Answered(r.of) /\ latest' = r.number /\ unknown' = FALSE
  /\ UNCHANGED <<text, debounce, edits, issued>>

\* The server answers with another error (too many requests, a cookie that has expired, a
\* fault of its own): the page looks for "valid" in the body, and shows the expression as
\* refused.
ShowRefusal(r) ==
  /\ requests' = requests \ {r}
  /\ verdict' = Error(r.of) /\ latest' = r.number /\ unknown' = TRUE
  /\ UNCHANGED <<text, debounce, edits, issued>>

\* No answer, or none in JSON: the expression is taken for valid.  Nobody is logged in
\* (401): the verdict stays as it was.
NoVerdict(r) ==
  /\ requests' = requests \ {r}
  /\ \/ verdict' = LooksValid /\ latest' = r.number /\ unknown' = TRUE
     \/ UNCHANGED <<verdict, latest, unknown>>
  /\ UNCHANGED <<text, debounce, edits, issued>>

FormNext ==
  \/ \E t \in Texts : Input(t)
  \/ DebounceEnds \/ Blur \/ Clear
  \/ \E t \in Presets : ChoosePreset(t)
  \/ \E r \in requests : ShowVerdict(r) \/ ShowRefusal(r) \/ NoVerdict(r)

-----------------------------------------------------------------------------
(* What the form promises.                                                 *)

FormTypeOK ==
  /\ text \in Texts /\ debounce \in BOOLEAN /\ unknown \in BOOLEAN
  /\ requests \subseteq [of : Valid \union Invalid, number : 1 .. issued]
  /\ verdict \in Verdicts
  /\ latest \in 0 .. issued /\ {edits, issued} \subseteq Nat

\* Once the timer has ended and every validation is answered, the verdict shown is that of
\* the text in the field, unless an answer to an earlier validation was shown last, or what
\* is shown was made of an error: a validation that was refused or failed says nothing of
\* the expression, and is shown as if it did.
VerdictCurrent ==
  ~debounce /\ requests = {} /\ latest = issued /\ ~unknown => verdict = VerdictOf(text)
=============================================================================
