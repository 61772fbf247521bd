------------------------------- MODULE RateLimit -------------------------------
(***************************************************************************)
(* RateLimitInterceptor: a counter and the end of its window for each key. *)
(* intercept runs without an await, but reads the clock twice: once for    *)
(* the record of the key and once more, in cleanup, to delete the records  *)
(* whose window is over.  The clock may move on in between, so that        *)
(* cleanup deletes the record that is about to be counted in.              *)
(*                                                                         *)
(* The store is one process's own and is empty when it starts.             *)
(***************************************************************************)
EXTENDS Integers, FiniteSets

CONSTANTS
  Keys,       \* ids of API tokens and users, addresses of clients
  Limit,      \* API_RATE_LIMIT
  WindowMs,   \* windowMs
  MaxTime,    \* bound: the clock
  MaxRefused  \* bound: requests of a key that are refused in one window

ASSUME LimitAssumption == Limit \in Nat /\ WindowMs \in Nat
ASSUME TimeAssumption == MaxTime \in Nat /\ MaxRefused \in Nat

VARIABLES
  clock,    \* Date.now()
  store,    \* the record of each key
  admitted  \* history: the requests let through, each with its window and its number

limiter == <<clock, store, admitted>>

-----------------------------------------------------------------------------
NoRecord == [count |-> 0, resetAt |-> -1]
Start(k) == store[k].resetAt - WindowMs   \* of the window of k
Times == 0 .. MaxTime

\* At time t the window of k is over; it lasts to resetAt included.
Expired(k, t) == store[k] # NoRecord /\ store[k].resetAt < t

\* Mutant: one record whose window is over takes all others with it.
SweptWhole(t) ==
  IF \E k \in Keys : Expired(k, t) THEN [k \in Keys |-> NoRecord] ELSE store

\* cleanup at time t.
Swept(t) == [k \in Keys |-> IF Expired(k, t) THEN NoRecord ELSE store[k]]

\* The record that was read is counted in, even if cleanup has dropped it.
Counted(k, t) ==
  [o \in Keys |-> IF o = k /\ ~Expired(k, t) THEN [store[k] EXCEPT !.count = @ + 1]
                  ELSE Swept(t)[o]]

Admit(k, start, number) ==
  admitted' = admitted \union {[key |-> k, at |-> clock, start |-> start, number |-> number]}

LimiterInit == clock = 0 /\ store = [k \in Keys |-> NoRecord] /\ admitted = {}

\* Mutant: the first request of a window is not counted.
OpenAtZero(k, t) ==
  /\ store[k] = NoRecord \/ Expired(k, clock)
  /\ store' = [Swept(t) EXCEPT ![k] = [count |-> 0, resetAt |-> clock + WindowMs]]
  /\ Admit(k, clock, 1)

\* The first request of a window is let through without a look at the limit.
Open(k, t) ==
  /\ store[k] = NoRecord \/ Expired(k, clock)
  /\ store' = [Swept(t) EXCEPT ![k] = [count |-> 1, resetAt |-> clock + WindowMs]]
  /\ Admit(k, clock, 1)

Pass(k, t) ==
  /\ store[k] # NoRecord /\ ~Expired(k, clock)
  /\ store[k].count < Limit
  /\ store' = Counted(k, t)
  /\ Admit(k, Start(k), store[k].count + 1)

\* Mutant: a refusal extends the window.
RefuseAndExtend(k, t) ==
  /\ store[k] # NoRecord /\ ~Expired(k, clock)
  /\ store[k].count >= Limit /\ store[k].count < Limit + MaxRefused
  /\ store' = [Swept(t) EXCEPT ![k] = [count |-> store[k].count + 1,
                                       resetAt |-> clock + WindowMs]]
  /\ UNCHANGED admitted

\* A refused request is counted as well.
Refuse(k, t) ==
  /\ store[k] # NoRecord /\ ~Expired(k, clock)
  /\ store[k].count >= Limit /\ store[k].count < Limit + MaxRefused
  /\ store' = Counted(k, t)
  /\ UNCHANGED admitted

\* intercept; t is the time at which cleanup reads the clock.
Intercept(k, t) == clock' = t /\ (Open(k, t) \/ Pass(k, t) \/ Refuse(k, t))

Tick == clock < MaxTime /\ clock' = clock + 1 /\ UNCHANGED <<store, admitted>>

LimiterNext == Tick \/ \E k \in Keys, t \in clock .. MaxTime : Intercept(k, t)

LimiterSpec == LimiterInit /\ [][LimiterNext]_limiter

-----------------------------------------------------------------------------
(* What the limiter promises.                                              *)

\* The requests of one window that may pass: the first one always does.
Quota == IF Limit = 0 THEN 1 ELSE Limit

LimiterTypeOK ==
  /\ clock \in Times
  /\ store \in [Keys -> [count : Nat \ {0}, resetAt : Nat] \union {NoRecord}]
  /\ admitted \subseteq [key : Keys, at : Times, start : Times, number : 1 .. Quota]

Admitted(k, from, to) == {a \in admitted : a.key = k /\ from <= a.at /\ a.at <= to}

\* However the requests of a key fall on the borders of its windows, and whatever
\* cleanup drops, no stretch of windowMs sees more than twice the limit pass.
AtMostTwice ==
  \A k \in Keys, from \in Times :
    Cardinality(Admitted(k, from, from + WindowMs)) <= 2 * Quota

\* A request is refused only if the limit was used up in the last windowMs: those
\* that were refused before it do not count.
RefusalEarned ==
  [][\A k \in Keys : (\E t \in clock .. MaxTime : clock' = t /\ Refuse(k, t)) =>
       Cardinality(Admitted(k, clock - WindowMs, clock)) >= Quota]_limiter
=============================================================================
