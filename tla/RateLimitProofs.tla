---------------------------- MODULE RateLimitProofs ----------------------------
(***************************************************************************)
(* The limiter's promises for every limit, window and number of keys.      *)
(***************************************************************************)
EXTENDS RateLimit, FiniteSetTheorems, TLAPS

Admission == [key : Keys, at : Times, start : Times, number : 1 .. Quota]

\* The admissions: each lies in its window, its number is used once there, and the
\* windows of a key do not touch.
InWindow == \A a \in admitted : a.start <= a.at /\ a.at <= a.start + WindowMs
Numbered == \A a, b \in admitted :
  a.key = b.key /\ a.start = b.start /\ a.number = b.number => a = b
Apart == \A a, b \in admitted :
  a.key = b.key /\ a.start < b.start => a.start + WindowMs < b.start

\* The record of a key stands for its latest window and knows what has passed in it;
\* a key without a record has no window that is still open.
Recorded(k) == store[k] # NoRecord =>
  /\ Start(k) \in Times /\ Start(k) <= clock
  /\ \A a \in admitted : a.key = k =>
       a.start <= Start(k) /\ (a.start = Start(k) => a.number <= store[k].count)
  /\ \A n \in 1 .. Quota : n <= store[k].count =>
       \E a \in admitted : a.key = k /\ a.start = Start(k) /\ a.number = n
Over(k) == store[k] = NoRecord =>
  \A a \in admitted : a.key = k => a.start + WindowMs < clock

LimiterInv ==
  /\ LimiterTypeOK /\ IsFiniteSet(admitted)
  /\ InWindow /\ Numbered /\ Apart
  /\ \A k \in Keys : Recorded(k) /\ Over(k)

USE LimitAssumption, TimeAssumption

-----------------------------------------------------------------------------
LEMMA QuotaType == Quota \in Nat \ {0} /\ Quota >= Limit
BY DEF Quota

LEMMA RecordType ==
  ASSUME LimiterTypeOK, NEW k \in Keys, store[k] # NoRecord
  PROVE  /\ store[k].count \in Nat \ {0} /\ store[k].resetAt \in Nat
         /\ Start(k) \in Int /\ Start(k) + WindowMs = store[k].resetAt
BY DEF LimiterTypeOK, Start

\* What becomes of the records that are not counted in.
LEMMA SweptRecords ==
  ASSUME LimiterInv, NEW t \in clock .. MaxTime, NEW k \in Keys,
         NEW o \in Keys \ {k}, store'[o] = Swept(t)[o], clock' = t,
         \A a \in admitted' : a.key = o => a \in admitted,
         admitted \subseteq admitted'
  PROVE  Recorded(o)' /\ Over(o)'
<1>1. clock \in Nat /\ t \in Nat /\ clock <= t
  BY DEF LimiterInv, LimiterTypeOK, Times
<1>2. Recorded(o) /\ Over(o) BY DEF LimiterInv
<1>3. \A a \in admitted : a.start \in Nat BY DEF LimiterInv, LimiterTypeOK, Times
<1>4. CASE Expired(o, t)
  <2>1. store[o] # NoRecord /\ store[o].resetAt < t /\ store'[o] = NoRecord
    BY <1>4 DEF Expired, Swept
  <2>2. Start(o) + WindowMs < t BY <2>1, RecordType DEF LimiterInv
  <2>3. \A a \in admitted : a.key = o => a.start + WindowMs < t
    BY <1>2, <1>3, <2>1, <2>2, RecordType DEF Recorded, LimiterInv
  <2> QED BY <2>1, <2>3 DEF Recorded, Over
<1>5. CASE ~Expired(o, t)
  <2>1. store'[o] = store[o] BY <1>5 DEF Swept
  <2>2. Start(o)' = Start(o) BY <2>1 DEF Start
  <2>3. Recorded(o)'
    BY <1>1, <1>2, <2>1, <2>2, RecordType DEF Recorded, LimiterInv, Times
  <2>4. Over(o)' BY <1>1, <1>2, <1>3, <2>1 DEF Over
  <2> QED BY <2>3, <2>4
<1> QED BY <1>4, <1>5

\* One more admission: the latest of its window, which no other window touches.
LEMMA AdmitOne ==
  ASSUME LimiterInv, NEW k \in Keys, NEW s \in Times, NEW n \in 1 .. Quota, Admit(k, s, n),
         s <= clock, clock <= s + WindowMs,
         \A a \in admitted : a.key = k =>
           (a.start = s /\ a.number < n) \/ a.start + WindowMs < s
  PROVE  /\ admitted' \subseteq Admission /\ IsFiniteSet(admitted')
         /\ InWindow' /\ Numbered' /\ Apart'
         /\ admitted \subseteq admitted'
         /\ \A a \in admitted' : a.key # k => a \in admitted
         /\ \A a \in admitted' : a.key = k =>
              a \in admitted \/ (a.start = s /\ a.number = n)
         /\ \E a \in admitted' : a.key = k /\ a.start = s /\ a.number = n
<1> DEFINE new == [key |-> k, at |-> clock, start |-> s, number |-> n]
<1>1. admitted' = admitted \union {new} BY DEF Admit
<1>2. /\ admitted \subseteq Admission /\ clock \in Times
      /\ InWindow /\ Numbered /\ Apart /\ IsFiniteSet(admitted)
  BY DEF LimiterInv, LimiterTypeOK, Admission
<1>3. new \in Admission BY <1>2 DEF Admission
<1>4. /\ new.key = k /\ new.at = clock /\ new.start = s /\ new.number = n
  OBVIOUS
<1>5. IsFiniteSet(admitted') BY <1>1, <1>2, FS_AddElement
<1>6. s \in Nat /\ n \in Nat /\ \A a \in admitted : a.start \in Nat /\ a.number \in Nat
  BY <1>2 DEF Times, Admission
<1> HIDE DEF new
<1>7. InWindow' BY <1>1, <1>2, <1>4 DEF InWindow
<1>8. Numbered'
  <2>1. \A a \in admitted : ~(a.key = k /\ a.start = s /\ a.number = n)
    BY <1>6
  <2> QED BY <1>1, <1>2, <1>4, <2>1 DEF Numbered
<1>9. Apart'
  <2>1. \A a \in admitted : a.key = k => ~(s < a.start) /\ (a.start < s => a.start + WindowMs < s)
    BY <1>6
  <2> QED BY <1>1, <1>2, <1>4, <1>6, <2>1 DEF Apart
<1> QED BY <1>1, <1>2, <1>3, <1>4, <1>5, <1>7, <1>8, <1>9

LEMMA TimesType ==
  ASSUME LimiterInv, NEW t \in clock .. MaxTime
  PROVE  t \in Times /\ t \in Nat /\ clock \in Nat /\ clock <= t
BY DEF LimiterInv, LimiterTypeOK, Times

LEMMA SweptType ==
  ASSUME LimiterInv, NEW t
  PROVE  Swept(t) \in [Keys -> [count : Nat \ {0}, resetAt : Nat] \union {NoRecord}]
BY DEF LimiterInv, LimiterTypeOK, Swept

LEMMA OpenInv ==
  ASSUME LimiterInv, NEW k \in Keys, NEW t \in clock .. MaxTime, clock' = t, Open(k, t)
  PROVE  LimiterInv'
<1> DEFINE opened == [count |-> 1, resetAt |-> clock + WindowMs]
<1>1. /\ store' = [Swept(t) EXCEPT ![k] = opened] /\ Admit(k, clock, 1)
      /\ store[k] = NoRecord \/ Expired(k, clock)
  BY DEF Open
<1>2. /\ opened \in [count : Nat \ {0}, resetAt : Nat] /\ opened # NoRecord
      /\ opened.count = 1 /\ opened.resetAt = clock + WindowMs
  BY TimesType DEF NoRecord
<1> HIDE DEF opened
<1>3. /\ store' \in [Keys -> [count : Nat \ {0}, resetAt : Nat] \union {NoRecord}]
      /\ store'[k] = opened /\ \A o \in Keys \ {k} : store'[o] = Swept(t)[o]
  BY <1>1, <1>2, SweptType
<1>4. \A a \in admitted : a.key = k => a.start + WindowMs < clock
  <2>1. CASE store[k] = NoRecord BY <2>1 DEF LimiterInv, Over
  <2>2. CASE Expired(k, clock)
    <3>1. store[k] # NoRecord /\ Start(k) + WindowMs < clock /\ Start(k) \in Int
      BY <2>2, RecordType DEF Expired, LimiterInv
    <3>2. \A a \in admitted : a.key = k => a.start <= Start(k) /\ a.start \in Nat
      BY <3>1 DEF LimiterInv, Recorded, LimiterTypeOK, Times
    <3> QED BY <3>1, <3>2, TimesType
  <2> QED BY <1>1, <2>1, <2>2
<1>5. /\ admitted' \subseteq Admission /\ IsFiniteSet(admitted')
      /\ InWindow' /\ Numbered' /\ Apart'
      /\ admitted \subseteq admitted'
      /\ \A a \in admitted' : a.key # k => a \in admitted
      /\ \A a \in admitted' : a.key = k =>
           a \in admitted \/ (a.start = clock /\ a.number = 1)
      /\ \E a \in admitted' : a.key = k /\ a.start = clock /\ a.number = 1
  <2>1. clock \in Times /\ clock \in Nat /\ 1 \in 1 .. Quota
    BY QuotaType, TimesType DEF LimiterInv, LimiterTypeOK
  <2> QED BY <1>1, <1>4, <2>1, AdmitOne
<1>6. \A o \in Keys \ {k} : Recorded(o)' /\ Over(o)'
  BY <1>3, <1>5, SweptRecords
<1>7. Start(k)' = clock BY <1>2, <1>3, TimesType DEF Start
<1>8. Recorded(k)' /\ Over(k)'
  <2>1. clock' = t /\ clock \in Times /\ clock <= t /\ clock \in Nat
    BY TimesType DEF LimiterInv, LimiterTypeOK
  <2>2. \A a \in admitted : a.start \in Nat BY DEF LimiterInv, LimiterTypeOK, Times
  <2>3. \A a \in admitted' : a.key = k =>
          a.start <= clock /\ (a.start = clock => a.number <= 1)
    BY <1>4, <1>5, <2>1, <2>2
  <2>4. \A n \in 1 .. Quota : n <= 1 => n = 1 OBVIOUS
  <2>5. Recorded(k)'
    BY <1>2, <1>3, <1>5, <1>7, <2>1, <2>3, <2>4 DEF Recorded
  <2>6. Over(k)' BY <1>2, <1>3 DEF Over
  <2> QED BY <2>5, <2>6
<1>9. LimiterTypeOK' BY <1>3, <1>5, TimesType DEF LimiterTypeOK, Admission
<1> QED BY <1>5, <1>6, <1>8, <1>9 DEF LimiterInv

\* The record of k after one more request.
LEMMA CountedRecord ==
  ASSUME LimiterInv, NEW k \in Keys, NEW t \in clock .. MaxTime,
         store[k] # NoRecord, store' = Counted(k, t)
  PROVE  /\ store' \in [Keys -> [count : Nat \ {0}, resetAt : Nat] \union {NoRecord}]
         /\ \A o \in Keys \ {k} : store'[o] = Swept(t)[o]
         /\ \/ Expired(k, t) /\ store'[k] = NoRecord
            \/ /\ ~Expired(k, t) /\ store'[k] # NoRecord
               /\ store'[k].count = store[k].count + 1 /\ Start(k)' = Start(k)
<1> DEFINE more == [store[k] EXCEPT !.count = @ + 1]
<1>1. /\ more \in [count : Nat \ {0}, resetAt : Nat] /\ more # NoRecord
      /\ more.count = store[k].count + 1 /\ more.resetAt = store[k].resetAt
  <2>1. store[k] \in [count : Nat \ {0}, resetAt : Nat]
    BY DEF LimiterInv, LimiterTypeOK
  <2>2. store[k].count + 1 \in Nat \ {0} BY <2>1
  <2> QED BY <2>1, <2>2 DEF NoRecord
<1>2. store' = [o \in Keys |-> IF o = k /\ ~Expired(k, t) THEN more ELSE Swept(t)[o]]
  BY DEF Counted
<1> HIDE DEF more
<1>3. Expired(k, t) => Swept(t)[k] = NoRecord BY DEF Swept
<1> QED BY <1>1, <1>2, <1>3, SweptType DEF Start

LEMMA PassInv ==
  ASSUME LimiterInv, NEW k \in Keys, NEW t \in clock .. MaxTime, clock' = t, Pass(k, t)
  PROVE  LimiterInv'
<1> DEFINE n == store[k].count + 1
           s == Start(k)
<1>1. /\ store[k] # NoRecord /\ ~Expired(k, clock) /\ store[k].count < Limit
      /\ store' = Counted(k, t) /\ Admit(k, s, n)
  BY DEF Pass
<1>2. /\ store[k].count \in Nat \ {0} /\ n \in 1 .. Quota /\ n \in Nat
      /\ s \in Times /\ s \in Nat /\ s <= clock /\ clock <= s + WindowMs
      /\ Start(k) + WindowMs = store[k].resetAt
  <2>1. /\ store[k].count \in Nat \ {0} /\ s + WindowMs = store[k].resetAt
        /\ store[k].resetAt \in Nat
    BY <1>1, RecordType DEF LimiterInv
  <2>2. n \in 1 .. Quota BY <1>1, <2>1, QuotaType
  <2>3. s \in Times /\ s <= clock BY <1>1 DEF LimiterInv, Recorded
  <2>4. clock <= s + WindowMs BY <1>1, <2>1, TimesType DEF Expired
  <2> QED BY <2>1, <2>2, <2>3, <2>4 DEF Times
<1>3. PICK c : c = store[k].count OBVIOUS
<1>4. PICK w : w = s OBVIOUS
<1>5. \A a \in admitted : a.key = k =>
        (a.start = w /\ a.number < c + 1) \/ a.start + WindowMs < w
  <2>1. SUFFICES ASSUME NEW a \in admitted, a.key = k
                 PROVE  (a.start = w /\ a.number < c + 1) \/ a.start + WindowMs < w
    OBVIOUS
  <2>2. /\ a.start <= w /\ (a.start = w => a.number <= c)
        /\ a.start \in Nat /\ a.number \in Nat
    BY <1>1, <1>3, <1>4, <2>1 DEF LimiterInv, Recorded, LimiterTypeOK, Times
  <2>3. 1 \in 1 .. Quota /\ 1 <= c BY <1>2, <1>3, QuotaType
  <2>4. PICK b \in admitted : b.key = k /\ b.start = w
    BY <1>1, <1>3, <1>4, <2>3 DEF LimiterInv, Recorded
  <2>5. a.start < w => a.start + WindowMs < w
    BY <2>1, <2>4 DEF LimiterInv, Apart
  <2> QED BY <1>2, <1>3, <1>4, <2>2, <2>5
<1>6. /\ admitted' \subseteq Admission /\ IsFiniteSet(admitted')
      /\ InWindow' /\ Numbered' /\ Apart'
      /\ admitted \subseteq admitted'
      /\ \A a \in admitted' : a.key # k => a \in admitted
      /\ \A a \in admitted' : a.key = k =>
           a \in admitted \/ (a.start = w /\ a.number = c + 1)
      /\ \E a \in admitted' : a.key = k /\ a.start = w /\ a.number = c + 1
  BY <1>1, <1>2, <1>3, <1>4, <1>5, AdmitOne
<1> HIDE DEF n, s
<1>7. /\ store' \in [Keys -> [count : Nat \ {0}, resetAt : Nat] \union {NoRecord}]
      /\ \A o \in Keys \ {k} : store'[o] = Swept(t)[o]
      /\ \/ Expired(k, t) /\ store'[k] = NoRecord
         \/ /\ ~Expired(k, t) /\ store'[k] # NoRecord
            /\ store'[k].count = c + 1 /\ Start(k)' = w
  BY <1>1, <1>3, <1>4, CountedRecord DEF s
<1>8. \A o \in Keys \ {k} : Recorded(o)' /\ Over(o)'
  BY <1>6, <1>7, SweptRecords
<1>9. c \in Nat /\ w \in Nat /\ w \in Times /\ w <= clock
  BY <1>2, <1>3, <1>4
<1>10. \A a \in admitted' : a.key = k => a.start \in Nat /\ a.number \in Nat
        /\ a.start <= w /\ (a.start = w => a.number <= c + 1)
  <2>1. \A a \in admitted' : a.start \in Nat /\ a.number \in Nat
    BY <1>6 DEF Admission, Times
  <2> QED BY <1>5, <1>6, <1>9, <2>1
<1>11. Recorded(k)'
  <2>1. SUFFICES ASSUME store'[k] # NoRecord PROVE Recorded(k)' BY DEF Recorded
  <2>2. store'[k].count = c + 1 /\ Start(k)' = w BY <1>7, <2>1
  <2>3. ASSUME NEW m \in 1 .. Quota, m <= c + 1
        PROVE  \E a \in admitted' : a.key = k /\ a.start = w /\ a.number = m
    <3>1. CASE m <= c
      BY <1>1, <1>3, <1>4, <1>6, <3>1 DEF LimiterInv, Recorded, s
    <3>2. CASE m = c + 1 BY <1>6, <3>2
    <3> QED BY <1>9, <2>3, <3>1, <3>2
  <2> QED BY <1>9, <1>10, <2>2, <2>3, TimesType DEF Recorded
<1>12. Over(k)'
  <2>1. SUFFICES ASSUME store'[k] = NoRecord PROVE Over(k)' BY DEF Over
  <2>2. w + WindowMs < t BY <1>2, <1>4, <1>7, <2>1 DEF Expired, s
  <2> QED BY <1>9, <1>10, <2>2, TimesType DEF Over
<1>13. LimiterTypeOK' BY <1>6, <1>7, TimesType DEF LimiterTypeOK, Admission
<1> QED BY <1>6, <1>8, <1>11, <1>12, <1>13 DEF LimiterInv

LEMMA RefuseInv ==
  ASSUME LimiterInv, NEW k \in Keys, NEW t \in clock .. MaxTime, clock' = t, Refuse(k, t)
  PROVE  LimiterInv'
<1>1. /\ store[k] # NoRecord /\ store[k].count >= Limit
      /\ store' = Counted(k, t) /\ admitted' = admitted
  BY DEF Refuse
<1>2. PICK c, w : c = store[k].count /\ w = Start(k) OBVIOUS
<1>3. /\ c \in Nat \ {0} /\ c >= Limit /\ w \in Times /\ w \in Nat /\ w <= clock
      /\ w + WindowMs = store[k].resetAt
      /\ \A a \in admitted : a.key = k => a.start <= w /\ (a.start = w => a.number <= c)
      /\ \A n \in 1 .. Quota : n <= c =>
           \E a \in admitted : a.key = k /\ a.start = w /\ a.number = n
  BY <1>1, <1>2, RecordType DEF LimiterInv, Recorded, Times
<1>4. /\ store' \in [Keys -> [count : Nat \ {0}, resetAt : Nat] \union {NoRecord}]
      /\ \A o \in Keys \ {k} : store'[o] = Swept(t)[o]
      /\ \/ Expired(k, t) /\ store'[k] = NoRecord
         \/ /\ ~Expired(k, t) /\ store'[k] # NoRecord
            /\ store'[k].count = c + 1 /\ Start(k)' = w
  BY <1>1, <1>2, CountedRecord
<1>5. \A a \in admitted : a.start \in Nat /\ a.number \in Nat
  BY DEF LimiterInv, LimiterTypeOK, Times
<1>6. \A o \in Keys \ {k} : Recorded(o)' /\ Over(o)' BY <1>1, <1>4, SweptRecords
<1>7. Recorded(k)'
  <2>1. SUFFICES ASSUME store'[k] # NoRecord PROVE Recorded(k)' BY DEF Recorded
  <2>2. store'[k].count = c + 1 /\ Start(k)' = w BY <1>4, <2>1
  <2>3. ASSUME NEW n \in 1 .. Quota
        PROVE  \E a \in admitted : a.key = k /\ a.start = w /\ a.number = n
    BY <1>3, <2>3 DEF Quota
  <2>4. \A a \in admitted : a.key = k => a.start <= w /\ (a.start = w => a.number <= c + 1)
    BY <1>3, <1>5
  <2> QED BY <1>1, <1>3, <2>2, <2>3, <2>4, TimesType DEF Recorded
<1>8. Over(k)'
  <2>1. SUFFICES ASSUME store'[k] = NoRecord PROVE Over(k)' BY DEF Over
  <2>2. w + WindowMs < t BY <1>3, <1>4, <2>1 DEF Expired
  <2> QED BY <1>1, <1>3, <1>5, <2>2, TimesType DEF Over
<1>9. LimiterTypeOK' /\ InWindow' /\ Numbered' /\ Apart' /\ IsFiniteSet(admitted')
  BY <1>1, <1>4, TimesType DEF LimiterInv, LimiterTypeOK, InWindow, Numbered, Apart
<1> QED BY <1>6, <1>7, <1>8, <1>9 DEF LimiterInv

LEMMA TickInv == ASSUME LimiterInv, Tick PROVE LimiterInv'
<1>1. /\ clock \in Nat /\ clock < MaxTime /\ clock' = clock + 1
      /\ store' = store /\ admitted' = admitted
  BY DEF Tick, LimiterInv, LimiterTypeOK, Times
<1>2. LimiterTypeOK' /\ InWindow' /\ Numbered' /\ Apart' /\ IsFiniteSet(admitted')
  BY <1>1 DEF LimiterInv, LimiterTypeOK, InWindow, Numbered, Apart, Times
<1>3. ASSUME NEW k \in Keys PROVE Recorded(k)' /\ Over(k)'
  <2>1. Recorded(k) /\ Over(k) BY DEF LimiterInv
  <2>2. Start(k)' = Start(k) BY <1>1 DEF Start
  <2>3. Recorded(k)' BY <1>1, <2>1, <2>2 DEF Recorded, Times
  <2>4. \A a \in admitted : a.start \in Nat BY DEF LimiterInv, LimiterTypeOK, Times
  <2>5. Over(k)' BY <1>1, <2>1, <2>4 DEF Over
  <2> QED BY <2>3, <2>5
<1> QED BY <1>2, <1>3 DEF LimiterInv

LEMMA InitInv == LimiterInit => LimiterInv
<1> SUFFICES ASSUME LimiterInit PROVE LimiterInv OBVIOUS
<1>1. clock = 0 /\ store = [k \in Keys |-> NoRecord] /\ admitted = {} BY DEF LimiterInit
<1>2. IsFiniteSet(admitted) BY <1>1, FS_EmptySet
<1> QED BY <1>1, <1>2 DEF LimiterInv, LimiterTypeOK, Times, InWindow, Numbered, Apart,
           Recorded, Over

LEMMA NextInv == LimiterInv /\ [LimiterNext]_limiter => LimiterInv'
<1> SUFFICES ASSUME LimiterInv, [LimiterNext]_limiter PROVE LimiterInv' OBVIOUS
<1>1. CASE Tick BY <1>1, TickInv
<1>2. ASSUME NEW k \in Keys, NEW t \in clock .. MaxTime, Intercept(k, t)
      PROVE  LimiterInv'
  BY <1>2, OpenInv, PassInv, RefuseInv DEF Intercept
<1>3. CASE UNCHANGED limiter
  <2>1. clock' = clock /\ store' = store /\ admitted' = admitted BY <1>3 DEF limiter
  <2>2. \A k \in Keys : Recorded(k)' /\ Over(k)'
    BY <2>1 DEF LimiterInv, Recorded, Over, Start
  <2> QED BY <2>1, <2>2 DEF LimiterInv, LimiterTypeOK, InWindow, Numbered, Apart
<1> QED BY <1>1, <1>2, <1>3 DEF LimiterNext

\* The invariant that the other theorems rest on.
THEOREM LimiterInvariance == LimiterSpec => []LimiterInv
BY InitInv, NextInv, PTL DEF LimiterSpec

\* The store and the admissions have their types; no number goes beyond the quota.
THEOREM LimiterTypeCorrect == LimiterSpec => []LimiterTypeOK
<1>1. LimiterInv => LimiterTypeOK BY DEF LimiterInv
<1> QED BY <1>1, LimiterInvariance, PTL

-----------------------------------------------------------------------------
(* How many pass: the windows of a key are counted by their numbers.       *)

OfWindow(k, w) == {a \in admitted : a.key = k /\ a.start = w}

LEMMA WindowBound ==
  ASSUME LimiterInv, NEW k \in Keys, NEW w
  PROVE  IsFiniteSet(OfWindow(k, w)) /\ Cardinality(OfWindow(k, w)) <= Quota
<1> DEFINE number == [a \in OfWindow(k, w) |-> a.number]
<1>1. number \in [OfWindow(k, w) -> 1 .. Quota]
  BY DEF OfWindow, LimiterInv, LimiterTypeOK
<1>2. \A a, b \in OfWindow(k, w) : number[a] = number[b] => a = b
  BY DEF OfWindow, LimiterInv, Numbered
<1>3. number \in Injection(OfWindow(k, w), 1 .. Quota)
  BY <1>1, <1>2 DEF Injection, IsInjective
<1>4. IsFiniteSet(1 .. Quota) /\ Cardinality(1 .. Quota) = Quota
  BY QuotaType, FS_Interval
<1> QED BY <1>3, <1>4, FS_Injection

\* No three windows meet an interval of length WindowMs.
LEMMA TwoWindows ==
  ASSUME LimiterInv, NEW k \in Keys, NEW from \in Times
  PROVE  \E v, w : Admitted(k, from, from + WindowMs) \subseteq OfWindow(k, v) \union OfWindow(k, w)
<1> DEFINE A == Admitted(k, from, from + WindowMs)
<1>1. ASSUME NEW a \in A
      PROVE  /\ a \in admitted /\ a.key = k /\ a.start \in Nat
             /\ from <= a.start + WindowMs /\ a.start <= from + WindowMs
  BY DEF Admitted, LimiterInv, LimiterTypeOK, InWindow, Times
<1>2. ASSUME NEW a \in A, NEW b \in A, a.start < b.start
      PROVE  a.start + WindowMs < b.start
  BY <1>1, <1>2 DEF LimiterInv, Apart
<1>3. from \in Nat BY DEF Times
<1> HIDE DEF A
<1>4. CASE \A a, b \in A : a.start = b.start
  <2>1. CASE A = {} BY <2>1 DEF A
  <2>2. CASE A # {}
    <3>1. PICK a \in A : TRUE BY <2>2
    <3>2. A \subseteq OfWindow(k, a.start) BY <1>1, <1>4, <3>1 DEF OfWindow
    <3> QED BY <3>2 DEF A
  <2> QED BY <2>1, <2>2
<1>5. CASE \E a, b \in A : a.start # b.start
  <2>1. PICK a \in A, b \in A : a.start < b.start BY <1>1, <1>5
  <2>2. ASSUME NEW c \in A PROVE c.start = a.start \/ c.start = b.start
    <3>1. /\ a.start \in Nat /\ b.start \in Nat /\ c.start \in Nat
          /\ from <= a.start + WindowMs /\ from <= c.start + WindowMs
          /\ b.start <= from + WindowMs /\ c.start <= from + WindowMs
      BY <1>1
    <3>2. a.start + WindowMs < b.start BY <1>2, <2>1
    <3>3. CASE c.start < a.start
      <4>1. c.start + WindowMs < a.start BY <1>2, <3>3
      <4> QED BY <1>3, <3>1, <3>2, <4>1
    <3>4. CASE a.start < c.start /\ c.start < b.start
      <4>1. a.start + WindowMs < c.start /\ c.start + WindowMs < b.start BY <1>2, <3>4
      <4> QED BY <1>3, <3>1, <4>1
    <3>5. CASE b.start < c.start
      <4>1. b.start + WindowMs < c.start BY <1>2, <3>5
      <4> QED BY <1>3, <3>1, <3>2, <4>1
    <3> QED BY <3>1, <3>3, <3>4, <3>5
  <2>3. A \subseteq OfWindow(k, a.start) \union OfWindow(k, b.start)
    BY <1>1, <2>2 DEF OfWindow
  <2> QED BY <2>3 DEF A
<1> QED BY <1>4, <1>5

\* However requests fall on the borders of windows, at most twice the limit passes in
\* any stretch of windowMs.
THEOREM TwiceAtMost == LimiterSpec => []AtMostTwice
<1>1. LimiterInv => AtMostTwice
  <2> SUFFICES ASSUME LimiterInv, NEW k \in Keys, NEW from \in Times
               PROVE  Cardinality(Admitted(k, from, from + WindowMs)) <= 2 * Quota
    BY DEF AtMostTwice
  <2> DEFINE A == Admitted(k, from, from + WindowMs)
  <2>1. PICK v, w : A \subseteq OfWindow(k, v) \union OfWindow(k, w) BY TwoWindows
  <2> DEFINE V == OfWindow(k, v)
             W == OfWindow(k, w)
  <2>2. /\ IsFiniteSet(V) /\ Cardinality(V) <= Quota
        /\ IsFiniteSet(W) /\ Cardinality(W) <= Quota
    BY WindowBound
  <2> HIDE DEF A, V, W
  <2>3. /\ Cardinality(V) \in Nat /\ Cardinality(W) \in Nat
        /\ IsFiniteSet(V \cap W) /\ Cardinality(V \cap W) \in Nat
    BY <2>2, FS_CardinalityType, FS_Intersection
  <2>4. /\ IsFiniteSet(V \union W)
        /\ Cardinality(V \union W) = Cardinality(V) + Cardinality(W) - Cardinality(V \cap W)
    BY <2>2, FS_Union
  <2>5. Cardinality(A) <= Cardinality(V \union W) /\ IsFiniteSet(A)
    BY <2>1, <2>4, FS_Subset DEF V, W
  <2>6. Cardinality(A) \in Nat BY <2>5, FS_CardinalityType
  <2>7. Cardinality(A) <= 2 * Quota BY <2>2, <2>3, <2>4, <2>5, <2>6, QuotaType
  <2> QED BY <2>7 DEF A
<1> QED BY <1>1, LimiterInvariance, PTL

-----------------------------------------------------------------------------
(* What a refusal means.                                                   *)

\* No admission lies in the future.
Past == \A a \in admitted : a.at <= clock

LEMMA PastInvariance == LimiterSpec => []Past
<1>1. LimiterInit => Past BY DEF LimiterInit, Past
<1>2. LimiterInv /\ Past /\ [LimiterNext]_limiter => Past'
  <2> SUFFICES ASSUME LimiterInv, Past, [LimiterNext]_limiter PROVE Past' OBVIOUS
  <2>1. clock \in Nat /\ \A a \in admitted : a.at \in Nat
    BY DEF LimiterInv, LimiterTypeOK, Times
  <2>2. CASE Tick BY <2>1, <2>2 DEF Tick, Past
  <2>3. ASSUME NEW k \in Keys, NEW t \in clock .. MaxTime, Intercept(k, t)
        PROVE  Past'
    <3>1. clock' = t /\ t \in Nat /\ clock <= t BY <2>3, TimesType DEF Intercept
    <3>2. \A a \in admitted' : a \in admitted \/ a.at = clock
      BY <2>3 DEF Intercept, Open, Pass, Refuse, Admit
    <3> QED BY <2>1, <3>1, <3>2 DEF Past
  <2>4. CASE UNCHANGED limiter BY <2>4 DEF limiter, Past
  <2> QED BY <2>2, <2>3, <2>4 DEF LimiterNext
<1> QED BY <1>1, <1>2, LimiterInvariance, PTL DEF LimiterSpec

LEMMA FullQuota ==
  ASSUME LimiterInv, Past, NEW k \in Keys, NEW t, Refuse(k, t)
  PROVE  Cardinality(Admitted(k, clock - WindowMs, clock)) >= Quota
<1> DEFINE A == Admitted(k, clock - WindowMs, clock)
<1>1. /\ store[k] # NoRecord /\ ~Expired(k, clock) /\ store[k].count >= Limit
  BY DEF Refuse
<1>2. /\ store[k].count \in Nat \ {0} /\ store[k].resetAt \in Nat
      /\ Start(k) + WindowMs = store[k].resetAt /\ clock <= store[k].resetAt
      /\ clock \in Nat /\ Start(k) \in Int
  BY <1>1, RecordType DEF LimiterInv, LimiterTypeOK, Expired, Times
<1>3. \A n \in 1 .. Quota : \E a \in A : a.number = n
  <2>1. SUFFICES ASSUME NEW n \in 1 .. Quota PROVE \E a \in A : a.number = n OBVIOUS
  <2>2. n <= store[k].count BY <1>1, <1>2 DEF Quota
  <2>3. PICK a \in admitted : a.key = k /\ a.start = Start(k) /\ a.number = n
    BY <1>1, <2>2 DEF LimiterInv, Recorded
  <2>4. a.start <= a.at /\ a.at <= clock /\ a.at \in Nat
    BY DEF LimiterInv, InWindow, Past, LimiterTypeOK, Times
  <2>5. clock - WindowMs <= a.at BY <1>2, <2>3, <2>4
  <2> QED BY <2>3, <2>4, <2>5 DEF Admitted
<1> HIDE DEF A
<1> DEFINE passed == [n \in 1 .. Quota |-> CHOOSE a \in A : a.number = n]
<1>4. \A n \in 1 .. Quota : passed[n] \in A /\ passed[n].number = n BY <1>3
<1>5. passed \in Injection(1 .. Quota, A)
  <2>1. passed \in [1 .. Quota -> A] BY <1>4
  <2>2. \A n, o \in 1 .. Quota : passed[n] = passed[o] => n = o BY <1>4
  <2> QED BY <2>1, <2>2 DEF Injection, IsInjective
<1>6. IsFiniteSet(A)
  <2>1. A \subseteq admitted BY DEF A, Admitted
  <2> QED BY <2>1, FS_Subset DEF LimiterInv
<1>7. Cardinality(1 .. Quota) = Quota /\ IsFiniteSet(1 .. Quota)
  BY QuotaType, FS_Interval
<1>8. Cardinality(1 .. Quota) <= Cardinality(A) BY <1>5, <1>6, FS_Injection
<1>9. Cardinality(A) \in Nat BY <1>6, FS_CardinalityType
<1> QED BY <1>7, <1>8, <1>9, QuotaType DEF A

\* A request is refused only when the limit was used up in the last windowMs.
THEOREM RefusalsEarned == LimiterSpec => RefusalEarned
<1> DEFINE Earned == \A k \in Keys : (\E t \in clock .. MaxTime : clock' = t /\ Refuse(k, t)) =>
                       Cardinality(Admitted(k, clock - WindowMs, clock)) >= Quota
<1>1. LimiterInv /\ Past /\ [LimiterNext]_limiter => [Earned]_limiter
  BY FullQuota
<1>2. LimiterSpec => [][Earned]_limiter
  BY <1>1, LimiterInvariance, PastInvariance, PTL DEF LimiterSpec
<1> QED BY <1>2 DEF RefusalEarned
=============================================================================
