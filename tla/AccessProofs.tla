------------------------------ MODULE AccessProofs ------------------------------
(***************************************************************************)
(* API tokens for any number of users, tokens, requests and permissions.   *)
(***************************************************************************)
EXTENDS Access, TLAPS, FiniteSetTheorems

\* A revocation has found its token.
Found(c) == At(c, "revoking") => Exists(call[c].number)

\* A token that was of no use when the request came in is of none now.
StaysLate(c) ==
  /\ At(c, "presented") /\ call[c].late => Exists(call[c].number) /\ ~Usable(apiToken[call[c].number])
  /\ At(c, "noting") => ~call[c].late

AccessInv ==
  /\ TypeOK
  /\ \A c \in Calls : Found(c) /\ StaysLate(c)

USE PermissionAssumption, ExpiryAssumption, CallAssumption

-----------------------------------------------------------------------------
LEMMA InitInv == Init => AccessInv
<1> SUFFICES ASSUME Init PROVE AccessInv OBVIOUS
<1>1. /\ clock = 0 /\ apiToken = [n \in Numbers |-> NoToken]
      /\ call = [c \in Calls |-> [pc |-> "answered", status |-> 200]]
  BY DEF Init, Reply
<1>2. TypeOK BY <1>1 DEF TypeOK, RequestType
<1>3. \A c \in Calls : Found(c) /\ StaysLate(c)
  BY <1>1 DEF Found, StaysLate, At
<1> QED BY <1>2, <1>3 DEF AccessInv

\* A creation within the bound chooses one of the numbers.
LEMMA NextNumber ==
  ASSUME NEW u \in Users, Cardinality(Owned(u)) < MaxTokens
  PROVE  Cardinality(Owned(u)) + 1 \in Numbers
<1>1. IsFiniteSet(Numbers) BY FS_Interval DEF Numbers
<1>2. IsFiniteSet(Owned(u)) BY <1>1, FS_Subset DEF Owned
<1>3. Cardinality(Owned(u)) \in Nat BY <1>2, FS_CardinalityType
<1> QED BY <1>3 DEF Numbers

\* Between two steps only the place of one request changes.
LEMMA OthersKeep ==
  ASSUME AccessInv, NEW c \in Calls, NEW d \in Calls \ {c}, call'[d] = call[d],
         clock' = clock, \A n \in Numbers : Exists(n) =>
           Exists(n)' /\ (~Usable(apiToken[n]) => ~Usable(apiToken[n])')
  PROVE  Found(d)' /\ StaysLate(d)'
<1>1. Found(d) /\ StaysLate(d) /\ call[d] \in RequestType
  BY DEF AccessInv, TypeOK
<1>2. Found(d)' BY <1>1 DEF Found, At, RequestType
<1>3. StaysLate(d)' BY <1>1 DEF StaysLate, At, RequestType
<1> QED BY <1>2, <1>3

\* A step that only moves request c on, to x.
LEMMA Moved ==
  ASSUME AccessInv, NEW c \in Calls, NEW x \in RequestType, call' = [call EXCEPT ![c] = x],
         UNCHANGED <<clock, apiToken>>,
         x.pc = "revoking" => Exists(x.number),
         x.pc = "presented" /\ x.late => Exists(x.number) /\ ~Usable(apiToken[x.number]),
         x.pc = "noting" => ~x.late
  PROVE  AccessInv'
<1>1. /\ call' \in [Calls -> RequestType] /\ call'[c] = x
      /\ \A d \in Calls \ {c} : call'[d] = call[d]
  BY DEF AccessInv, TypeOK
<1>2. clock' = clock /\ apiToken' = apiToken OBVIOUS
<1>3. TypeOK'
  BY <1>1, <1>2 DEF AccessInv, TypeOK
<1>4. \A d \in Calls \ {c} : Found(d)' /\ StaysLate(d)'
  <2>1. \A n \in Numbers : Exists(n) =>
          Exists(n)' /\ (~Usable(apiToken[n]) => ~Usable(apiToken[n])')
    BY <1>2 DEF Exists, Usable
  <2> QED BY <1>1, <1>2, <2>1, OthersKeep
<1>5. Found(c)' /\ StaysLate(c)'
  BY <1>1, <1>2 DEF Found, StaysLate, At, Exists, Usable
<1> QED BY <1>3, <1>4, <1>5 DEF AccessInv

LEMMA Answered ==
  ASSUME AccessInv, NEW c \in Calls, NEW status \in {200, 201, 401, 403, 429, 500},
         Answer(c, status), UNCHANGED <<clock, apiToken>>
  PROVE  AccessInv'
<1>1. Reply(status) \in RequestType /\ Reply(status).pc = "answered"
  BY DEF Reply, RequestType
<1> QED BY <1>1, Moved DEF Answer

LEMMA BeginInv ==
  ASSUME AccessInv, NEW c \in Calls
  PROVE  /\ \A u \in Users, permissions \in Grants, e \in Expiries \union {Never} :
              CountTokens(c, u, permissions, e) => AccessInv'
         /\ \A u \in Users, n \in Numbers : FindToken(c, u, n) => AccessInv'
         /\ \A n \in Numbers, need \in Needs : Arrive(c, n, need) => AccessInv'
<1>1. ASSUME NEW u \in Users, NEW permissions \in Grants, NEW e \in Expiries \union {Never},
             CountTokens(c, u, permissions, e)
      PROVE  AccessInv'
  <2> DEFINE row == [userId |-> u, permissions |-> permissions, expiresAt |-> e, isActive |-> TRUE]
             x == [pc |-> "creating", number |-> Cardinality(Owned(u)) + 1, row |-> row]
  <2>1. /\ Cardinality(Owned(u)) < MaxTokens /\ call' = [call EXCEPT ![c] = x]
        /\ UNCHANGED <<clock, apiToken>>
    BY <1>1 DEF CountTokens, Begin
  <2>2. row \in Token /\ row.userId = u BY DEF Token
  <2> HIDE DEF row
  <2>3. x \in RequestType BY <2>1, <2>2, NextNumber DEF RequestType
  <2> QED BY <2>1, <2>3, Moved
<1>2. ASSUME NEW u \in Users, NEW n \in Numbers, FindToken(c, u, n) PROVE AccessInv'
  <2> DEFINE x == [pc |-> "revoking", number |-> n]
  <2>1. /\ n \in Owned(u) /\ call' = [call EXCEPT ![c] = x] /\ UNCHANGED <<clock, apiToken>>
    BY <1>2 DEF FindToken, Begin
  <2>2. x \in RequestType BY DEF RequestType
  <2>3. Exists(x.number) BY <2>1 DEF Owned
  <2> QED BY <2>1, <2>2, <2>3, Moved
<1>3. ASSUME NEW n \in Numbers, NEW need \in Needs, Arrive(c, n, need) PROVE AccessInv'
  <2> DEFINE x == [pc |-> "presented", number |-> n, need |-> need,
                   late |-> Exists(n) /\ ~Usable(apiToken[n])]
  <2>1. call' = [call EXCEPT ![c] = x] /\ UNCHANGED <<clock, apiToken>>
    BY <1>3 DEF Arrive, Begin
  <2>2. x \in RequestType BY DEF RequestType
  <2>3. x.late => Exists(x.number) /\ ~Usable(apiToken[x.number]) OBVIOUS
  <2> QED BY <2>1, <2>2, <2>3, Moved
<1> QED BY <1>1, <1>2, <1>3

LEMMA CreateInv == ASSUME AccessInv, NEW c \in Calls, Create(c) PROVE AccessInv'
<1>1. CASE Answer(c, 500) /\ UNCHANGED <<clock, apiToken>> BY <1>1, Answered
<1>2. CASE /\ ~Exists(call[c].number)
           /\ apiToken' = [apiToken EXCEPT ![call[c].number] = call[c].row]
           /\ \E status \in {201, 500} : Answer(c, status)
           /\ clock' = clock
  <2>1. PICK status \in {201, 500} : Answer(c, status) BY <1>2
  <2>2. /\ call' \in [Calls -> RequestType] /\ call'[c].pc = "answered"
        /\ \A d \in Calls \ {c} : call'[d] = call[d]
    BY <2>1 DEF Answer, Reply, RequestType, AccessInv, TypeOK
  <2>3. PICK j, row : j = call[c].number /\ row = call[c].row OBVIOUS
  <2>4. /\ j \in Numbers /\ row \in Token
    BY <2>3 DEF Create, At, RequestType, AccessInv, TypeOK
  <2>5. /\ ~Exists(j) /\ apiToken \in [Numbers -> Token \union {NoToken}]
        /\ apiToken' = [apiToken EXCEPT ![j] = row]
    BY <1>2, <2>3 DEF AccessInv, TypeOK
  <2>6. row # NoToken
    <3>1. row.userId \in Users /\ row = [userId |-> row.userId, permissions |-> row.permissions,
                                         expiresAt |-> row.expiresAt, isActive |-> row.isActive]
      BY <2>4 DEF Token
    <3> QED BY <3>1 DEF NoToken
  <2>7. Exists(j)' /\ apiToken'[j] = row
    BY <2>4, <2>5, <2>6 DEF Exists
  <2>8. \A n \in Numbers \ {j} : apiToken'[n] = apiToken[n] /\ (Exists(n)' <=> Exists(n))
    BY <2>5 DEF Exists
  <2>9. TypeOK'
    <3>1. clock \in 0 .. MaxTime BY DEF AccessInv, TypeOK
    <3>2. apiToken' \in [Numbers -> Token \union {NoToken}] BY <2>4, <2>5
    <3> QED BY <1>2, <2>2, <3>1, <3>2 DEF TypeOK
  <2>10. \A d \in Calls \ {c} : Found(d)' /\ StaysLate(d)'
    <3>1. \A n \in Numbers : Exists(n) =>
            Exists(n)' /\ (~Usable(apiToken[n]) => ~Usable(apiToken[n])')
      BY <1>2, <2>5, <2>8 DEF Usable
    <3> QED BY <1>2, <2>2, <3>1, OthersKeep
  <2>11. Found(c)' /\ StaysLate(c)'
    BY <2>2 DEF Found, StaysLate, At
  <2> QED BY <2>9, <2>10, <2>11 DEF AccessInv
<1> QED BY <1>1, <1>2 DEF Create

LEMMA RevokeInv == ASSUME AccessInv, NEW c \in Calls, Revoke(c) PROVE AccessInv'
<1>1. CASE Answer(c, 500) /\ UNCHANGED <<clock, apiToken>> BY <1>1, Answered
<1>2. CASE /\ apiToken' = [apiToken EXCEPT ![call[c].number].isActive = FALSE]
           /\ \E status \in {200, 500} : Answer(c, status)
           /\ clock' = clock
  <2>1. PICK status \in {200, 500} : Answer(c, status) BY <1>2
  <2>2. /\ call' \in [Calls -> RequestType] /\ call'[c].pc = "answered"
        /\ \A d \in Calls \ {c} : call'[d] = call[d]
    BY <2>1 DEF Answer, Reply, RequestType, AccessInv, TypeOK
  <2>3. PICK j : j = call[c].number OBVIOUS
  <2>4. j \in Numbers /\ Exists(j)
    BY <2>3 DEF Revoke, At, RequestType, AccessInv, TypeOK, Found
  <2>5. PICK row \in Token : row = apiToken[j]
    BY <2>4 DEF AccessInv, TypeOK, Exists
  <2>6. PICK revoked : revoked = [row EXCEPT !.isActive = FALSE] OBVIOUS
  <2>7. /\ revoked \in Token /\ revoked.userId = row.userId /\ ~revoked.isActive
    BY <2>6 DEF Token
  <2>8. revoked # NoToken
    <3>1. revoked = [userId |-> revoked.userId, permissions |-> revoked.permissions,
                     expiresAt |-> revoked.expiresAt, isActive |-> revoked.isActive]
      BY <2>7 DEF Token
    <3> QED BY <3>1 DEF NoToken
  <2>9. /\ apiToken \in [Numbers -> Token \union {NoToken}]
        /\ apiToken' = [apiToken EXCEPT ![j] = revoked]
    BY <1>2, <2>3, <2>5, <2>6 DEF AccessInv, TypeOK
  <2>10. /\ Exists(j)' /\ apiToken'[j] = revoked
         /\ \A n \in Numbers \ {j} : apiToken'[n] = apiToken[n]
    BY <2>4, <2>8, <2>9 DEF Exists
  <2>11. \A n \in Numbers : Exists(n)' <=> Exists(n)  BY <2>4, <2>10 DEF Exists
  <2>12. TypeOK'
    <3>1. clock \in 0 .. MaxTime BY DEF AccessInv, TypeOK
    <3>2. apiToken' \in [Numbers -> Token \union {NoToken}] BY <2>4, <2>7, <2>9
    <3> QED BY <1>2, <2>2, <3>1, <3>2 DEF TypeOK
  <2>14. \A d \in Calls \ {c} : Found(d)' /\ StaysLate(d)'
    <3>1. \A n \in Numbers : ~Usable(apiToken[n]) => ~Usable(apiToken[n])'
      BY <1>2, <2>7, <2>10 DEF Usable
    <3> QED BY <1>2, <2>2, <2>11, <3>1, OthersKeep
  <2>15. Found(c)' /\ StaysLate(c)'
    BY <2>2 DEF Found, StaysLate, At
  <2> QED BY <2>12, <2>14, <2>15 DEF AccessInv
<1> QED BY <1>1, <1>2 DEF Revoke

LEMMA AuthenticateInv == ASSUME AccessInv, NEW c \in Calls, Authenticate(c) PROVE AccessInv'
<1>1. CASE \E status \in {401, 403, 500} : Answer(c, status)
  BY <1>1, Answered DEF Authenticate
<1>2. CASE Honoured(call[c].number) /\ PassOn(c)
  <2> DEFINE x == [call[c] EXCEPT !.pc = "noting"]
  <2>1. /\ call' = [call EXCEPT ![c] = x] /\ UNCHANGED <<clock, apiToken>>
        /\ At(c, "presented") /\ call[c] \in RequestType /\ StaysLate(c)
    BY <1>2 DEF PassOn, Authenticate, AccessInv, TypeOK
  <2>2. x \in RequestType /\ x.pc = "noting" /\ x.late = call[c].late
    BY <2>1 DEF At, RequestType
  <2>3. ~call[c].late BY <1>2, <2>1 DEF StaysLate, Honoured
  <2> HIDE DEF x
  <2> QED BY <2>1, <2>2, <2>3, Moved
<1> QED BY <1>1, <1>2 DEF Authenticate

LEMMA TickInv == ASSUME AccessInv, Tick PROVE AccessInv'
<1>1. /\ clock \in Nat /\ clock' = clock + 1 /\ clock' \in 0 .. MaxTime
      /\ apiToken' = apiToken /\ call' = call
  BY DEF Tick, AccessInv, TypeOK
<1>2. TypeOK'  BY <1>1 DEF AccessInv, TypeOK
<1>3. ASSUME NEW n \in Numbers, Exists(n), ~Usable(apiToken[n])
      PROVE  ~Usable(apiToken[n])'
  <2>1. apiToken[n] \in Token BY <1>3 DEF AccessInv, TypeOK, Exists
  <2>2. apiToken[n].expiresAt \in Expiries \union {Never} BY <2>1 DEF Token
  <2>3. Never \in Int BY DEF Never
  <2>4. PICK e : e = apiToken[n].expiresAt OBVIOUS
  <2>5. e \in Int
    <3>1. e \in Expiries => e \in Int BY ExpiryAssumption
    <3> QED BY <2>2, <2>3, <2>4, <3>1, Zenon
  <2> QED BY <1>1, <1>3, <2>4, <2>5 DEF Usable
<1>4. ASSUME NEW c \in Calls PROVE Found(c)' /\ StaysLate(c)'
  <2>1. Found(c) /\ StaysLate(c) /\ call[c] \in RequestType
    BY DEF AccessInv, TypeOK
  <2>2. Found(c)' BY <1>1, <2>1 DEF Found, At, Exists
  <2>3. StaysLate(c)' BY <1>1, <1>3, <2>1 DEF StaysLate, At, Exists, RequestType
  <2> QED BY <2>2, <2>3
<1> QED BY <1>2, <1>4 DEF AccessInv

LEMMA NextInv == AccessInv /\ [Next]_vars => AccessInv'
<1> SUFFICES ASSUME AccessInv, [Next]_vars PROVE AccessInv' OBVIOUS
<1>1. ASSUME NEW c \in Calls, Step(c) PROVE AccessInv'
  <2>1. CASE Note(c) BY <2>1, Answered DEF Note
  <2> QED BY <1>1, <2>1, CreateInv, RevokeInv, AuthenticateInv DEF Step
<1>2. CASE UNCHANGED vars
  <2>1. clock' = clock /\ apiToken' = apiToken /\ call' = call BY <1>2 DEF vars
  <2>2. \A c \in Calls : Found(c)' /\ StaysLate(c)'
    BY <2>1 DEF AccessInv, Found, StaysLate, At, Exists, Usable
  <2> QED BY <2>1, <2>2 DEF AccessInv, TypeOK
<1> QED BY <1>1, <1>2, BeginInv, TickInv DEF Next

\* The invariant that the other theorems rest on.
THEOREM AccessInvariance == Spec => []AccessInv
BY InitInv, NextInv, PTL DEF Spec

\* Rows and requests have their types, so that a number never exceeds the tokens there are.
THEOREM AccessTypeCorrect == Spec => []TypeOK
<1>1. AccessInv => TypeOK BY DEF AccessInv
<1> QED BY <1>1, AccessInvariance, PTL

Kept == \A n \in Numbers : Exists(n) =>
  apiToken'[n] \in {apiToken[n], [apiToken[n] EXCEPT !.isActive = FALSE]}

\* The row of a token never changes but by its revocation, which is final.
THEOREM TokensStay == Spec => TokensKept
<1>1. ASSUME AccessInv, [Next]_vars, NEW n \in Numbers, Exists(n)
      PROVE  apiToken'[n] \in {apiToken[n], [apiToken[n] EXCEPT !.isActive = FALSE]}
  <2>1. apiToken \in [Numbers -> Token \union {NoToken}]  BY <1>1 DEF AccessInv, TypeOK
  <2>2. ASSUME NEW c \in Calls, Create(c) PROVE apiToken'[n] = apiToken[n]
    BY <1>1, <2>1, <2>2 DEF Create
  <2>3. ASSUME NEW c \in Calls, Revoke(c)
        PROVE  apiToken'[n] \in {apiToken[n], [apiToken[n] EXCEPT !.isActive = FALSE]}
    <3>1. CASE apiToken' = [apiToken EXCEPT ![call[c].number].isActive = FALSE]
      BY <2>1, <3>1
    <3> QED BY <2>3, <3>1 DEF Revoke
  <2>4. CASE UNCHANGED apiToken  BY <2>4
  <2> QED BY <1>1, <2>2, <2>3, <2>4
          DEF Next, Step, Authenticate, Note, CountTokens, FindToken, Arrive, Tick, vars
<1>2. AccessInv /\ [Next]_vars => [Kept]_vars  BY <1>1 DEF Kept
<1>3. Spec => [][Kept]_vars  BY <1>2, AccessInvariance, PTL DEF Spec
<1> QED BY <1>3 DEF TokensKept, Kept

\* No request gets past the guard that came in after its token was of no more use.
THEOREM LateNeverPasses == Spec => []LateIsRefused
<1>1. AccessInv => LateIsRefused BY DEF AccessInv, StaysLate, LateIsRefused
<1> QED BY <1>1, AccessInvariance, PTL
=============================================================================
