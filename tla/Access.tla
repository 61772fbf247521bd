-------------------------------- MODULE Access --------------------------------
(***************************************************************************)
(* API tokens.  AuthService creates and revokes them; ApiTokenGuard reads  *)
(* the token of a request, checks it and writes down its use, after which  *)
(* RateLimitInterceptor (module RateLimit) may still refuse the request.   *)
(* A step is the code between two awaits.                                  *)
(*                                                                         *)
(* A token is "tasker" and its number.  Requests with a JWT do not touch   *)
(* the table and are left out.                                             *)
(***************************************************************************)
EXTENDS Integers, FiniteSets

CONSTANTS
  Users,      \* rows of table User; none is ever deleted
  Grants,     \* permissions tokens are created with
  Expiries,   \* the times at which tokens expire
  Needs,      \* the permissions of the endpoints, besides ADMIN
  MaxTokens,  \* bound: numbers of tokens
  MaxTime,    \* bound: the clock
  MaxCalls    \* bound: requests at the same time

Permissions == {"READ", "WRITE", "EXECUTE", "DELETE", "ADMIN"}
ASSUME PermissionAssumption == Grants \subseteq SUBSET Permissions /\ Needs \subseteq Permissions
ASSUME ExpiryAssumption == Expiries \subseteq Nat
ASSUME CallAssumption == MaxTokens \in Nat /\ MaxTime \in Nat /\ MaxCalls \in Nat

VARIABLES
  clock,     \* the time
  apiToken,  \* table ApiToken: the row of each number
  call       \* the requests under way, and the status the last one was answered with

vars == <<clock, apiToken, call>>

-----------------------------------------------------------------------------
Numbers == 1 .. MaxTokens
Calls == 1 .. MaxCalls
Never == -1
NoToken == [userId |-> "none"]
Token == [userId : Users, permissions : Grants, expiresAt : Expiries \union {Never},
          isActive : BOOLEAN]
Exists(n) == apiToken[n] # NoToken
Owned(u) == {n \in Numbers : Exists(n) /\ apiToken[n].userId = u}

\* Neither revoked nor expired.
Usable(row) == row.isActive /\ (row.expiresAt = Never \/ row.expiresAt >= clock)

At(c, point) == call[c].pc = point
Reply(status) == [pc |-> "answered", status |-> status]
Answer(c, status) == call' = [call EXCEPT ![c] = Reply(status)]

\* A request takes the lowest free place.
Begin(c, request) ==
  /\ At(c, "answered") /\ \A o \in Calls : o < c => ~At(o, "answered")
  /\ call' = [call EXCEPT ![c] = request]

\* RequirePermissions(need, ADMIN), every one of which the guard asks for; ADMIN
\* stands for all.
Permitted(row, need) ==
  \A permission \in {need, "ADMIN"} : row.permissions \intersect {permission, "ADMIN"} # {}

-----------------------------------------------------------------------------
Init ==
  /\ clock = 0
  /\ apiToken = [n \in Numbers |-> NoToken]
  /\ call = [c \in Calls |-> Reply(200)]

\* Mutant: the number is one too high.
CountTokensTwice(c, u, permissions, expiresAt) ==
  /\ Cardinality(Owned(u)) < MaxTokens
  /\ Begin(c, [pc |-> "creating", number |-> Cardinality(Owned(u)) + 2,
               row |-> [userId |-> u, permissions |-> permissions,
                        expiresAt |-> expiresAt, isActive |-> TRUE]])
  /\ UNCHANGED <<clock, apiToken>>

\* createApiToken counts the tokens of the user, revoked ones included.
CountTokens(c, u, permissions, expiresAt) ==
  /\ Cardinality(Owned(u)) < MaxTokens
  /\ Begin(c, [pc |-> "creating", number |-> Cardinality(Owned(u)) + 1,
               row |-> [userId |-> u, permissions |-> permissions,
                        expiresAt |-> expiresAt, isActive |-> TRUE]])
  /\ UNCHANGED <<clock, apiToken>>

\* Mutant: an upsert instead of the insertion.
CreateOrReplace(c) ==
  /\ At(c, "creating")
  /\ apiToken' = [apiToken EXCEPT ![call[c].number] = call[c].row]
  /\ Answer(c, 201)
  /\ UNCHANGED clock

\* The insertion: a number is used once, by whichever user.  Its answer may be lost.
Create(c) ==
  /\ At(c, "creating")
  /\ \/ /\ ~Exists(call[c].number)
        /\ apiToken' = [apiToken EXCEPT ![call[c].number] = call[c].row]
        /\ \E status \in {201, 500} : Answer(c, status)
     \/ Answer(c, 500) /\ UNCHANGED apiToken
  /\ UNCHANGED clock

\* revokeApiToken finds the token among those of the user.
FindToken(c, u, n) ==
  /\ n \in Owned(u)
  /\ Begin(c, [pc |-> "revoking", number |-> n])
  /\ UNCHANGED <<clock, apiToken>>

Revoke(c) ==
  /\ At(c, "revoking")
  /\ \/ /\ apiToken' = [apiToken EXCEPT ![call[c].number].isActive = FALSE]
        /\ \E status \in {200, 500} : Answer(c, status)
     \/ UNCHANGED apiToken /\ Answer(c, 500)
  /\ UNCHANGED clock

\* A request with token n for an endpoint that needs a permission.  History: whether
\* the token had been revoked, or had expired, when the request came in.
Arrive(c, n, need) ==
  /\ Begin(c, [pc |-> "presented", number |-> n, need |-> need,
               late |-> Exists(n) /\ ~Usable(apiToken[n])])
  /\ UNCHANGED <<clock, apiToken>>

PassOn(c) == call' = [call EXCEPT ![c].pc = "noting"]

\* Mutant: a token that never expires is honoured even after it has been revoked.
HonouredForever(n) == Exists(n) /\ (apiToken[n].expiresAt = Never \/ Usable(apiToken[n]))

\* The answer is not 401.
Honoured(n) == Exists(n) /\ Usable(apiToken[n])

\* authenticateWithApiToken, up to its last await; the query may fail.
Authenticate(c) ==
  /\ At(c, "presented")
  /\ LET n == call[c].number
     IN  \/ ~Honoured(n) /\ Answer(c, 401)
         \/ Honoured(n) /\ ~Permitted(apiToken[n], call[c].need) /\ Answer(c, 403)
         \/ Honoured(n) /\ Permitted(apiToken[n], call[c].need) /\ PassOn(c)
         \/ Answer(c, 500)
  /\ UNCHANGED <<clock, apiToken>>

\* lastUsedAt has been written, and the request goes on to its handler; the limiter
\* may refuse it and the update may fail.
Note(c) ==
  /\ At(c, "noting")
  /\ \E status \in {200, 429, 500} : Answer(c, status)
  /\ UNCHANGED <<clock, apiToken>>

Tick == clock < MaxTime /\ clock' = clock + 1 /\ UNCHANGED <<apiToken, call>>

Step(c) == Create(c) \/ Revoke(c) \/ Authenticate(c) \/ Note(c)

Next ==
  \/ \E c \in Calls : Step(c)
  \/ \E c \in Calls, u \in Users, permissions \in Grants, e \in Expiries \union {Never} :
       CountTokens(c, u, permissions, e)
  \/ \E c \in Calls, u \in Users, n \in Numbers : FindToken(c, u, n)
  \/ \E c \in Calls, n \in Numbers, need \in Needs : Arrive(c, n, need)
  \/ Tick

Spec == Init /\ [][Next]_vars

-----------------------------------------------------------------------------
(* What the guard and the table promise.                                   *)

RequestType ==
  [pc : {"answered"}, status : {200, 201, 401, 403, 429, 500}] \union
  [pc : {"creating"}, number : Numbers, row : Token] \union
  [pc : {"revoking"}, number : Numbers] \union
  [pc : {"presented", "noting"}, number : Numbers, need : Needs, late : BOOLEAN]

TypeOK ==
  /\ clock \in 0 .. MaxTime
  /\ apiToken \in [Numbers -> Token \union {NoToken}]
  /\ call \in [Calls -> RequestType]

\* A token keeps its user, permissions and expiry for good, and once revoked it stays
\* so, although two creations may choose the same number and a revocation works on a
\* row that was found earlier.
TokensKept ==
  [][\A n \in Numbers : Exists(n) =>
       apiToken'[n] \in {apiToken[n], [apiToken[n] EXCEPT !.isActive = FALSE]}]_vars

\* A request that came in after its token had been revoked, or had expired, never
\* gets past the guard, although the guard reads the token later than that.
LateIsRefused == \A c \in Calls : At(c, "noting") => ~call[c].late

-----------------------------------------------------------------------------
(* What the documents say and the code does not do.                        *)

\* README.md: "POST /auth/tokens - Create API token (requires JWT)": when no other
\* creation is under way, a user who asks for a token is given a number that no token
\* has, so that the insertion can succeed.
NumberIsFree ==
  [][\A c \in Calls :
       /\ At(c, "answered") /\ call'[c].pc = "creating"
       /\ \A o \in Calls : ~At(o, "creating")
       => ~Exists(call'[c].number)]_vars
=============================================================================
