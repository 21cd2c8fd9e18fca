--------------------------- MODULE ServicesProofs ---------------------------
(* The services of the user's tables, each for any number of handlers.      *)
EXTENDS MCServices, TLAPS

(* What a step of one handler does to the others: nothing. *)
LEMMA GoesFact ==
    ASSUME DOMAIN request = Requests, NEW r \in Requests, NEW h, Goes(r, h)
    PROVE  /\ DOMAIN request' = Requests
           /\ request'[r] = h
           /\ \A q \in Requests \ {r} : request'[q] = request[q]
BY DEF Goes

-----------------------------------------------------------------------------
(* API tokens.  A token that is there was created, and a handler holds a    *)
(* use that was counted.                                                    *)
TokenRequest == [pc : {"user", "touch"}, token : Tokens, row : ApiToken, use : 0..MaxUses]

TokensInv ==
    /\ DOMAIN request = Requests /\ DOMAIN apiToken = Tokens
    /\ uses \in 0..MaxUses
    /\ \A t \in Tokens : apiToken[t] # NULL => t \in seen
    /\ \A r \in Requests : request[r].pc \in {"user", "touch"} => request[r] \in TokenRequest

TokensIInv == ApiTokensTypeOK /\ TokensInv

LEMMA TokensInit == ApiTokensInit => TokensIInv
BY ApiTokensAssumption
   DEF ApiTokensInit, TokensIInv, TokensInv, ApiTokensTypeOK, NobodyIn, Idle

LEMMA TokensNext == TokensIInv /\ [ApiTokensNext]_apiTokensVars => TokensIInv'
<1> SUFFICES ASSUME TokensIInv, [ApiTokensNext]_apiTokensVars PROVE TokensIInv'
  OBVIOUS
<1> USE DEF TokensIInv
<1>0. ApiTokensTypeOK /\ TokensInv /\ MaxUses \in Nat
  BY ApiTokensAssumption
<1>1. ASSUME NEW u \in Owners, RemoveOwner(u) PROVE TokensIInv'
  BY <1>0, <1>1 DEF RemoveOwner, ApiTokensTypeOK, TokensInv
<1>2. ASSUME NEW u \in Owners, NEW t \in Tokens, CreateToken(u, t) PROVE TokensIInv'
  <2>1. [userId |-> u, revoked |-> FALSE, lastUsed |-> 0] \in ApiToken
    BY <1>0 DEF ApiToken
  <2>. QED  BY <1>0, <1>2, <2>1 DEF CreateToken, ApiTokensTypeOK, TokensInv
<1>3. ASSUME NEW t \in Tokens, Revoke(t) PROVE TokensIInv'
  <2>1. /\ [apiToken[t] EXCEPT !.revoked = TRUE] \in ApiToken
        /\ [apiToken[t] EXCEPT !.revoked = TRUE].userId \in owners
    BY <1>0, <1>3 DEF Revoke, ApiTokensTypeOK, ApiToken
  <2>. QED  BY <1>0, <1>3, <2>1 DEF Revoke, ApiTokensTypeOK, TokensInv
<1>4. ASSUME NEW r \in Requests, NEW t \in Tokens, FindToken(r, t) PROVE TokensIInv'
  <2>1. uses' \in 0..MaxUses
    BY <1>0, <1>4 DEF FindToken, TokensInv
  <2>2. PICK h \in TokenRequest : Goes(r, h)
    BY <1>0, <1>4, <2>1 DEF FindToken, Accepted, ApiTokensTypeOK, TokenRequest
  <2>. QED  BY <1>0, <1>4, <2>1, <2>2, GoesFact DEF FindToken, ApiTokensTypeOK, TokensInv
<1>5. ASSUME NEW r \in Requests, FindUser(r) PROVE TokensIInv'
  <2>1. request[r] \in TokenRequest
    BY <1>0, <1>5 DEF FindUser, TokensInv
  <2>2. [request[r] EXCEPT !.pc = "touch"] \in TokenRequest
    BY <2>1 DEF TokenRequest
  <2>3. PICK h \in TokenRequest \cup {Idle} : Goes(r, h)
    BY <1>5, <2>2 DEF FindUser
  <2>4. h.pc \in {"user", "touch"} => h \in TokenRequest
    BY <2>3 DEF Idle
  <2>. QED  BY <1>0, <1>5, <2>3, <2>4, GoesFact DEF FindUser, ApiTokensTypeOK, TokensInv
<1>6. ASSUME NEW r \in Requests, Touch(r) PROVE TokensIInv'
  <2> DEFINE h   == request[r]
             row == apiToken[h.token]
  <2>1. h.token \in Tokens /\ h.use \in 0..MaxUses
    BY <1>0, <1>6 DEF Touch, TokensInv, TokenRequest
  <2>2. row # NULL => /\ [row EXCEPT !.lastUsed = h.use] \in ApiToken
                      /\ [row EXCEPT !.lastUsed = h.use].userId = row.userId
    BY <1>0, <2>1 DEF ApiTokensTypeOK, ApiToken
  <2>3. apiToken' = [apiToken EXCEPT ![h.token] =
                        IF row = NULL THEN NULL ELSE [row EXCEPT !.lastUsed = h.use]]
    BY <1>6 DEF Touch, Touched
  <2>4. Goes(r, Idle) /\ Idle.pc = "idle" /\ UNCHANGED <<owners, seen, uses>>
    BY <1>6 DEF Touch, Ends, Idle
  <2> HIDE DEF h
  <2>5. ApiTokensTypeOK'
    BY <1>0, <2>1, <2>2, <2>3, <2>4 DEF ApiTokensTypeOK, TokensInv
  <2>. QED  BY <1>0, <2>1, <2>3, <2>4, <2>5, GoesFact DEF TokensInv
<1>7. ASSUME NEW r \in Requests, FailTokenRequest(r) PROVE TokensIInv'
  BY <1>0, <1>7, GoesFact DEF FailTokenRequest, Ends, Idle, ApiTokensTypeOK, TokensInv
<1>8. CASE UNCHANGED apiTokensVars
  BY <1>0, <1>8 DEF apiTokensVars, tokenTables, ApiTokensTypeOK, TokensInv
<1>. QED  BY <1>1, <1>2, <1>3, <1>4, <1>5, <1>6, <1>7, <1>8 DEF ApiTokensNext

(* Rows of tokens are well formed, and no token outlives its user. *)
THEOREM ApiTokensTypeCorrect == ApiTokensSpec => []ApiTokensTypeOK
<1>1. TokensIInv => ApiTokensTypeOK
  BY DEF TokensIInv
<1>. QED  BY <1>1, TokensInit, TokensNext, PTL DEF ApiTokensSpec

(* The late write of lastUsedAt brings no revoked token back, whatever      *)
(* overlaps it.                                                             *)
THEOREM RevokedForGoodHolds == ApiTokensSpec => RevokedForGood
<1> DEFINE Stays == \A t \in Tokens :
                      apiToken[t] # NULL /\ apiToken[t].revoked
                      => ~(apiToken'[t] # NULL /\ ~apiToken'[t].revoked)
<1>1. TokensIInv /\ [ApiTokensNext]_apiTokensVars => [Stays]_apiTokensVars
  <2> SUFFICES ASSUME TokensIInv, ApiTokensNext,
                      NEW t \in Tokens, apiToken[t] # NULL, apiToken[t].revoked,
                      apiToken'[t] # NULL
               PROVE  apiToken'[t].revoked
    OBVIOUS
  <2>0. TokensInv /\ apiToken[t] \in ApiToken
    BY DEF TokensIInv, ApiTokensTypeOK
  <2>1. CASE apiToken' = apiToken
    BY <2>1
  <2>2. ASSUME NEW u \in Owners, RemoveOwner(u) PROVE apiToken'[t].revoked
    BY <2>2 DEF RemoveOwner
  <2>3. ASSUME NEW u \in Owners, NEW n \in Tokens, CreateToken(u, n) PROVE apiToken'[t].revoked
    BY <2>0, <2>3 DEF CreateToken, TokensInv
  <2>4. ASSUME NEW n \in Tokens, Revoke(n) PROVE apiToken'[t].revoked
    BY <2>0, <2>4 DEF Revoke, TokensInv, ApiToken
  <2>5. ASSUME NEW r \in Requests, Touch(r) PROVE apiToken'[t].revoked
    <3>1. request[r].token \in Tokens
      BY <2>0, <2>5 DEF Touch, TokensInv, TokenRequest
    <3>2. apiToken'[t] \in {apiToken[t], [apiToken[t] EXCEPT !.lastUsed = request[r].use]}
      BY <2>0, <2>5, <3>1 DEF Touch, Touched, TokensInv
    <3>. QED  BY <2>0, <3>2 DEF ApiToken
  <2>. QED  BY <2>1, <2>2, <2>3, <2>4, <2>5
       DEF ApiTokensNext, FindToken, FindUser, FailTokenRequest
<1>. QED  BY <1>1, TokensInit, TokensNext, PTL DEF ApiTokensSpec, RevokedForGood

-----------------------------------------------------------------------------
(* Exchange rates and holidays.  No day has quotes before it comes, and a   *)
(* call that waits for the source knows whether another one stored what it  *)
(* is waiting for.                                                          *)
ExternalInv ==
    /\ DOMAIN request = Requests /\ stored \in [Requests -> BOOLEAN]
    /\ now \in Days /\ quotes \in [Days -> Nat]
    /\ \A d \in Days : d > now => quotes[d] = 0
    /\ \A r \in Requests :
          /\ request[r].pc = "fetch rates" /\ quotes[now] > 0 => stored[r]
          /\ request[r].pc = "fetch holidays" /\ holidaysStored => stored[r]

LEMMA DaysFact ==
    1 \in Days /\ \A d \in Days : d \in Int /\ (d < LastDay => d + 1 \in Days)
BY ExternalDataAssumption DEF Days

LEMMA ExternalInitInv == ExternalInit => ExternalInv
<1> SUFFICES ASSUME ExternalInit PROVE ExternalInv
  OBVIOUS
<1>1. /\ DOMAIN request = Requests /\ stored \in [Requests -> BOOLEAN]
      /\ now \in Days /\ quotes \in [Days -> Nat]
      /\ \A d \in Days : d > now => quotes[d] = 0
  BY DaysFact DEF ExternalInit, NobodyIn
<1>2. \A r \in Requests : request[r].pc = "idle"
  BY DEF ExternalInit, NobodyIn, Idle
<1>. QED  BY <1>1, <1>2 DEF ExternalInv

(* A step of one handler that stores nothing leaves it in no fetch, or in   *)
(* one for what is not stored.                                              *)
LEMMA ExternalStep ==
    ASSUME ExternalInv, NEW r \in Requests, NEW pc, GoesTo(r, pc),
           UNCHANGED <<now, quotes, holidaysStored>>,
           stored' \in [Requests -> BOOLEAN], \A q \in Requests \ {r} : stored'[q] = stored[q],
           pc = "fetch rates" => ~(quotes[now] > 0),
           pc = "fetch holidays" => (holidaysStored => stored'[r])
    PROVE  ExternalInv'
<1>1. Goes(r, [pc |-> pc]) /\ [pc |-> pc].pc = pc
  BY DEF GoesTo
<1>2. /\ DOMAIN request' = Requests
      /\ request'[r].pc = pc
      /\ \A q \in Requests \ {r} : request'[q] = request[q]
  BY <1>1, GoesFact DEF ExternalInv
<1>3. ASSUME NEW q \in Requests
      PROVE  /\ request'[q].pc = "fetch rates" /\ quotes[now] > 0 => stored'[q]
             /\ request'[q].pc = "fetch holidays" /\ holidaysStored => stored'[q]
  <2>1. CASE q = r
    <3>1. request'[q].pc = pc
      BY <1>2, <2>1
    <3>. QED  BY <2>1, <3>1
  <2>2. CASE q # r
    BY <1>2, <2>2 DEF ExternalInv
  <2>. QED  BY <2>1, <2>2
<1>. QED  BY <1>2, <1>3 DEF ExternalInv

LEMMA ExternalNextInv == ExternalInv /\ [ExternalNext]_externalVars => ExternalInv'
<1> SUFFICES ASSUME ExternalInv, [ExternalNext]_externalVars PROVE ExternalInv'
  OBVIOUS
<1>0. /\ now \in Int /\ now \in Days /\ quotes \in [Days -> Nat]
      /\ DOMAIN request = Requests /\ stored \in [Requests -> BOOLEAN]
      /\ \A d \in Days : d > now => quotes[d] = 0
  BY DaysFact DEF ExternalInv
<1>1. ASSUME NEW r \in Requests, AskRates(r) PROVE ExternalInv'
  <2>1. /\ GoesTo(r, "fetch rates") /\ stored' = [stored EXCEPT ![r] = FALSE]
        /\ UNCHANGED <<now, quotes, holidaysStored>>
    BY <1>1 DEF AskRates, Begins
  <2>2. ~(quotes[now] > 0)
    BY <1>1 DEF AskRates, QuotesOf
  <2>. QED  BY <1>0, <2>1, <2>2, ExternalStep
<1>2. ASSUME NEW r \in Requests, StoreRates(r) PROVE ExternalInv'
  <2>1. /\ Goes(r, Idle) /\ Idle.pc = "idle"
        /\ quotes' = [quotes EXCEPT ![now] = quotes[now] + 1]
        /\ stored' = [q \in Requests |-> stored[q] \/ (q # r /\ At(q, "fetch rates"))]
        /\ UNCHANGED <<now, holidaysStored>>
    BY <1>2 DEF StoreRates, Ends, Idle
  <2>2. /\ DOMAIN request' = Requests /\ request'[r].pc = "idle"
        /\ \A q \in Requests \ {r} : request'[q] = request[q]
    BY <1>0, <2>1, GoesFact
  <2>3. ASSUME NEW q \in Requests
        PROVE  /\ request'[q].pc = "fetch rates" => stored'[q]
               /\ request'[q].pc = "fetch holidays" /\ holidaysStored => stored'[q]
    BY <2>1, <2>2 DEF ExternalInv, At
  <2>4. quotes' \in [Days -> Nat]
    <3>1. quotes[now] \in Nat
      BY <1>0
    <3>2. quotes[now] + 1 \in Nat
      BY <3>1
    <3>. QED  BY <1>0, <2>1, <3>2
  <2>5. ASSUME NEW d \in Days, d > now PROVE quotes'[d] = 0
    <3>1. d # now /\ quotes[d] = 0
      BY <1>0, <2>5, DaysFact
    <3>. QED  BY <1>0, <2>1, <3>1
  <2>6. stored' \in [Requests -> BOOLEAN]
    BY <2>1
  <2>. QED  BY <1>0, <2>1, <2>2, <2>3, <2>4, <2>5, <2>6 DEF ExternalInv
<1>3. ASSUME NEW r \in Requests, NoRates(r) PROVE ExternalInv'
  BY <1>0, <1>3, ExternalStep DEF NoRates, Ends, GoesTo, Idle
<1>4. ASSUME NEW r \in Requests, AnswerOldRates(r) PROVE ExternalInv'
  BY <1>0, <1>4, ExternalStep DEF AnswerOldRates, Ends, GoesTo, Idle
<1>5. ASSUME NEW r \in Requests, AskHolidays(r) PROVE ExternalInv'
  BY <1>0, <1>5, ExternalStep DEF AskHolidays, Begins
<1>6. ASSUME NEW r \in Requests, ReadHolidays(r) PROVE ExternalInv'
  BY <1>0, <1>6, ExternalStep DEF ReadHolidays, Found, Ends, GoesTo, Idle
<1>7. ASSUME NEW r \in Requests, StoreHolidays(r) PROVE ExternalInv'
  <2>1. /\ Goes(r, [pc |-> "keep holidays"]) /\ [pc |-> "keep holidays"].pc = "keep holidays"
        /\ UNCHANGED <<now, quotes>>
        /\ stored' = [q \in Requests |->
              stored[q] \/ (q # r /\ request[q].pc \in {"read holidays", "fetch holidays"})]
    BY <1>7 DEF StoreHolidays, GoesTo
  <2>2. /\ DOMAIN request' = Requests /\ request'[r].pc = "keep holidays"
        /\ \A q \in Requests \ {r} : request'[q] = request[q]
    BY <1>0, <2>1, GoesFact
  <2>3. ASSUME NEW q \in Requests
        PROVE  /\ request'[q].pc = "fetch rates" /\ quotes[now] > 0 => stored'[q]
               /\ request'[q].pc = "fetch holidays" => stored'[q]
    BY <2>1, <2>2 DEF ExternalInv
  <2>4. stored' \in [Requests -> BOOLEAN]
    BY <2>1
  <2>. QED  BY <1>0, <2>1, <2>2, <2>3, <2>4 DEF ExternalInv
<1>8. ASSUME NEW r \in Requests, KeepHolidays(r) PROVE ExternalInv'
  BY <1>0, <1>8, ExternalStep DEF KeepHolidays, Ends, GoesTo, Idle
<1>9. ASSUME NEW r \in Requests, NoHolidays(r) PROVE ExternalInv'
  BY <1>0, <1>9, ExternalStep DEF NoHolidays, Ends, GoesTo, Idle
<1>10. ASSUME NextDay PROVE ExternalInv'
  <2>1. /\ now' = now + 1 /\ now' \in Days
        /\ UNCHANGED <<quotes, holidaysStored, request, stored>>
    BY <1>0, <1>10, DaysFact DEF NextDay
  <2>2. quotes[now'] = 0
    <3>1. now' > now
      BY <1>0, <2>1
    <3>. QED  BY <1>0, <2>1, <3>1
  <2>3. ASSUME NEW d \in Days, d > now' PROVE quotes[d] = 0
    <3>1. d > now
      BY <1>0, <2>1, <2>3, DaysFact
    <3>. QED  BY <1>0, <3>1
  <2>4. ~(quotes[now'] > 0)
    BY <2>2
  <2>5. \A r \in Requests : request[r].pc = "fetch holidays" /\ holidaysStored => stored[r]
    BY DEF ExternalInv
  <2>. QED  BY <1>0, <2>1, <2>3, <2>4, <2>5 DEF ExternalInv
<1>11. ASSUME Restart PROVE ExternalInv'
  BY <1>0, <1>11 DEF Restart, ExternalInv, Idle
<1>12. CASE UNCHANGED externalVars
  BY <1>0, <1>12 DEF externalVars, externalTables, ExternalInv
<1>. QED  BY <1>1, <1>2, <1>3, <1>4, <1>5, <1>6, <1>7, <1>8, <1>9, <1>10, <1>11, <1>12
     DEF ExternalNext

(* The quotes of a day are stored again only by a call that overlapped the  *)
(* one that stored them.                                                    *)
THEOREM QuotesOnceHolds == ExternalSpec => QuotesOnce
<1> DEFINE Once == \A r \in Requests : StoreRates(r) /\ quotes[now] > 0 => stored[r]
<1>1. ExternalInv /\ [ExternalNext]_externalVars => [Once]_externalVars
  BY DEF ExternalInv, StoreRates, At
<1>. QED  BY <1>1, ExternalInitInv, ExternalNextInv, PTL DEF ExternalSpec, QuotesOnce

(* Holidays that are stored are given up only by a call that overlapped the *)
(* one that stored them.                                                    *)
THEOREM DegradedHolds == ExternalSpec => DegradedWithNothingStored
<1> DEFINE Kept == \A r \in Requests : NoHolidays(r) /\ holidaysStored => stored[r]
<1>1. ExternalInv /\ [ExternalNext]_externalVars => [Kept]_externalVars
  BY DEF ExternalInv, NoHolidays, At
<1>. QED  BY <1>1, ExternalInitInv, ExternalNextInv, PTL
     DEF ExternalSpec, DegradedWithNothingStored

-----------------------------------------------------------------------------
(* Budgets.  Rows and handlers have their shape, and a general budget has    *)
(* no category.                                                             *)
BudgetRow == [type : {"GENERAL", "CATEGORY"}, categoryId : BudgetCategories \cup {NULL},
              month : Months, amount : Limits]

BudgetRequest == [pc : {"insert budget"}, row : Proposed]
            \cup [pc : {"find"}, category : BudgetCategories]
            \cup [pc : {"sum"}, category : BudgetCategories, month : Months, limit : Limits]

BudgetsShape ==
    /\ DOMAIN request = Requests /\ twin \in [Requests -> BOOLEAN]
    /\ month \in Months
    /\ budget \in [BudgetIds -> BudgetRow \cup {NULL}]
    /\ \A row \in BudgetRows : row.type = "GENERAL" => row.categoryId = NULL
    /\ spent \in [BudgetCategories -> [Months -> Int]]
    /\ overspent \subseteq BudgetCategories
    /\ \A r \in Requests : request[r].pc \in {"insert budget", "find", "sum"} =>
          request[r] \in BudgetRequest

(* Who will notify that c is over its budget. *)
Notifies(r, c) ==
    /\ request[r].pc \in {"find", "sum"} /\ request[r].category = c
    /\ request[r].pc = "sum" =>
          request[r].month = month /\ spent[c][month] > request[r].limit

OverInv ==
    \A c \in overspent :
        /\ Exceeds(spent[c][month], c, month)
        /\ \E r \in Requests : Notifies(r, c)

(* A creation whose key is taken knows of the budget that took it. *)
TwinInv ==
    \A r \in Requests : request[r].pc = "insert budget" /\ Taken(request[r].row) => twin[r]

BudgetsIInv == BudgetsTypeOK /\ BudgetsShape /\ OverInv /\ TwinInv

LEMMA MonthsFact ==
    1 \in Months /\ \A m \in Months : m \in Int /\ (m < LastMonth => m + 1 \in Months)
BY BudgetsAssumption DEF Months

LEMMA ProposedFact ==
    ASSUME NEW row \in Proposed
    PROVE  /\ row \in BudgetRow
           /\ row.type = "GENERAL" => row.categoryId = NULL
           /\ row.type = "CATEGORY" => row.categoryId \in BudgetCategories /\ row.categoryId # NULL
<1>1. PICK k \in Keys, m \in Months, a \in Limits :
        row = [type |-> k.type, categoryId |-> k.categoryId, month |-> m, amount |-> a]
  BY DEF Proposed
<1>2. \/ k.type = "GENERAL" /\ k.categoryId = NULL
      \/ k.type = "CATEGORY" /\ k.categoryId \in BudgetCategories /\ k.categoryId # NULL
  BY BudgetsAssumption DEF Keys
<1>3. /\ row.type = k.type /\ row.categoryId = k.categoryId
      /\ row = [type |-> k.type, categoryId |-> k.categoryId, month |-> m, amount |-> a]
  BY <1>1
<1>. QED  BY <1>2, <1>3 DEF BudgetRow

LEMMA BudgetsInitInv == BudgetsInit => BudgetsIInv
<1> SUFFICES ASSUME BudgetsInit PROVE BudgetsIInv
  OBVIOUS
<1>1. BudgetsTypeOK
  BY BudgetsAssumption DEF BudgetsInit, BudgetsTypeOK
<1>2. \A r \in Requests : request[r].pc = "idle"
  BY DEF BudgetsInit, NobodyIn, Idle
<1>3. BudgetsShape
  <2>1. BudgetRows = {}
    BY DEF BudgetsInit, BudgetRows
  <2>2. spent \in [BudgetCategories -> [Months -> Int]]
    BY DEF BudgetsInit
  <2>. QED  BY <1>2, <2>1, <2>2, MonthsFact DEF BudgetsInit, BudgetsShape, NobodyIn
<1>4. OverInv /\ TwinInv
  BY <1>2 DEF BudgetsInit, OverInv, TwinInv
<1>. QED  BY <1>1, <1>3, <1>4 DEF BudgetsIInv

(* A budget becomes another row, or none, and the handlers that check       *)
(* budgets go on.                                                           *)
LEMMA BecomesFact ==
    ASSUME BudgetsIInv, NEW b \in BudgetIds, NEW row \in Proposed \cup {NULL},
           Becomes(b, row), UNCHANGED <<budgeted, spent, month>>,
           row # NULL => /\ row.categoryId \in budgeted \cup {NULL}
                         /\ Unique({budget[d] : d \in BudgetIds \ {b}} \ {NULL}, row),
           DOMAIN request' = Requests,
           \A q \in Requests : request'[q] = request[q]
              \/ (request[q].pc = "insert budget" /\ request'[q] = Idle)
    PROVE  BudgetsIInv'
<1>0. Idle.pc = "idle"
  BY DEF Idle
<1>1. /\ BudgetsTypeOK /\ BudgetsShape /\ OverInv /\ TwinInv
      /\ budget \in [BudgetIds -> BudgetRow \cup {NULL}]
  BY DEF BudgetsIInv, BudgetsShape
<1>2. /\ budget' = [budget EXCEPT ![b] = row]
      /\ \A d \in BudgetIds : budget'[d] = IF d = b THEN row ELSE budget[d]
      /\ budget' \in [BudgetIds -> BudgetRow \cup {NULL}]
      /\ twin' = [r \in Requests |->
            twin[r] \/ (request[r].pc = "insert budget" /\ row # NULL
                        /\ SameKey(row, request[r].row))]
      /\ overspent' = {c \in overspent :
                          \A x \in {budget[b], row} \ {NULL} : x.categoryId # c}
  BY <1>1, ProposedFact DEF Becomes
<1>3. BudgetsTypeOK'
  <2>1. ASSUME NEW d \in BudgetIds, budget'[d] # NULL
        PROVE  budget'[d].categoryId \in budgeted \cup {NULL}
    BY <1>1, <1>2, <2>1 DEF BudgetsTypeOK
  <2>2. ASSUME NEW d \in BudgetIds, NEW e \in BudgetIds \ {d},
               budget'[d] # NULL, budget'[e] # NULL, SameKey(budget'[e], budget'[d])
        PROVE  budget'[d].categoryId = NULL
    <3>1. CASE d # b /\ e # b
      BY <1>1, <1>2, <2>2, <3>1 DEF BudgetsTypeOK
    <3>2. CASE d = b
      <4>1. budget'[e] = budget[e] /\ budget'[d] = row /\ e \in BudgetIds \ {b}
        BY <1>2, <3>2
      <4>. QED  BY <2>2, <4>1 DEF Unique
    <3>3. CASE e = b
      <4>1. budget'[d] = budget[d] /\ budget'[e] = row /\ d \in BudgetIds \ {b}
        BY <1>2, <2>2, <3>3
      <4>2. SameKey(budget[d], row) /\ row.categoryId = budget[d].categoryId
        BY <2>2, <4>1 DEF SameKey, HasKey
      <4>. QED  BY <2>2, <4>1, <4>2 DEF Unique
    <3>. QED  BY <3>1, <3>2, <3>3
  <2>. QED  BY <1>1, <2>1, <2>2 DEF BudgetsTypeOK, SameKey, HasKey
<1>4. BudgetsShape'
  <2>1. \A x \in BudgetRows' : x.type = "GENERAL" => x.categoryId = NULL
    BY <1>1, <1>2, ProposedFact DEF BudgetsShape, BudgetRows
  <2>2. \A r \in Requests : request'[r].pc \in {"insert budget", "find", "sum"} =>
          request'[r] \in BudgetRequest
    BY <1>0, <1>1 DEF BudgetsShape
  <2>3. twin' \in [Requests -> BOOLEAN] /\ overspent' \subseteq BudgetCategories
    BY <1>1, <1>2 DEF BudgetsShape
  <2>. QED  BY <1>1, <1>2, <2>1, <2>2, <2>3 DEF BudgetsShape
<1>5. OverInv'
  <2> SUFFICES ASSUME NEW c \in overspent'
               PROVE  Exceeds(spent[c][month], c, month)' /\ \E r \in Requests : Notifies(r, c)'
    BY DEF OverInv, Exceeds, BudgetsFor, Notifies, BudgetRows
  <2>1. /\ c \in overspent /\ (budget[b] # NULL => budget[b].categoryId # c)
        /\ \E x \in BudgetsFor(c, month) : spent[c][month] > x.amount
        /\ \E r \in Requests : Notifies(r, c)
    BY <1>1, <1>2 DEF OverInv, Exceeds
  <2>2. PICK d \in BudgetIds : /\ budget[d] # NULL /\ budget[d].categoryId = c
                               /\ budget[d].month = month /\ spent[c][month] > budget[d].amount
    BY <2>1 DEF BudgetsFor, BudgetRows
  <2>3. budget'[d] = budget[d]
    BY <1>2, <2>1, <2>2
  <2>4. Exceeds(spent[c][month], c, month)'
    BY <2>2, <2>3 DEF Exceeds, BudgetsFor, BudgetRows
  <2>5. PICK r \in Requests : Notifies(r, c)
    BY <2>1
  <2>6. request'[r] = request[r]
    BY <2>5 DEF Notifies
  <2>7. Notifies(r, c)'
    BY <2>5, <2>6 DEF Notifies
  <2>. QED  BY <2>4, <2>7
<1>6. TwinInv'
  <2> SUFFICES ASSUME NEW r \in Requests, request'[r].pc = "insert budget",
                      NEW d \in BudgetIds, budget'[d] # NULL,
                      SameKey(budget'[d], request'[r].row)
               PROVE  twin'[r]
    BY DEF TwinInv, Taken, BudgetRows, SameKey, HasKey
  <2>1. request'[r] = request[r]
    BY <1>0
  <2>2. CASE d = b
    BY <1>2, <2>1, <2>2
  <2>3. CASE d # b
    <3>1. Taken(request[r].row)
      BY <1>2, <2>1, <2>3 DEF Taken, BudgetRows
    <3>. QED  BY <1>1, <1>2, <2>1, <3>1 DEF TwinInv
  <2>. QED  BY <2>2, <2>3
<1>. QED  BY <1>3, <1>4, <1>5, <1>6 DEF BudgetsIInv

LEMMA AmountsFact ==
    /\ \A x \in BudgetRow : x.amount \in Int
    /\ \A h \in BudgetRequest : h.pc = "sum" => h.limit \in Int
    /\ BudgetsShape => BudgetRows \subseteq BudgetRow
<1>1. Limits \subseteq Int
  BY BudgetsAssumption
<1>. QED  BY <1>1 DEF BudgetRow, BudgetRequest, BudgetsShape, BudgetRows

LEMMA GreaterFact == \A i, j, k \in Int : i <= j /\ i > k => j > k
OBVIOUS

(* A step of one handler, or of nobody, that leaves the budgets alone.      *)
LEMMA BudgetRequestStep ==
    ASSUME BudgetsIInv, NEW r \in Requests, NEW h, Goes(r, h),
           UNCHANGED <<budgeted, budget, month>>,
           twin' \in [Requests -> BOOLEAN],
           \A q \in Requests \ {r} : twin'[q] = twin[q],
           spent' \in [BudgetCategories -> [Months -> Int]],
           \A c \in BudgetCategories, m \in Months :
              spent'[c][m] \in 0..MaxSpent /\ spent[c][m] <= spent'[c][m],
           h.pc \in {"insert budget", "find", "sum"} => h \in BudgetRequest,
           h.pc = "insert budget" /\ Taken(h.row) => twin'[r],
           overspent' \subseteq BudgetCategories,
           \A c \in overspent' \ overspent : /\ h.pc = "find" /\ h.category = c
                                            /\ Exceeds(spent'[c][month], c, month),
           \A c \in overspent' \cap overspent :
              Notifies(r, c) => /\ h.pc \in {"find", "sum"} /\ h.category = c
                                /\ h.pc = "sum" => h.month = month /\ spent'[c][month] > h.limit
    PROVE  BudgetsIInv'
<1>1. /\ BudgetsTypeOK /\ BudgetsShape /\ OverInv /\ TwinInv
      /\ month \in Months /\ spent \in [BudgetCategories -> [Months -> Int]]
      /\ budget \in [BudgetIds -> BudgetRow \cup {NULL}]
  BY DEF BudgetsIInv, BudgetsShape
<1>2. /\ DOMAIN request' = Requests /\ request'[r] = h
      /\ \A q \in Requests \ {r} : request'[q] = request[q]
  BY <1>1, GoesFact DEF BudgetsShape
<1>3. BudgetsTypeOK'
  BY <1>1 DEF BudgetsTypeOK, SameKey, HasKey
<1>4. BudgetsShape'
  <2>1. ASSUME NEW q \in Requests, request'[q].pc \in {"insert budget", "find", "sum"}
        PROVE  request'[q] \in BudgetRequest
    BY <1>1, <1>2, <2>1 DEF BudgetsShape
  <2>2. \A row \in BudgetRows' : row.type = "GENERAL" => row.categoryId = NULL
    BY <1>1 DEF BudgetsShape, BudgetRows
  <2>. QED  BY <1>1, <1>2, <2>1, <2>2 DEF BudgetsShape
<1>5. OverInv'
  <2> DEFINE Told(q, c) ==
        /\ request'[q].pc \in {"find", "sum"} /\ request'[q].category = c
        /\ request'[q].pc = "sum" => request'[q].month = month /\ spent'[c][month] > request'[q].limit
  <2>1. BudgetRows' = BudgetRows
    BY DEF BudgetRows
  <2>2. SUFFICES ASSUME NEW c \in overspent'
                 PROVE  /\ \E x \in BudgetsFor(c, month) : spent'[c][month] > x.amount
                        /\ \E q \in Requests : Told(q, c)
    BY <2>1 DEF OverInv, Exceeds, BudgetsFor, Notifies
  <2>3. CASE c \notin overspent
    BY <1>2, <2>3 DEF Exceeds
  <2>4. CASE c \in overspent
    <3> DEFINE old == spent[c][month]
               new == spent'[c][month]
    <3>1. old <= new /\ old \in Int /\ new \in Int
      <4>1. c \in BudgetCategories
        BY <1>1, <2>4 DEF BudgetsShape
      <4>. QED  BY <1>1, <4>1
    <3>2. /\ \E x \in BudgetsFor(c, month) : old > x.amount
          /\ \E q \in Requests : Notifies(q, c)
      BY <1>1, <2>4 DEF OverInv, Exceeds
    <3>3. PICK q \in Requests : Notifies(q, c)
      BY <3>2
    <3>4. ASSUME q # r PROVE Told(q, c)
      <4>1. /\ request'[q] = request[q] /\ request[q].pc \in {"find", "sum"}
            /\ request[q].category = c
            /\ request[q].pc = "sum" => request[q].month = month /\ old > request[q].limit
        BY <1>2, <3>3, <3>4 DEF Notifies
      <4>2. request[q].pc = "sum" => request[q].limit \in Int
        BY <1>1, AmountsFact DEF BudgetsShape
      <4> HIDE DEF old, new
      <4>3. request[q].pc = "sum" => new > request[q].limit
        BY GreaterFact, <3>1, <4>1, <4>2, Zenon
      <4>. QED  BY <4>1, <4>3 DEF new
    <3>5. ASSUME q = r PROVE Told(q, c)
      BY <1>2, <2>2, <2>4, <3>3, <3>5
    <3>6. PICK x \in BudgetsFor(c, month) : old > x.amount
      BY <3>2
    <3>7. x.amount \in Int
      BY <1>1, AmountsFact DEF BudgetsFor
    <3>8. new > x.amount
      <4> HIDE DEF old, new
      <4>. QED  BY GreaterFact, <3>1, <3>6, <3>7, Zenon
    <3>. QED  BY <3>4, <3>5, <3>6, <3>8
  <2>. QED  BY <2>3, <2>4
<1>6. TwinInv'
  <2> SUFFICES ASSUME NEW q \in Requests, request'[q].pc = "insert budget",
                      Taken(request'[q].row)
               PROVE  twin'[q]
    BY DEF TwinInv, Taken, BudgetRows
  <2>. QED  BY <1>1, <1>2 DEF TwinInv
<1>. QED  BY <1>3, <1>4, <1>5, <1>6 DEF BudgetsIInv

(* One expense more, in one category and month. *)
LEMMA SpentMoreFact ==
    ASSUME spent \in [BudgetCategories -> [Months -> Int]],
           \A d \in BudgetCategories, n \in Months : spent[d][n] \in 0..MaxSpent,
           NEW c \in BudgetCategories, NEW m \in Months, spent[c][m] < MaxSpent,
           spent' = [spent EXCEPT ![c][m] = @ + 1]
    PROVE  /\ spent' \in [BudgetCategories -> [Months -> Int]]
           /\ \A d \in BudgetCategories, n \in Months :
                 spent'[d][n] \in 0..MaxSpent /\ spent[d][n] <= spent'[d][n]
<1>1. /\ spent' \in [BudgetCategories -> [Months -> Int]]
      /\ \A d \in BudgetCategories, n \in Months :
            spent'[d][n] = IF d = c /\ n = m THEN spent[c][m] + 1 ELSE spent[d][n]
  OBVIOUS
<1>2. spent[c][m] + 1 \in 0..MaxSpent /\ spent[c][m] <= spent[c][m] + 1
  BY BudgetsAssumption
<1>3. \A d \in BudgetCategories, n \in Months : spent[d][n] <= spent[d][n]
  OBVIOUS
<1>. QED  BY <1>1, <1>2, <1>3

(* The budgets of a category that is deleted are left without one. *)
LEMMA DeleteCategoryStep ==
    ASSUME BudgetsIInv, NEW c \in BudgetCategories, DeleteCategory(c)
    PROVE  BudgetsIInv'
<1>1. /\ BudgetsTypeOK /\ BudgetsShape /\ OverInv /\ TwinInv
      /\ budget \in [BudgetIds -> BudgetRow \cup {NULL}]
      /\ c # NULL
  BY BudgetsAssumption DEF BudgetsIInv, BudgetsShape
<1>2. /\ UNCHANGED <<spent, month, request, twin>>
      /\ budgeted' = budgeted \ {c} /\ overspent' = overspent \ {c}
      /\ DOMAIN budget' = BudgetIds
      /\ \A b \in BudgetIds :
            budget'[b] = IF budget[b] # NULL /\ budget[b].categoryId = c
                         THEN [budget[b] EXCEPT !.categoryId = NULL] ELSE budget[b]
  BY <1>1 DEF DeleteCategory
<1>3. ASSUME NEW b \in BudgetIds, budget[b] # NULL, budget[b].categoryId = c
      PROVE  LET row == [budget[b] EXCEPT !.categoryId = NULL]
             IN  row \in BudgetRow /\ row.categoryId = NULL /\ row.type = "CATEGORY"
  <2>1. budget[b] \in BudgetRow /\ budget[b].type = "CATEGORY"
    BY <1>1, <1>3 DEF BudgetsShape, BudgetRows, BudgetRow
  <2>. QED  BY <2>1 DEF BudgetRow
<1>4. \A b \in BudgetIds : budget'[b] \in BudgetRow \cup {NULL}
  BY <1>1, <1>2, <1>3
<1>5. \A b \in BudgetIds : budget'[b] # NULL =>
         \/ budget'[b].categoryId = NULL
         \/ budget'[b] = budget[b] /\ budget[b].categoryId # c
  BY <1>2, <1>3
<1>6. BudgetsTypeOK'
  <2>1. ASSUME NEW b \in BudgetIds, budget'[b] # NULL
        PROVE  budget'[b].categoryId \in budgeted' \cup {NULL}
    BY <1>1, <1>2, <1>5, <2>1 DEF BudgetsTypeOK
  <2>2. ASSUME NEW b \in BudgetIds, budget'[b] # NULL, NEW d \in BudgetIds \ {b},
               budget'[d] # NULL, SameKey(budget'[d], budget'[b])
        PROVE  budget'[b].categoryId = NULL
    BY <1>1, <1>5, <2>2 DEF BudgetsTypeOK, SameKey, HasKey
  <2>. QED  BY <1>1, <1>2, <2>1, <2>2 DEF BudgetsTypeOK, SameKey, HasKey
<1>7. BudgetsShape'
  <2>1. ASSUME NEW b \in BudgetIds, budget'[b] # NULL, budget'[b].type = "GENERAL"
        PROVE  budget'[b].categoryId = NULL
    <3>1. CASE budget[b] # NULL /\ budget[b].categoryId = c
      BY <1>2, <1>3, <3>1
    <3>2. CASE ~(budget[b] # NULL /\ budget[b].categoryId = c)
      <4>1. budget'[b] = budget[b]
        BY <1>2, <3>2
      <4>. QED  BY <1>1, <2>1, <4>1 DEF BudgetsShape, BudgetRows
    <3>. QED  BY <3>1, <3>2
  <2>2. budget' \in [BudgetIds -> BudgetRow \cup {NULL}]
    BY <1>2, <1>4 DEF DeleteCategory
  <2>3. \A x \in BudgetRows' : x.type = "GENERAL" => x.categoryId = NULL
    BY <2>1 DEF BudgetRows
  <2>. QED  BY <1>1, <1>2, <2>2, <2>3 DEF BudgetsShape
<1>8. OverInv'
  <2> SUFFICES ASSUME NEW e \in overspent'
               PROVE  /\ \E x \in BudgetsFor(e, month)' : spent[e][month] > x.amount
                      /\ \E r \in Requests : Notifies(r, e)'
    BY <1>2 DEF OverInv, Exceeds, BudgetsFor, Notifies
  <2>1. /\ e \in overspent /\ e # c /\ e # NULL
        /\ \E x \in BudgetsFor(e, month) : spent[e][month] > x.amount
        /\ \E r \in Requests : Notifies(r, e)
    BY <1>1, <1>2, BudgetsAssumption DEF OverInv, Exceeds, BudgetsShape
  <2>2. PICK d \in BudgetIds : /\ budget[d] # NULL /\ budget[d].categoryId = e
                               /\ budget[d].month = month /\ spent[e][month] > budget[d].amount
    BY <2>1 DEF BudgetsFor, BudgetRows
  <2>3. budget'[d] = budget[d]
    BY <1>2, <2>1, <2>2
  <2>. QED  BY <1>2, <2>1, <2>2, <2>3 DEF BudgetsFor, BudgetRows, Notifies
<1>9. TwinInv'
  <2> SUFFICES ASSUME NEW r \in Requests, request[r].pc = "insert budget",
                      NEW d \in BudgetIds, budget'[d] # NULL,
                      SameKey(budget'[d], request[r].row)
               PROVE  twin[r]
    BY <1>2 DEF TwinInv, Taken, BudgetRows, SameKey, HasKey
  <2>1. request[r].row \in Proposed
    BY <1>1 DEF BudgetsShape, BudgetRequest
  <2>2. budget'[d] = budget[d] /\ budget[d] # NULL
    <3>1. CASE budget[d] # NULL /\ budget[d].categoryId = c
      <4>1. budget'[d].type = "CATEGORY" /\ budget'[d].categoryId = NULL
        BY <1>2, <1>3, <3>1
      <4>. QED  BY <2>1, <4>1, ProposedFact DEF SameKey, HasKey
    <3>. QED  BY <1>2, <3>1
  <2>3. Taken(request[r].row)
    BY <2>2 DEF Taken, BudgetRows
  <2>. QED  BY <1>1, <2>3 DEF TwinInv
<1>. QED  BY <1>6, <1>7, <1>8, <1>9 DEF BudgetsIInv

(* Nobody is told of a budget an expense less may have kept. *)
LEMMA DeleteExpenseStep ==
    ASSUME BudgetsIInv, NEW c \in BudgetCategories, NEW m \in Months, DeleteExpense(c, m)
    PROVE  BudgetsIInv'
<1>1. /\ BudgetsTypeOK /\ BudgetsShape /\ OverInv /\ TwinInv
      /\ spent \in [BudgetCategories -> [Months -> Int]] /\ month \in Months
      /\ overspent \subseteq BudgetCategories
  BY DEF BudgetsIInv, BudgetsShape
<1>2. /\ UNCHANGED <<budgeted, budget, month, request, twin>>
      /\ overspent' = overspent \ {c} /\ spent[c][m] > 0
      /\ spent' = [spent EXCEPT ![c][m] = @ - 1]
      /\ BudgetRows' = BudgetRows
  BY <1>1 DEF DeleteExpense, BudgetRows
<1>3. /\ spent' \in [BudgetCategories -> [Months -> Int]]
      /\ \A d \in BudgetCategories, n \in Months :
            spent'[d][n] = IF d = c /\ n = m THEN spent[c][m] - 1 ELSE spent[d][n]
  BY <1>1, <1>2
<1>4. spent[c][m] - 1 \in 0..MaxSpent
  <2>1. spent[c][m] \in 0..MaxSpent
    BY <1>1 DEF BudgetsTypeOK
  <2>. QED  BY <1>2, <2>1, BudgetsAssumption
<1>5. BudgetsTypeOK'
  BY <1>1, <1>2, <1>3, <1>4 DEF BudgetsTypeOK, SameKey, HasKey
<1>6. BudgetsShape' /\ TwinInv'
  BY <1>1, <1>2, <1>3 DEF BudgetsShape, TwinInv, Taken
<1>7. OverInv'
  <2> SUFFICES ASSUME NEW e \in overspent'
               PROVE  Exceeds(spent[e][month], e, month)' /\ \E r \in Requests : Notifies(r, e)'
    BY DEF OverInv
  <2>1. e \in overspent /\ spent'[e][month] = spent[e][month]
    BY <1>1, <1>2, <1>3
  <2>. QED  BY <1>1, <1>2, <2>1 DEF OverInv, Exceeds, BudgetsFor, Notifies
<1>. QED  BY <1>5, <1>6, <1>7 DEF BudgetsIInv

LEMMA BudgetsNextInv == BudgetsIInv /\ [BudgetsNext]_budgetsVars => BudgetsIInv'
<1> SUFFICES ASSUME BudgetsIInv, [BudgetsNext]_budgetsVars PROVE BudgetsIInv'
  OBVIOUS
<1>0. /\ Idle.pc = "idle"
      /\ BudgetsTypeOK /\ BudgetsShape /\ OverInv /\ TwinInv
      /\ month \in Months /\ spent \in [BudgetCategories -> [Months -> Int]]
      /\ twin \in [Requests -> BOOLEAN] /\ overspent \subseteq BudgetCategories
      /\ \A c \in BudgetCategories, m \in Months :
            /\ spent[c][m] \in 0..MaxSpent /\ spent[c][m] \in Int
            /\ spent[c][m] <= spent[c][m]
      /\ \A r \in Requests : request[r].pc \in {"insert budget", "find", "sum"} =>
            request[r] \in BudgetRequest
  <2>1. BudgetsTypeOK /\ BudgetsShape /\ OverInv /\ TwinInv /\ Idle.pc = "idle"
    BY DEF Idle, BudgetsIInv
  <2>2. \A c \in BudgetCategories, m \in Months :
           spent[c][m] \in Int /\ spent[c][m] <= spent[c][m]
    <3>1. spent \in [BudgetCategories -> [Months -> Int]]
      BY <2>1 DEF BudgetsShape
    <3>. QED  BY <3>1
  <2>. QED  BY <2>1, <2>2 DEF BudgetsShape, BudgetsTypeOK
<1>1. ASSUME NEW r \in Requests, NEW row \in Proposed, StartCreateBudget(r, row)
      PROVE  BudgetsIInv'
  <2> DEFINE h == [pc |-> "insert budget", row |-> row]
  <2>1. h \in BudgetRequest /\ h.pc = "insert budget" /\ h.row = row
    BY DEF BudgetRequest
  <2>2. Goes(r, h) /\ ~Taken(h.row) /\ request[r].pc = "idle"
    BY <1>0, <1>1 DEF StartCreateBudget
  <2>3. /\ UNCHANGED <<budgeted, budget, month>> /\ spent' = spent /\ overspent' = overspent
        /\ twin' = [twin EXCEPT ![r] = FALSE]
    BY <1>1 DEF StartCreateBudget
  <2>4. \A c \in overspent : ~Notifies(r, c)
    BY <2>2 DEF Notifies
  <2> HIDE DEF h
  <2>. QED  BY <1>0, <2>1, <2>2, <2>3, <2>4, BudgetRequestStep
<1>2. ASSUME NEW r \in Requests, NEW c \in BudgetCategories, NEW m \in Months,
             StartExpense(r, c, m)
      PROVE  BudgetsIInv'
  <2> DEFINE h == [pc |-> "find", category |-> c]
  <2>1. h \in BudgetRequest /\ h.pc = "find" /\ h.category = c
    BY DEF BudgetRequest
  <2>2. /\ Goes(r, h) /\ request[r].pc = "idle" /\ spent[c][m] < MaxSpent
        /\ spent' = [spent EXCEPT ![c][m] = @ + 1]
        /\ overspent' = IF m = month /\ Exceeds(spent'[c][m], c, m)
                        THEN overspent \cup {c} ELSE overspent
        /\ UNCHANGED <<budgeted, budget, month, twin>>
    BY <1>0, <1>2 DEF StartExpense
  <2>5. /\ spent' \in [BudgetCategories -> [Months -> Int]]
        /\ \A d \in BudgetCategories, n \in Months :
              spent'[d][n] \in 0..MaxSpent /\ spent[d][n] <= spent'[d][n]
    BY <1>0, <2>2, SpentMoreFact
  <2>6. \A d \in overspent : ~Notifies(r, d)
    BY <2>2 DEF Notifies
  <2>7. \A d \in overspent' \ overspent : d = c /\ Exceeds(spent'[c][month], c, month)
    BY <2>2
  <2>8. overspent' \subseteq BudgetCategories
    BY <1>0, <2>2
  <2> HIDE DEF h
  <2>. QED  BY <1>0, <2>1, <2>2, <2>5, <2>6, <2>7, <2>8, BudgetRequestStep
<1>3. ASSUME NEW r \in Requests, InsertBudget(r) PROVE BudgetsIInv'
  <2> DEFINE row == request[r].row
  <2>1. row \in Proposed /\ request[r].pc = "insert budget"
    BY <1>0, <1>3 DEF InsertBudget, BudgetRequest
  <2>2. /\ Goes(r, Idle) /\ UNCHANGED <<budgeted, spent, month>>
    BY <1>3 DEF InsertBudget, Ends
  <2> HIDE DEF row
  <2>3. CASE UNCHANGED <<budget, twin, overspent>>
    <3>1. \A c \in overspent : ~Notifies(r, c)
      BY <2>1 DEF Notifies
    <3>. QED  BY <1>0, <2>2, <2>3, <3>1, BudgetRequestStep
  <2>4. ASSUME NEW b \in BudgetIds, budget[b] = NULL, Becomes(b, row),
               Unique(BudgetRows, row), row.categoryId \in budgeted \cup {NULL}
        PROVE  BudgetsIInv'
    <3>1. {budget[d] : d \in BudgetIds \ {b}} \ {NULL} = BudgetRows
      BY <2>4 DEF BudgetRows
    <3>2. /\ DOMAIN request' = Requests /\ request'[r] = Idle
          /\ \A q \in Requests \ {r} : request'[q] = request[q]
      BY <1>0, <2>2, GoesFact DEF BudgetsShape
    <3>. QED  BY <2>1, <2>2, <2>4, <3>1, <3>2, BecomesFact
  <2>. QED  BY <1>3, <2>3, <2>4 DEF InsertBudget, row
<1>4. ASSUME NEW r \in Requests, FindBudget(r) PROVE BudgetsIInv'
  <2> DEFINE c == request[r].category
  <2>1. /\ c \in BudgetCategories /\ request[r].pc = "find"
        /\ UNCHANGED <<budgeted, budget, spent, month, twin, overspent>>
    BY <1>0, <1>4 DEF FindBudget, BudgetRequest
  <2>2. \A d \in overspent : Notifies(r, d) => d = c
    BY DEF Notifies
  <2>3. CASE BudgetsFor(c, month) = {}
    <3>1. Goes(r, Idle)
      BY <1>4, <2>3 DEF FindBudget, CheckedMonth, Ends
    <3>2. c \notin overspent
      BY <1>0, <2>3 DEF OverInv, Exceeds
    <3> HIDE DEF c
    <3>. QED  BY <1>0, <2>1, <2>2, <3>1, <3>2, BudgetRequestStep
  <2>4. ASSUME NEW x \in BudgetsFor(c, month),
               Goes(r, [pc |-> "sum", category |-> c, month |-> month, limit |-> x.amount])
        PROVE  BudgetsIInv'
    <3> DEFINE h == [pc |-> "sum", category |-> c, month |-> month, limit |-> x.amount]
    <3>1. h \in BudgetRequest /\ h.pc = "sum" /\ h.category = c /\ h.month = month
          /\ h.limit = x.amount
      <4>1. x.amount \in Limits
        BY <1>0, AmountsFact DEF BudgetsFor, BudgetRow
      <4>. QED  BY <1>0, <2>1, <4>1 DEF BudgetRequest
    <3>2. ASSUME c \in overspent PROVE spent[c][month] > x.amount
      <4>1. PICK y \in BudgetsFor(c, month) : spent[c][month] > y.amount
        BY <1>0, <3>2 DEF OverInv, Exceeds
      <4>2. PICK b \in BudgetIds, d \in BudgetIds :
              /\ budget[b] = x /\ budget[d] = y /\ x # NULL /\ y # NULL
              /\ x.categoryId = c /\ y.categoryId = c /\ x.month = month /\ y.month = month
        BY DEF BudgetsFor, BudgetRows
      <4>3. c # NULL
        BY <2>1, BudgetsAssumption
      <4>4. x.type = "CATEGORY" /\ y.type = "CATEGORY"
        <5>1. x \in BudgetRow /\ y \in BudgetRow /\ x \in BudgetRows /\ y \in BudgetRows
          BY <1>0, AmountsFact DEF BudgetsFor
        <5>. QED  BY <1>0, <4>2, <4>3, <5>1 DEF BudgetsShape, BudgetRow
      <4>5. SameKey(y, x)
        BY <4>2, <4>4 DEF SameKey, HasKey
      <4>6. x = y
        BY <1>0, <4>2, <4>3, <4>5 DEF BudgetsTypeOK
      <4>. QED  BY <4>1, <4>6
    <3>3. Goes(r, h)
      BY <2>4
    <3> HIDE DEF h, c
    <3>. QED  BY <1>0, <2>1, <2>2, <3>1, <3>2, <3>3, BudgetRequestStep
  <2>. QED  BY <1>4, <2>3, <2>4 DEF FindBudget, CheckedMonth
<1>5. ASSUME NEW r \in Requests, SumExpenses(r) PROVE BudgetsIInv'
  <2> DEFINE h == request[r]
  <2>1. /\ h.pc = "sum" /\ Goes(r, Idle)
        /\ UNCHANGED <<budgeted, budget, spent, month, twin>>
        /\ overspent' = IF h.month = month /\ spent[h.category][h.month] > h.limit
                        THEN overspent \ {h.category} ELSE overspent
    BY <1>5 DEF SumExpenses, Ends
  <2>2. \A c \in overspent' : c \in overspent /\ ~Notifies(r, c)
    BY <2>1 DEF Notifies
  <2>. QED  BY <1>0, <2>1, <2>2, BudgetRequestStep
<1>6. ASSUME NEW r \in Requests, FailBudgetRequest(r) PROVE BudgetsIInv'
  <2>1. /\ Goes(r, Idle)
        /\ UNCHANGED <<budgeted, budget, spent, month, twin>>
        /\ overspent' = IF request[r].pc = "insert budget" THEN overspent
                        ELSE overspent \ {request[r].category}
    BY <1>6 DEF FailBudgetRequest, Ends
  <2>2. \A c \in overspent' : c \in overspent /\ ~Notifies(r, c)
    BY <2>1 DEF Notifies
  <2>. QED  BY <1>0, <2>1, <2>2, BudgetRequestStep
<1>7. ASSUME NEW b \in BudgetIds, RemoveBudget(b) PROVE BudgetsIInv'
  <2>1. Becomes(b, NULL) /\ UNCHANGED <<budgeted, spent, month, request>>
    BY <1>7 DEF RemoveBudget
  <2>. QED  BY <1>0, <2>1, BecomesFact DEF BudgetsShape
<1>8. ASSUME NEW b \in BudgetIds, NEW row \in Proposed, UpdateBudget(b, row)
      PROVE  BudgetsIInv'
  <2>1. /\ Becomes(b, row) /\ UNCHANGED <<budgeted, spent, month, request>>
        /\ row.categoryId \in budgeted \cup {NULL}
        /\ Unique({budget[d] : d \in BudgetIds \ {b}} \ {NULL}, row)
    BY <1>8 DEF UpdateBudget
  <2>. QED  BY <1>0, <2>1, BecomesFact DEF BudgetsShape
<1>9. ASSUME NEW c \in BudgetCategories, DeleteCategory(c) PROVE BudgetsIInv'
  BY <1>0, <1>9, DeleteCategoryStep
<1>10. ASSUME NEW c \in BudgetCategories, NEW m \in Months, DeleteExpense(c, m)
       PROVE  BudgetsIInv'
  BY <1>0, <1>10, DeleteExpenseStep
<1>11. ASSUME NextMonth PROVE BudgetsIInv'
  <2>1. /\ UNCHANGED <<budgeted, budget, spent, request, twin>> /\ overspent' = {}
        /\ month' \in Months
    BY <1>0, <1>11, MonthsFact DEF NextMonth
  <2>2. BudgetsTypeOK'
    BY <1>0, <2>1 DEF BudgetsTypeOK, SameKey, HasKey
  <2>3. BudgetsShape' /\ TwinInv'
    BY <1>0, <2>1 DEF BudgetsShape, TwinInv, BudgetRows, Taken
  <2>4. OverInv'
    BY <2>1 DEF OverInv
  <2>. QED  BY <2>2, <2>3, <2>4 DEF BudgetsIInv
<1>12. CASE UNCHANGED budgetsVars
  <2>1. /\ UNCHANGED <<budgeted, budget, spent, month, twin, overspent, request>>
        /\ BudgetRows' = BudgetRows
    BY <1>12 DEF budgetsVars, budgetTables, BudgetRows
  <2>2. BudgetsTypeOK'
    BY <1>0, <2>1 DEF BudgetsTypeOK, SameKey, HasKey
  <2>3. BudgetsShape' /\ TwinInv'
    BY <1>0, <2>1 DEF BudgetsShape, TwinInv, Taken
  <2>4. OverInv'
    BY <1>0, <2>1 DEF OverInv, Exceeds, BudgetsFor, Notifies
  <2>. QED  BY <2>2, <2>3, <2>4 DEF BudgetsIInv
<1>. QED  BY <1>1, <1>2, <1>3, <1>4, <1>5, <1>6, <1>7, <1>8, <1>9, <1>10, <1>11, <1>12
          DEF BudgetsNext

(* No budget refers to a category that is gone, and a category and month    *)
(* has one budget.                                                          *)
THEOREM BudgetsTypeCorrect == BudgetsSpec => []BudgetsTypeOK
<1>1. BudgetsIInv => BudgetsTypeOK
  BY DEF BudgetsIInv
<1>. QED  BY <1>1, BudgetsInitInv, BudgetsNextInv, PTL DEF BudgetsSpec

(* Who is over the budget of this month is notified, or will be: of the     *)
(* expenses that overlap, the last to be inserted is still to be checked.   *)
THEOREM OverspendingNotifiedHolds == BudgetsSpec => []OverspendingNotified
<1>1. BudgetsIInv => OverspendingNotified
  BY DEF BudgetsIInv, OverInv, Notifies, OverspendingNotified
<1>. QED  BY <1>1, BudgetsInitInv, BudgetsNextInv, PTL DEF BudgetsSpec

(* No second general budget for a month, but for one that appears between   *)
(* the check of createBudget and its insert.                                *)
THEOREM NoSecondBudgetHolds == BudgetsSpec => NoSecondBudget
<1> DEFINE NoTwin == \A r \in Requests :
                       /\ InsertBudget(r) /\ budget' # budget
                       /\ \E row \in BudgetRows : SameKey(row, request[r].row)
                       => twin[r]
<1>1. BudgetsIInv => NoTwin
  BY DEF BudgetsIInv, TwinInv, InsertBudget, Taken
<1>2. BudgetsIInv /\ [BudgetsNext]_budgetsVars => [NoTwin]_budgetsVars
  BY <1>1
<1>. QED  BY <1>2, BudgetsInitInv, BudgetsNextInv, PTL DEF BudgetsSpec, NoSecondBudget

-----------------------------------------------------------------------------
(* Categories and groups. *)
GroupRequest == [pc : {"assign"}, group : Groups, category : Categories]
           \cup [pc : {"remove"}, category : Categories]
           \cup [pc : {"write"}, expense : {NULL}, workspace : Workspaces,
                 category : Categories, group : Groups \cup {NULL}]
           \cup [pc : {"write"}, expense : Expenses, workspace : {NULL},
                 category : Categories \cup {KEEP}, group : Groups \cup {NULL, KEEP}]

GroupsShape ==
    /\ DOMAIN request = Requests /\ DOMAIN origin = Expenses \cup Requests
    /\ category \in [Categories -> CategoryRow \cup {NULL}]
    /\ group \in [Groups -> Workspaces \cup {NULL}]
    /\ DOMAIN expense = Expenses
    /\ \A r \in Requests : request[r].pc \in {"assign", "remove", "write"} =>
          request[r] \in GroupRequest

(* A group that a category may be in, or a handler that has read it may give *)
(* it to: one of its own workspace, if the category is of a workspace.       *)
Fits(c, g) ==
    category[c] # NULL /\ category[c].scope \in Workspaces /\ g # NULL
    => group[g] \in {category[c].scope, NULL}

(* c is in g as long as both are there. *)
StillIn(c, g) ==
    category[c] # NULL => g = category[c].group \/ (g # NULL /\ group[g] = NULL)

Given(id, table) == table[id] # NULL \/ id \in removed

(* Category and group that were read together: of ids that were given. *)
ReadTogether(c, g) ==
    /\ c \in Categories /\ Given(c, category)
    /\ g \in Groups \cup {NULL} /\ (g # NULL => Given(g, group))
    /\ Fits(c, g)

RowsInv ==
    /\ InheritsGroup
    /\ \A c \in Categories : category[c] # NULL => Fits(c, category[c].group)
    /\ \A e \in Expenses : expense[e] # NULL /\ origin[e] # "sent" =>
          Fits(expense[e].category, expense[e].group)

HeldInv ==
    /\ \A r \in Requests : request[r].pc = "assign" =>
          ReadTogether(request[r].category, request[r].group)
    /\ \A r \in Requests : origin[r] # "sent" =>
          /\ request[r].pc = "write"
          /\ ReadTogether(request[r].category, request[r].group)
          /\ origin[r] = "present" => StillIn(request[r].category, request[r].group)

GroupsIInv == GroupsTypeOK /\ GroupsShape /\ RowsInv /\ HeldInv

LEMMA GroupsInitInv == GroupsInit => GroupsIInv
<1> SUFFICES ASSUME GroupsInit PROVE GroupsIInv
  OBVIOUS
<1>1. /\ \A r \in Requests : request[r] = Idle
      /\ DOMAIN request = Requests /\ DOMAIN origin = Expenses \cup Requests
      /\ \A x \in Expenses \cup Requests : origin[x] = "sent"
  BY DEF GroupsInit, NobodyIn
<1>2. Idle.pc = "idle"
  BY DEF Idle
<1>3. \A c \in Categories :
         category[c] \in {[scope |-> GLOBAL, group |-> NULL], NULL}
  BY DEF GroupsInit
<1>4. category \in [Categories -> CategoryRow \cup {NULL}]
  BY DEF GroupsInit, CategoryRow, Scopes
<1>5. group \in [Groups -> Workspaces \cup {NULL}] /\ DOMAIN expense = Expenses
      /\ (\A e \in Expenses : expense[e] = NULL) /\ \A g \in Groups : group[g] = NULL
  BY DEF GroupsInit
<1>6. GroupsTypeOK
  BY <1>3, <1>5 DEF GroupsTypeOK, GroupExists
<1>7. GroupsShape
  BY <1>1, <1>2, <1>4, <1>5 DEF GroupsShape
<1>8. RowsInv
  BY <1>3, <1>5 DEF RowsInv, InheritsGroup, Fits
<1>9. HeldInv
  BY <1>1, <1>2 DEF HeldInv
<1>. QED  BY <1>6, <1>7, <1>8, <1>9 DEF GroupsIInv

(* What the steps of the categories and groups need: everything in its       *)
(* shape, no NULL among the ids.                                             *)
LEMMA GroupsFacts ==
    ASSUME GroupsIInv
    PROVE  /\ GroupsTypeOK /\ GroupsShape /\ RowsInv /\ HeldInv /\ Idle.pc = "idle"
           /\ GLOBAL \notin Workspaces /\ Expenses \cap Requests = {}
           /\ NULL \notin Workspaces /\ NULL \notin Categories /\ NULL \notin Groups
           /\ NULL \notin Expenses /\ NULL \notin CategoryRow /\ NULL \notin Expense
           /\ KEEP \notin Categories /\ KEEP \notin Groups /\ KEEP # NULL
           /\ \A c \in Categories : category[c] # NULL =>
                category[c] \in CategoryRow /\ category[c].group \in Groups \cup {NULL}
           /\ \A e \in Expenses : expense[e] # NULL =>
                /\ expense[e] \in Expense /\ expense[e].category \in Categories
                /\ expense[e].workspace \in Workspaces /\ expense[e].group \in Groups \cup {NULL}
           /\ \A r \in Requests : request[r].pc \in {"assign", "remove", "write"} =>
                request[r] \in GroupRequest
<1>1. GroupsTypeOK /\ GroupsShape /\ RowsInv /\ HeldInv /\ Idle.pc = "idle"
  BY DEF GroupsIInv, Idle
<1>2. /\ GLOBAL \notin Workspaces /\ Expenses \cap Requests = {}
      /\ NULL \notin Workspaces /\ NULL \notin Categories /\ NULL \notin Groups
      /\ NULL \notin Expenses /\ NULL \notin CategoryRow /\ NULL \notin Expense
      /\ KEEP \notin Categories /\ KEEP \notin Groups /\ KEEP # NULL
  BY GroupsAssumption DEF Scopes
<1>3. \A c \in Categories : category[c] # NULL =>
        category[c] \in CategoryRow /\ category[c].group \in Groups \cup {NULL}
  BY <1>1 DEF GroupsShape, CategoryRow
<1>4. \A e \in Expenses : expense[e] # NULL =>
        /\ expense[e] \in Expense /\ expense[e].category \in Categories
        /\ expense[e].workspace \in Workspaces /\ expense[e].group \in Groups \cup {NULL}
  BY <1>1 DEF GroupsTypeOK, Expense
<1>5. \A r \in Requests : request[r].pc \in {"assign", "remove", "write"} =>
        request[r] \in GroupRequest
  BY <1>1 DEF GroupsShape
<1>. QED  BY <1>1, <1>2, <1>3, <1>4, <1>5

(* A category moves to a group of its workspace, or to none; the handlers    *)
(* that write something ends are not affected.                               *)
LEMMA RegroupedFact ==
    ASSUME GroupsIInv, NEW c \in Categories, NEW g \in Groups \cup {NULL},
           category[c] # NULL, GroupExists(g), Fits(c, g),
           category' = [category EXCEPT ![c] = [category[c] EXCEPT !.group = g]],
           Regrouped(c), UNCHANGED <<living, group, expense, removed>>,
           DOMAIN request' = Requests,
           \A q \in Requests : \/ request'[q] = request[q]
                               \/ request[q].pc = "assign" /\ request'[q] = Idle
    PROVE  GroupsIInv'
<1> USE GroupsFacts
<1>1. LET row == [category[c] EXCEPT !.group = g]
      IN  row \in CategoryRow /\ row.group = g /\ row.scope = category[c].scope /\ row # NULL
  <2>1. category[c] \in CategoryRow
    OBVIOUS
  <2>. QED  BY <2>1 DEF CategoryRow
<1>2. /\ category' \in [Categories -> CategoryRow \cup {NULL}]
      /\ category'[c] # NULL /\ category'[c].group = g /\ category'[c].scope = category[c].scope
      /\ \A d \in Categories : d # c => category'[d] = category[d]
  BY <1>1 DEF GroupsShape
<1>3. /\ DOMAIN origin' = Expenses \cup Requests
      /\ \A x \in Expenses \cup Requests :
            /\ origin'[x] = "sent" <=> origin[x] = "sent"
            /\ origin'[x] = "present" => origin[x] = "present" /\ ~Inherits(x, c)
  BY DEF Regrouped, Inherits
<1>4. \A e \in Expenses : origin'[e] = "present" => origin[e] = "present" /\ expense[e].category # c
  BY <1>3 DEF Inherits
<1>5. \A r \in Requests : origin'[r] = "present" => origin[r] = "present" /\ request[r].category # c
  BY <1>3 DEF Inherits
<1>6. \A d \in Categories, f \in Groups \cup {NULL} : Fits(d, f) => Fits(d, f)'
  BY <1>2 DEF Fits
<1>7. GroupsTypeOK'
  BY <1>2 DEF GroupsTypeOK, GroupExists
<1>8. GroupsShape'
  BY <1>2, <1>3 DEF GroupsShape
<1>9. RowsInv'
  <2>1. InheritsGroup'
    BY <1>2, <1>4 DEF RowsInv, InheritsGroup
  <2>2. \A d \in Categories : category'[d] # NULL => Fits(d, category[d].group)' \/ d = c
    BY <1>2, <1>6 DEF RowsInv
  <2>3. (\A d \in Categories : category[d] # NULL => Fits(d, category[d].group))'
    BY <1>2 DEF RowsInv, Fits
  <2>4. (\A e \in Expenses : expense[e] # NULL /\ origin[e] # "sent" =>
            Fits(expense[e].category, expense[e].group))'
    BY <1>3, <1>6 DEF RowsInv
  <2>. QED  BY <2>1, <2>3, <2>4 DEF RowsInv
<1>10. \A d, f : ReadTogether(d, f) => ReadTogether(d, f)'
  BY <1>2, <1>6 DEF ReadTogether, Given
<1>11. \A r \in Requests : request'[r].pc \in {"assign", "write"} => request'[r] = request[r]
  OBVIOUS
<1>12. (\A r \in Requests : request[r].pc = "assign" =>
          ReadTogether(request[r].category, request[r].group))'
  BY <1>10, <1>11 DEF HeldInv
<1>13. ASSUME NEW r \in Requests, origin'[r] # "sent"
       PROVE  /\ request'[r].pc = "write"
              /\ ReadTogether(request[r].category, request[r].group)'
              /\ origin'[r] = "present" => StillIn(request[r].category, request[r].group)'
  <2>1. request[r].pc = "write" /\ ReadTogether(request[r].category, request[r].group)
    BY <1>3, <1>13 DEF HeldInv
  <2>2. request'[r] = request[r]
    BY <2>1
  <2>3. origin'[r] = "present" => StillIn(request[r].category, request[r].group)
                                  /\ request[r].category # c /\ request[r].category \in Categories
    BY <1>5, <2>1 DEF HeldInv, ReadTogether
  <2>. QED  BY <1>2, <1>10, <2>1, <2>2, <2>3 DEF StillIn
<1>14. HeldInv'
  BY <1>12, <1>13 DEF HeldInv
<1>. QED  BY <1>7, <1>8, <1>9, <1>14 DEF GroupsIInv

(* Rows go, and with them all that refers to what goes, or forgets it. *)
LEMMA DeleteFact ==
    ASSUME GroupsIInv, NEW cs \in SUBSET Categories, NEW gs \in SUBSET Groups,
           NEW es \in SUBSET Expenses, Delete(cs, gs, es),
           \A e \in Expenses \ es : expense[e] # NULL =>
              expense[e].category \notin cs /\ expense[e].workspace \in living',
           \A c \in Categories \ cs : category[c] # NULL => category[c].scope \in living' \cup {GLOBAL},
           \A g \in Groups \ gs : group[g] # NULL => group[g] \in living',
           DOMAIN request' = Requests,
           \A q \in Requests : \/ request'[q] = request[q]
                               \/ request[q].pc = "remove" /\ request'[q] = Idle
    PROVE  GroupsIInv'
<1> USE GroupsFacts
<1> DEFINE Left(g) == IF g \in gs THEN NULL ELSE g
<1>1. \A c \in Categories :
        /\ c \in cs \/ category[c] = NULL => category'[c] = NULL
        /\ c \notin cs /\ category[c] # NULL =>
              /\ category'[c] \in CategoryRow /\ category'[c] # NULL
              /\ category'[c].scope = category[c].scope
              /\ category'[c].group = Left(category[c].group)
  <2>1. ASSUME NEW c \in Categories, c \notin cs, category[c] # NULL
        PROVE  /\ category'[c] \in CategoryRow /\ category'[c] # NULL
               /\ category'[c].scope = category[c].scope
               /\ category'[c].group = Left(category[c].group)
    <3>1. category'[c] = Ungrouped(category[c], gs) /\ category[c] \in CategoryRow
      BY <2>1 DEF Delete
    <3>2. [category[c] EXCEPT !.group = NULL] \in CategoryRow
      BY <3>1 DEF CategoryRow
    <3>3. /\ [category[c] EXCEPT !.group = NULL].group = NULL
          /\ [category[c] EXCEPT !.group = NULL].scope = category[c].scope
      BY <3>1 DEF CategoryRow
    <3>. QED  BY <2>1, <3>1, <3>2, <3>3 DEF Ungrouped
  <2>2. \A c \in Categories : c \in cs \/ category[c] = NULL => category'[c] = NULL
    BY DEF Delete, Ungrouped
  <2>. QED  BY <2>1, <2>2
<1>2. \A e \in Expenses :
        /\ e \in es \/ expense[e] = NULL => expense'[e] = NULL
        /\ e \notin es /\ expense[e] # NULL =>
              /\ expense'[e] \in Expense
              /\ expense'[e].workspace = expense[e].workspace
              /\ expense'[e].category = expense[e].category
              /\ expense'[e].group = Left(expense[e].group)
  <2>1. ASSUME NEW e \in Expenses, e \notin es, expense[e] # NULL
        PROVE  /\ expense'[e] \in Expense
               /\ expense'[e].workspace = expense[e].workspace
               /\ expense'[e].category = expense[e].category
               /\ expense'[e].group = Left(expense[e].group)
    <3>1. expense'[e] = Ungrouped(expense[e], gs) /\ expense[e] \in Expense
      BY <2>1 DEF Delete
    <3>2. [expense[e] EXCEPT !.group = NULL] \in Expense
      BY <3>1 DEF Expense
    <3>3. /\ [expense[e] EXCEPT !.group = NULL].group = NULL
          /\ [expense[e] EXCEPT !.group = NULL].workspace = expense[e].workspace
          /\ [expense[e] EXCEPT !.group = NULL].category = expense[e].category
      BY <3>1 DEF Expense
    <3>. QED  BY <2>1, <3>1, <3>2, <3>3 DEF Ungrouped
  <2>2. \A e \in Expenses : e \in es \/ expense[e] = NULL => expense'[e] = NULL
    BY DEF Delete, Ungrouped
  <2>. QED  BY <2>1, <2>2
<1>3. /\ group' \in [Groups -> Workspaces \cup {NULL}]
      /\ \A g \in Groups : group'[g] = IF g \in gs THEN NULL ELSE group[g]
  BY DEF Delete, GroupsShape
<1>4. /\ DOMAIN origin' = Expenses \cup Requests
      /\ \A x \in Expenses \cup Requests : origin'[x] = IF x \in es THEN "sent" ELSE origin[x]
      /\ cs \cup gs \cup removed \subseteq removed'
  BY DEF Delete
<1>5. \A g \in Groups \cup {NULL} : GroupExists(g) => GroupExists(Left(g))'
  BY <1>3 DEF GroupExists
<1>6. \A c \in Categories, g \in Groups \cup {NULL} : Fits(c, g) => Fits(c, g)' /\ Fits(c, Left(g))'
  BY <1>1, <1>3 DEF Fits
<1> HIDE DEF Left
<1>7. GroupsTypeOK'
  <2>1. \A g \in Groups : group'[g] # NULL => group'[g] \in living'
    BY <1>3
  <2>2. ASSUME NEW c \in Categories, category'[c] # NULL
        PROVE  category'[c].scope \in living' \cup {GLOBAL} /\ GroupExists(category[c].group)'
    BY <1>1, <1>5, <2>2 DEF GroupsTypeOK
  <2>3. ASSUME NEW e \in Expenses, expense'[e] # NULL
        PROVE  /\ expense'[e] \in Expense /\ expense'[e].workspace \in living'
               /\ category'[expense'[e].category] # NULL
               /\ GroupExists(expense[e].group)'
    <3>1. e \notin es /\ expense[e] # NULL
      BY <1>2, <2>3
    <3>2. category[expense[e].category] # NULL /\ GroupExists(expense[e].group)
      BY <3>1 DEF GroupsTypeOK
    <3>. QED  BY <1>1, <1>2, <1>5, <3>1, <3>2
  <2>. QED  BY <2>1, <2>2, <2>3 DEF GroupsTypeOK
<1>8. GroupsShape'
  <2>1. category' \in [Categories -> CategoryRow \cup {NULL}]
    BY <1>1 DEF Delete
  <2>2. DOMAIN expense' = Expenses
    BY DEF Delete
  <2>3. \A r \in Requests : request'[r].pc \in {"assign", "remove", "write"} => request'[r] = request[r]
    OBVIOUS
  <2>. QED  BY <1>3, <1>4, <2>1, <2>2, <2>3 DEF GroupsShape
<1>9. RowsInv'
  <2>1. ASSUME NEW e \in Expenses, expense'[e] # NULL, origin'[e] = "present"
        PROVE  expense'[e].group = category'[expense'[e].category].group
    <3>1. e \notin es /\ expense[e] # NULL /\ origin[e] = "present"
      BY <1>2, <1>4, <2>1
    <3>2. expense[e].group = category[expense[e].category].group
      BY <3>1 DEF RowsInv, InheritsGroup
    <3>3. category[expense[e].category] # NULL
      BY <3>1 DEF GroupsTypeOK
    <3>. QED  BY <1>1, <1>2, <3>1, <3>2, <3>3
  <2>2. ASSUME NEW c \in Categories, category'[c] # NULL PROVE Fits(c, category[c].group)'
    BY <1>1, <1>6, <2>2 DEF RowsInv
  <2>3. ASSUME NEW e \in Expenses, expense'[e] # NULL, origin'[e] # "sent"
        PROVE  Fits(expense[e].category, expense[e].group)'
    <3>1. /\ e \notin es /\ expense[e] # NULL /\ origin[e] # "sent"
          /\ Fits(expense[e].category, expense[e].group)
      BY <1>2, <1>4, <2>3 DEF RowsInv
    <3>. QED  BY <1>2, <1>6, <3>1
  <2>. QED  BY <2>1, <2>2, <2>3 DEF RowsInv, InheritsGroup
<1>10. \A c, g : ReadTogether(c, g) => ReadTogether(c, g)'
  BY <1>1, <1>3, <1>4, <1>6 DEF ReadTogether, Given
<1>11. \A c \in Categories, g \in Groups \cup {NULL} : StillIn(c, g) => StillIn(c, g)'
  BY <1>1, <1>3 DEF StillIn, Left
<1>12. HeldInv'
  <2>1. ASSUME NEW r \in Requests, request'[r].pc = "assign"
        PROVE  ReadTogether(request[r].category, request[r].group)'
    <3>1. request'[r] = request[r] /\ ReadTogether(request[r].category, request[r].group)
      BY <2>1 DEF HeldInv
    <3>. QED  BY <1>10, <3>1
  <2>2. ASSUME NEW r \in Requests, origin'[r] # "sent"
        PROVE  /\ request'[r].pc = "write"
               /\ ReadTogether(request[r].category, request[r].group)'
               /\ origin'[r] = "present" => StillIn(request[r].category, request[r].group)'
    <3>1. /\ origin'[r] = origin[r]
          /\ request[r].pc = "write" /\ ReadTogether(request[r].category, request[r].group)
          /\ origin[r] = "present" => StillIn(request[r].category, request[r].group)
      BY <1>4, <2>2 DEF HeldInv
    <3>2. request'[r] = request[r]
      BY <3>1
    <3>. QED  BY <1>10, <1>11, <3>1, <3>2 DEF ReadTogether
  <2>. QED  BY <2>1, <2>2 DEF HeldInv
<1>. QED  BY <1>7, <1>8, <1>9, <1>12 DEF GroupsIInv

(* The handlers of others, when one goes on and no table changes. *)
LEMMA GroupRequestStep ==
    ASSUME GroupsIInv, NEW r \in Requests, NEW h, Goes(r, h),
           h \in GroupRequest \/ h = Idle,
           UNCHANGED <<living, category, group, expense, removed>>,
           DOMAIN origin' = Expenses \cup Requests,
           \A x \in (Expenses \cup Requests) \ {r} : origin'[x] = origin[x],
           h.pc = "assign" => ReadTogether(h.category, h.group),
           origin'[r] # "sent" => h.pc = "write" /\ ReadTogether(h.category, h.group),
           origin'[r] = "present" => StillIn(h.category, h.group)
    PROVE  GroupsIInv'
<1> USE GroupsFacts
<1>1. /\ DOMAIN request' = Requests /\ request'[r] = h
      /\ \A q \in Requests \ {r} : request'[q] = request[q]
  BY GoesFact DEF GroupsShape
<1>2. GroupsTypeOK'
  BY DEF GroupsTypeOK, GroupExists
<1>3. GroupsShape'
  BY <1>1 DEF GroupsShape
<1>4. \A e \in Expenses : origin'[e] = origin[e]
  OBVIOUS
<1>5. RowsInv'
  BY <1>4 DEF RowsInv, InheritsGroup, Fits
<1>6. \A c, g : /\ ReadTogether(c, g) => ReadTogether(c, g)'
                /\ StillIn(c, g) => StillIn(c, g)'
  BY DEF ReadTogether, StillIn, Given, Fits
<1>7. HeldInv'
  BY <1>1, <1>6 DEF HeldInv
<1>. QED  BY <1>2, <1>3, <1>5, <1>7 DEF GroupsIInv

LEMMA CreateCategoryStep ==
    ASSUME GroupsIInv, NEW c \in Categories, NEW s \in Workspaces \cup Clients, CreateCategory(c, s)
    PROVE  GroupsIInv'
<1> USE GroupsFacts
<1>1. [scope |-> s, group |-> NULL] \in CategoryRow
  BY DEF CategoryRow, Scopes
<1>2. /\ category[c] = NULL /\ c \notin removed
      /\ UNCHANGED <<living, group, removed, expense, origin, request>>
      /\ category' \in [Categories -> CategoryRow \cup {NULL}]
      /\ category'[c].group = NULL /\ category'[c].scope \in living
      /\ \A d \in Categories : d # c => category'[d] = category[d]
  BY <1>1 DEF CreateCategory, GroupsShape
<1>3. \A e \in Expenses : expense[e] # NULL => expense[e].category # c
  BY <1>2 DEF GroupsTypeOK
<1>4. \A d \in Categories \ {c}, f \in Groups \cup {NULL} :
         (Fits(d, f) => Fits(d, f)') /\ (StillIn(d, f) => StillIn(d, f)')
  BY <1>2 DEF Fits, StillIn
<1>5. GroupsTypeOK'
  BY <1>2, <1>3 DEF GroupsTypeOK, GroupExists
<1>6. GroupsShape'
  BY <1>2 DEF GroupsShape
<1>7. RowsInv'
  <2>1. InheritsGroup'
    BY <1>2, <1>3 DEF RowsInv, InheritsGroup
  <2>2. (\A d \in Categories : category[d] # NULL => Fits(d, category[d].group))'
    BY <1>2 DEF RowsInv, Fits
  <2>3. (\A e \in Expenses : expense[e] # NULL /\ origin[e] # "sent" =>
            Fits(expense[e].category, expense[e].group))'
    BY <1>2, <1>3, <1>4 DEF RowsInv
  <2>. QED  BY <2>1, <2>2, <2>3 DEF RowsInv
<1>8. \A d, f : ReadTogether(d, f) => d # c /\ ReadTogether(d, f)'
  BY <1>2, <1>4 DEF ReadTogether, Given
<1>9. HeldInv'
  BY <1>2, <1>4, <1>8 DEF HeldInv, ReadTogether
<1>. QED  BY <1>5, <1>6, <1>7, <1>9 DEF GroupsIInv

LEMMA CreateGroupStep ==
    ASSUME GroupsIInv, NEW g \in Groups, NEW w \in Workspaces, CreateGroup(g, w)
    PROVE  GroupsIInv'
<1> USE GroupsFacts
<1>1. /\ group[g] = NULL /\ g \notin removed
      /\ UNCHANGED <<living, category, removed, expense, origin, request>>
      /\ group' \in [Groups -> Workspaces \cup {NULL}]
      /\ group'[g] # NULL /\ group'[g] \in living
      /\ \A f \in Groups : f # g => group'[f] = group[f]
  BY DEF CreateGroup, GroupsShape
<1>2. /\ \A b \in Categories : category[b] # NULL => category[b].group # g
      /\ \A e \in Expenses : expense[e] # NULL => expense[e].group # g
  BY <1>1 DEF GroupsTypeOK, GroupExists
<1>3. \A d \in Categories, f \in (Groups \cup {NULL}) \ {g} :
         (Fits(d, f) => Fits(d, f)') /\ (StillIn(d, f) => StillIn(d, f)')
  BY <1>1 DEF Fits, StillIn
<1>4. GroupsTypeOK'
  BY <1>1, <1>2 DEF GroupsTypeOK, GroupExists
<1>5. GroupsShape'
  BY <1>1 DEF GroupsShape
<1>6. RowsInv'
  <2>1. InheritsGroup'
    BY <1>1 DEF RowsInv, InheritsGroup
  <2>2. (\A d \in Categories : category[d] # NULL => Fits(d, category[d].group))'
    BY <1>1, <1>2, <1>3 DEF RowsInv
  <2>3. (\A e \in Expenses : expense[e] # NULL /\ origin[e] # "sent" =>
            Fits(expense[e].category, expense[e].group))'
    BY <1>1, <1>2, <1>3 DEF RowsInv
  <2>. QED  BY <2>1, <2>2, <2>3 DEF RowsInv
<1>7. \A d, f : ReadTogether(d, f) => f # g /\ ReadTogether(d, f)'
  BY <1>1, <1>3 DEF ReadTogether, Given
<1>8. HeldInv'
  BY <1>1, <1>3, <1>7 DEF HeldInv, ReadTogether
<1>. QED  BY <1>4, <1>5, <1>6, <1>8 DEF GroupsIInv

(* A workspace or a user goes, with what is its own. *)
LEMMA CascadeStep ==
    ASSUME GroupsIInv, NEW dropped \in SUBSET (Workspaces \cup Clients), Cascade(dropped)
    PROVE  GroupsIInv'
<1> USE GroupsFacts
<1>1. /\ living' = living \ dropped /\ UNCHANGED request
      /\ Delete(CategoriesOf(dropped), GroupsOf(dropped), ExpensesOf(dropped))
  BY DEF Cascade
<1>2. /\ CategoriesOf(dropped) \in SUBSET Categories /\ GroupsOf(dropped) \in SUBSET Groups
      /\ ExpensesOf(dropped) \in SUBSET Expenses
  BY DEF CategoriesOf, GroupsOf, ExpensesOf
<1>3. \A e \in Expenses \ ExpensesOf(dropped) : expense[e] # NULL =>
         expense[e].category \notin CategoriesOf(dropped)
  BY DEF Cascade, Restricts, ExpensesIn
<1>4. \A e \in Expenses \ ExpensesOf(dropped) : expense[e] # NULL => expense[e].workspace \in living'
  BY <1>1 DEF ExpensesOf, GroupsTypeOK
<1>5. \A c \in Categories \ CategoriesOf(dropped) : category[c] # NULL =>
         category[c].scope \in living' \cup {GLOBAL}
  BY <1>1 DEF CategoriesOf, GroupsTypeOK
<1>6. \A g \in Groups \ GroupsOf(dropped) : group[g] # NULL => group[g] \in living'
  BY <1>1 DEF GroupsOf, GroupsTypeOK
<1>7. DOMAIN request' = Requests /\ \A q \in Requests : request'[q] = request[q]
  BY <1>1 DEF GroupsShape
<1>. QED  BY <1>1, <1>2, <1>3, <1>4, <1>5, <1>6, <1>7, DeleteFact

(* A request has read the group of its category, or carries what was sent. *)
LEMMA StartWriteStep ==
    ASSUME GroupsIInv, NEW r \in Requests, NEW body \in Bodies, NEW e, NEW w,
           \/ e = NULL /\ w \in Workspaces /\ body.category # KEEP
           \/ e \in Expenses /\ w = NULL,
           StartWrite(r, e, w, body)
    PROVE  GroupsIInv'
<1> USE GroupsFacts
<1> DEFINE g == Resolved(body.category, body.group)
           h == [pc |-> "write", expense |-> e, workspace |-> w,
                 category |-> body.category, group |-> g]
<1>1. /\ body.category \in Categories \cup {KEEP} /\ body.group \in Groups \cup {NULL, KEEP}
      /\ body.category \in Categories => category[body.category] # NULL
  BY DEF Bodies
<1>2. g \in Groups \cup {NULL, KEEP} /\ (body.category # KEEP => g \in Groups \cup {NULL})
  BY <1>1 DEF Resolved
<1>3. body.category # KEEP /\ body.group = KEEP =>
        ReadTogether(body.category, g) /\ StillIn(body.category, g)
  <2> SUFFICES ASSUME body.category # KEEP, body.group = KEEP
               PROVE  ReadTogether(body.category, g) /\ StillIn(body.category, g)
    OBVIOUS
  <2>1. /\ body.category \in Categories /\ category[body.category] # NULL
        /\ g = category[body.category].group
    BY <1>1 DEF Resolved
  <2>2. Fits(body.category, g) /\ GroupExists(g) /\ g \in Groups \cup {NULL}
    BY <2>1 DEF RowsInv, GroupsTypeOK
  <2>. QED  BY <2>1, <2>2 DEF ReadTogether, StillIn, Given, GroupExists
<1>4. /\ Goes(r, h) /\ UNCHANGED <<living, category, group, expense, removed>>
      /\ origin' = [origin EXCEPT ![r] =
                       IF body.group = KEEP /\ body.category # KEEP THEN "present" ELSE "sent"]
  BY DEF StartWrite
<1> HIDE DEF g
<1>5. h \in GroupRequest /\ h.pc = "write" /\ h.category = body.category /\ h.group = g
  BY <1>1, <1>2 DEF GroupRequest
<1> HIDE DEF h
<1>6. /\ DOMAIN origin' = Expenses \cup Requests
      /\ \A x \in (Expenses \cup Requests) \ {r} : origin'[x] = origin[x]
      /\ origin'[r] \in {"present", "sent"}
      /\ origin'[r] = "present" => body.group = KEEP /\ body.category # KEEP
  BY <1>4 DEF GroupsShape
<1>. QED  BY <1>3, <1>4, <1>5, <1>6, GroupRequestStep

LEMMA WriteStep ==
    ASSUME GroupsIInv, NEW r \in Requests, NEW e \in Expenses, Write(r, e)
    PROVE  GroupsIInv'
<1> USE GroupsFacts
<1> DEFINE h == request[r]
           row == IF h.expense = NULL THEN Inserted(h) ELSE Written(expense[e], h)
<1>1. /\ h.pc = "write" /\ h \in GroupRequest /\ Goes(r, Idle)
      /\ UNCHANGED <<living, category, group, removed>>
      /\ IF h.expense = NULL THEN expense[e] = NULL /\ e \notin removed ELSE e = h.expense
  BY DEF Write, Ends
<1>2. \/ /\ KeysHold(h) /\ expense' = [expense EXCEPT ![e] = row]
         /\ origin' = [origin EXCEPT ![e] = origin[r], ![r] = "sent"]
      \/ expense' = expense /\ origin' = [origin EXCEPT ![r] = "sent"]
  BY DEF Write
<1>3. CASE expense' = expense /\ origin' = [origin EXCEPT ![r] = "sent"]
  <2>1. /\ DOMAIN origin' = Expenses \cup Requests /\ origin'[r] = "sent"
        /\ \A x \in (Expenses \cup Requests) \ {r} : origin'[x] = origin[x]
    BY <1>3 DEF GroupsShape
  <2>2. Idle.pc # "assign"
    BY DEF Idle
  <2>. QED  BY <1>1, <1>3, <2>1, <2>2, GroupRequestStep
<1>4. CASE /\ KeysHold(h) /\ expense' = [expense EXCEPT ![e] = row]
           /\ origin' = [origin EXCEPT ![e] = origin[r], ![r] = "sent"]
  <2>1. /\ row \in Expense /\ row.workspace \in living
        /\ category[row.category] # NULL /\ GroupExists(row.group)
    <3>1. CASE h.expense = NULL
      <4>1. /\ h.workspace \in Workspaces /\ h.category \in Categories
            /\ h.group \in Groups \cup {NULL}
        BY <1>1, <3>1 DEF GroupRequest
      <4>2. row = [workspace |-> h.workspace, category |-> h.category, group |-> h.group]
        BY <3>1 DEF Inserted
      <4> HIDE DEF row
      <4>3. row \in Expense /\ row.workspace = h.workspace /\ row.category = h.category /\ row.group = h.group
        BY <4>1, <4>2 DEF Expense
      <4>. QED  BY <1>4, <3>1, <4>1, <4>3 DEF KeysHold
    <3>2. CASE h.expense # NULL
      <4>1. /\ h.category \in Categories \cup {KEEP} /\ h.group \in Groups \cup {NULL, KEEP}
            /\ expense[e] # NULL
        BY <1>1, <1>4, <3>2 DEF GroupRequest, KeysHold
      <4>2. row = Written(expense[e], h)
        BY <3>2
      <4>3. /\ row = [workspace |-> row.workspace, category |-> row.category, group |-> row.group]
            /\ row.workspace = expense[e].workspace
            /\ row.category = IF h.category = KEEP THEN expense[e].category ELSE h.category
            /\ row.group = IF h.group = KEEP THEN expense[e].group ELSE h.group
        BY <4>2 DEF Written
      <4> HIDE DEF row
      <4>4. /\ expense[e].workspace \in living /\ category[expense[e].category] # NULL
            /\ GroupExists(expense[e].group)
        BY <4>1 DEF GroupsTypeOK
      <4>5. row.workspace \in Workspaces /\ row.category \in Categories /\ row.group \in Groups \cup {NULL}
        BY <4>1, <4>3
      <4>6. row \in Expense
        BY <4>3, <4>5 DEF Expense
      <4>. QED  BY <1>4, <4>1, <4>3, <4>4, <4>6 DEF KeysHold
    <3>. QED  BY <3>1, <3>2
  <2>2. origin[r] # "sent" =>
          /\ row.category = h.category /\ row.group = h.group
          /\ ReadTogether(h.category, h.group)
          /\ origin[r] = "present" => StillIn(h.category, h.group)
    <3> SUFFICES ASSUME origin[r] # "sent"
                 PROVE  /\ row.category = h.category /\ row.group = h.group
                        /\ ReadTogether(h.category, h.group)
                        /\ origin[r] = "present" => StillIn(h.category, h.group)
      OBVIOUS
    <3>1. /\ ReadTogether(h.category, h.group)
          /\ origin[r] = "present" => StillIn(h.category, h.group)
      BY DEF HeldInv
    <3>2. h.category # KEEP /\ h.group # KEEP
      BY <3>1 DEF ReadTogether
    <3>3. row.category = h.category /\ row.group = h.group
      BY <3>2 DEF Inserted, Written
    <3>. QED  BY <3>1, <3>3
  <2> HIDE DEF row
  <2>3. /\ DOMAIN expense' = Expenses /\ expense'[e] = row /\ row # NULL
        /\ \A d \in Expenses : d # e => expense'[d] = expense[d]
    BY <1>4, <2>1 DEF GroupsShape
  <2>4. /\ DOMAIN origin' = Expenses \cup Requests /\ e # r
        /\ origin'[e] = origin[r] /\ origin'[r] = "sent"
        /\ \A x \in (Expenses \cup Requests) \ {e, r} : origin'[x] = origin[x]
    BY <1>4 DEF GroupsShape
  <2>5. /\ DOMAIN request' = Requests /\ request'[r] = Idle
        /\ \A q \in Requests \ {r} : request'[q] = request[q]
    BY <1>1, GoesFact DEF GroupsShape
  <2>6. GroupsTypeOK'
    BY <1>1, <2>1, <2>3 DEF GroupsTypeOK, GroupExists
  <2>7. GroupsShape'
    BY <1>1, <2>3, <2>4, <2>5 DEF GroupsShape
  <2>8. \A c, g : /\ Fits(c, g) => Fits(c, g)'
                  /\ ReadTogether(c, g) => ReadTogether(c, g)'
                  /\ StillIn(c, g) => StillIn(c, g)'
    BY <1>1 DEF ReadTogether, StillIn, Given, Fits
  <2>9. RowsInv'
    <3>1. ASSUME NEW d \in Expenses, expense'[d] # NULL, origin'[d] = "present"
          PROVE  expense'[d].group = category'[expense'[d].category].group
      <4>1. CASE d = e
        <5>1. /\ row.category = h.category /\ row.group = h.group
              /\ StillIn(h.category, h.group)
          BY <2>2, <2>4, <3>1, <4>1
        <5>. QED  BY <1>1, <2>1, <2>3, <4>1, <5>1 DEF StillIn, GroupExists
      <4>2. CASE d # e
        <5>1. d # r
          OBVIOUS
        <5>. QED  BY <1>1, <2>3, <2>4, <3>1, <4>2, <5>1 DEF RowsInv, InheritsGroup
      <4>. QED  BY <4>1, <4>2
    <3>2. (\A c \in Categories : category[c] # NULL => Fits(c, category[c].group))'
      BY <1>1, <2>8 DEF RowsInv
    <3>3. ASSUME NEW d \in Expenses, expense'[d] # NULL, origin'[d] # "sent"
          PROVE  Fits(expense[d].category, expense[d].group)'
      <4>1. CASE d = e
        BY <2>2, <2>3, <2>4, <2>8, <3>3, <4>1 DEF ReadTogether
      <4>2. CASE d # e
        <5>1. d # r
          OBVIOUS
        <5>2. expense'[d] = expense[d] /\ origin'[d] = origin[d]
          BY <2>3, <2>4, <4>2, <5>1
        <5>3. Fits(expense[d].category, expense[d].group)
          BY <3>3, <5>2 DEF RowsInv
        <5>. QED  BY <2>8, <5>2, <5>3
      <4>. QED  BY <4>1, <4>2
    <3>. QED  BY <3>1, <3>2, <3>3 DEF RowsInv, InheritsGroup
  <2>10. HeldInv'
    <3>1. ASSUME NEW q \in Requests, request'[q].pc = "assign"
          PROVE  ReadTogether(request[q].category, request[q].group)'
      <4>1. request'[q] = request[q] /\ ReadTogether(request[q].category, request[q].group)
        BY <2>5, <3>1 DEF HeldInv
      <4>. QED  BY <2>8, <4>1
    <3>2. ASSUME NEW q \in Requests, origin'[q] # "sent"
          PROVE  /\ request'[q].pc = "write"
                 /\ ReadTogether(request[q].category, request[q].group)'
                 /\ origin'[q] = "present" => StillIn(request[q].category, request[q].group)'
      <4>1. q # r /\ q # e
        BY <2>4, <3>2
      <4>2. request'[q] = request[q] /\ origin'[q] = origin[q]
        BY <2>4, <2>5, <4>1
      <4>. QED  BY <2>8, <3>2, <4>2 DEF HeldInv
    <3>. QED  BY <3>1, <3>2 DEF HeldInv
  <2>. QED  BY <2>6, <2>7, <2>9, <2>10 DEF GroupsIInv
<1>. QED  BY <1>2, <1>3, <1>4

LEMMA GroupsNextInv == GroupsIInv /\ [GroupsNext]_groupsVars => GroupsIInv'
<1> SUFFICES ASSUME GroupsIInv, [GroupsNext]_groupsVars PROVE GroupsIInv'
  OBVIOUS
<1> USE GroupsFacts
<1>1. ASSUME NEW c \in Categories, NEW scope \in Workspaces \cup Clients, CreateCategory(c, scope)
      PROVE  GroupsIInv'
  BY <1>1, CreateCategoryStep
<1>2. ASSUME NEW g \in Groups, NEW w \in Workspaces, CreateGroup(g, w) PROVE GroupsIInv'
  BY <1>2, CreateGroupStep
<1>3. ASSUME NEW g \in Groups, RemoveGroup(g) PROVE GroupsIInv'
  <2>1. Delete({}, {g}, {}) /\ UNCHANGED <<living, request>>
    BY <1>3 DEF RemoveGroup
  <2>2. /\ {} \in SUBSET Categories /\ {g} \in SUBSET Groups /\ {} \in SUBSET Expenses
        /\ DOMAIN request' = Requests /\ \A q \in Requests : request'[q] = request[q]
    BY <2>1 DEF GroupsShape
  <2>3. /\ \A e \in Expenses \ {} : expense[e] # NULL =>
              expense[e].category \notin {} /\ expense[e].workspace \in living'
        /\ \A c \in Categories \ {} : category[c] # NULL => category[c].scope \in living' \cup {GLOBAL}
        /\ \A f \in Groups \ {g} : group[f] # NULL => group[f] \in living'
    BY <2>1 DEF GroupsTypeOK
  <2>. QED  BY <2>1, <2>2, <2>3, DeleteFact
<1>4. ASSUME NEW g \in Groups, NEW c \in Categories, UnassignCategory(g, c) PROVE GroupsIInv'
  <2>1. /\ category[c] # NULL /\ Regrouped(c)
        /\ UNCHANGED <<living, group, expense, removed, request>>
        /\ category' = [category EXCEPT ![c] = [category[c] EXCEPT !.group = NULL]]
    BY <1>4 DEF UnassignCategory
  <2>2. /\ GroupExists(NULL) /\ Fits(c, NULL) /\ DOMAIN request' = Requests
        /\ \A q \in Requests : request'[q] = request[q]
    BY <2>1 DEF GroupExists, Fits, GroupsShape
  <2>. QED  BY <2>1, <2>2, RegroupedFact
<1>5. ASSUME NEW w \in Workspaces, DropWorkspace(w) PROVE GroupsIInv'
  BY <1>5, CascadeStep DEF DropWorkspace
<1>6. ASSUME NEW u \in Clients, NEW owned \in SUBSET Workspaces, DropClient(u, owned)
      PROVE  GroupsIInv'
  BY <1>6, CascadeStep DEF DropClient
<1>7. ASSUME NEW e \in Expenses, RemoveExpense(e) PROVE GroupsIInv'
  <2>1. Delete({}, {}, {e}) /\ UNCHANGED <<living, request>>
    BY <1>7 DEF RemoveExpense
  <2>2. /\ {} \in SUBSET Categories /\ {} \in SUBSET Groups /\ {e} \in SUBSET Expenses
        /\ DOMAIN request' = Requests /\ \A q \in Requests : request'[q] = request[q]
    BY <2>1 DEF GroupsShape
  <2>3. /\ \A d \in Expenses \ {e} : expense[d] # NULL =>
              expense[d].category \notin {} /\ expense[d].workspace \in living'
        /\ \A c \in Categories \ {} : category[c] # NULL => category[c].scope \in living' \cup {GLOBAL}
        /\ \A f \in Groups \ {} : group[f] # NULL => group[f] \in living'
    BY <2>1 DEF GroupsTypeOK
  <2>. QED  BY <2>1, <2>2, <2>3, DeleteFact
<1>8. ASSUME NEW r \in Requests, NEW u \in Clients, NEW g \in Groups, NEW c \in Categories,
             StartAssign(r, u, g, c)
      PROVE  GroupsIInv'
  <2> DEFINE h == [pc |-> "assign", group |-> g, category |-> c]
  <2>1. h \in GroupRequest /\ h.pc = "assign" /\ h.group = g /\ h.category = c
    BY DEF GroupRequest
  <2>2. /\ Goes(r, h) /\ UNCHANGED <<living, category, group, expense, removed, origin>>
        /\ group[g] # NULL /\ category[c] # NULL /\ request[r] = Idle
        /\ category[c].scope \in {group[g], u, GLOBAL}
    BY <1>8 DEF StartAssign, Assignable, CategoriesOf, groupTables
  <2>3. ReadTogether(c, g)
    <3>1. u \notin Workspaces
      BY GroupsAssumption
    <3>. QED  BY <2>2, <3>1 DEF ReadTogether, Given, Fits
  <2>4. origin'[r] = "sent" /\ DOMAIN origin' = Expenses \cup Requests
    BY <2>2 DEF HeldInv, GroupsShape
  <2> HIDE DEF h
  <2>. QED  BY <2>1, <2>2, <2>3, <2>4, GroupRequestStep
<1>9. ASSUME NEW r \in Requests, Assign(r) PROVE GroupsIInv'
  <2> DEFINE c == request[r].category
             g == request[r].group
  <2>1. /\ request[r].pc = "assign" /\ c \in Categories /\ g \in Groups
        /\ Goes(r, Idle) /\ UNCHANGED <<living, group, expense, removed>>
        /\ Fits(c, g) /\ origin[r] = "sent"
    BY <1>9 DEF Assign, Ends, GroupRequest, HeldInv, ReadTogether
  <2>2. /\ DOMAIN request' = Requests /\ request'[r] = Idle
        /\ \A q \in Requests \ {r} : request'[q] = request[q]
    BY <2>1, GoesFact DEF GroupsShape
  <2>3. CASE group[g] # NULL /\ category[c] # NULL
    <3>1. /\ category' = [category EXCEPT ![c] = [category[c] EXCEPT !.group = g]]
          /\ Regrouped(c)
      BY <1>9, <2>3 DEF Assign
    <3> HIDE DEF c, g
    <3>. QED  BY <2>1, <2>2, <2>3, <3>1, RegroupedFact DEF GroupExists
  <2>4. CASE ~(group[g] # NULL /\ category[c] # NULL)
    <3>1. category' = category /\ origin' = origin
      BY <1>9, <2>4 DEF Assign
    <3>. QED  BY <2>1, <3>1, GroupRequestStep DEF GroupsShape
  <2>. QED  BY <2>3, <2>4
<1>10. ASSUME NEW r \in Requests, NEW c \in Categories, StartRemoveCategory(r, c)
       PROVE  GroupsIInv'
  <2> DEFINE h == [pc |-> "remove", category |-> c]
  <2>1. h \in GroupRequest /\ h.pc = "remove"
    BY DEF GroupRequest
  <2>2. /\ Goes(r, h) /\ UNCHANGED <<living, category, group, expense, removed, origin>>
        /\ request[r] = Idle
    BY <1>10 DEF StartRemoveCategory, groupTables
  <2>3. origin'[r] = "sent" /\ DOMAIN origin' = Expenses \cup Requests
    BY <2>2 DEF HeldInv, GroupsShape
  <2> HIDE DEF h
  <2>. QED  BY <2>1, <2>2, <2>3, GroupRequestStep
<1>11. ASSUME NEW r \in Requests, RemoveCategory(r) PROVE GroupsIInv'
  <2> DEFINE c == request[r].category
  <2>1. request[r].pc = "remove" /\ c \in Categories /\ Goes(r, Idle) /\ origin[r] = "sent"
    BY <1>11 DEF RemoveCategory, Ends, GroupRequest, HeldInv
  <2>2. /\ DOMAIN request' = Requests /\ request'[r] = Idle
        /\ \A q \in Requests \ {r} : request'[q] = request[q]
    BY <2>1, GoesFact DEF GroupsShape
  <2>3. CASE category[c] = NULL \/ Restricts(c, {})
    <3>1. UNCHANGED <<living, category, group, expense, removed, origin>>
      BY <1>11, <2>3 DEF RemoveCategory, groupTables
    <3>. QED  BY <2>1, <3>1, GroupRequestStep DEF GroupsShape
  <2>4. CASE ~(category[c] = NULL \/ Restricts(c, {}))
    <3>1. Delete({c}, {}, {}) /\ UNCHANGED living
      BY <1>11, <2>4 DEF RemoveCategory
    <3>2. \A e \in Expenses : expense[e] # NULL => expense[e].category # c
      BY <2>4 DEF Restricts, ExpensesIn
    <3> HIDE DEF c
    <3>3. /\ \A e \in Expenses \ {} : expense[e] # NULL =>
                expense[e].category \notin {c} /\ expense[e].workspace \in living'
          /\ \A d \in Categories \ {c} : category[d] # NULL => category[d].scope \in living' \cup {GLOBAL}
          /\ \A f \in Groups \ {} : group[f] # NULL => group[f] \in living'
      BY <3>1, <3>2 DEF GroupsTypeOK
    <3>4. {c} \in SUBSET Categories /\ {} \in SUBSET Groups /\ {} \in SUBSET Expenses
      BY <2>1
    <3>. QED  BY <2>1, <2>2, <3>1, <3>3, <3>4, DeleteFact
  <2>. QED  BY <2>3, <2>4
<1>12. ASSUME NEW r \in Requests, NEW body \in Bodies, NEW w \in Workspaces, StartCreate(r, w, body)
       PROVE  GroupsIInv'
  BY <1>12, StartWriteStep DEF StartCreate
<1>13. ASSUME NEW r \in Requests, NEW body \in Bodies, NEW e \in Expenses, StartUpdate(r, e, body)
       PROVE  GroupsIInv'
  BY <1>13, StartWriteStep DEF StartUpdate
<1>14. ASSUME NEW r \in Requests, NEW e \in Expenses, Write(r, e) PROVE GroupsIInv'
  BY <1>14, WriteStep
<1>15. CASE UNCHANGED groupsVars
  <2>1. UNCHANGED <<living, category, group, expense, removed, origin, request>>
    BY <1>15 DEF groupsVars, groupTables
  <2>2. GroupsTypeOK' /\ GroupsShape'
    BY <2>1 DEF GroupsTypeOK, GroupExists, GroupsShape
  <2>3. RowsInv'
    BY <2>1 DEF RowsInv, InheritsGroup, Fits
  <2>4. HeldInv'
    BY <2>1 DEF HeldInv, ReadTogether, StillIn, Given, Fits
  <2>. QED  BY <2>2, <2>3, <2>4 DEF GroupsIInv
<1>. QED  BY <1>1, <1>2, <1>3, <1>4, <1>5, <1>6, <1>7, <1>8, <1>9, <1>10, <1>11, <1>12, <1>13,
             <1>14, <1>15 DEF GroupsNext

(* Nothing refers to a workspace, a user, a category or a group that is      *)
(* gone.                                                                     *)
THEOREM GroupsTypeCorrect == GroupsSpec => []GroupsTypeOK
<1>1. GroupsIInv => GroupsTypeOK
  BY DEF GroupsIInv
<1>. QED  BY <1>1, GroupsInitInv, GroupsNextInv, PTL DEF GroupsSpec

(* The group that an expense took from its category is the group of the      *)
(* category, unless the category was regrouped after the request read it.    *)
THEOREM InheritsGroupHolds == GroupsSpec => []InheritsGroup
<1>1. GroupsIInv => InheritsGroup
  BY DEF GroupsIInv, RowsInv
<1>. QED  BY <1>1, GroupsInitInv, GroupsNextInv, PTL DEF GroupsSpec

(* A workspace's own category is in groups of that workspace, and so are the *)
(* expenses that took their group from it, whatever clients assign, send and *)
(* delete meanwhile.                                                         *)
THEOREM OwnCategoryOwnGroupHolds == GroupsSpec => []OwnCategoryOwnGroup
<1>1. GroupsIInv => OwnCategoryOwnGroup
  <2> SUFFICES ASSUME GroupsIInv PROVE OwnCategoryOwnGroup
    OBVIOUS
  <2>1. \A c \in Categories, g \in Groups \cup {NULL} :
           category[c] # NULL /\ Fits(c, g) /\ GroupExists(g) => Own(c, g)
    BY DEF Fits, GroupExists, Own
  <2>2. \A c \in Categories : category[c] # NULL => Own(c, category[c].group)
    BY <2>1, GroupsFacts DEF RowsInv, GroupsTypeOK
  <2>3. \A e \in Expenses : expense[e] # NULL /\ origin[e] # "sent" =>
           Own(expense[e].category, expense[e].group)
    BY <2>1, GroupsFacts DEF RowsInv, GroupsTypeOK
  <2>. QED  BY <2>2, <2>3 DEF OwnCategoryOwnGroup
<1>. QED  BY <1>1, GroupsInitInv, GroupsNextInv, PTL DEF GroupsSpec

-----------------------------------------------------------------------------
(* Users and workspaces.  Handlers hold ids that were given. *)
JoinRequest == [pc : {"insert"}, workspace : WorkspaceIds, token : Nat, user : Users]
          \cup [pc : {"clear"}, workspace : WorkspaceIds, token : Nat]

MembershipShape ==
    /\ DOMAIN request = Requests /\ DOMAIN workspaceRow = WorkspaceIds
    /\ since \in [Requests -> [member : BOOLEAN, link : BOOLEAN]]
    /\ issued \in Nat
    /\ \A r \in Requests : request[r].pc \in {"insert", "clear"} => request[r] \in JoinRequest
    /\ \A r \in Requests : request[r] # Idle => request[r].pc \in {"insert", "clear"}

(* A workspace id that was given is not given again, so that a join means   *)
(* the workspace it has read, and knows what has happened to it.            *)
JoinInv ==
    \A r \in Requests : request[r].pc \in {"insert", "clear"} =>
        LET h == request[r]
        IN  /\ Exists(h.workspace) \/ h.workspace \in gone
            /\ h.pc = "insert" /\ IsMember(h.workspace, h.user) => since[r].member
            /\ Exists(h.workspace) =>
                  workspaceRow[h.workspace].inviteToken \in {h.token, NULL} \/ since[r].link

MembershipIInv == MembershipTypeOK /\ MembershipShape /\ JoinInv

LEMMA MembershipFacts ==
    ASSUME MembershipIInv
    PROVE  /\ MembershipTypeOK /\ MembershipShape /\ JoinInv /\ Idle.pc = "idle"
           /\ NULL \notin Users /\ NULL \notin WorkspaceIds /\ NULL \notin Nat
           /\ users \subseteq Users /\ Users \subseteq WorkspaceIds
           /\ \A w \in WorkspaceIds : Exists(w) =>
                 /\ workspaceRow[w].ownerId \in users
                 /\ workspaceRow[w].inviteToken \in 1..issued \cup {NULL}
           /\ \A r \in Requests : request[r].pc \in {"insert", "clear"} =>
                 /\ request[r] \in JoinRequest /\ request[r].workspace \in WorkspaceIds
                 /\ request[r].pc = "insert" => request[r].user \in Users
<1>1. MembershipTypeOK /\ MembershipShape /\ JoinInv /\ Idle.pc = "idle"
  BY DEF MembershipIInv, Idle
<1>2. /\ NULL \notin Users /\ NULL \notin WorkspaceIds /\ NULL \notin Nat
      /\ users \subseteq Users /\ Users \subseteq WorkspaceIds
  BY <1>1, MembershipAssumption DEF WorkspaceIds, MembershipTypeOK
<1>3. \A w \in WorkspaceIds : Exists(w) =>
         /\ workspaceRow[w].ownerId \in users
         /\ workspaceRow[w].inviteToken \in 1..issued \cup {NULL}
  BY <1>1 DEF MembershipTypeOK
<1>4. \A r \in Requests : request[r].pc \in {"insert", "clear"} =>
         /\ request[r] \in JoinRequest /\ request[r].workspace \in WorkspaceIds
         /\ request[r].pc = "insert" => request[r].user \in Users
  BY <1>1 DEF MembershipShape, JoinRequest
<1>. QED  BY <1>1, <1>2, <1>3, <1>4

LEMMA MembershipInitInv == MembershipInit => MembershipIInv
<1> SUFFICES ASSUME MembershipInit PROVE MembershipIInv
  OBVIOUS
<1>1. BagToSet(member) = {} /\ users = {} /\ issued = 0
  BY DEF MembershipInit, EmptyBag, SetToBag, BagToSet
<1>2. \A r \in Requests : request[r] = Idle
  BY DEF MembershipInit, NobodyIn
<1>3. since \in [Requests -> [member : BOOLEAN, link : BOOLEAN]]
  BY DEF MembershipInit, NothingSince
<1>4. MembershipTypeOK
  BY <1>1 DEF MembershipInit, MembershipTypeOK, Exists
<1>5. MembershipShape /\ JoinInv
  BY <1>1, <1>2, <1>3 DEF MembershipInit, MembershipShape, JoinInv, NobodyIn, Idle
<1>. QED  BY <1>4, <1>5 DEF MembershipIInv

(* The rows of members after one is inserted. *)
LEMMA InsertMemberFact ==
    ASSUME NEW w, NEW id, InsertMember(w, id)
    PROVE  BagToSet(member') = BagToSet(member) \cup {[workspaceId |-> w, userId |-> id]}
BY DEF InsertMember, BagToSet, SetToBag, (+)

LEMMA RemoveMemberFact ==
    ASSUME NEW m, member' = member (-) SetToBag({m})
    PROVE  BagToSet(member') \subseteq BagToSet(member)
BY DEF BagToSet, SetToBag, (-)

LEMMA NextTokenFact ==
    ASSUME NEW n \in Nat
    PROVE  /\ n + 1 \in Nat /\ n + 1 > n /\ 1..n \subseteq 1..(n + 1)
           /\ n + 1 \in 1..(n + 1) /\ n + 1 \notin 1..n
OBVIOUS

(* A new link: a token that was never given out. *)
LEMMA NewLinkFact ==
    ASSUME MembershipIInv, NEW w \in WorkspaceIds, NEW u \in Users, NewLink(w, u)
    PROVE  /\ issued' \in Nat /\ issued' > issued /\ issued' \in 1..issued'
           /\ 1..issued \subseteq 1..issued'
           /\ DOMAIN workspaceRow' = WorkspaceIds
           /\ workspaceRow'[w] # NULL
           /\ workspaceRow'[w] = [ownerId |-> u, inviteToken |-> issued']
           /\ \A v \in WorkspaceIds : v # w => workspaceRow'[v] = workspaceRow[v]
<1>1. issued \in Nat /\ issued' = issued + 1 /\ DOMAIN workspaceRow = WorkspaceIds
  BY MembershipFacts DEF MembershipShape, NewLink
<1>2. /\ issued' \in Nat /\ issued' > issued /\ issued' \in 1..issued'
      /\ 1..issued \subseteq 1..issued'
  BY <1>1, NextTokenFact, Zenon
<1>3. [ownerId |-> u, inviteToken |-> issued'] \in [ownerId : Users, inviteToken : Nat \cup {NULL}]
  BY <1>2
<1>4. [ownerId |-> u, inviteToken |-> issued'] # NULL
  BY <1>3, MembershipAssumption
<1>5. workspaceRow' = [workspaceRow EXCEPT ![w] = [ownerId |-> u, inviteToken |-> issued']]
  BY DEF NewLink
<1>. QED  BY <1>1, <1>2, <1>4, <1>5

(* A workspace is inserted with its owner, who may be new as well: nobody   *)
(* can be joining it yet.                                                   *)
LEMMA WorkspaceInserted ==
    ASSUME MembershipIInv, NEW u \in Users, NEW w \in WorkspaceIds, InsertWorkspace(u, w),
           users' \in {users, users \cup {u}}, u \in users', u \in users \/ w = u
    PROVE  MembershipIInv'
<1> USE MembershipFacts DEF MembershipIInv
<1>1. /\ ~Exists(w) /\ w \notin gone /\ NewLink(w, u) /\ InsertMember(w, u)
      /\ UNCHANGED <<gone, request, since>>
  BY DEF InsertWorkspace
<1> DEFINE row == [workspaceId |-> w, userId |-> u]
<1>2. BagToSet(member') = BagToSet(member) \cup {row}
  BY <1>1, InsertMemberFact
<1>3. row \in Member /\ row.workspaceId = w /\ row.userId = u
  BY DEF Member
<1> HIDE DEF row
<1>4. /\ issued' \in Nat /\ issued' \in 1..issued' /\ 1..issued \subseteq 1..issued'
      /\ DOMAIN workspaceRow' = WorkspaceIds /\ workspaceRow'[w] # NULL
      /\ workspaceRow'[w] = [ownerId |-> u, inviteToken |-> issued']
      /\ \A v \in WorkspaceIds : v # w => workspaceRow'[v] = workspaceRow[v]
  BY <1>1, NewLinkFact
<1>5. users' \subseteq Users /\ users \subseteq users'
  OBVIOUS
<1>6. MembershipTypeOK'
  <2>1. ASSUME NEW v \in WorkspaceIds, workspaceRow'[v] # NULL
        PROVE  workspaceRow'[v] \in [ownerId : users', inviteToken : 1..issued' \cup {NULL}]
    <3>1. CASE v = w
      BY <1>4, <3>1
    <3>2. CASE v # w
      <4>1. /\ workspaceRow'[v] = workspaceRow[v]
            /\ workspaceRow[v] \in [ownerId : users, inviteToken : 1..issued \cup {NULL}]
        BY <1>4, <2>1, <3>2 DEF MembershipTypeOK, Exists
      <4>. QED  BY <1>4, <1>5, <4>1
    <3>. QED  BY <3>1, <3>2
  <2>2. \A v \in users' : workspaceRow'[v] # NULL /\ workspaceRow'[v].ownerId = v
    BY <1>1, <1>4 DEF MembershipTypeOK, Exists
  <2>3. \A m \in BagToSet(member') :
           m \in Member /\ m.userId \in users' \cup {NULL} /\ workspaceRow'[m.workspaceId] # NULL
    BY <1>1, <1>2, <1>3, <1>4, <1>5 DEF MembershipTypeOK, Exists, Member
  <2>. QED  BY <1>5, <2>1, <2>2, <2>3 DEF MembershipTypeOK, Exists
<1>7. MembershipShape'
  BY <1>1, <1>4 DEF MembershipShape
<1>8. \A r \in Requests : request[r].pc \in {"insert", "clear"} => request[r].workspace # w
  BY <1>1 DEF JoinInv, Exists
<1>9. \A v, x : v # w => (IsMember(v, x)' <=> IsMember(v, x))
  BY <1>2, <1>3 DEF IsMember
<1>10. JoinInv'
  BY <1>1, <1>4, <1>8, <1>9 DEF JoinInv, Exists
<1>. QED  BY <1>6, <1>7, <1>10

(* Rows of users, workspaces and members go; nothing new comes. *)
LEMMA RowsRemoved ==
    ASSUME MembershipIInv, users' \subseteq users, gone \subseteq gone',
           UNCHANGED <<request, issued, since>>, DOMAIN workspaceRow' = WorkspaceIds,
           \A w \in WorkspaceIds :
              \/ workspaceRow'[w] = workspaceRow[w]
              \/ workspaceRow'[w] = NULL /\ (workspaceRow[w] # NULL => w \in gone'),
           \A w \in WorkspaceIds : workspaceRow'[w] # NULL => workspaceRow[w].ownerId \in users',
           \A u \in users' : workspaceRow'[u] # NULL,
           \A m \in BagToSet(member') :
              /\ m \in Member /\ m.userId \in users' \cup {NULL}
              /\ workspaceRow'[m.workspaceId] # NULL
              /\ m.userId # NULL => m \in BagToSet(member)
    PROVE  MembershipIInv'
<1> USE MembershipFacts DEF MembershipIInv
<1>1. MembershipTypeOK'
  <2>1. ASSUME NEW v \in WorkspaceIds, workspaceRow'[v] # NULL
        PROVE  workspaceRow'[v] \in [ownerId : users', inviteToken : 1..issued \cup {NULL}]
    BY <2>1 DEF MembershipTypeOK, Exists
  <2>2. \A u \in users' : workspaceRow'[u].ownerId = u
    BY DEF MembershipTypeOK, Exists
  <2>. QED  BY <2>1, <2>2 DEF MembershipTypeOK, Exists
<1>2. MembershipShape'
  BY DEF MembershipShape
<1>3. \A w \in WorkspaceIds, u \in Users : IsMember(w, u)' => IsMember(w, u)
  BY DEF IsMember
<1>4. JoinInv'
  BY <1>3 DEF JoinInv, Exists
<1>. QED  BY <1>1, <1>2, <1>4

(* A handler forgets its join. *)
LEMMA JoinForgotten ==
    ASSUME MembershipIInv, NEW j \in Requests, Forgets(j),
           UNCHANGED <<users, gone, workspaceRow, member, issued>>
    PROVE  MembershipIInv'
<1> USE MembershipFacts DEF MembershipIInv
<1>1. /\ DOMAIN request' = Requests /\ request'[j] = Idle
      /\ \A q \in Requests \ {j} : request'[q] = request[q] /\ since'[q] = since[q]
      /\ since' \in [Requests -> [member : BOOLEAN, link : BOOLEAN]]
  BY GoesFact DEF Forgets, Ends, NothingSince, MembershipShape
<1>2. MembershipTypeOK'
  BY DEF MembershipTypeOK, Exists
<1>3. MembershipShape'
  BY <1>1 DEF MembershipShape
<1>4. JoinInv'
  BY <1>1 DEF JoinInv, Exists, IsMember
<1>. QED  BY <1>2, <1>3, <1>4

(* A row is added for a workspace that is there, to a user that is there or *)
(* to none; the joins of that user know of it.                              *)
LEMMA MemberAdded ==
    ASSUME MembershipIInv, NEW w \in WorkspaceIds, NEW id \in users \cup {NULL}, Exists(w),
           InsertMember(w, id), UNCHANGED <<users, gone, workspaceRow, issued>>,
           DOMAIN request' = Requests,
           \A r \in Requests : request'[r] # request[r] =>
              /\ request[r].pc = "insert"
              /\ request'[r] = Clearing(request[r].workspace, request[r].token),
           since' \in [Requests -> [member : BOOLEAN, link : BOOLEAN]],
           \A r \in Requests : request[r] # Idle => (since[r].link => since'[r].link),
           \A r \in Requests : request'[r].pc = "insert" =>
              /\ since[r].member => since'[r].member
              /\ request[r].workspace = w /\ request[r].user = id => since'[r].member
    PROVE  MembershipIInv'
<1> USE MembershipFacts DEF MembershipIInv
<1> DEFINE row == [workspaceId |-> w, userId |-> id]
<1>1. BagToSet(member') = BagToSet(member) \cup {row}
  BY InsertMemberFact
<1>2. row \in Member /\ row.workspaceId = w /\ row.userId = id
  BY DEF Member
<1> HIDE DEF row
<1>3. MembershipTypeOK'
  BY <1>1, <1>2 DEF MembershipTypeOK, Exists
<1>4. \A r \in Requests : \/ request'[r] = request[r]
                          \/ /\ request'[r].pc = "clear" /\ request'[r] \in JoinRequest
                             /\ request'[r].workspace = request[r].workspace
                             /\ request'[r].token = request[r].token
                             /\ request[r].pc = "insert"
  BY DEF Clearing, JoinRequest
<1>5. MembershipShape'
  BY <1>4 DEF MembershipShape
<1>6. \A v \in WorkspaceIds, x \in Users :
         IsMember(v, x)' => IsMember(v, x) \/ (v = w /\ x = id)
  BY <1>1, <1>2 DEF IsMember
<1>7. JoinInv'
  BY <1>4, <1>6 DEF JoinInv, Exists
<1>. QED  BY <1>3, <1>5, <1>7

LEMMA MembershipNextInv == MembershipIInv /\ [MembershipNext]_membershipVars => MembershipIInv'
<1> SUFFICES ASSUME MembershipIInv, [MembershipNext]_membershipVars PROVE MembershipIInv'
  OBVIOUS
<1> USE MembershipFacts DEF MembershipIInv
<1>0. /\ DOMAIN workspaceRow = WorkspaceIds /\ DOMAIN request = Requests
      /\ since \in [Requests -> [member : BOOLEAN, link : BOOLEAN]]
      /\ \A w \in WorkspaceIds : OwnerActs(w) => Exists(w) /\ workspaceRow[w].ownerId \in Users
  BY DEF MembershipShape, OwnerActs, FindsOne
<1>1. ASSUME NEW u \in Users, Register(u) PROVE MembershipIInv'
  BY <1>1, WorkspaceInserted DEF Register
<1>2. ASSUME NEW u \in Users, NEW w \in SharedWorkspaces, CreateWorkspace(u, w)
      PROVE  MembershipIInv'
  BY <1>2, WorkspaceInserted DEF CreateWorkspace, WorkspaceIds
<1>3. ASSUME NEW u \in Users, RemoveUser(u) PROVE MembershipIInv'
  <2> DEFINE owned == {w \in WorkspaceIds : Exists(w) /\ workspaceRow[w].ownerId = u}
             kept  == {m \in BagToSet(member) : m.workspaceId \notin owned}
  <2>1. /\ users' = users \ {u} /\ gone' = gone \cup {u} \cup owned
        /\ workspaceRow' = [w \in WorkspaceIds |-> IF w \in owned THEN NULL ELSE workspaceRow[w]]
        /\ BagToSet(member') = {Unlinked(m, u) : m \in kept}
        /\ UNCHANGED <<request, issued, since>>
    BY <1>3 DEF RemoveUser, BagToSet
  <2>2. \A w \in WorkspaceIds : w \in owned <=> Exists(w) /\ workspaceRow[w].ownerId = u
    OBVIOUS
  <2> HIDE DEF owned
  <2>3. ASSUME NEW m \in kept
        PROVE  LET row == Unlinked(m, u)
               IN  /\ row \in Member /\ row.userId \in users' \cup {NULL}
                   /\ workspaceRow'[row.workspaceId] # NULL
                   /\ row.userId # NULL => row \in BagToSet(member)
    <3>1. /\ m \in BagToSet(member) /\ m.workspaceId \notin owned
          /\ m \in Member /\ m.userId \in users \cup {NULL} /\ Exists(m.workspaceId)
      BY DEF MembershipTypeOK
    <3>2. m.workspaceId \in WorkspaceIds /\ m.userId \in Users \cup {NULL}
      BY <3>1 DEF Member
    <3>3. workspaceRow'[m.workspaceId] # NULL
      BY <2>1, <3>1, <3>2 DEF Exists
    <3>4. CASE m.userId = u
      <4>1. [m EXCEPT !.userId = NULL] \in Member
            /\ [m EXCEPT !.userId = NULL].userId = NULL
            /\ [m EXCEPT !.userId = NULL].workspaceId = m.workspaceId
        BY <3>1 DEF Member
      <4>. QED  BY <3>3, <3>4, <4>1 DEF Unlinked
    <3>5. CASE m.userId # u
      BY <2>1, <3>1, <3>3, <3>5 DEF Unlinked
    <3>. QED  BY <3>4, <3>5
  <2>4. \A w \in WorkspaceIds :
          \/ workspaceRow'[w] = workspaceRow[w] /\ w \notin owned
          \/ workspaceRow'[w] = NULL /\ w \in owned
    BY <2>1
  <2>5. \A w \in WorkspaceIds : workspaceRow'[w] # NULL => workspaceRow[w].ownerId \in users'
    BY <2>1, <2>2, <2>4 DEF Exists
  <2>6. \A v \in users' : workspaceRow'[v] # NULL
    BY <2>1, <2>2, <2>4 DEF MembershipTypeOK, Exists
  <2>7. \A m \in BagToSet(member') :
            /\ m \in Member /\ m.userId \in users' \cup {NULL}
            /\ workspaceRow'[m.workspaceId] # NULL
            /\ m.userId # NULL => m \in BagToSet(member)
    BY <2>1, <2>3
  <2>. QED  BY <2>1, <2>4, <2>5, <2>6, <2>7, RowsRemoved
<1>4. ASSUME NEW w \in WorkspaceIds, NEW u \in Users, AddMember(w, u) PROVE MembershipIInv'
  <2> DEFINE id == IF u \in users THEN u ELSE NULL
  <2>1. /\ Exists(w) /\ InsertMember(w, id) /\ id \in users \cup {NULL}
        /\ UNCHANGED <<users, gone, workspaceRow, issued, request>>
    BY <1>0, <1>4 DEF AddMember, userVars
  <2>2. since' = [j \in Requests |->
            IF request[j] = Idle THEN since[j]
            ELSE [member |-> request'[j].pc = "insert"
                             /\ (since[j].member
                                 \/ (request[j].workspace = w /\ request[j].user = u /\ u \in users)),
                  link |-> since[j].link \/ FALSE]]
    BY <1>4 DEF AddMember, Remember
  <2>3. since' \in [Requests -> [member : BOOLEAN, link : BOOLEAN]]
    BY <1>0, <2>2
  <2>4. ASSUME NEW r \in Requests, request'[r].pc = "insert"
        PROVE  /\ since[r].member => since'[r].member
               /\ request[r].workspace = w /\ request[r].user = id => since'[r].member
    <3>1. request[r] # Idle /\ request[r].user \in Users /\ request[r].pc = "insert"
      BY <2>1, <2>4
    <3>. QED  BY <2>1, <2>2, <3>1
  <2>5. \A r \in Requests : request[r] # Idle => (since[r].link => since'[r].link)
    BY <2>2
  <2> HIDE DEF id
  <2>. QED  BY <1>0, <2>1, <2>3, <2>4, <2>5, MemberAdded
<1>5. ASSUME NEW w \in WorkspaceIds, NEW m \in BagToSet(member), RemoveMember(w, m)
      PROVE  MembershipIInv'
  <2>1. /\ BagToSet(member') \subseteq BagToSet(member)
        /\ UNCHANGED <<users, gone, workspaceRow, request, issued, since>>
    BY <1>5, RemoveMemberFact DEF RemoveMember, userVars
  <2>. QED  BY <1>0, <2>1, RowsRemoved DEF MembershipTypeOK, Exists
<1>6. ASSUME NEW w \in WorkspaceIds, RemoveWorkspace(w) PROVE MembershipIInv'
  <2>1. /\ w \notin Users /\ workspaceRow' = [workspaceRow EXCEPT ![w] = NULL]
        /\ gone' = gone \cup {w} /\ UNCHANGED <<users, request, issued, since>>
        /\ BagToSet(member') = {m \in BagToSet(member) : m.workspaceId # w}
    BY <1>6 DEF RemoveWorkspace, BagToSet
  <2>2. \A m \in BagToSet(member') :
            /\ m \in Member /\ m.userId \in users \cup {NULL}
            /\ workspaceRow'[m.workspaceId] # NULL
            /\ m \in BagToSet(member)
    BY <1>0, <2>1 DEF MembershipTypeOK, Exists, Member
  <2>. QED  BY <1>0, <2>1, <2>2, RowsRemoved DEF MembershipTypeOK, Exists
<1>7. ASSUME NEW w \in WorkspaceIds, RegenerateInviteToken(w) PROVE MembershipIInv'
  <2> DEFINE u == workspaceRow[w].ownerId
  <2>1. /\ Exists(w) /\ u \in Users /\ u \in users /\ NewLink(w, u)
        /\ UNCHANGED <<users, gone, member, request>>
    BY <1>0, <1>7 DEF RegenerateInviteToken, userVars
  <2>2. /\ issued' \in Nat /\ issued' \in 1..issued' /\ 1..issued \subseteq 1..issued'
        /\ DOMAIN workspaceRow' = WorkspaceIds /\ workspaceRow'[w] # NULL
        /\ workspaceRow'[w] = [ownerId |-> u, inviteToken |-> issued']
        /\ \A v \in WorkspaceIds : v # w => workspaceRow'[v] = workspaceRow[v]
    BY <2>1, NewLinkFact
  <2>3. since' = [j \in Requests |->
            IF request[j] = Idle THEN since[j]
            ELSE [member |-> request'[j].pc = "insert" /\ (since[j].member \/ FALSE),
                  link |-> since[j].link \/ request[j].workspace = w]]
    BY <1>7 DEF RegenerateInviteToken, Remember
  <2>4. since' \in [Requests -> [member : BOOLEAN, link : BOOLEAN]]
    BY <1>0, <2>3
  <2>5. \A r \in Requests : request[r].pc \in {"insert", "clear"} =>
           /\ request[r].pc = "insert" => (since[r].member => since'[r].member)
           /\ since[r].link \/ request[r].workspace = w => since'[r].link
    BY <2>1, <2>3
  <2> HIDE DEF u
  <2>6. MembershipTypeOK'
    <3>1. ASSUME NEW v \in WorkspaceIds, workspaceRow'[v] # NULL
          PROVE  workspaceRow'[v] \in [ownerId : users, inviteToken : 1..issued' \cup {NULL}]
      <4>1. CASE v = w
        BY <2>1, <2>2, <4>1
      <4>2. CASE v # w
        <5>1. /\ workspaceRow'[v] = workspaceRow[v]
              /\ workspaceRow[v] \in [ownerId : users, inviteToken : 1..issued \cup {NULL}]
          BY <2>2, <3>1, <4>2 DEF MembershipTypeOK, Exists
        <5>. QED  BY <2>2, <5>1
      <4>. QED  BY <4>1, <4>2
    <3>2. workspaceRow'[w].ownerId = u
      BY <2>2
    <3>3. \A v \in users : workspaceRow'[v] # NULL /\ workspaceRow'[v].ownerId = v
      BY <2>1, <2>2, <3>2 DEF MembershipTypeOK, Exists, u
    <3>4. \A m \in BagToSet(member) :
             m \in Member /\ m.userId \in users \cup {NULL} /\ workspaceRow'[m.workspaceId] # NULL
      BY <2>1, <2>2 DEF MembershipTypeOK, Exists, Member
    <3>. QED  BY <2>1, <3>1, <3>3, <3>4 DEF MembershipTypeOK, Exists
  <2>7. MembershipShape'
    BY <2>1, <2>2, <2>4 DEF MembershipShape
  <2>8. JoinInv'
    BY <2>1, <2>2, <2>5 DEF JoinInv, Exists, IsMember
  <2>. QED  BY <2>6, <2>7, <2>8
<1>8. ASSUME NEW w \in WorkspaceIds, NEW j \in Requests, NEW u \in Users, StartJoin(j, u, w)
      PROVE  MembershipIInv'
  <2>1. PICK token \in Links(w) : Goes(j, NextOfJoin(w, u, token))
    BY <1>8 DEF StartJoin
  <2> DEFINE h == NextOfJoin(w, u, token)
  <2>2. /\ Exists(w) /\ UNCHANGED <<users, gone, workspaceRow, member, issued, since>>
        /\ token = workspaceRow[w].inviteToken /\ token # NULL /\ token \in Nat
    BY <1>8 DEF StartJoin, userVars, Links
  <2>3. /\ h \in JoinRequest /\ h.pc \in {"insert", "clear"} /\ h.workspace = w /\ h.token = token
        /\ h.pc = "insert" => h.user = u /\ ~IsMember(w, u)
    BY <2>2 DEF NextOfJoin, Inserting, Clearing, JoinRequest
  <2>4. /\ DOMAIN request' = Requests /\ request'[j] = h
        /\ \A q \in Requests \ {j} : request'[q] = request[q]
    BY <1>0, <2>1, GoesFact
  <2> HIDE DEF h
  <2>5. MembershipTypeOK'
    BY <2>2 DEF MembershipTypeOK, Exists
  <2>6. MembershipShape'
    BY <2>2, <2>3, <2>4 DEF MembershipShape
  <2>7. JoinInv'
    BY <2>2, <2>3, <2>4 DEF JoinInv, Exists, IsMember
  <2>. QED  BY <2>5, <2>6, <2>7
<1>9. ASSUME NEW j \in Requests, JoinInsert(j) PROVE MembershipIInv'
  <2> DEFINE h == request[j]
  <2>1. /\ h.pc = "insert" /\ h.workspace \in WorkspaceIds /\ h.user \in Users
        /\ UNCHANGED <<users, gone, workspaceRow, issued>>
    BY <1>9 DEF JoinInsert, userVars
  <2>2. CASE Exists(h.workspace) /\ h.user \in users
    <3>1. /\ InsertMember(h.workspace, h.user) /\ Goes(j, Clearing(h.workspace, h.token))
          /\ since' = [q \in Requests |->
                IF request[q] = Idle THEN since[q]
                ELSE [member |-> request'[q].pc = "insert"
                                 /\ (since[q].member
                                     \/ (request[q].workspace = h.workspace
                                         /\ request[q].user = h.user)),
                      link |-> since[q].link \/ FALSE]]
      BY <1>9, <2>2 DEF JoinInsert, Remember
    <3>2. /\ DOMAIN request' = Requests /\ request'[j] = Clearing(h.workspace, h.token)
          /\ \A q \in Requests \ {j} : request'[q] = request[q]
      BY <1>0, <3>1, GoesFact
    <3>3. since' \in [Requests -> [member : BOOLEAN, link : BOOLEAN]]
      BY <1>0, <3>1
    <3>4. ASSUME NEW r \in Requests, request'[r].pc = "insert"
          PROVE  /\ since[r].member => since'[r].member
                 /\ request[r].workspace = h.workspace /\ request[r].user = h.user
                    => since'[r].member
      <4>1. r # j /\ request[r] # Idle
        BY <3>2, <3>4 DEF Clearing
      <4>. QED  BY <3>1, <3>2, <3>4, <4>1
    <3>5. \A r \in Requests : request[r] # Idle => (since[r].link => since'[r].link)
      BY <3>1
    <3>6. \A r \in Requests : request'[r] # request[r] =>
              /\ request[r].pc = "insert"
              /\ request'[r] = Clearing(request[r].workspace, request[r].token)
      BY <2>1, <3>2
    <3> HIDE DEF h
    <3>. QED  BY <2>1, <2>2, <3>1, <3>2, <3>3, <3>4, <3>5, <3>6, MemberAdded
  <2>3. CASE ~(Exists(h.workspace) /\ h.user \in users)
    <3>1. Forgets(j) /\ UNCHANGED member
      BY <1>9, <2>3 DEF JoinInsert
    <3>. QED  BY <2>1, <3>1, JoinForgotten
  <2>. QED  BY <2>2, <2>3
<1>10. ASSUME NEW j \in Requests, JoinClear(j) PROVE MembershipIInv'
  <2> DEFINE w == request[j].workspace
  <2>1. /\ w \in WorkspaceIds /\ Forgets(j) /\ UNCHANGED <<users, gone, member, issued>>
    BY <1>10 DEF JoinClear, userVars
  <2>2. CASE ~Exists(w)
    BY <1>10, <2>1, <2>2, JoinForgotten DEF JoinClear
  <2>3. CASE Exists(w)
    <3> DEFINE row == [workspaceRow[w] EXCEPT !.inviteToken = NULL]
    <3>1. workspaceRow' = [workspaceRow EXCEPT ![w] = row]
      BY <1>10, <2>3 DEF JoinClear
    <3>2. /\ row \in [ownerId : users, inviteToken : 1..issued \cup {NULL}]
          /\ row.ownerId = workspaceRow[w].ownerId /\ row.inviteToken = NULL
      BY <2>1, <2>3 DEF MembershipTypeOK, Exists
    <3>3. row # NULL
      <4>1. row \in [ownerId : Users, inviteToken : Nat \cup {NULL}]
        BY <3>2
      <4>. QED  BY <4>1, MembershipAssumption
    <3> HIDE DEF row, w
    <3>4. /\ DOMAIN workspaceRow' = WorkspaceIds /\ workspaceRow'[w] = row
          /\ \A v \in WorkspaceIds : v # w => workspaceRow'[v] = workspaceRow[v]
      BY <1>0, <2>1, <3>1
    <3>5. MembershipTypeOK'
      <4>1. ASSUME NEW v \in WorkspaceIds, workspaceRow'[v] # NULL
            PROVE  workspaceRow'[v] \in [ownerId : users, inviteToken : 1..issued \cup {NULL}]
        <5>1. CASE v = w
          BY <3>2, <3>4, <5>1
        <5>2. CASE v # w
          BY <3>4, <4>1, <5>2 DEF MembershipTypeOK, Exists
        <5>. QED  BY <5>1, <5>2
      <4>2. \A u \in users : workspaceRow'[u] # NULL /\ workspaceRow'[u].ownerId = u
        BY <2>1, <2>3, <3>2, <3>3, <3>4 DEF MembershipTypeOK, Exists
      <4>3. \A m \in BagToSet(member) :
               m \in Member /\ m.userId \in users \cup {NULL} /\ workspaceRow'[m.workspaceId] # NULL
        BY <2>1, <3>3, <3>4 DEF MembershipTypeOK, Exists, Member
      <4>. QED  BY <2>1, <4>1, <4>2, <4>3 DEF MembershipTypeOK, Exists
    <3>6. /\ DOMAIN request' = Requests /\ request'[j] = Idle
          /\ \A q \in Requests \ {j} : request'[q] = request[q] /\ since'[q] = since[q]
          /\ since' \in [Requests -> [member : BOOLEAN, link : BOOLEAN]]
      BY <1>0, <2>1, GoesFact DEF Forgets, Ends, NothingSince
    <3>7. MembershipShape'
      BY <2>1, <3>4, <3>6 DEF MembershipShape
    <3>8. JoinInv'
      BY <2>1, <2>3, <3>2, <3>3, <3>4, <3>6 DEF JoinInv, Exists, IsMember
    <3>. QED  BY <3>5, <3>7, <3>8
  <2>. QED  BY <2>2, <2>3
<1>11. ASSUME NEW j \in Requests, FailHandler(j) PROVE MembershipIInv'
  BY <1>11, JoinForgotten DEF FailHandler, userVars
<1>12. CASE UNCHANGED membershipVars
  <2>1. UNCHANGED <<users, gone, workspaceRow, member, issued, since, request>>
    BY <1>12 DEF membershipVars, membershipTables, userVars
  <2>. QED  BY <1>0, <2>1, RowsRemoved DEF MembershipTypeOK, Exists
<1>. QED  BY <1>1, <1>2, <1>3, <1>4, <1>5, <1>6, <1>7, <1>8, <1>9, <1>10, <1>11, <1>12
          DEF MembershipNext

(* The rows of workspaces and members are well formed, and each refers to a *)
(* row that is there, whatever is removed while somebody joins.             *)
THEOREM MembershipTypeCorrect == MembershipSpec => []MembershipTypeOK
<1>1. MembershipIInv => MembershipTypeOK
  BY DEF MembershipIInv
<1>. QED  BY <1>1, MembershipInitInv, MembershipNextInv, PTL DEF MembershipSpec

(* Nobody becomes a member twice by joining, but by a join that overlaps    *)
(* what made it a member.                                                   *)
THEOREM JoinedOnceHolds == MembershipSpec => JoinedOnce
<1> DEFINE Once == \A j \in Requests :
                     JoinInsert(j) /\ request'[j] # Idle
                     /\ IsMember(request[j].workspace, request[j].user) => since[j].member
<1>1. MembershipIInv => Once
  BY DEF MembershipIInv, JoinInv, JoinInsert
<1>2. MembershipIInv /\ [MembershipNext]_membershipVars => [Once]_membershipVars
  BY <1>1
<1>. QED  BY <1>2, MembershipInitInv, MembershipNextInv, PTL DEF MembershipSpec, JoinedOnce

(* A link is taken back by its owner, by the join that used it, or by a     *)
(* join with an older link that was in flight when it was made.             *)
THEOREM LinkLivesHolds == MembershipSpec => LinkLives
<1> DEFINE Lives ==
      \A w \in WorkspaceIds :
          LET link(rows) == rows[w].inviteToken
          IN  /\ Exists(w) /\ workspaceRow'[w] # NULL
              /\ link(workspaceRow) # NULL /\ link(workspaceRow') # link(workspaceRow)
              => \/ link(workspaceRow') = issued' /\ issued' > issued
                 \/ \E j \in Requests :
                       /\ JoinClear(j)
                       /\ request[j].token = link(workspaceRow) \/ since[j].link
<1>1. MembershipIInv /\ [MembershipNext]_membershipVars => [Lives]_membershipVars
  <2> SUFFICES ASSUME MembershipIInv, MembershipNext, NEW w \in WorkspaceIds,
                      Exists(w), workspaceRow'[w] # NULL, workspaceRow[w].inviteToken # NULL,
                      workspaceRow'[w].inviteToken # workspaceRow[w].inviteToken
               PROVE  \/ workspaceRow'[w].inviteToken = issued' /\ issued' > issued
                      \/ \E j \in Requests :
                            /\ JoinClear(j)
                            /\ request[j].token = workspaceRow[w].inviteToken \/ since[j].link
    OBVIOUS
  <2> USE MembershipFacts
  <2>1. workspaceRow' # workspaceRow /\ workspaceRow'[w] # workspaceRow[w]
    OBVIOUS
  <2>2. ASSUME NEW u \in Users, NEW v \in WorkspaceIds, InsertWorkspace(u, v) PROVE FALSE
    BY <2>1, <2>2, NewLinkFact DEF InsertWorkspace, Exists
  <2>3. ASSUME NEW u \in Users, RemoveUser(u) PROVE FALSE
    BY <2>1, <2>3 DEF RemoveUser
  <2>4. ASSUME NEW v \in WorkspaceIds, RemoveWorkspace(v) PROVE FALSE
    BY <2>1, <2>4 DEF RemoveWorkspace, MembershipShape
  <2>5. ASSUME NEW v \in WorkspaceIds, RegenerateInviteToken(v)
        PROVE  workspaceRow'[w].inviteToken = issued' /\ issued' > issued
    <3>1. Exists(v) /\ NewLink(v, workspaceRow[v].ownerId) /\ workspaceRow[v].ownerId \in Users
      BY <2>5 DEF RegenerateInviteToken, OwnerActs, FindsOne
    <3> DEFINE u == workspaceRow[v].ownerId
    <3> HIDE DEF u
    <3>2. /\ issued' > issued /\ workspaceRow'[v] = [ownerId |-> u, inviteToken |-> issued']
          /\ \A x \in WorkspaceIds : x # v => workspaceRow'[x] = workspaceRow[x]
      BY <3>1, NewLinkFact DEF u
    <3>. QED  BY <2>1, <3>2
  <2>6. ASSUME NEW j \in Requests, JoinClear(j)
        PROVE  request[j].token = workspaceRow[w].inviteToken \/ since[j].link
    <3>1. request[j].pc = "clear" /\ w = request[j].workspace
      BY <2>1, <2>6 DEF JoinClear, MembershipShape
    <3>. QED  BY <3>1 DEF JoinInv
  <2>7. CASE \E u \in Users : Register(u)
    BY <2>2, <2>7 DEF Register
  <2>8. CASE \E u \in Users, v \in SharedWorkspaces : CreateWorkspace(u, v)
    BY <2>2, <2>8 DEF CreateWorkspace, WorkspaceIds
  <2>. QED  BY <2>1, <2>3, <2>4, <2>5, <2>6, <2>7, <2>8
            DEF MembershipNext, AddMember, RemoveMember, StartJoin, JoinInsert, FailHandler
<1>. QED  BY <1>1, MembershipInitInv, MembershipNextInv, PTL DEF MembershipSpec, LinkLives

-----------------------------------------------------------------------------
(* The five together, one of them at a time: the rows of the services that  *)
(* do not run stay as they are at the start.                                *)
ServicesIInv ==
    /\ ServicesTypeOK
    /\ service = "membership" => MembershipIInv
    /\ service = "budgets" => BudgetsIInv
    /\ service = "tokens" => TokensIInv

(* The rows of users, workspaces, members, budgets and API tokens are well  *)
(* formed, and none of them outlives a row it refers to.                    *)
THEOREM ServicesTypeCorrect == Spec => []ServicesTypeOK
<1>1. Init => ServicesIInv
  BY MembershipInitInv, BudgetsInitInv, TokensInit
     DEF Init, ServicesIInv, ServicesTypeOK, MembershipIInv, BudgetsIInv, TokensIInv
<1>2. ServicesIInv /\ [Next]_<<service, membershipTables, budgetTables, groupTables, tokenTables,
                               externalTables, request>> => ServicesIInv'
  <2> SUFFICES ASSUME ServicesIInv,
                      [Next]_<<service, membershipTables, budgetTables, groupTables, tokenTables,
                               externalTables, request>>
               PROVE  ServicesIInv'
    OBVIOUS
  <2>1. MembershipTypeOK /\ BudgetsTypeOK /\ ApiTokensTypeOK
    BY DEF ServicesIInv, ServicesTypeOK
  <2>2. ASSUME UNCHANGED membershipTables PROVE MembershipTypeOK'
    BY <2>1, <2>2 DEF membershipTables, userVars, MembershipTypeOK, Exists
  <2>3. ASSUME UNCHANGED budgetTables PROVE BudgetsTypeOK'
    BY <2>1, <2>3 DEF budgetTables, BudgetsTypeOK, SameKey, HasKey
  <2>4. ASSUME UNCHANGED tokenTables PROVE ApiTokensTypeOK'
    BY <2>1, <2>4 DEF tokenTables, ApiTokensTypeOK
  <2>5. CASE service = "membership" /\ MembershipNext
             /\ UNCHANGED <<service, budgetTables, groupTables, tokenTables, externalTables>>
    <3>1. MembershipIInv'
      BY <2>5, MembershipNextInv DEF ServicesIInv
    <3>. QED  BY <2>3, <2>4, <2>5, <3>1 DEF ServicesIInv, ServicesTypeOK, MembershipIInv
  <2>6. CASE service = "budgets" /\ BudgetsNext
             /\ UNCHANGED <<service, membershipTables, groupTables, tokenTables, externalTables>>
    <3>1. BudgetsIInv'
      BY <2>6, BudgetsNextInv DEF ServicesIInv
    <3>. QED  BY <2>2, <2>4, <2>6, <3>1 DEF ServicesIInv, ServicesTypeOK, BudgetsIInv
  <2>7. CASE service = "tokens" /\ ApiTokensNext
             /\ UNCHANGED <<service, membershipTables, budgetTables, groupTables, externalTables>>
    <3>1. TokensIInv'
      BY <2>7, TokensNext DEF ServicesIInv
    <3>. QED  BY <2>2, <2>3, <2>7, <3>1 DEF ServicesIInv, ServicesTypeOK, TokensIInv
  <2>8. CASE service \in {"groups", "external"}
             /\ UNCHANGED <<service, membershipTables, budgetTables, tokenTables>>
    BY <2>2, <2>3, <2>4, <2>8 DEF ServicesIInv, ServicesTypeOK
  <2>9. CASE UNCHANGED <<service, membershipTables, budgetTables, groupTables, tokenTables,
                         externalTables, request>>
    <3>1. /\ service = "membership" => MembershipIInv'
          /\ service = "budgets" => BudgetsIInv'
          /\ service = "tokens" => TokensIInv'
      BY <2>9, MembershipNextInv, BudgetsNextInv, TokensNext
         DEF ServicesIInv, membershipVars, budgetsVars, apiTokensVars
    <3>. QED  BY <2>2, <2>3, <2>4, <2>9, <3>1 DEF ServicesIInv, ServicesTypeOK
  <2>. QED  BY <2>5, <2>6, <2>7, <2>8, <2>9 DEF Next
<1>3. ServicesIInv => ServicesTypeOK
  BY DEF ServicesIInv
<1>. QED  BY <1>1, <1>2, <1>3, PTL DEF Spec
=============================================================================
