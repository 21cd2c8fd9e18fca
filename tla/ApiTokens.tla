----------------------------- MODULE ApiTokens -----------------------------
(***************************************************************************)
(* API tokens: ApiTokensService.create and revoke and                      *)
(* ApiTokenStrategy.validate, which answers a request in two reads and     *)
(* writes lastUsedAt without waiting for it, against the deletion of the   *)
(* user.  The hash of a token stands for the token.                        *)
(***************************************************************************)
EXTENDS Integers, Handlers

CONSTANTS
    Owners, Tokens,
    MaxUses         \* bound: requests with a token

ASSUME ApiTokensAssumption == MaxUses \in Nat /\ NULL \notin Owners

VARIABLES
    owners,     \* the registered users
    apiToken,   \* token -> [userId, revokedAt, lastUsedAt], or NULL
    seen,       \* tokens created so far: they are random
    uses        \* how many requests there were

tokenTables == <<owners, apiToken, seen, uses>>
apiTokensVars == <<tokenTables, request>>

ApiToken == [userId : Owners, revoked : BOOLEAN, lastUsed : 0..MaxUses]

ApiTokensInit ==
    /\ owners = Owners
    /\ apiToken = [t \in Tokens |-> NULL] /\ seen = {}
    /\ NobodyIn
    /\ uses = 0

CreateToken(u, t) ==
    /\ u \in owners
    /\ t \notin seen
    /\ seen' = seen \cup {t}
    /\ apiToken' = [apiToken EXCEPT ![t] = [userId |-> u, revoked |-> FALSE, lastUsed |-> 0]]
    /\ UNCHANGED <<owners, request, uses>>

(* By its owner; revoking it again changes only the date. *)
Revoke(t) ==
    /\ apiToken[t] # NULL
    /\ apiToken' = [apiToken EXCEPT ![t].revoked = TRUE]
    /\ UNCHANGED <<owners, seen, request, uses>>

(* UsersService.remove: onDelete Cascade. *)
RemoveOwner(u) ==
    /\ u \in owners
    /\ owners' = owners \ {u}
    /\ apiToken' = [t \in Tokens |->
            IF apiToken[t] # NULL /\ apiToken[t].userId = u THEN NULL ELSE apiToken[t]]
    /\ UNCHANGED <<seen, request, uses>>

(* "!apiToken || apiToken.revokedAt". *)
Accepted(t) == apiToken[t] # NULL /\ ~apiToken[t].revoked

(* validate looks the token up ... *)
FindToken(r, t) ==
    /\ request[r] = Idle
    /\ uses < MaxUses /\ uses' = uses + 1
    /\ Accepted(t)
    /\ Goes(r, [pc |-> "user", token |-> t, row |-> apiToken[t], use |-> uses'])
    /\ UNCHANGED <<owners, apiToken, seen>>

(* ... then its user: the request is admitted, or answered 401. *)
FindUser(r) ==
    /\ request[r].pc = "user"
    /\ Goes(r, IF request[r].row.userId \in owners THEN [request[r] EXCEPT !.pc = "touch"] ELSE Idle)
    /\ UNCHANGED <<owners, apiToken, seen, uses>>

(* Fault: the whole row that was read is written back (upsert). *)
TouchedWhole(row, read, use) == [read EXCEPT !.lastUsed = use]

Touched(row, read, use) == IF row = NULL THEN NULL ELSE [row EXCEPT !.lastUsed = use]

(* lastUsedAt is written some time after; an error is swallowed. *)
Touch(r) ==
    LET h == request[r]
    IN  /\ h.pc = "touch"
        /\ apiToken' = [apiToken EXCEPT ![h.token] = Touched(@, h.row, h.use)]
        /\ Ends(r)
        /\ UNCHANGED <<owners, seen, uses>>

(* A read throws, or the update never arrives. *)
FailTokenRequest(r) ==
    /\ r \in InFlight
    /\ Ends(r)
    /\ UNCHANGED <<owners, apiToken, seen, uses>>

ApiTokensNext ==
    \/ \E u \in Owners : RemoveOwner(u) \/ \E t \in Tokens : CreateToken(u, t)
    \/ \E t \in Tokens : Revoke(t) \/ \E r \in Requests : FindToken(r, t)
    \/ \E r \in Requests : FindUser(r) \/ Touch(r) \/ FailTokenRequest(r)

ApiTokensSpec == ApiTokensInit /\ [][ApiTokensNext]_apiTokensVars

-----------------------------------------------------------------------------
(* Rows are well formed, and no token outlives its user. *)
ApiTokensTypeOK ==
    /\ owners \subseteq Owners
    /\ \A t \in Tokens : apiToken[t] # NULL =>
          apiToken[t] \in ApiToken /\ apiToken[t].userId \in owners

(* A revoked token stays revoked: the late lastUsedAt of a request that     *)
(* began before the revocation does not bring it back.                      *)
RevokedForGood ==
    [][\A t \in Tokens :
          apiToken[t] # NULL /\ apiToken[t].revoked => ~(apiToken'[t] # NULL /\ ~apiToken'[t].revoked)
      ]_apiTokensVars
=============================================================================
