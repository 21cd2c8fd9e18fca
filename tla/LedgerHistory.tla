--------------------------- MODULE LedgerHistory ---------------------------
(***************************************************************************)
(* Ledger with history variables that no action reads: the balances each   *)
(* account has had so far, and the handlers that have had the service to   *)
(* themselves.                                                             *)
(***************************************************************************)
EXTENDS Ledger

VARIABLES
    had,        \* account id -> the values Balance(a) has taken
    alone       \* requests no other request has overlapped since they began

historyVars == <<vars, had, alone>>

(* The balances of this moment, for the accounts that exist. *)
BalancesNow == [a \in Accounts |-> IF AccountExists(a) THEN {Balance(a)} ELSE {}]

AtWork == {r \in Requests : request[r] # Idle}

HistoryInit == Init /\ had = BalancesNow /\ alone = {}

HistoryNext ==
    /\ Next
    /\ had' = [a \in Accounts |-> had[a] \cup BalancesNow'[a]]
    /\ alone' = {r \in alone \cup (Requests \ AtWork) : AtWork' = {r}}

HistorySpec == HistoryInit /\ [][HistoryNext]_historyVars

(* A stored balance may lag behind its transactions but is never invented:  *)
(* however handlers overlap, fail or move transactions, currentBalance is a *)
(* balance that the account really had at some moment.  It is so because    *)
(* recalculateBalance derives the whole sum from one read of the table and  *)
(* never adds a difference to the stored value.                             *)
NeverInvented ==
    \A a \in Accounts : AccountExists(a) => bankAccount[a].currentBalance \in had[a]

(* When no other request overlaps a balance adjustment and the account was  *)
(* in step, it ends on the target the client asked for, whatever was        *)
(* created, moved or deleted before.                                        *)
AdjustOnTarget ==
    [][\A r \in alone :
          /\ RecalcWrite(r)
          /\ request[r].goal # Null
          /\ request[r].now \in inSync
          /\ AccountExists(request[r].now)
          => bankAccount'[request[r].now].currentBalance = request[r].goal]_historyVars

OpenAccounts == {a \in Accounts : AccountExists(a)}
ActualNow == [a \in OpenAccounts |-> Balance(a)]
ShownNow  == [a \in OpenAccounts |-> bankAccount[a].currentBalance]

(* The refinement: the balance a client reads is the column currentBalance, *)
(* the actual one what the rows of the table add up to.                     *)
Lagging == INSTANCE LaggingBalance WITH actual <- ActualNow, shown <- ShownNow

(* The service implements LaggingBalance: every step of a handler moves     *)
(* money, or shows a balance the account had, or does neither, never both.  *)
LagsBehind == Lagging!Spec
=============================================================================
