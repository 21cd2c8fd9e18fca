------------------------------ MODULE MCLedger ------------------------------
(* Small instances of Ledger for TLC. *)
EXTENDS Ledger, TLC

CONSTANTS a1, a2, t1, t2, t3, r1, r2

(* A DECIMAL column wide enough for the balances of a few transactions; a   *)
(* sum beyond it is the overflow that makes recalculateBalance throw.       *)
MCMoney == -2..2

(* Updates that move a transaction, detach it or change its type. *)
MCPatches ==
    {[amount |-> Keep, type |-> Keep, bankAccountId |-> a] : a \in Accounts \cup {Null}}
    \cup {[amount |-> Keep, type |-> ty, bankAccountId |-> Keep] : ty \in Types}

Symmetry == Permutations(Transactions) \cup Permutations(Requests)
            \cup Permutations(Accounts)
=============================================================================
