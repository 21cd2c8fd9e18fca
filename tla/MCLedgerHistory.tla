-------------------------- MODULE MCLedgerHistory --------------------------
(* Small instances of LedgerHistory for TLC. *)
EXTENDS LedgerHistory, TLC

CONSTANTS a1, a2, t1, t2, r1, r2

MCMoney == -2..2

(* Updates that attach a transaction to an account or detach it. *)
MCPatches ==
    {[amount |-> Keep, type |-> Keep, bankAccountId |-> a] : a \in Accounts \cup {Null}}

Symmetry == Permutations(Transactions) \cup Permutations(Requests)
=============================================================================
