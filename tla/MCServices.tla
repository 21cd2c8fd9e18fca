----------------------------- MODULE MCServices -----------------------------
(* Services that share no table, one at a time: "service" says which of them *)
(* is running.  The tables of the others stay as they are at the start.      *)
EXTENDS Membership, Budgets, ExpenseGroups, ApiTokens, ExternalData, TLC

CONSTANTS i1, i2, w1, w2, w3, c1, cGlobal, e1, g1, u1, r1, r2

VARIABLE service

(* The services share no table, so i1 and i2 can be ids of any kind in each. *)
Symmetry == Permutations({i1, i2}) \cup Permutations({w2, w3}) \cup Permutations(Requests)

Init ==
    /\ service \in {"membership", "budgets", "groups", "tokens", "external"}
    /\ MembershipInit /\ BudgetsInit /\ GroupsInit /\ ApiTokensInit /\ ExternalInit
    /\ service # "external" => seedDay = NULL

Next ==
    \/ service = "membership" /\ MembershipNext
       /\ UNCHANGED <<service, budgetTables, groupTables, tokenTables, externalTables>>
    \/ service = "budgets" /\ BudgetsNext
       /\ UNCHANGED <<service, membershipTables, groupTables, tokenTables, externalTables>>
    \/ service = "groups" /\ GroupsNext
       /\ UNCHANGED <<service, membershipTables, budgetTables, tokenTables, externalTables>>
    \/ service = "tokens" /\ ApiTokensNext
       /\ UNCHANGED <<service, membershipTables, budgetTables, groupTables, externalTables>>
    \/ service = "external" /\ ExternalNext
       /\ UNCHANGED <<service, membershipTables, budgetTables, groupTables, tokenTables>>

(* The rows of every service are rows its table can have.  Only the ids that *)
(* the groups hold are a property of their own, GroupsTypeOK.                *)
ServicesTypeOK == MembershipTypeOK /\ BudgetsTypeOK /\ ApiTokensTypeOK

Spec == Init /\ [][Next]_<<service, membershipTables, budgetTables, groupTables, tokenTables, externalTables, request>>
=============================================================================
