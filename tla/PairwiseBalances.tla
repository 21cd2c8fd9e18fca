-------------------------- MODULE PairwiseBalances --------------------------
(***************************************************************************)
(* Who pays whom when a period is closed: withEffectivePercentages and     *)
(* computePairwiseBalances, one payment at a time.                         *)
(*                                                                         *)
(* Amounts are whole cents, and a member's part of the expenses is a       *)
(* weight out of whole: a percentage of 100, or a salary of all salaries.  *)
(* Every amount below is multiplied by whole, so that parts of a cent are  *)
(* exact; the code computes with doubles.                                  *)
(***************************************************************************)
EXTENDS Integers, FiniteSets, FiniteSetsExt

CONSTANTS
    Members,
    Percentages, Salaries,  \* what a member may have
    Amounts,                \* cents a member, or somebody else, may have paid
    NULL

ASSUME BalancesAssumption ==
    /\ IsFiniteSet(Members)
    /\ Percentages \subseteq Nat /\ Salaries \subseteq Nat /\ Amounts \subseteq Nat
    /\ NULL \notin Nat

VARIABLES
    splitMode, percentage, salary,  \* of the workspace and its members
    paid,       \* member -> cents of the counted expenses it paid
    elsewhere,  \* cents that nobody, or somebody who has left, paid
    totalSpent, \* cents of all counted expenses
    whole,      \* the sum of all parts: 100 percent, or the total of the salaries
    debtors, creditors,     \* those whose turn is not over
    gave, got,              \* member -> what it pays and receives so far
    payments                \* how many payments there are

inputs == <<splitMode, percentage, salary, paid, elsewhere, totalSpent, whole>>
balancesVars == <<inputs, debtors, creditors, gave, got, payments>>

Total(f) == MapThenSumSet(LAMBDA m : f[m], Members)

(* Salaries count when every member has one. *)
UsesSalaries == splitMode = "SALARY_BASED" /\ \A m \in Members : salary[m] # NULL /\ salary[m] > 0
Weight(m) == IF UsesSalaries THEN salary[m] ELSE percentage[m]

Net(m) == paid[m] * whole - totalSpent * Weight(m)
Epsilon == whole    \* one cent

Debt(m) == IF -Net(m) > Epsilon THEN -Net(m) ELSE 0
Credit(m) == IF Net(m) > Epsilon THEN Net(m) ELSE 0
Owes(m) == Debt(m) - gave[m]
Due(m) == Credit(m) - got[m]

-----------------------------------------------------------------------------
(* A balance of a cent or less is left alone. *)
BalancesInit ==
    /\ splitMode \in {"MANUAL", "SALARY_BASED"}
    /\ percentage \in [Members -> Percentages]
    /\ salary \in [Members -> Salaries \cup {NULL}]
    /\ paid \in [Members -> Amounts] /\ elsewhere \in Amounts
    /\ totalSpent = Total(paid) + elsewhere /\ totalSpent \in Nat
    /\ whole = (IF UsesSalaries THEN Total(salary) ELSE 100) /\ whole \in Nat \ {0}
    /\ debtors = {m \in Members : Debt(m) > 0}
    /\ creditors = {m \in Members : Credit(m) > 0}
    /\ gave = [m \in Members |-> 0] /\ got = [m \in Members |-> 0]
    /\ payments = 0

(* The lists are sorted once, largest first; the one at the head keeps its  *)
(* place while it pays.  Equal amounts come in any order.                   *)
Heads(list, begun(_), amount(_)) ==
    LET first == {m \in list : begun(m)}
    IN  IF first # {} THEN first ELSE {m \in list : \A n \in list : amount(n) <= amount(m)}
HeadDebtors == Heads(debtors, LAMBDA m : gave[m] > 0, Owes)
HeadCreditors == Heads(creditors, LAMBDA m : got[m] > 0, Due)

(* Fault: the debtor pays all it owes to one creditor. *)
PaymentWhole(d, c) == Owes(d)

Payment(d, c) == IF Owes(d) < Due(c) THEN Owes(d) ELSE Due(c)

(* Fault: the turn is over once anything was paid. *)
OverAtOnce(rest) == TRUE

(* Fault: a rest of nothing is not seen as paid up. *)
OverNever(rest) == rest < 0

(* Less than a cent is left. *)
Over(rest) == rest < Epsilon

Pay(d, c) ==
    LET amount == Payment(d, c)
    IN  /\ d \in HeadDebtors /\ c \in HeadCreditors
        /\ gave' = [gave EXCEPT ![d] = @ + amount]
        /\ got' = [got EXCEPT ![c] = @ + amount]
        /\ debtors' = IF Over(Owes(d) - amount) THEN debtors \ {d} ELSE debtors
        /\ creditors' = IF Over(Due(c) - amount) THEN creditors \ {c} ELSE creditors
        /\ payments' = payments + 1
        /\ UNCHANGED inputs

BalancesNext == \E d \in debtors, c \in creditors : Pay(d, c)

BalancesSpec == BalancesInit /\ [][BalancesNext]_balancesVars

-----------------------------------------------------------------------------
(* Nobody is told to pay more than it owes or is promised more than it is   *)
(* owed, whatever the percentages add up to and whoever paid.               *)
NobodyOverpays == \A m \in Members : Owes(m) >= 0 /\ Due(m) >= 0

(* Once the payments are made everybody has borne its part, to a cent for   *)
(* every member, if the parts add up to the whole and members paid for      *)
(* everything.                                                              *)
SettledUp ==
    /\ debtors = {} \/ creditors = {}
    /\ MapThenSumSet(Weight, Members) = whole /\ elsewhere = 0
    => \A m \in Members :
          LET borne == paid[m] * whole + gave[m] - got[m] - totalSpent * Weight(m)
          IN  -Cardinality(Members) * Epsilon < borne /\ borne < Cardinality(Members) * Epsilon

(* There are fewer payments than members. *)
FewPayments == payments = 0 \/ payments < Cardinality(Members)
=============================================================================
