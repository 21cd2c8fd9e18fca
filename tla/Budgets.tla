------------------------------ MODULE Budgets ------------------------------
(***************************************************************************)
(* The budgets of one workspace: BudgetsService.createBudget, updateBudget,*)
(* removeBudget and checkExceeded, with what moves them: the creation of   *)
(* expenses, which ends with checkExceeded, and the deletion of categories.*)
(*                                                                         *)
(* Expenses are summed by category and month: nothing here reads more of   *)
(* them.  Clients send type CATEGORY with a category and GENERAL without.  *)
(***************************************************************************)
EXTENDS Integers, Handlers

CONSTANTS
    BudgetCategories,
    LastMonth,      \* months go from 1 to LastMonth
    Limits,         \* amounts of budgets
    MaxSpent,       \* bound: expenses of one category and month, one unit each
    BudgetIds

ASSUME BudgetsAssumption ==
    /\ LastMonth \in Nat \ {0} /\ Limits \subseteq Nat /\ MaxSpent \in Nat
    /\ NULL \notin BudgetCategories

Months == 1..LastMonth
Keys == {[type |-> "GENERAL", categoryId |-> NULL]}
        \cup {[type |-> "CATEGORY", categoryId |-> c] : c \in BudgetCategories}

VARIABLES
    budgeted,       \* the categories that are not deleted
    budget,         \* id -> [type, categoryId, month, amount], or NULL
    spent,          \* category -> month -> the sum of its expenses
    month,          \* the month of the clock
    twin,           \* history: a budget with the key of this creation appeared since it began
    overspent       \* history: categories a creation took over their budget of
                    \* this month, and nobody was notified since

budgetTables == <<budgeted, budget, spent, month, twin, overspent>>
budgetsVars == <<budgetTables, request>>

BudgetRows == {budget[b] : b \in BudgetIds} \ {NULL}
HasKey(row, key) == row.type = key.type /\ row.categoryId = key.categoryId
SameKey(row, other) == HasKey(row, other) /\ row.month = other.month

(* Fault: the amount is part of what createBudget looks for. *)
TakenExactly(row) == row \in BudgetRows

(* createBudget's findFirst: type, category (or none) and month. *)
Taken(row) == \E other \in BudgetRows : SameKey(other, row)

(* @@unique: rows without a category are never equal to each other. *)
Unique(rows, row) == row.categoryId = NULL \/ ~ \E other \in rows : SameKey(other, row)

Becomes(b, row) ==
    /\ budget' = [budget EXCEPT ![b] = row]
    /\ twin' = [r \in Requests |->
                  twin[r] \/ (request[r].pc = "insert budget" /\ row # NULL /\ SameKey(row, request[r].row))]
    /\ overspent' = {c \in overspent : \A x \in {budget[b], row} \ {NULL} : x.categoryId # c}

-----------------------------------------------------------------------------
BudgetsInit ==
    /\ budgeted = BudgetCategories
    /\ budget = [b \in BudgetIds |-> NULL]
    /\ spent = [c \in BudgetCategories |-> [m \in Months |-> 0]]
    /\ month = 1
    /\ NobodyIn
    /\ twin = [r \in Requests |-> FALSE]
    /\ overspent = {}

StartCreateBudget(r, row) ==
    /\ request[r] = Idle
    /\ ~Taken(row)
    /\ Goes(r, [pc |-> "insert budget", row |-> row])
    /\ twin' = [twin EXCEPT ![r] = FALSE]
    /\ UNCHANGED <<budgeted, budget, spent, month, overspent>>

(* budget.create; P2002 and the foreign key of a deleted category throw. *)
InsertBudget(r) ==
    LET row == request[r].row
    IN  /\ request[r].pc = "insert budget"
        /\ Ends(r)
        /\ IF Unique(BudgetRows, row) /\ row.categoryId \in budgeted \cup {NULL}
           THEN \E b \in BudgetIds : budget[b] = NULL /\ Becomes(b, row)
           ELSE UNCHANGED <<budget, twin, overspent>>
        /\ UNCHANGED <<budgeted, spent, month>>

(* updateBudget writes what it is sent; the unique key may refuse it. *)
UpdateBudget(b, row) ==
    /\ budget[b] # NULL /\ row # budget[b]
    /\ Unique({budget[d] : d \in BudgetIds \ {b}} \ {NULL}, row)
    /\ row.categoryId \in budgeted \cup {NULL}
    /\ Becomes(b, row)
    /\ UNCHANGED <<budgeted, spent, month, request>>

RemoveBudget(b) ==
    /\ budget[b] # NULL
    /\ Becomes(b, NULL)
    /\ UNCHANGED <<budgeted, spent, month, request>>

(* CategoriesService.remove of a category without expenses: onDelete SetNull. *)
DeleteCategory(c) ==
    /\ c \in budgeted
    /\ \A m \in Months : spent[c][m] = 0
    /\ budgeted' = budgeted \ {c}
    /\ budget' = [b \in BudgetIds |->
            IF budget[b] # NULL /\ budget[b].categoryId = c THEN [budget[b] EXCEPT !.categoryId = NULL]
            ELSE budget[b]]
    /\ overspent' = overspent \ {c}
    /\ UNCHANGED <<spent, month, request, twin>>

-----------------------------------------------------------------------------
BudgetsFor(c, m) == {x \in BudgetRows : x.categoryId = c /\ x.month = m}
Exceeds(total, c, m) == \E x \in BudgetsFor(c, m) : total > x.amount

(* TransactionsService.create inserts an expense, dated in any month ... *)
StartExpense(r, c, m) ==
    /\ request[r] = Idle
    /\ c \in budgeted
    /\ spent[c][m] < MaxSpent
    /\ spent' = [spent EXCEPT ![c][m] = @ + 1]
    /\ overspent' = IF m = month /\ Exceeds(spent'[c][m], c, m) THEN overspent \cup {c} ELSE overspent
    /\ Goes(r, [pc |-> "find", category |-> c])
    /\ UNCHANGED <<budgeted, budget, month, twin>>

(* Fault: getMonth() counts from zero. *)
CheckedMonthZero == month - 1

(* ... and then checks the month of the clock, whatever the date. *)
CheckedMonth == month

(* checkExceeded looks for the budget ... *)
FindBudget(r) ==
    LET c == request[r].category
    IN  /\ request[r].pc = "find"
        /\ IF BudgetsFor(c, CheckedMonth) = {} THEN Ends(r)
           ELSE \E x \in BudgetsFor(c, CheckedMonth) :
                    Goes(r, [pc |-> "sum", category |-> c, month |-> CheckedMonth, limit |-> x.amount])
        /\ UNCHANGED <<budgeted, budget, spent, month, twin, overspent>>

(* ... and then sums the expenses; who is over the budget is notified. *)
SumExpenses(r) ==
    LET h == request[r]
    IN  /\ h.pc = "sum"
        /\ overspent' = IF h.month = month /\ spent[h.category][h.month] > h.limit
                        THEN overspent \ {h.category} ELSE overspent
        /\ Ends(r)
        /\ UNCHANGED <<budgeted, budget, spent, month, twin>>

(* An await throws: the warning is swallowed, or the process dies. *)
FailBudgetRequest(r) ==
    /\ r \in InFlight
    /\ Ends(r)
    /\ overspent' = IF request[r].pc = "insert budget" THEN overspent ELSE overspent \ {request[r].category}
    /\ UNCHANGED <<budgeted, budget, spent, month, twin>>

DeleteExpense(c, m) ==
    /\ spent[c][m] > 0
    /\ spent' = [spent EXCEPT ![c][m] = @ - 1]
    /\ overspent' = overspent \ {c}
    /\ UNCHANGED <<budgeted, budget, month, request, twin>>

NextMonth ==
    /\ month < LastMonth
    /\ month' = month + 1
    /\ overspent' = {}
    /\ UNCHANGED <<budgeted, budget, spent, request, twin>>

Proposed == {[type |-> k.type, categoryId |-> k.categoryId, month |-> m, amount |-> a] :
                k \in Keys, m \in Months, a \in Limits}

BudgetsNext ==
    \/ \E r \in Requests :
          \/ \E row \in Proposed : StartCreateBudget(r, row)
          \/ \E c \in BudgetCategories, m \in Months : StartExpense(r, c, m)
          \/ InsertBudget(r) \/ FindBudget(r) \/ SumExpenses(r) \/ FailBudgetRequest(r)
    \/ \E b \in BudgetIds : RemoveBudget(b) \/ \E row \in Proposed : UpdateBudget(b, row)
    \/ \E c \in BudgetCategories : DeleteCategory(c) \/ \E m \in Months : DeleteExpense(c, m)
    \/ NextMonth

BudgetsSpec == BudgetsInit /\ [][BudgetsNext]_budgetsVars

-----------------------------------------------------------------------------
(* A category and month has one budget, and no budget refers to a category  *)
(* that is gone, whatever is created, moved and deleted at the same time.   *)
BudgetsTypeOK ==
    /\ budgeted \subseteq BudgetCategories
    /\ \A b \in BudgetIds : budget[b] # NULL =>
          /\ budget[b].categoryId \in budgeted \cup {NULL}
          /\ \A d \in BudgetIds \ {b} : budget[d] # NULL /\ SameKey(budget[d], budget[b])
                                        => budget[b].categoryId = NULL
    /\ \A c \in BudgetCategories, m \in Months : spent[c][m] \in 0..MaxSpent

(* "Ya existe un presupuesto para esta categoría en este mes": a month gets *)
(* no second general budget from createBudget, unless the first appeared    *)
(* between the check and the insert: the unique key does not see NULLs.     *)
NoSecondBudget ==
    [][\A r \in Requests :
          /\ InsertBudget(r) /\ budget' # budget
          /\ \E row \in BudgetRows : SameKey(row, request[r].row)
          => twin[r]]_budgetsVars

(* An expense that takes its category over the budget of this month is      *)
(* notified, by its own creation or by another one: as long as nobody has   *)
(* been notified, a creation in that category has its check still to do.    *)
(* (Lost with the creation that fails, and at the turn of the month: the    *)
(* check then looks at the new month.)                                      *)
OverspendingNotified ==
    \A c \in overspent : \E r \in Requests :
        request[r].pc \in {"find", "sum"} /\ request[r].category = c
=============================================================================
