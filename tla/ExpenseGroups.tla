--------------------------- MODULE ExpenseGroups ---------------------------
(***************************************************************************)
(* Categories, the expense groups they are assigned to, and the group that *)
(* an expense inherits from its category or is sent with:                  *)
(* CategoriesService.create and remove, ExpenseGroupsService.create,       *)
(* remove, assignCategories and unassignCategory, the part of              *)
(* TransactionsService.create, update and remove that concerns category    *)
(* and group, and the deletion of workspaces and users with what cascades. *)
(*                                                                         *)
(* Expenses that stay expenses: other transactions inherit no group.       *)
(* (Those that the schedulers insert are creates with the group NULL.)     *)
(* Workspaces and clients are there from the start; which workspaces a     *)
(* client owns is left open.  What reconcile marks is the subject of       *)
(* Settlements.                                                            *)
(***************************************************************************)
EXTENDS Handlers

CONSTANTS
    Workspaces, Clients, Categories, Groups, Expenses,  \* ids
    GlobalCategories,   \* those of the seed
    GLOBAL,             \* the scope of a category that is nobody's
    KEEP                \* a field that the DTO lacks

Scopes == Workspaces \cup Clients \cup {GLOBAL}
CategoryRow == [scope : Scopes, group : Groups \cup {NULL}]
Expense == [workspace : Workspaces, category : Categories, group : Groups \cup {NULL}]

ASSUME GroupsAssumption ==
    /\ GlobalCategories \subseteq Categories
    /\ GLOBAL \notin Workspaces \cup Clients /\ Workspaces \cap Clients = {}
    /\ Expenses \cap Requests = {}
    /\ NULL \notin Scopes \cup Categories \cup Groups \cup Expenses \cup CategoryRow \cup Expense
    /\ KEEP \notin Categories \cup Groups \cup {NULL}

VARIABLES
    living,     \* the workspaces and clients that exist
    category,   \* category -> CategoryRow, or NULL
    group,      \* group -> its workspace, or NULL
    expense,    \* expense -> Expense, or NULL
    removed,    \* the ids that were removed: they are never given again
    origin      \* history: whether an expense, and what a handler is about to
                \* write, has a group that was sent, or the one its category is
                \* in ("present"), or was in until it was regrouped ("former")

groupTables == <<living, category, group, expense, removed, origin>>
groupsVars == <<groupTables, request>>

CategoriesOf(gone) == {c \in Categories : category[c] # NULL /\ category[c].scope \in gone}
GroupsOf(gone) == {g \in Groups : group[g] \in gone}
ExpensesOf(gone) == {e \in Expenses : expense[e] # NULL /\ expense[e].workspace \in gone}
ExpensesIn(c) == {e \in Expenses : expense[e] # NULL /\ expense[e].category = c}
GroupExists(g) == g = NULL \/ group[g] # NULL

Inherits(x, c) ==
    /\ origin[x] = "present"
    /\ IF x \in Expenses THEN expense[x].category = c ELSE request[x].category = c

(* c is assigned to a group or taken out of one. *)
Regrouped(c) ==
    origin' = [x \in Expenses \cup Requests |-> IF Inherits(x, c) THEN "former" ELSE origin[x]]

-----------------------------------------------------------------------------
GroupsInit ==
    /\ living = Workspaces \cup Clients
    /\ category = [c \in Categories |->
            IF c \in GlobalCategories THEN [scope |-> GLOBAL, group |-> NULL] ELSE NULL]
    /\ group = [g \in Groups |-> NULL]
    /\ expense = [e \in Expenses |-> NULL] /\ removed = {}
    /\ NobodyIn
    /\ origin = [x \in Expenses \cup Requests |-> "sent"]

CreateCategory(c, scope) ==
    /\ category[c] = NULL /\ c \notin removed
    /\ scope \in living
    /\ category' = [category EXCEPT ![c] = [scope |-> scope, group |-> NULL]]
    /\ UNCHANGED <<living, group, expense, removed, origin, request>>

CreateGroup(g, w) ==
    /\ group[g] = NULL /\ g \notin removed
    /\ w \in living
    /\ group' = [group EXCEPT ![g] = w]
    /\ UNCHANGED <<living, category, expense, removed, origin, request>>

UnassignCategory(g, c) ==
    /\ group[g] # NULL
    /\ category[c] # NULL /\ category[c].group = g
    /\ category' = [category EXCEPT ![c].group = NULL]
    /\ Regrouped(c)
    /\ UNCHANGED <<living, group, expense, removed, request>>

-----------------------------------------------------------------------------
(* onDelete: SetNull. *)
Ungrouped(row, gs) ==
    IF row # NULL /\ row.group \in gs THEN [row EXCEPT !.group = NULL] ELSE row

(* The rows of these categories, groups and expenses go. *)
Delete(cs, gs, es) ==
    /\ category' = [c \in Categories |-> IF c \in cs THEN NULL ELSE Ungrouped(category[c], gs)]
    /\ group' = [g \in Groups |-> IF g \in gs THEN NULL ELSE group[g]]
    /\ expense' = [e \in Expenses |-> IF e \in es THEN NULL ELSE Ungrouped(expense[e], gs)]
    /\ removed' = removed \cup cs \cup gs \cup es
    /\ origin' = [x \in Expenses \cup Requests |-> IF x \in es THEN "sent" ELSE origin[x]]

RemoveGroup(g) ==
    /\ group[g] # NULL
    /\ Delete({}, {g}, {})
    /\ UNCHANGED <<living, request>>

RemoveExpense(e) ==
    /\ expense[e] # NULL
    /\ Delete({}, {}, {e})
    /\ UNCHANGED <<living, request>>

(* Fault: a transaction does not keep its category. *)
RestrictsNot(c, es) == FALSE

(* onDelete: Restrict, when the expenses es go in the same statement. *)
Restricts(c, es) == ~(ExpensesIn(c) \subseteq es)

(* A workspace or a user goes with what is its own (onDelete: Cascade), but *)
(* not while an expense of another workspace has one of its categories.     *)
(* (Its own expenses may also keep it, if the database gets to the          *)
(* categories first, and so may a purchase in installments, which is not    *)
(* modelled: then nothing happens.)                                         *)
Cascade(gone) ==
    /\ \A c \in CategoriesOf(gone) : ~Restricts(c, ExpensesOf(gone))
    /\ living' = living \ gone
    /\ Delete(CategoriesOf(gone), GroupsOf(gone), ExpensesOf(gone))
    /\ UNCHANGED request

DropWorkspace(w) == w \in living /\ Cascade({w})

DropClient(u, owned) == u \in living /\ owned \subseteq living /\ Cascade({u} \cup owned)

(* CategoriesService.remove counts the transactions ... *)
StartRemoveCategory(r, c) ==
    /\ request[r] = Idle
    /\ category[c] # NULL /\ category[c].scope # GLOBAL
    /\ ExpensesIn(c) = {}
    /\ Goes(r, [pc |-> "remove", category |-> c])
    /\ UNCHANGED groupTables

(* ... and deletes the category unless one has come. *)
RemoveCategory(r) ==
    LET c == request[r].category
    IN  /\ request[r].pc = "remove"
        /\ IF category[c] = NULL \/ Restricts(c, {}) THEN UNCHANGED groupTables
           ELSE Delete({c}, {}, {}) /\ UNCHANGED living
        /\ Ends(r)

-----------------------------------------------------------------------------
(* Fault: every category may be assigned. *)
AssignableAll(g, u) == {c \in Categories : category[c] # NULL}

(* assignCategories: the categories of the group's workspace, the client's  *)
(* own and global ones.                                                     *)
Assignable(g, u) == CategoriesOf({group[g], u, GLOBAL})

StartAssign(r, u, g, c) ==
    /\ request[r] = Idle
    /\ group[g] # NULL
    /\ c \in Assignable(g, u)
    /\ Goes(r, [pc |-> "assign", group |-> g, category |-> c])
    /\ UNCHANGED groupTables

(* updateMany: nothing for a category that is gone, an error for a group. *)
Assign(r) ==
    LET h == request[r]
    IN  /\ h.pc = "assign"
        /\ IF group[h.group] # NULL /\ category[h.category] # NULL
           THEN /\ category' = [category EXCEPT ![h.category].group = h.group]
                /\ Regrouped(h.category)
           ELSE UNCHANGED <<category, origin>>
        /\ Ends(r)
        /\ UNCHANGED <<living, group, expense, removed>>

-----------------------------------------------------------------------------
(* resolveExpenseGroupId: what the body says, unchecked, or else the group  *)
(* of the category in the body.                                             *)
Resolved(c, sent) ==
    IF sent # KEEP THEN sent ELSE IF c = KEEP THEN KEEP ELSE category[c].group

(* The body names categories and groups that exist, whosesoever they are:   *)
(* the write of any other throws, as it does if they go meanwhile.          *)
Bodies == {b \in [category : Categories \cup {KEEP}, group : Groups \cup {NULL, KEEP}] :
              /\ b.category \in Categories => category[b.category] # NULL
              /\ b.group \in Groups => group[b.group] # NULL}

StartWrite(r, e, w, body) ==
    /\ request[r] = Idle
    /\ body \in Bodies
    /\ Goes(r, [pc |-> "write", expense |-> e, workspace |-> w,
                category |-> body.category, group |-> Resolved(body.category, body.group)])
    /\ origin' = [origin EXCEPT ![r] =
                     IF body.group = KEEP /\ body.category # KEEP THEN "present" ELSE "sent"]
    /\ UNCHANGED <<living, category, group, expense, removed>>

(* TransactionsService.create: the DTO has a category. *)
StartCreate(r, w, body) ==
    /\ w \in living
    /\ body.category # KEEP
    /\ StartWrite(r, NULL, w, body)

(* TransactionsService.update with a category or a group. *)
StartUpdate(r, e, body) ==
    /\ expense[e] # NULL
    /\ {body.category, body.group} # {KEEP}
    /\ StartWrite(r, e, NULL, body)

(* Fault: no group is taken for "leave the group alone". *)
WrittenUnlessNull(row, h) ==
    [workspace |-> row.workspace,
     category |-> IF h.category = KEEP THEN row.category ELSE h.category,
     group |-> IF h.group \in {KEEP, NULL} THEN row.group ELSE h.group]

(* The row after the update: a field that is absent leaves its column alone. *)
Written(row, h) ==
    [workspace |-> row.workspace,
     category |-> IF h.category = KEEP THEN row.category ELSE h.category,
     group |-> IF h.group = KEEP THEN row.group ELSE h.group]

Inserted(h) == [workspace |-> h.workspace, category |-> h.category, group |-> h.group]

(* The foreign keys hold, and the row is still there. *)
KeysHold(h) ==
    /\ h.category # KEEP => category[h.category] # NULL
    /\ h.group # KEEP => GroupExists(h.group)
    /\ IF h.expense = NULL THEN h.workspace \in living ELSE expense[h.expense] # NULL

Write(r, e) ==
    LET h == request[r]
    IN  /\ h.pc = "write"
        /\ IF h.expense = NULL THEN expense[e] = NULL /\ e \notin removed ELSE e = h.expense
        /\ IF KeysHold(h)
           THEN /\ expense' = [expense EXCEPT ![e] =
                                  IF h.expense = NULL THEN Inserted(h) ELSE Written(@, h)]
                /\ origin' = [origin EXCEPT ![e] = origin[r], ![r] = "sent"]
           ELSE origin' = [origin EXCEPT ![r] = "sent"] /\ UNCHANGED expense
        /\ Ends(r)
        /\ UNCHANGED <<living, category, group, removed>>

GroupsNext ==
    \/ \E c \in Categories, scope \in Workspaces \cup Clients : CreateCategory(c, scope)
    \/ \E w \in Workspaces : DropWorkspace(w) \/ \E g \in Groups : CreateGroup(g, w)
    \/ \E u \in Clients, owned \in SUBSET Workspaces : DropClient(u, owned)
    \/ \E g \in Groups : RemoveGroup(g) \/ \E c \in Categories : UnassignCategory(g, c)
    \/ \E e \in Expenses : RemoveExpense(e)
    \/ \E r \in Requests :
          \/ Assign(r) \/ RemoveCategory(r) \/ \E e \in Expenses : Write(r, e)
          \/ \E c \in Categories :
                \/ StartRemoveCategory(r, c)
                \/ \E u \in Clients, g \in Groups : StartAssign(r, u, g, c)
          \/ \E body \in Bodies :
                \/ \E w \in Workspaces : StartCreate(r, w, body)
                \/ \E e \in Expenses : StartUpdate(r, e, body)

GroupsSpec == GroupsInit /\ [][GroupsNext]_groupsVars

-----------------------------------------------------------------------------
(* Nothing refers to a workspace, a user, a category or a group that is     *)
(* gone, whatever is deleted between a handler's read and its write.        *)
GroupsTypeOK ==
    /\ \A g \in Groups : group[g] # NULL => group[g] \in living
    /\ \A c \in Categories : category[c] # NULL =>
          category[c].scope \in living \cup {GLOBAL} /\ GroupExists(category[c].group)
    /\ \A e \in Expenses : expense[e] # NULL =>
          /\ expense[e] \in Expense
          /\ expense[e].workspace \in living
          /\ category[expense[e].category] # NULL
          /\ GroupExists(expense[e].group)

(* As long as a category stays in its group, so do the expenses that took   *)
(* their group from it, also when it has none or the group is deleted,      *)
(* and whatever other updates, deletions and assignments interleave.  Only  *)
(* assigning or unassigning the category after the request has read it      *)
(* leaves them behind.                                                      *)
InheritsGroup ==
    \A e \in Expenses :
        expense[e] # NULL /\ origin[e] = "present"
        => expense[e].group = category[expense[e].category].group

(* A workspace's own category is in groups of that workspace only, and an   *)
(* expense that took its group from such a category has a group of that     *)
(* workspace, also after the category was regrouped.  (A personal or global *)
(* category goes into a group of any workspace, and a group that a client   *)
(* sends is not checked.)                                                   *)
Own(c, g) == category[c].scope \in Workspaces /\ g # NULL => group[g] = category[c].scope
OwnCategoryOwnGroup ==
    /\ \A c \in Categories : category[c] # NULL => Own(c, category[c].group)
    /\ \A e \in Expenses : expense[e] # NULL /\ origin[e] # "sent" => Own(expense[e].category, expense[e].group)
=============================================================================
