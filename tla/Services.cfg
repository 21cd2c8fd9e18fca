\* Five services that share no table, two handlers in flight.
SPECIFICATION Spec
CONSTANTS
    i1 = i1  i2 = i2  w1 = w1  w2 = w2  w3 = w3  c1 = c1  cGlobal = cGlobal  e1 = e1  g1 = g1  u1 = u1  r1 = r1  r2 = r2
    NULL = NULL
    Requests = {r1, r2}
    Users = {i1, i2}
    SharedWorkspaces = {w1}
    MaxMembers = 4
    MaxTokens = 3
    BudgetCategories = {c1}
    LastMonth = 2
    Limits = {0, 1}
    MaxSpent = 2
    BudgetIds = {i1, i2}
    Workspaces = {w2, w3}
    Categories = {c1, cGlobal}
    Groups = {g1}
    Expenses = {e1}
    GlobalCategories = {cGlobal}
    Clients = {u1}
    GLOBAL = GLOBAL  KEEP = KEEP
    Owners = {i1, i2}
    Tokens = {i1, i2}
    MaxUses = 2
    LastDay = 2
    MaxRestarts = 1
INVARIANTS ServicesTypeOK OverspendingNotified GroupsTypeOK InheritsGroup OwnCategoryOwnGroup
PROPERTIES JoinedOnce LinkLives NoSecondBudget RevokedForGood QuotesOnce DegradedWithNothingStored
SYMMETRY Symmetry
CHECK_DEADLOCK FALSE
