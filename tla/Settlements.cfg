SPECIFICATION Spec
CONSTANTS
    t1 = t1  r1 = r1  r2 = r2
    Transactions = {t1}
    Requests = {r1, r2}
    Cron = Cron
    Null = Null
    FirstMonth = 12
    FinalMonth = 62
    FirstDay <- MCFirstDay
    Workspaces <- MCWorkspaces
    Patches <- MCPatches
    CreatedAt = 88
    Dates = {89, 91}
    LastDay = 91
INVARIANTS TypeOK CountedOnce NoExpenseForgotten
PROPERTY SettlementIsFinal
SYMMETRY Symmetry
CHECK_DEADLOCK FALSE
