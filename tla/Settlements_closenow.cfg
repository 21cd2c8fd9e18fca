SPECIFICATION Spec
CONSTANTS
    t1 = t1  r1 = r1  r2 = r2
    Transactions = {t1}
    Requests = {r1}
    Cron = Cron
    Null = Null
    FirstMonth = 12
    FinalMonth = 62
    FirstDay <- MCFirstDay
    Workspaces <- MCIndefinite
    Patches = {}
    CreatedAt = 88
    Dates = {88}
    LastDay = 88
PROPERTY CloseNowSettles
CHECK_DEADLOCK FALSE
