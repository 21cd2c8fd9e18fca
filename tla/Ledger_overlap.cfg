\* Two handlers at once over two accounts and two transactions.
SPECIFICATION Spec
CONSTANTS
    a1 = a1  a2 = a2
    t1 = t1  t2 = t2  t3 = t3
    r1 = r1  r2 = r2
    Accounts = {a1, a2}
    Transactions = {t1, t2}
    Requests = {r1, r2}
    Personal = {"home"}
    Shared = {"flat"}
    Money <- MCMoney
    Amounts = {1}
    Types = {"EXPENSE"}
    Patches <- MCPatches
    Null = Null
    Keep = Keep
    Unused = Unused
    Deleted = Deleted
SYMMETRY Symmetry
INVARIANTS TypeOK SettledBalance
