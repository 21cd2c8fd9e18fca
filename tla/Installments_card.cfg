\* One purchase and one card: the assertion on cardId.
SPECIFICATION Spec
CONSTANTS
    p1 = p1  p2 = p2  c1 = c1
    Purchases = {p1}
    Cards = {c1}
    Days = {1, 2}
    CardDays = {0, 2}
    MaxInstallments = 3
    MaxFailures = 0
    LastMonth = 4
    LastPurchaseMonth = 0
    Length <- MCLength
    Null = Null
INVARIANT StatementHasCard
CHECK_DEADLOCK FALSE
