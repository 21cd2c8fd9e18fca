\* Two purchases, one card, one failure anywhere: safety and, under FairSpec,
\* liveness (so no symmetry).
SPECIFICATION FairSpec
CONSTANTS
    p1 = p1  p2 = p2  c1 = c1
    Purchases = {p1, p2}
    Cards = {c1}
    Days = {1, 2}
    CardDays = {0, 2}
    MaxInstallments = 2
    MaxFailures = 1
    LastMonth = 4
    LastPurchaseMonth = 0
    Length <- MCLength
    Null = Null
INVARIANTS TypeOK ChargeAccounting PaidUpIsClosed AnnouncedOnce
PROPERTIES CancelIsFinal ClosedInTheEnd
CHECK_DEADLOCK FALSE
