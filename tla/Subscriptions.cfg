\* Two subscriptions, a changed date, a failed run or a missed midnight.
SPECIFICATION FairSpec
CONSTANTS
    s1 = s1  s2 = s2
    Subscriptions = {s1, s2}
    ClientDates <- MCClientDates
    Frequencies = {"MONTHLY", "WEEKLY", "YEARLY"}
    DaysPerWeek = 1
    MonthsPerYear = 2
    MaxChanges = 1
    MaxFailures = 1
    LastMonth = 5
    Length <- MCLength
    Null = Null
INVARIANTS TypeOK BilledOnce
PROPERTIES NoDueDateSkipped StoppedForGood CaughtUp
CHECK_DEADLOCK FALSE
