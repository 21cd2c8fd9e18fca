\* One subscription, nothing changes and nothing fails.
SPECIFICATION Spec
CONSTANTS
    s1 = s1  s2 = s2
    Subscriptions = {s1}
    ClientDates <- MCClientDates
    Frequencies = {"MONTHLY"}
    DaysPerWeek = 1
    MonthsPerYear = 2
    MaxChanges = 0
    MaxFailures = 0
    LastMonth = 6
    Length <- MCLength
    Null = Null
PROPERTY OneBillingPerMonth
CHECK_DEADLOCK FALSE
