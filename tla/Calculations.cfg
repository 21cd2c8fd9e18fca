\* Days at the edges of real months, every weekday, and percentages that may
\* or may not add up.
SPECIFICATION Spec
CONSTANTS
    a = a  b = b  c = c
    LastMonth = 8
    Length <- MCLength
    Days <- MCDays
    CardDays <- MCDays
    RuleDays = {1, 28, 30, 31}
    Holidays <- MCHolidays
    FirstPage = 2
    Members = {a, b, c}
    Percentages = {0, 33, 34, 50}
    Salaries = {1, 2}
    Amounts = {0, 1, 30}
    NULL = NULL
INVARIANTS DueDatesTypeOK NextChargeIsFirst DueInOrder EveryDueShown ListAgrees NobodyOverpays SettledUp FewPayments
PROPERTY OneChargePerMonth
CHECK_DEADLOCK FALSE
SYMMETRY Symmetry
