------------------------------ MODULE Periods -------------------------------
(***************************************************************************)
(* getCurrentPeriodBounds: the settlement period of a workspace that a day *)
(* falls in.  Days are counted through, and a month is known by the number *)
(* of its first day: new Date(y, m, d) is then FirstDay[m] + d - 1, also   *)
(* for a day the month does not have, which rolls over into the next one.  *)
(* Months are counted through too; the multiples of 12 are Januaries, and  *)
(* the days that are multiples of 7 are Sundays.  A period holds whole     *)
(* days: its start is at 0:00 and its end at 23:59:59.999.                 *)
(***************************************************************************)
EXTENDS Integers

CONSTANTS
    FirstMonth,     \* the months of the calendar are
    FinalMonth,     \* FirstMonth..FinalMonth
    FirstDay        \* month -> number of its first day

ASSUME MonthsAssumption == FirstMonth \in Int /\ FinalMonth \in Int

ASSUME FirstDayAssumption ==
    /\ FirstDay \in [FirstMonth..FinalMonth -> Int]
    /\ \A m, n \in FirstMonth..FinalMonth : m < n => FirstDay[m] < FirstDay[n]

DaysOf(m) == FirstDay[m]..(FirstDay[m + 1] - 1)

(* The days with a whole year of the calendar on both sides. *)
Inner == (FirstMonth + 12)..(FinalMonth - 13)
Days  == UNION {DaysOf(m) : m \in Inner}

MonthOf(d) == CHOOSE m \in FirstMonth..(FinalMonth - 1) : d \in DaysOf(m)
DayOf(d)   == d - FirstDay[MonthOf(d)] + 1      \* Date.getDate
CalendarMonth(m) == (m % 12) + 1                \* Date.getMonth, plus 1

(* Fault: the period starts on the previous cutoff and not the day after. *)
MonthlyPeriodInclusive(cutoffDay, now) ==
    LET m   == MonthOf(now)
        end == IF DayOf(now) > cutoffDay THEN m + 1 ELSE m
    IN  [start |-> FirstDay[end - 1] + cutoffDay - 1, end |-> FirstDay[end] + cutoffDay - 1]

(* From the day after the previous cutoff to the next one. *)
MonthlyPeriod(cutoffDay, now) ==
    LET m   == MonthOf(now)
        end == IF DayOf(now) > cutoffDay THEN m + 1 ELSE m
    IN  [start |-> FirstDay[end - 1] + cutoffDay, end |-> FirstDay[end] + cutoffDay - 1]

(* The seven days from the last weekStartDay on. *)
WeeklyPeriod(weekStartDay, now) ==
    LET start == now - ((now - weekStartDay + 7) % 7)
    IN  [start |-> start, end |-> start + 6]

(* The twelve months from the last yearStartMonth on. *)
YearlyPeriod(yearStartMonth, now) ==
    LET m     == MonthOf(now)
        year  == m - (m % 12)
        cycle == IF CalendarMonth(m) >= yearStartMonth THEN year ELSE year - 12
        first == cycle + yearStartMonth - 1
    IN  [start |-> FirstDay[first], end |-> FirstDay[first + 12] - 1]

Cycles == {"INDEFINITE", "MONTHLY", "WEEKLY", "YEARLY"}

(* getCurrentPeriodBounds of a workspace whose cycle is not INDEFINITE. *)
CurrentPeriod(w, now) ==
    CASE w.cycle = "MONTHLY" -> MonthlyPeriod(w.cutoffDay, now)
      [] w.cycle = "WEEKLY"  -> WeeklyPeriod(w.weekStartDay, now)
      [] w.cycle = "YEARLY"  -> YearlyPeriod(w.yearStartMonth, now)

Within(d, period) == d \in period.start..period.end

(* What the periods should be, in terms of the calendar only: the days      *)
(* after which a new period starts.                                         *)
LastOfPeriod(w, d) ==
    CASE w.cycle = "INDEFINITE" -> FALSE
      [] w.cycle = "MONTHLY"    -> DayOf(d) = w.cutoffDay
      [] w.cycle = "WEEKLY"     -> (d + 1) % 7 = w.weekStartDay
      [] w.cycle = "YEARLY"     -> /\ DayOf(d + 1) = 1
                                   /\ CalendarMonth(MonthOf(d + 1)) = w.yearStartMonth
=============================================================================
