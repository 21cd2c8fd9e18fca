------------------------------- MODULE Agenda -------------------------------
(***************************************************************************)
(* The dates that DashboardService shows of one credit card and of one     *)
(* monthly recurring transaction, on real months: a user turns the pages   *)
(* of the calendar (getCalendarEvents), and the list of due events         *)
(* (getDueEvents) is asked for the same month.  The two are compared by    *)
(* the dates they compute, for a card and a transaction that both select:  *)
(* the list takes the cards of every workspace that the user is a member   *)
(* of, the calendar those of one workspace that the user owns, and the     *)
(* calendar may be limited to one workspace.                               *)
(*                                                                         *)
(* The days on which banks are closed are the weekends and one holiday.    *)
(***************************************************************************)
EXTENDS Calendar, FiniteSetsExt

CONSTANTS
    CardDays,       \* close and due days of cards, as far as they are days
                    \* of a month (their DTO takes any integer)
    RuleDays,       \* days of the month of recurring transactions
    Holidays,       \* dates that may be the holiday
    FirstPage

ASSUME AgendaAssumption ==
    /\ CardDays \cup RuleDays \subseteq Nat \ {0}
    /\ Holidays \subseteq Dates
    /\ FirstPage \in Nat \ {0} /\ FirstPage + 4 <= LastMonth
    /\ \A m \in 0..LastMonth : Length[m] >= 28

VARIABLES
    statementCloseDay, dueDay,  \* of the card
    dayOfMonth,     \* of the recurrence rule
    closed,         \* dates without banks
    page            \* the month that is shown

agendaVars == <<statementCloseDay, dueDay, dayOfMonth, closed, page>>

(* The number of a date, counted from the first one. *)
Offset(d) == LET before[m \in 0..LastMonth] == IF m = 0 THEN 0 ELSE before[m - 1] + Length[m - 1]
             IN  before[d.month] + d.day
Weekends(sunday) == {d \in Dates : (Offset(d) + sunday) % 7 \in {0, 6}}

FirstOf(m) == [month |-> m, day |-> 1]
LastOf(m) == [month |-> m, day |-> Length[m]]
Within(d, from, to) == UpTo(from, d) /\ UpTo(d, to)

-----------------------------------------------------------------------------
(* HolidaysService.nextBusinessDay.  Bound: ten days on, which weekends and  *)
(* a holiday do not reach.                                                  *)
NextBusinessDay(d) == PlusDays(d, Min({n \in 0..10 : n = 10 \/ PlusDays(d, n) \notin closed}))

(* Fault: the statement is due in the month it closes. *)
DueMonthSame(closeMonth) == closeMonth

(* A due day up to the close day is one of the next month. *)
DueMonth(closeMonth) == IF dueDay <= statementCloseDay THEN closeMonth + 1 ELSE closeMonth

NominalDue(m) == [month |-> DueMonth(m), day |-> Clamped(DueMonth(m), dueDay)]

(* cardCycleDates of the statement that closes in month m. *)
CloseDate(m) == NextBusinessDay([month |-> m, day |-> Clamped(m, statementCloseDay)])
DueDate(m) == NextBusinessDay(NominalDue(m))

Closes(cycles, from, to) ==
    {[type |-> "CARD_CLOSE", date |-> CloseDate(m)] : m \in {m \in cycles : Within(CloseDate(m), from, to)}}
Dues(cycles, from, to) ==
    {[type |-> "CARD_DUE", date |-> DueDate(m)] : m \in {m \in cycles : Within(DueDate(m), from, to)}}

(* A day the month lacks is one of the next. *)
Occurrence(m) == Rolled(m, dayOfMonth)
Occurrences(months, from, to) ==
    {[type |-> "RECURRING", date |-> Occurrence(m)] : m \in {m \in months : Within(Occurrence(m), from, to)}}

(* Fault: only the cycle that closes in the month. *)
CalendarCyclesOwn(m) == {m}

(* getCalendarEvents looks at the cycle before for what is due. *)
CalendarCycles(m) == {m - 1, m}

CalendarEvents(m) ==
    LET from == FirstOf(m)
        to == LastOf(m)
    IN  Closes({m}, from, to) \cup Dues(CalendarCycles(m), from, to) \cup Occurrences({m}, from, to)

(* Fault: the list begins with the cycle of its first month. *)
ListCyclesLate(from, to) == from.month..to.month + 1

(* getDueEvents begins a month before and ends a month after. *)
ListCycles(from, to) == from.month - 1..to.month + 1

(* Its months for a recurring transaction: setMonth from date to date,      *)
(* beginning with "from", as long as the date is not after "to".            *)
ListMonths(from, to) ==
    LET steps == 0..to.month - from.month
        at[n \in steps] == IF n = 0 THEN from ELSE PlusMonths(at[n - 1], 1)
    IN  {at[n].month : n \in {n \in steps : UpTo(at[n], to)}}

DueEvents(from, to) ==
    LET cycles == ListCycles(from, to)
    IN  Closes(cycles, from, to) \cup Dues(cycles, from, to)
        \cup Occurrences(ListMonths(from, to), from, to)

-----------------------------------------------------------------------------
AgendaInit ==
    /\ statementCloseDay \in CardDays /\ dueDay \in CardDays
    /\ dayOfMonth \in RuleDays
    /\ \E sunday \in 0..6, holiday \in Holidays : closed = Weekends(sunday) \cup {holiday}
    /\ page = FirstPage

TurnPage ==
    /\ page + 5 <= LastMonth
    /\ page' = page + 1
    /\ UNCHANGED <<statementCloseDay, dueDay, dayOfMonth, closed>>

AgendaNext == TurnPage

AgendaSpec == AgendaInit /\ [][AgendaNext]_agendaVars

-----------------------------------------------------------------------------
Shown == CalendarEvents(page)
Listed == DueEvents(FirstOf(page), LastOf(page))
AllCycles == 0..page + 1

(* "si no, 'vence el 5' del mismo mes quedaría antes que el cierre que lo   *)
(* generó": no statement is due before it closes, nor before the one of the *)
(* month before it, whatever weekends and holidays do.                      *)
DueInOrder ==
    /\ UpTo(CloseDate(page), DueDate(page))
    /\ UpTo(DueDate(page - 1), DueDate(page))

(* The calendar shows every date of its month on which a statement is due,  *)
(* except one that weekends pushed over the end of the month after the one  *)
(* it closed in: that one is on no page at all.                             *)
EveryDueShown ==
    \A m \in AllCycles :
        /\ DueDate(m).month = page
        /\ ~(NominalDue(m).month = m + 1 /\ page = m + 2)
        => [type |-> "CARD_DUE", date |-> DueDate(m)] \in Shown

(* The list and the calendar of a month tell the same, except for a close   *)
(* date that weekends pushed into it: only the list has it, and dues that   *)
(* neither has.                                                             *)
ListAgrees ==
    /\ Shown \subseteq Listed
    /\ \A e \in Listed \ Shown :
          /\ e.type = "CARD_CLOSE"
          /\ \E m \in AllCycles : e.date = CloseDate(m) /\ m < page
=============================================================================
