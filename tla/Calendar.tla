------------------------------ MODULE Calendar ------------------------------
(***************************************************************************)
(* The date arithmetic of the schedulers, at the grain of days.  A date is *)
(* a month, counted from some first month without restarting at January,   *)
(* and a day of it.  The lengths of the months are a parameter, so that a  *)
(* scheduler can be model-checked on short months and the arithmetic       *)
(* itself on real ones.                                                    *)
(***************************************************************************)
EXTENDS Integers

CONSTANTS
    LastMonth,      \* the last month of the calendar
    Length          \* month -> its number of days (daysInMonth)

ASSUME LastMonthAssumption == LastMonth \in Nat
ASSUME LengthAssumption == Length \in [0..LastMonth -> Nat \ {0}]

Dates == UNION {[month : {m}, day : 1..Length[m]] : m \in 0..LastMonth}

Before(d, e) == d.month < e.month \/ (d.month = e.month /\ d.day < e.day)
UpTo(d, e) == d = e \/ Before(d, e)

Smaller(m, n) == IF m < n THEN m ELSE n

(* Fault: a day the month does not have is not clamped. *)
ClampedNot(month, day) == day

(* The day on which "day" falls in a month: its last one if it is shorter. *)
Clamped(month, day) == Smaller(day, Length[month])

(* Fault: an occurrence on the date itself counts. *)
NextOccurrenceOrSame(from, day) ==
    LET this == [month |-> from.month, day |-> Clamped(from.month, day)]
    IN  IF UpTo(from, this) THEN this
        ELSE [month |-> from.month + 1, day |-> Clamped(from.month + 1, day)]

(* Fault: the next month takes the day of the date instead of the one asked *)
(* for, so that a short month moves every later date.                       *)
NextOccurrenceDrifting(from, day) ==
    LET this == [month |-> from.month, day |-> Clamped(from.month, day)]
    IN  IF Before(from, this) THEN this
        ELSE [month |-> from.month + 1, day |-> Clamped(from.month + 1, from.day)]

(* new Date(year, month, day) with a day that is 0 or less goes back.       *)
(* Bound: by no more than a month.                                          *)
Dated(month, day) ==
    IF day > 0 THEN [month |-> month, day |-> day]
               ELSE [month |-> month - 1, day |-> Length[month - 1] + day]

(* nextOccurrenceOfDay.  A time of day on fromDate changes nothing: the     *)
(* occurrence is at midnight, so the one of the same day is never later.    *)
NextOccurrence(from, day) ==
    IF Clamped(from.month, day) > from.day
    THEN [month |-> from.month, day |-> Clamped(from.month, day)]
    ELSE Dated(from.month + 1, Clamped(from.month + 1, day))

(* new Date(year, month, day): a day the month does not have rolls over     *)
(* into the month after it.                                                 *)
Rolled(month, day) ==
    IF day <= Length[month] THEN [month |-> month, day |-> day]
                            ELSE [month |-> month + 1, day |-> day - Length[month]]

(* Fault: the day is kept in a month that does not have it. *)
PlusMonthsUnrolled(d, n) == [month |-> d.month + n, day |-> d.day]

(* date.setMonth(date.getMonth() + n). *)
PlusMonths(d, n) == Rolled(d.month + n, d.day)

(* date.setDate(date.getDate() + n), for no more days than a month has. *)
PlusDays(d, n) == Rolled(d.month, d.day + n)

(* The following day. *)
Tomorrow(d) == IF d.day < Length[d.month] THEN [d EXCEPT !.day = @ + 1]
                                         ELSE [month |-> d.month + 1, day |-> 1]

FallsOn(d, day) == d.day = Clamped(d.month, day)
=============================================================================
