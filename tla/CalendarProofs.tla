--------------------------- MODULE CalendarProofs ---------------------------
(* nextOccurrenceOfDay for every calendar and every day of the month.      *)
EXTENDS Calendar, TLAPS

USE LastMonthAssumption, LengthAssumption

LEMMA DatesFact ==
    \A d : d \in Dates <=> /\ d \in [month : 0..LastMonth, day : Nat]
                           /\ d.day \in 1..Length[d.month]
BY DEF Dates

(* nextOccurrenceOfDay returns the first date after the given one that     *)
(* falls on the day, months too short for it having it on their last day.  *)
THEOREM NextOccurrenceIsFirst ==
    ASSUME NEW from \in Dates, from.month < LastMonth, NEW day \in Nat \ {0}
    PROVE  LET next == NextOccurrence(from, day)
           IN  /\ next \in Dates
               /\ Before(from, next)
               /\ FallsOn(next, day)
               /\ \A d \in Dates : Before(from, d) /\ FallsOn(d, day) => UpTo(next, d)
<1> DEFINE m    == from.month
           this == [month |-> m, day |-> Clamped(m, day)]
           that == [month |-> m + 1, day |-> Clamped(m + 1, day)]
<1>1. /\ m \in 0..LastMonth /\ m + 1 \in 0..LastMonth
      /\ from.day \in Nat /\ from = [month |-> m, day |-> from.day]
  BY DatesFact
<1>2. \A k \in 0..LastMonth : Clamped(k, day) \in 1..Length[k]
  BY DEF Clamped, Smaller
<1>3. this \in Dates /\ that \in Dates
  BY <1>1, <1>2, DatesFact
<1>4. FallsOn(this, day) /\ FallsOn(that, day)
  BY DEF FallsOn
<1>5. ASSUME NEW d \in Dates, FallsOn(d, day)
      PROVE  d = [month |-> d.month, day |-> Clamped(d.month, day)] /\ d.month \in 0..LastMonth
  BY <1>5, DatesFact DEF FallsOn
<1>6. CASE Before(from, this)
  <2>1. NextOccurrence(from, day) = this
    BY <1>1, <1>2, <1>6 DEF NextOccurrence, Before
  <2>2. ASSUME NEW d \in Dates, Before(from, d), FallsOn(d, day)
        PROVE  UpTo(this, d)
    <3>1. d.month >= m
      BY <1>1, <1>5, <2>2 DEF Before
    <3>2. CASE d.month = m
      BY <1>5, <2>2, <3>2 DEF UpTo
    <3>3. CASE d.month > m
      BY <1>1, <1>5, <2>2, <3>3 DEF UpTo, Before
    <3>. QED  BY <1>1, <1>5, <2>2, <3>1, <3>2, <3>3
  <2>. QED  BY <1>3, <1>4, <1>6, <2>1, <2>2
<1>7. CASE ~Before(from, this)
  <2>1. NextOccurrence(from, day) = that
    BY <1>1, <1>2, <1>7 DEF NextOccurrence, Before, Dated
  <2>2. Before(from, that)
    BY <1>1 DEF Before
  <2>3. ASSUME NEW d \in Dates, Before(from, d), FallsOn(d, day)
        PROVE  UpTo(that, d)
    <3>1. d.month # m
      BY <1>5, <1>7, <2>3 DEF Before
    <3>2. d.month >= m + 1
      BY <1>1, <1>5, <2>3, <3>1 DEF Before
    <3>3. CASE d.month = m + 1
      BY <1>5, <2>3, <3>3 DEF UpTo
    <3>4. CASE d.month > m + 1
      BY <1>1, <1>5, <2>3, <3>4 DEF UpTo, Before
    <3>. QED  BY <1>1, <1>5, <2>3, <3>2, <3>3, <3>4
  <2>. QED  BY <1>3, <1>4, <2>1, <2>2, <2>3
<1>. QED  BY <1>6, <1>7

(* A day that is 0 or less is one of the month before the next. *)
LEMMA OccurrenceInCalendar ==
    ASSUME NEW from \in Dates, from.month < LastMonth, NEW day \in Int,
           \A m \in 0..LastMonth : Length[m] + day > 0
    PROVE  NextOccurrence(from, day) \in Dates
<1>1. CASE day > 0
  BY <1>1, NextOccurrenceIsFirst
<1>2. CASE ~(day > 0)
  <2>1. from.month \in 0..LastMonth /\ from.day \in Nat \ {0} /\ from.month + 1 \in 0..LastMonth
    BY DatesFact
  <2>2. \A m \in 0..LastMonth : Clamped(m, day) = day
    BY <1>2 DEF Clamped, Smaller
  <2>3. NextOccurrence(from, day) = [month |-> from.month, day |-> Length[from.month] + day]
    BY <1>2, <2>1, <2>2 DEF NextOccurrence, Dated
  <2>4. Length[from.month] + day \in 1..Length[from.month]
    BY <1>2, <2>1
  <2>. QED  BY <2>1, <2>3, <2>4, DatesFact
<1>. QED  BY <1>1, <1>2

(* A calendar day is followed by another one. *)
LEMMA TomorrowFact ==
    ASSUME NEW d \in Dates, d.month < LastMonth
    PROVE  /\ Tomorrow(d) \in Dates
           /\ Before(d, Tomorrow(d))
           /\ Tomorrow(d).month <= d.month + 1
<1>1. /\ d.month \in 0..LastMonth /\ d.month + 1 \in 0..LastMonth
      /\ d.day \in 1..Length[d.month] /\ d = [month |-> d.month, day |-> d.day]
  BY DatesFact
<1>2. CASE d.day < Length[d.month]
  <2>1. Tomorrow(d) = [month |-> d.month, day |-> d.day + 1]
    BY <1>1, <1>2 DEF Tomorrow
  <2>. QED  BY <1>1, <1>2, <2>1, DatesFact DEF Before
<1>3. CASE ~(d.day < Length[d.month])
  <2>1. Tomorrow(d) = [month |-> d.month + 1, day |-> 1]
    BY <1>3 DEF Tomorrow
  <2>. QED  BY <1>1, <2>1, DatesFact DEF Before
<1>. QED  BY <1>2, <1>3

(* Dates are in order. *)
LEMMA UpToFact ==
    ASSUME NEW d \in Dates, NEW e \in Dates, UpTo(d, e)
    PROVE  /\ d.month <= e.month
           /\ \A f \in Dates : Before(e, f) => UpTo(d, f)
BY DatesFact DEF UpTo, Before

(* What rolls over lies in the next month, if it is long enough. *)
LEMMA RolledFact ==
    ASSUME NEW m \in 0..LastMonth, NEW n \in Nat \ {0},
           n <= Length[m] \/ (m + 1 <= LastMonth /\ n <= Length[m] + Length[m + 1])
    PROVE  /\ Rolled(m, n) \in Dates
           /\ \/ Rolled(m, n).month = m /\ Rolled(m, n).day = n
              \/ Rolled(m, n).month = m + 1
<1>1. CASE n <= Length[m]
  BY <1>1, DatesFact DEF Rolled
<1>2. CASE ~(n <= Length[m])
  <2>1. m + 1 \in 0..LastMonth /\ n - Length[m] \in 1..Length[m + 1]
    BY <1>2
  <2>. QED  BY <1>2, <2>1, DatesFact, SMTT(30) DEF Rolled
<1>. QED  BY <1>1, <1>2
=============================================================================
