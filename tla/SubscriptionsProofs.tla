------------------------- MODULE SubscriptionsProofs -------------------------
(***************************************************************************)
(* Theorems about Subscriptions, for every number of subscriptions, every  *)
(* calendar and every number of failures: type correctness, BilledOnce,    *)
(* NoDueDateSkipped and StoppedForGood.  CaughtUp is liveness and stays    *)
(* with TLC.                                                               *)
(***************************************************************************)
EXTENDS Subscriptions, CalendarProofs

USE SubscriptionsAssumption, NullAssumption, LastMonthAssumption, LengthAssumption

Held(s) == batch[s] # Null

(* The scheduler: what it holds, and that the calendar goes on after it. *)
RunInv ==
    /\ pc # "idle" => today.month + MonthsPerYear < LastMonth
    /\ pc = "idle" => batch = Nothing
    /\ pc \in {"found", "billed"} => current # Null /\ Held(current)
    /\ \A s \in Subscriptions : Held(s) => Created(s) /\ UpTo(batch[s].nextBillingDate, today)

(* What was billed has no date yet that follows it. *)
Waiting(s, d) == pc = "billed" /\ current = s /\ d = batch[s].nextBillingDate

(* A row that nobody changed since midnight is still what the run read; of *)
(* one that was changed, nothing but the date that was read is billed.     *)
ReadInv ==
    \A s \in Subscriptions : Held(s) =>
        /\ s \notin changed => subscription[s].nextBillingDate = batch[s].nextBillingDate
        /\ s \in changed => \A d \in Dates \ {batch[s].nextBillingDate} : billed[s][d] = 0

(* Dates to come were billed only by runs that died. *)
ToCome(s, d) ==
    \/ UpTo(subscription[s].nextBillingDate, d)
    \/ Held(s) /\ d = batch[s].nextBillingDate

BillInv ==
    /\ \A s \in Subscriptions, d \in Dates :
          Created(s) /\ ToCome(s, d) /\ ~Waiting(s, d) => billed[s][d] <= lost[s][d]
    /\ \A s \in Subscriptions, d \in Dates : ~Created(s) => billed[s][d] = 0
    /\ pc = "billed" /\ current \notin changed => billed[current][DueDate] > 0

StopInv ==
    \A s \in Subscriptions :
        /\ Held(s) => stopped[s] # "stopped"
        /\ Created(s) /\ subscription[s].isActive => stopped[s] = "no"
        /\ ~Created(s) => stopped[s] = "no"

SubscriptionsInv == TypeOK /\ RunInv /\ ReadInv /\ BillInv /\ BilledOnce /\ StopInv

-----------------------------------------------------------------------------
(* The following date is one of the calendar, and later. *)
LEMMA FollowingFact ==
    ASSUME NEW d \in Dates, d.month + MonthsPerYear < LastMonth, NEW f \in Frequencies
    PROVE  Following(d, f) \in Dates /\ Before(d, Following(d, f))
<1>1. /\ d.month \in 0..LastMonth /\ d.day \in 1..Length[d.month]
      /\ d = [month |-> d.month, day |-> d.day]
  BY DatesFact
<1>2. f \in {"MONTHLY", "WEEKLY", "YEARLY"}
  OBVIOUS
<1>3. ASSUME NEW n \in Nat \ {0}, n <= MonthsPerYear
      PROVE  PlusMonths(d, n) \in Dates /\ Before(d, PlusMonths(d, n))
  <2> DEFINE k == d.month + n
             day == d.day
  <2>1. k \in 0..LastMonth /\ k + 1 \in 0..LastMonth /\ k > d.month
    BY <1>1, <1>3
  <2>2. day \in Nat \ {0} /\ day <= Length[k] + Length[k + 1]
    <3>1. Length[d.month] <= Length[k] + Length[k + 1]
      BY <1>1, <2>1, CalendarAssumption
    <3>2. Length[k] \in Nat /\ Length[k + 1] \in Nat /\ Length[d.month] \in Nat
      BY <1>1, <2>1
    <3> QED
      BY <1>1, <3>1, <3>2
  <2>3. PlusMonths(d, n) = Rolled(k, day)
    BY DEF PlusMonths
  <2> HIDE DEF k, day
  <2>4. Rolled(k, day) \in Dates /\ Rolled(k, day).month \in {k, k + 1}
    BY <2>1, <2>2, RolledFact
  <2> QED
    BY <1>1, <2>1, <2>3, <2>4 DEF Before
<1>4. PlusDays(d, DaysPerWeek) \in Dates /\ Before(d, PlusDays(d, DaysPerWeek))
  <2> DEFINE k == d.month
             day == d.day + DaysPerWeek
  <2>1. k \in 0..LastMonth /\ k + 1 \in 0..LastMonth
    BY <1>1
  <2>2. day \in Nat \ {0} /\ day > d.day /\ day <= Length[k] + Length[k + 1]
    BY <1>1, <2>1, CalendarAssumption
  <2>3. PlusDays(d, DaysPerWeek) = Rolled(k, day)
    BY DEF PlusDays
  <2>4. k = d.month
    OBVIOUS
  <2> HIDE DEF k, day
  <2>5. /\ Rolled(k, day) \in Dates
        /\ \/ Rolled(k, day).month = k /\ Rolled(k, day).day = day
           \/ Rolled(k, day).month = k + 1
    BY <2>1, <2>2, RolledFact
  <2> QED
    BY <1>1, <2>2, <2>3, <2>4, <2>5 DEF Before
<1>5. CASE f = "MONTHLY"
  BY <1>3, <1>5 DEF Following
<1>6. CASE f = "WEEKLY"
  BY <1>4, <1>6 DEF Following
<1>7. CASE f = "YEARLY"
  BY <1>3, <1>7 DEF Following
<1> QED
  BY <1>2, <1>5, <1>6, <1>7

(* Dates are in order. *)
LEMMA OrderFact ==
    ASSUME NEW d \in Dates, NEW e \in Dates, NEW f \in Dates
    PROVE  /\ UpTo(d, d) /\ ~Before(d, d)
           /\ Before(d, e) /\ UpTo(e, f) => Before(d, f) /\ d # f
<1>1. d.month \in Int /\ d.day \in Int
  BY DatesFact
<1>2. e.month \in Int /\ e.day \in Int
  BY DatesFact
<1>3. f.month \in Int /\ f.day \in Int
  BY DatesFact
<1> QED
  BY <1>1, <1>2, <1>3 DEF UpTo, Before

-----------------------------------------------------------------------------
LEMMA InitInv ==
    ASSUME Init
    PROVE  SubscriptionsInv
<1>1. today \in Dates
  BY DatesFact DEF Init
<1>2. \A s \in Subscriptions : ~Held(s) /\ ~Created(s) /\ stopped[s] = "no"
  BY DEF Init, Nothing, Held, Created
<1>3. \A s \in Subscriptions, d \in Dates : billed[s][d] = 0 /\ lost[s][d] = 0
  BY DEF Init, NoBills
<1>4. TypeOK
  BY <1>1 DEF Init, TypeOK, Nothing, NoBills
<1>5. RunInv
  BY <1>2 DEF Init, RunInv
<1>6. ReadInv /\ StopInv
  BY <1>2 DEF ReadInv, StopInv
<1>7. BillInv /\ BilledOnce
  BY <1>2, <1>3 DEF Init, BillInv, BilledOnce
<1> QED
  BY <1>4, <1>5, <1>6, <1>7 DEF SubscriptionsInv

(* Steps that touch neither a row nor the run nor its history. *)
LEMMA ApartInv ==
    ASSUME SubscriptionsInv, UNCHANGED <<subscription, run, history>>,
           category' \in BOOLEAN, opening' \subseteq Subscriptions,
           changes' \in 0..MaxChanges, failures' \in 0..MaxFailures
    PROVE  SubscriptionsInv'
<1> USE DEF run, history, Held
<1>1. TypeOK'
  BY DEF SubscriptionsInv, TypeOK
<1>2. RunInv'
  BY DEF SubscriptionsInv, RunInv, Created
<1>3. ReadInv' /\ StopInv'
  BY DEF SubscriptionsInv, ReadInv, StopInv, Created
<1>4. BillInv' /\ BilledOnce'
  BY DEF SubscriptionsInv, BillInv, BilledOnce, Created, ToCome, Waiting, DueDate
<1> QED
  BY <1>1, <1>2, <1>3, <1>4 DEF SubscriptionsInv

LEMMA InsertInv ==
    ASSUME SubscriptionsInv,
           NEW s \in Subscriptions, NEW f \in Frequencies, NEW d \in Dates,
           Insert(s, f, d), opening' \subseteq Subscriptions
    PROVE  SubscriptionsInv'
<1> USE DEF Insert, run, bounds, history, Held
<1>1. TypeOK'
  BY DEF SubscriptionsInv, TypeOK, Row
<1>2. ~Created(s) /\ ~Held(s) /\ stopped[s] = "no" /\ \A e \in Dates : billed[s][e] = 0
  BY DEF SubscriptionsInv, RunInv, BillInv, StopInv
<1>3. /\ Created(s)'
      /\ \A t \in Subscriptions \ {s} : subscription'[t] = subscription[t]
  <2>1. [frequency |-> f, nextBillingDate |-> d, isActive |-> TRUE] \in Row
    BY DEF Row
  <2> QED
    BY <2>1 DEF SubscriptionsInv, TypeOK, Created
<1>4. \A t \in Subscriptions \ {s} : Created(t)' = Created(t)
  BY <1>3 DEF Created
<1>5. RunInv'
  BY <1>2, <1>3, <1>4 DEF SubscriptionsInv, RunInv
<1>6. ReadInv'
  BY <1>2, <1>3 DEF SubscriptionsInv, ReadInv
<1>7. StopInv'
  BY <1>2, <1>3, <1>4 DEF SubscriptionsInv, StopInv
<1>8. ASSUME NEW t \in Subscriptions, NEW e \in Dates,
             Created(t)', ToCome(t, e)', ~Waiting(t, e)'
      PROVE  billed'[t][e] <= lost'[t][e]
  <2>1. CASE t = s
    BY <1>2, <2>1 DEF SubscriptionsInv, TypeOK
  <2>2. CASE t # s
    BY <1>3, <1>4, <1>8, <2>2 DEF SubscriptionsInv, BillInv, ToCome, Waiting
  <2> QED
    BY <2>1, <2>2
<1>9. BillInv' /\ BilledOnce'
  BY <1>3, <1>4, <1>8 DEF SubscriptionsInv, BillInv, BilledOnce, DueDate
<1> QED
  BY <1>1, <1>5, <1>6, <1>7, <1>9 DEF SubscriptionsInv

LEMMA UpdateInv ==
    ASSUME SubscriptionsInv,
           NEW s \in Subscriptions, NEW f \in Frequencies, NEW d \in ClientDates \cup {Null},
           NEW active \in BOOLEAN, Update(s, f, d, active)
    PROVE  SubscriptionsInv'
<1> USE DEF Update, Stop, run, Held
<1> DEFINE row == [frequency |-> f, isActive |-> active,
                   nextBillingDate |-> IF d = Null THEN subscription[s].nextBillingDate ELSE d]
<1>1. /\ subscription[s] \in Row /\ row \in Row
      /\ subscription' = [subscription EXCEPT ![s] = row]
  <2>1. subscription[s] \in Row
    BY DEF SubscriptionsInv, TypeOK, Created
  <2> QED
    BY <2>1 DEF Row, SubscriptionsInv, TypeOK
<1>2. /\ subscription'[s] = row /\ row # Null
      /\ \A t \in Subscriptions \ {s} : subscription'[t] = subscription[t]
  BY <1>1 DEF SubscriptionsInv, TypeOK
<1>3. row.isActive = active /\ (d = Null => row.nextBillingDate = subscription[s].nextBillingDate)
  OBVIOUS
<1> HIDE DEF row
<1>4. \A t \in Subscriptions : Created(t)' = Created(t)
  BY <1>2 DEF Created
<1>5. \/ d = Null /\ UNCHANGED <<billed, lost, changed>>
      \/ /\ billed' = [billed EXCEPT ![s] = NoBills]
         /\ lost' = [lost EXCEPT ![s] = NoBills]
         /\ changed' = changed \cup {s}
  OBVIOUS
<1>6. TypeOK'
  <2>1. subscription' \in [Subscriptions -> Row \cup {Null}]
    BY <1>1 DEF SubscriptionsInv, TypeOK
  <2>2. NoBills \in [Dates -> Nat]
    BY DEF NoBills
  <2>3. /\ billed' \in [Subscriptions -> [Dates -> Nat]]
        /\ lost' \in [Subscriptions -> [Dates -> Nat]]
        /\ changed' \subseteq Subscriptions
    <3>1. /\ billed \in [Subscriptions -> [Dates -> Nat]]
          /\ lost \in [Subscriptions -> [Dates -> Nat]]
          /\ changed \subseteq Subscriptions
      BY DEF SubscriptionsInv, TypeOK
    <3>2. CASE d = Null /\ UNCHANGED <<billed, lost, changed>>
      BY <3>1, <3>2
    <3>3. CASE /\ billed' = [billed EXCEPT ![s] = NoBills]
               /\ lost' = [lost EXCEPT ![s] = NoBills]
               /\ changed' = changed \cup {s}
      <4>1. ASSUME NEW bills \in [Subscriptions -> [Dates -> Nat]]
            PROVE  [bills EXCEPT ![s] = NoBills] \in [Subscriptions -> [Dates -> Nat]]
        BY <2>2
      <4>2. changed \cup {s} \subseteq Subscriptions
        BY <3>1
      <4> QED
        BY <3>1, <3>3, <4>1, <4>2, Zenon
    <3> QED
      BY <1>5, <3>2, <3>3
  <2> QED
    BY <2>1, <2>3, SMTT(30) DEF SubscriptionsInv, TypeOK
<1>7. RunInv'
  BY <1>4 DEF SubscriptionsInv, RunInv
<1>8. ReadInv'
  <2> SUFFICES ASSUME NEW t \in Subscriptions, Held(t)
               PROVE  /\ t \notin changed' =>
                           subscription'[t].nextBillingDate = batch[t].nextBillingDate
                      /\ t \in changed' =>
                           \A e \in Dates \ {batch[t].nextBillingDate} : billed'[t][e] = 0
    BY DEF ReadInv
  <2>1. CASE t # s
    BY <1>2, <1>5, <2>1 DEF SubscriptionsInv, TypeOK, ReadInv
  <2>2. CASE t = s
    BY <1>2, <1>3, <1>5, <2>2 DEF SubscriptionsInv, TypeOK, ReadInv, NoBills
  <2> QED
    BY <2>1, <2>2
<1>9. ASSUME NEW t \in Subscriptions, NEW e \in Dates
      PROVE  \/ billed'[t][e] = 0 /\ lost'[t][e] = 0
             \/ /\ billed'[t][e] = billed[t][e] /\ lost'[t][e] = lost[t][e]
                /\ subscription'[t].nextBillingDate = subscription[t].nextBillingDate
  <2>1. CASE t # s
    BY <1>2, <1>5, <2>1 DEF SubscriptionsInv, TypeOK
  <2>2. CASE t = s
    BY <1>2, <1>3, <1>5, <2>2 DEF SubscriptionsInv, TypeOK, NoBills
  <2> QED
    BY <2>1, <2>2
<1>10. BillInv'
  <2>1. ASSUME NEW t \in Subscriptions, NEW e \in Dates,
               Created(t)', ToCome(t, e)', ~Waiting(t, e)'
        PROVE  billed'[t][e] <= lost'[t][e]
    BY <1>4, <1>9, <2>1 DEF SubscriptionsInv, BillInv, ToCome, Waiting
  <2>2. ASSUME NEW t \in Subscriptions, NEW e \in Dates, ~Created(t)'
        PROVE  billed'[t][e] = 0
    BY <1>4, <1>9, <2>2 DEF SubscriptionsInv, BillInv
  <2>3. ASSUME pc = "billed", current \notin changed'
        PROVE  billed'[current][DueDate] > 0
    BY <1>5, <2>3 DEF SubscriptionsInv, BillInv, TypeOK, RunInv
  <2> QED
    BY <2>1, <2>2, <2>3 DEF BillInv, DueDate
<1>11. BilledOnce'
  BY <1>9 DEF SubscriptionsInv, BilledOnce
<1>12. StopInv'
  <2> SUFFICES ASSUME NEW t \in Subscriptions
               PROVE  /\ Held(t) => stopped'[t] # "stopped"
                      /\ Created(t)' /\ subscription'[t].isActive => stopped'[t] = "no"
                      /\ ~Created(t)' => stopped'[t] = "no"
    BY DEF StopInv
  <2>1. CASE t # s
    BY <1>2, <1>4, <2>1 DEF SubscriptionsInv, TypeOK, StopInv
  <2>2. CASE t = s
    BY <1>2, <1>3, <1>4, <2>2 DEF SubscriptionsInv, TypeOK, StopInv
  <2> QED
    BY <2>1, <2>2
<1> QED
  BY <1>6, <1>7, <1>8, <1>10, <1>11, <1>12 DEF SubscriptionsInv

LEMMA DeactivateInv ==
    ASSUME SubscriptionsInv, NEW s \in Subscriptions, Deactivate(s)
    PROVE  SubscriptionsInv'
<1> USE DEF Deactivate, Stop, run, bounds, Held
<1> DEFINE row == [subscription[s] EXCEPT !.isActive = FALSE]
<1>1. subscription[s] \in Row /\ row \in Row
  <2>1. subscription[s] \in Row
    BY DEF SubscriptionsInv, TypeOK, Created
  <2> QED
    BY <2>1 DEF Row
<1>2. /\ subscription'[s] = row /\ row # Null
      /\ subscription' = [subscription EXCEPT ![s] = row]
      /\ \A t \in Subscriptions \ {s} : subscription'[t] = subscription[t]
  BY <1>1 DEF SubscriptionsInv, TypeOK
<1>3. ~row.isActive /\ row.nextBillingDate = subscription[s].nextBillingDate
  BY <1>1 DEF Row
<1> HIDE DEF row
<1>4. \A t \in Subscriptions :
        /\ Created(t)' = Created(t)
        /\ subscription'[t].nextBillingDate = subscription[t].nextBillingDate
  BY <1>2, <1>3 DEF Created
<1>5. TypeOK'
  BY <1>1, <1>2 DEF SubscriptionsInv, TypeOK
<1>6. RunInv' /\ ReadInv'
  BY <1>4 DEF SubscriptionsInv, RunInv, ReadInv
<1>7. BillInv' /\ BilledOnce'
  BY <1>4 DEF SubscriptionsInv, BillInv, BilledOnce, ToCome, Waiting, DueDate
<1>8. StopInv'
  <2> SUFFICES ASSUME NEW t \in Subscriptions
               PROVE  /\ Held(t) => stopped'[t] # "stopped"
                      /\ Created(t)' /\ subscription'[t].isActive => stopped'[t] = "no"
                      /\ ~Created(t)' => stopped'[t] = "no"
    BY DEF StopInv
  <2>1. CASE t # s
    BY <1>2, <1>4, <2>1 DEF SubscriptionsInv, TypeOK, StopInv
  <2>2. CASE t = s
    BY <1>2, <1>3, <1>4, <2>2 DEF SubscriptionsInv, TypeOK, StopInv
  <2> QED
    BY <2>1, <2>2
<1> QED
  BY <1>5, <1>6, <1>7, <1>8 DEF SubscriptionsInv

-----------------------------------------------------------------------------
LEMMA MidnightInv ==
    ASSUME SubscriptionsInv, Midnight
    PROVE  SubscriptionsInv'
<1> USE DEF Midnight, bounds
<1>1. /\ today' \in Dates /\ today' = Tomorrow(today)
      /\ today'.month + MonthsPerYear < LastMonth
  <2>1. today \in Dates /\ today.month \in Nat /\ today.month + MonthsPerYear + 1 < LastMonth
    BY DatesFact DEF SubscriptionsInv, TypeOK, LastNight
  <2>2. Tomorrow(today) \in Dates /\ Tomorrow(today).month <= today.month + 1
    BY <2>1, TomorrowFact
  <2>3. Tomorrow(today).month \in Nat
    BY <2>2, DatesFact
  <2> QED
    BY <2>1, <2>2, <2>3
<1>2. \A s \in Subscriptions : ~Held(s) /\ \A d \in Dates : ~Waiting(s, d)
  BY DEF SubscriptionsInv, RunInv, Nothing, Held, Waiting
<1>3. \A s \in Subscriptions : Held(s)' =>
        /\ batch'[s] = subscription[s] /\ Created(s)
        /\ subscription[s].isActive /\ UpTo(subscription[s].nextBillingDate, today')
  BY DEF Held, IsDue
<1>4. TypeOK'
  BY <1>1 DEF SubscriptionsInv, TypeOK
<1>5. RunInv'
  BY <1>1, <1>3 DEF SubscriptionsInv, RunInv, Created
<1>6. ReadInv'
  BY <1>3 DEF SubscriptionsInv, ReadInv
<1>7. ASSUME NEW s \in Subscriptions, NEW d \in Dates, Created(s), ToCome(s, d)'
      PROVE  ToCome(s, d) /\ ~Waiting(s, d)
  BY <1>2, <1>3, <1>7 DEF ToCome, UpTo
<1>8. BillInv' /\ BilledOnce'
  BY <1>7 DEF SubscriptionsInv, BillInv, BilledOnce, Created
<1>9. StopInv'
  BY <1>3 DEF SubscriptionsInv, StopInv, Created
<1> QED
  BY <1>4, <1>5, <1>6, <1>8, <1>9 DEF SubscriptionsInv

LEMMA MissMidnightInv ==
    ASSUME SubscriptionsInv, MissMidnight
    PROVE  SubscriptionsInv'
<1> USE DEF MissMidnight, history
<1>1. today' \in Dates
  BY DatesFact, TomorrowFact DEF SubscriptionsInv, TypeOK, LastNight
<1>2. \A s \in Subscriptions : ~Held(s)
  BY DEF SubscriptionsInv, RunInv, Nothing, Held
<1>3. TypeOK'
  BY <1>1 DEF SubscriptionsInv, TypeOK
<1>4. RunInv'
  BY <1>2 DEF SubscriptionsInv, RunInv, Held
<1>5. ReadInv' /\ StopInv' /\ BillInv' /\ BilledOnce'
  BY DEF SubscriptionsInv, ReadInv, StopInv, BillInv, BilledOnce,
         Created, Held, ToCome, Waiting, DueDate
<1> QED
  BY <1>3, <1>4, <1>5 DEF SubscriptionsInv

LEMMA FindCategoryInv ==
    ASSUME SubscriptionsInv, NEW s \in Subscriptions, FindCategory(s)
    PROVE  SubscriptionsInv'
<1> USE DEF FindCategory, bounds, history
<1>1. /\ batch' \in [Subscriptions -> Row \cup {Null}]
      /\ \A t \in Subscriptions : batch'[t] \in {batch[t], Null}
      /\ pc' \in {"next", "found"}
      /\ pc' = "found" => current' = s /\ batch' = batch
  BY DEF SubscriptionsInv, TypeOK
<1>2. TypeOK'
  BY <1>1 DEF SubscriptionsInv, TypeOK
<1>3. RunInv'
  BY <1>1 DEF SubscriptionsInv, RunInv, Held, Created
<1>4. ReadInv' /\ StopInv'
  BY <1>1 DEF SubscriptionsInv, ReadInv, StopInv, Held, Created
<1>5. BillInv' /\ BilledOnce'
  BY <1>1 DEF SubscriptionsInv, BillInv, BilledOnce, Held, Created, ToCome, Waiting
<1> QED
  BY <1>2, <1>3, <1>4, <1>5 DEF SubscriptionsInv

LEMMA FinishInv ==
    ASSUME SubscriptionsInv, Finish
    PROVE  SubscriptionsInv'
<1> USE DEF Finish, bounds, history
<1>1. TypeOK'
  BY DEF SubscriptionsInv, TypeOK
<1>2. RunInv' /\ ReadInv' /\ StopInv'
  BY DEF SubscriptionsInv, RunInv, ReadInv, StopInv, Held, Created
<1>3. BillInv' /\ BilledOnce'
  BY DEF SubscriptionsInv, BillInv, BilledOnce, Held, Created, ToCome, Waiting
<1> QED
  BY <1>1, <1>2, <1>3 DEF SubscriptionsInv

(* What the run holds when it bills and moves the date on. *)
LEMMA CurrentFact ==
    ASSUME SubscriptionsInv, pc \in {"found", "billed"}
    PROVE  /\ current \in Subscriptions /\ Held(current) /\ Created(current)
           /\ batch[current] \in Row /\ subscription[current] \in Row
           /\ DueDate \in Dates /\ DueDate.month + MonthsPerYear < LastMonth
<1>1. current \in Subscriptions /\ Held(current) /\ Created(current)
  BY DEF SubscriptionsInv, TypeOK, RunInv
<1>2. batch[current] \in Row /\ subscription[current] \in Row
  BY <1>1 DEF SubscriptionsInv, TypeOK, Held, Created
<1>3. DueDate \in Dates /\ UpTo(DueDate, today) /\ today \in Dates
      /\ today.month + MonthsPerYear < LastMonth
  BY <1>1, <1>2 DEF SubscriptionsInv, TypeOK, RunInv, DueDate, Row
<1>4. DueDate.month <= today.month /\ DueDate.month \in Nat /\ today.month \in Nat
  BY <1>3, UpToFact, DatesFact
<1> QED
  BY <1>1, <1>2, <1>3, <1>4

LEMMA BillStepInv ==
    ASSUME SubscriptionsInv, Bill
    PROVE  SubscriptionsInv'
<1> USE DEF Bill, bounds
<1>1. current \in Subscriptions /\ Held(current) /\ Created(current) /\ DueDate \in Dates
  BY CurrentFact
<1>2. /\ billed' \in [Subscriptions -> [Dates -> Nat]]
      /\ billed'[current][DueDate] = billed[current][DueDate] + 1
      /\ billed[current][DueDate] \in Nat
      /\ \A s \in Subscriptions, d \in Dates :
           s # current \/ d # DueDate => billed'[s][d] = billed[s][d]
  BY <1>1 DEF SubscriptionsInv, TypeOK
<1>3. TypeOK'
  BY <1>2 DEF SubscriptionsInv, TypeOK
<1>4. RunInv' /\ StopInv'
  BY DEF SubscriptionsInv, RunInv, StopInv, Held, Created
<1>5. ReadInv'
  BY <1>2 DEF SubscriptionsInv, ReadInv, Held, DueDate
<1>6. ASSUME NEW s \in Subscriptions, NEW d \in Dates,
             Created(s), ToCome(s, d)', ~Waiting(s, d)'
      PROVE  billed'[s][d] <= lost'[s][d]
  BY <1>2, <1>6 DEF SubscriptionsInv, BillInv, Held, ToCome, Waiting, DueDate
<1>7. billed[current][DueDate] <= lost[current][DueDate]
  BY <1>1 DEF SubscriptionsInv, BillInv, ToCome, Waiting, DueDate
<1>8. BillInv'
  BY <1>1, <1>2, <1>6 DEF SubscriptionsInv, BillInv, Created, DueDate
<1>9. BilledOnce'
  <2> SUFFICES ASSUME NEW s \in Subscriptions, NEW d \in Dates
               PROVE  billed'[s][d] <= 1 + lost[s][d]
    BY DEF BilledOnce
  <2>1. lost[s][d] \in Nat /\ billed[s][d] \in Nat
    BY DEF SubscriptionsInv, TypeOK
  <2>2. CASE s = current /\ d = DueDate
    BY <1>2, <1>7, <2>1, <2>2
  <2>3. CASE s # current \/ d # DueDate
    BY <1>2, <2>3 DEF SubscriptionsInv, BilledOnce
  <2> QED
    BY <2>2, <2>3
<1> QED
  BY <1>3, <1>4, <1>5, <1>8, <1>9 DEF SubscriptionsInv

(* The date that is written follows the one that was read. *)
LEMMA AdvanceFact ==
    ASSUME SubscriptionsInv, Advance
    PROVE  LET row == Advanced(subscription[current], batch[current])
           IN  /\ row \in Row /\ subscription' = [subscription EXCEPT ![current] = row]
               /\ row.isActive = subscription[current].isActive
               /\ row.nextBillingDate \in Dates /\ Before(DueDate, row.nextBillingDate)
<1>1. /\ current \in Subscriptions /\ batch[current] \in Row /\ subscription[current] \in Row
      /\ DueDate \in Dates /\ DueDate.month + MonthsPerYear < LastMonth
  BY CurrentFact DEF Advance
<1>2. batch[current].frequency \in Frequencies
  BY <1>1 DEF Row
<1> DEFINE next == Following(DueDate, batch[current].frequency)
<1>3. next \in Dates /\ Before(DueDate, next)
  BY <1>1, <1>2, FollowingFact
<1>4. Advanced(subscription[current], batch[current])
        = [subscription[current] EXCEPT !.nextBillingDate = next]
  BY DEF Advanced, DueDate
<1>5. subscription'
        = [subscription EXCEPT ![current] = Advanced(subscription[current], batch[current])]
  BY <1>1 DEF Advance
<1> HIDE DEF next
<1> QED
  BY <1>1, <1>3, <1>4, <1>5 DEF Row

LEMMA AdvanceInv ==
    ASSUME SubscriptionsInv, Advance
    PROVE  SubscriptionsInv'
<1> USE DEF bounds, history
<1> DEFINE row == Advanced(subscription[current], batch[current])
<1>1. /\ current \in Subscriptions /\ Held(current) /\ Created(current) /\ DueDate \in Dates
      /\ DueDate = batch[current].nextBillingDate
  BY CurrentFact DEF Advance, DueDate
<1>2. /\ row \in Row /\ subscription' = [subscription EXCEPT ![current] = row]
      /\ row.isActive = subscription[current].isActive
      /\ row.nextBillingDate \in Dates /\ Before(DueDate, row.nextBillingDate)
  BY AdvanceFact
<1> HIDE DEF row
<1>3. /\ subscription'[current] = row /\ row # Null
      /\ \A s \in Subscriptions \ {current} : subscription'[s] = subscription[s]
  BY <1>1, <1>2 DEF SubscriptionsInv, TypeOK
<1>4. \A s \in Subscriptions : Created(s)' = Created(s)
  BY <1>1, <1>3 DEF Created
<1>5. /\ batch' = [batch EXCEPT ![current] = Null]
      /\ pc = "billed" /\ pc' = "next" /\ current' = Null
      /\ UNCHANGED <<category, opening, today, bounds, history>>
  BY DEF Advance
<1>6. /\ \A s \in Subscriptions \ {current} : batch'[s] = batch[s]
      /\ \A s \in Subscriptions : Held(s)' <=> Held(s) /\ s # current
  BY <1>1, <1>5 DEF SubscriptionsInv, TypeOK, Held
<1>7. TypeOK'
  BY <1>2, <1>5 DEF SubscriptionsInv, TypeOK
<1>8. RunInv'
  BY <1>4, <1>5, <1>6 DEF SubscriptionsInv, RunInv
<1>9. ReadInv'
  BY <1>3, <1>5, <1>6 DEF SubscriptionsInv, ReadInv
<1>10. StopInv'
  BY <1>2, <1>3, <1>4, <1>5, <1>6 DEF SubscriptionsInv, StopInv
<1>11. ASSUME NEW s \in Subscriptions, NEW d \in Dates, Created(s), ToCome(s, d)'
       PROVE  billed[s][d] <= lost[s][d]
  <2>1. CASE s # current
    <3>1. ToCome(s, d) /\ ~Waiting(s, d)
      BY <1>3, <1>6, <1>11, <2>1 DEF ToCome, Waiting
    <3> QED
      BY <1>11, <3>1 DEF SubscriptionsInv, BillInv
  <2>2. CASE s = current
    <3>1. Before(DueDate, d) /\ d # DueDate
      BY <1>2, <1>3, <1>6, <1>11, <2>2, <1>1, OrderFact DEF ToCome
    <3>2. CASE s \in changed
      <4>1. billed[s][d] = 0 /\ lost[s][d] \in Nat
        BY <1>1, <2>2, <3>1, <3>2 DEF SubscriptionsInv, ReadInv, TypeOK
      <4> QED
        BY <4>1
    <3>3. CASE s \notin changed
      <4>1. subscription[s].nextBillingDate = DueDate
        BY <1>1, <2>2, <3>3 DEF SubscriptionsInv, ReadInv
      <4>2. ToCome(s, d) /\ ~Waiting(s, d)
        BY <1>1, <2>2, <3>1, <4>1 DEF ToCome, Waiting, UpTo
      <4> QED
        BY <1>11, <4>2 DEF SubscriptionsInv, BillInv
    <3> QED
      BY <3>2, <3>3
  <2> QED
    BY <2>1, <2>2
<1>12. BillInv' /\ BilledOnce'
  BY <1>4, <1>5, <1>11 DEF SubscriptionsInv, BillInv, BilledOnce
<1> QED
  BY <1>7, <1>8, <1>9, <1>10, <1>12 DEF SubscriptionsInv

LEMMA AbortInv ==
    ASSUME SubscriptionsInv, Abort, failures' \in 0..MaxFailures
    PROVE  SubscriptionsInv'
<1> USE DEF Abort
<1>1. \A s \in Subscriptions : ~Held(s)'
  BY DEF Held, Nothing
<1>2. /\ lost' \in [Subscriptions -> [Dates -> Nat]]
      /\ \A s \in Subscriptions, d \in Dates :
            lost'[s][d] = IF Waiting(s, d) THEN lost[s][d] + 1 ELSE lost[s][d]
  <2>1. CASE pc = "billed"
    <3>1. current \in Subscriptions /\ DueDate \in Dates
      BY <2>1, CurrentFact
    <3> QED
      BY <2>1, <3>1 DEF SubscriptionsInv, TypeOK, Waiting, DueDate
  <2>2. CASE pc # "billed"
    BY <2>2 DEF SubscriptionsInv, TypeOK, Waiting
  <2> QED
    BY <2>1, <2>2
<1>3. TypeOK'
  BY <1>2 DEF SubscriptionsInv, TypeOK, Nothing
<1>4. RunInv' /\ ReadInv'
  BY <1>1 DEF RunInv, ReadInv
<1>5. StopInv'
  BY <1>1 DEF SubscriptionsInv, StopInv, Created
<1>6. \A s \in Subscriptions, d \in Dates :
        billed[s][d] \in Nat /\ lost[s][d] \in Nat /\ billed[s][d] <= 1 + lost[s][d]
  BY DEF SubscriptionsInv, TypeOK, BilledOnce
<1>7. ASSUME NEW s \in Subscriptions, NEW d \in Dates, Created(s), ToCome(s, d)'
      PROVE  billed[s][d] <= lost'[s][d]
  <2>1. ToCome(s, d)
    BY <1>1, <1>7 DEF ToCome
  <2>2. CASE Waiting(s, d)
    BY <1>2, <1>6, <2>2
  <2>3. CASE ~Waiting(s, d)
    BY <1>2, <1>7, <2>1, <2>3 DEF SubscriptionsInv, BillInv
  <2> QED
    BY <2>2, <2>3
<1>8. BillInv'
  BY <1>7 DEF SubscriptionsInv, BillInv, Created
<1>9. BilledOnce'
  BY <1>2, <1>6 DEF BilledOnce
<1> QED
  BY <1>3, <1>4, <1>5, <1>8, <1>9 DEF SubscriptionsInv

-----------------------------------------------------------------------------
LEMMA NextInv ==
    ASSUME SubscriptionsInv, [Next]_vars
    PROVE  SubscriptionsInv'
<1>1. /\ category \in BOOLEAN /\ opening \subseteq Subscriptions
      /\ changes \in 0..MaxChanges /\ failures \in 0..MaxFailures
  BY DEF SubscriptionsInv, TypeOK
<1>2. CASE UNCHANGED vars
  BY <1>1, <1>2, ApartInv DEF vars, bounds
<1>3. ASSUME NEW s \in Subscriptions, NEW f \in Frequencies, NEW d \in ClientDates,
             Create(s, f, d) \/ CreateFirst(s, f, d)
      PROVE  SubscriptionsInv'
  <2>1. d \in Dates /\ Following(d, f) \in Dates
    BY CalendarAssumption, FollowingFact
  <2>2. CASE Create(s, f, d)
    BY <1>1, <2>1, <2>2, InsertInv DEF Create
  <2>3. CASE CreateFirst(s, f, d)
    BY <1>1, <2>1, <2>3, InsertInv DEF CreateFirst
  <2> QED
    BY <1>3, <2>2, <2>3
<1>4. ASSUME NEW s \in Subscriptions, OpenFirst(s) \/ FailFirst(s)
      PROVE  SubscriptionsInv'
  <2>1. opening' \subseteq Subscriptions /\ failures' \in 0..MaxFailures
    BY <1>1, <1>4 DEF OpenFirst, FailFirst, bounds
  <2> QED
    BY <1>1, <1>4, <2>1, ApartInv DEF OpenFirst, FailFirst, bounds
<1>5. ASSUME NEW there \in BOOLEAN, SetCategory(there)
      PROVE  SubscriptionsInv'
  <2>1. changes' \in 0..MaxChanges
    BY <1>1, <1>5 DEF SetCategory
  <2> QED
    BY <1>1, <1>5, <2>1, ApartInv DEF SetCategory
<1>6. ASSUME AbortBill \/ FailRun
      PROVE  SubscriptionsInv'
  <2>1. failures' \in 0..MaxFailures
    BY <1>1, <1>6 DEF AbortBill, FailRun
  <2> QED
    BY <1>6, <2>1, AbortInv DEF AbortBill, FailRun
<1> QED
  BY <1>2, <1>3, <1>4, <1>5, <1>6, UpdateInv, DeactivateInv, MidnightInv, MissMidnightInv,
     FindCategoryInv, BillStepInv, AdvanceInv, FinishInv
     DEF Next, Client, Scheduler

THEOREM SubscriptionsInvariant == Spec => []SubscriptionsInv
  BY InitInv, NextInv, PTL DEF Spec

(* TypeOK, for every instance of the constants. *)
THEOREM SubscriptionsTypeCorrect == Spec => []TypeOK
<1>1. SubscriptionsInv => TypeOK
  BY DEF SubscriptionsInv
<1> QED
  BY <1>1, SubscriptionsInvariant, PTL

(* A due date is billed once, and once more for every run that died between *)
(* its transaction and its new date.                                        *)
THEOREM BilledOnceHolds == Spec => []BilledOnce
<1>1. SubscriptionsInv => BilledOnce
  BY DEF SubscriptionsInv
<1> QED
  BY <1>1, SubscriptionsInvariant, PTL

(* No run moves a date on that it has not billed. *)
THEOREM NoDueDateSkippedHolds == Spec => NoDueDateSkipped
<1>1. ASSUME SubscriptionsInv, NEW s \in Subscriptions, Advance, s = current, s \notin changed
      PROVE  /\ billed[s][subscription[s].nextBillingDate] > 0
             /\ Before(subscription[s].nextBillingDate, subscription'[s].nextBillingDate)
  <2>1. pc = "billed" /\ Held(s) /\ DueDate = batch[s].nextBillingDate
    BY <1>1, CurrentFact DEF Advance, DueDate
  <2>2. subscription[s].nextBillingDate = DueDate
    BY <1>1, <2>1 DEF SubscriptionsInv, ReadInv
  <2>3. billed[s][DueDate] > 0
    BY <1>1, <2>1 DEF SubscriptionsInv, BillInv
  <2>4. Before(DueDate, subscription'[s].nextBillingDate)
    BY <1>1, AdvanceFact DEF SubscriptionsInv, TypeOK
  <2> QED
    BY <2>2, <2>3, <2>4
<1>2. SubscriptionsInv =>
        [\A s \in Subscriptions :
            Advance /\ s = current /\ s \notin changed
            => /\ billed[s][subscription[s].nextBillingDate] > 0
               /\ Before(subscription[s].nextBillingDate, subscription'[s].nextBillingDate)]_vars
  BY <1>1
<1> QED
  BY <1>2, SubscriptionsInvariant, PTL DEF NoDueDateSkipped

(* What a client stopped is billed at most by the run that holds its row. *)
THEOREM StoppedForGoodHolds == Spec => StoppedForGood
<1>1. SubscriptionsInv => [Bill => stopped[current] # "stopped"]_vars
  BY CurrentFact DEF Bill, SubscriptionsInv, StopInv
<1> QED
  BY <1>1, SubscriptionsInvariant, PTL DEF StoppedForGood
=============================================================================
