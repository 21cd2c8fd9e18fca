------------------------- MODULE InstallmentsProofs -------------------------
(* Charges and the installment counter agree, for any number of purchases,  *)
(* cards, installments and failures.                                        *)
EXTENDS Installments, CalendarProofs

USE LastMonthAssumption, LengthAssumption, BoundsAssumption, DaysAssumption, NullAssumption,
    NoRowAssumption

(***************************************************************************)
(* What relates the rows read at midnight to the rows as they are now: the *)
(* columns that the run computes with are its own until it writes them.    *)
(***************************************************************************)
ReadRowIsCurrent(p) ==
    /\ Bought(p)
    /\ batch[p].totalInstallments = purchase[p].totalInstallments
    /\ batch[p].installmentsPaid < batch[p].totalInstallments
    /\ purchase[p].installmentsPaid =
          IF pc = "counted" /\ current = p THEN NumberAt(p) ELSE batch[p].installmentsPaid
    /\ UpTo(batch[p].nextChargeDate, today)
    /\ p \notin cancelled

RunInv ==
    /\ today.month < LastMonth
    /\ pc = "idle" => batch = Nothing
    /\ pc \in {"charged", "counted"} => current \in Purchases /\ batch[current] # Null
    /\ \A p \in Purchases : batch[p] # Null => ReadRowIsCurrent(p)
    /\ \A p \in cancelled : Closed(p)

OpeningInv ==
    /\ \A o \in opening : Bought(o[1]) /\ o[1] \notin unopened
    /\ \A o, q \in opening : o[1] = q[1] => o = q
    /\ \A p \in unopened : Bought(p)

(* No member has been told of the installment that has just been counted.  *)
AnnouncedInv ==
    \A p \in Purchases, n \in Numbers :
        announced[p][n] <=
            IF /\ Bought(p)
               /\ n <= purchase[p].installmentsPaid
               /\ ~(pc = "counted" /\ current = p /\ n = NumberAt(p))
            THEN 1 ELSE 0

IndInv == /\ TypeOK /\ RunInv /\ OpeningInv
          /\ ChargeAccounting /\ PaidUpIsClosed /\ AnnouncedInv

-----------------------------------------------------------------------------
(* Counting one more transaction (or notification) for an installment. *)
LEMMA OneMoreFact ==
    ASSUME NEW f \in [Purchases -> [Numbers -> Nat]], NEW p \in Purchases, NEW n \in Numbers
    PROVE  LET g == [f EXCEPT ![p][n] = @ + 1]
           IN  /\ g \in [Purchases -> [Numbers -> Nat]]
               /\ g[p][n] = f[p][n] + 1
               /\ \A q \in Purchases, m \in Numbers : q # p \/ m # n => g[q][m] = f[q][m]
<1>1. f[p] \in [Numbers -> Nat] /\ f[p][n] \in Nat
  OBVIOUS
<1>2. [f[p] EXCEPT ![n] = @ + 1] \in [Numbers -> Nat]
  BY <1>1
<1>. QED  BY <1>1, <1>2

LEMMA RowFact ==
    ASSUME TypeOK, NEW p \in Purchases
    PROVE  /\ Bought(p) => purchase[p] \in Row
           /\ batch[p] # Null => batch[p] \in Row
BY DEF TypeOK, Bought

LEMMA NumberFact ==
    ASSUME TypeOK, RunInv, NEW p \in Purchases, batch[p] # Null
    PROVE  /\ NumberAt(p) \in Numbers \ {1}
           /\ NumberAt(p) = batch[p].installmentsPaid + 1
           /\ NumberAt(p) <= batch[p].totalInstallments
<1>1. batch[p] \in Row /\ batch[p].installmentsPaid < batch[p].totalInstallments
  BY RowFact DEF RunInv, ReadRowIsCurrent
<1>2. batch[p].installmentsPaid \in 1..MaxInstallments /\ batch[p].totalInstallments \in 1..MaxInstallments
  BY <1>1 DEF Row, Numbers
<1>. QED  BY <1>1, <1>2 DEF NumberAt, Numbers

LEMMA InCalendar ==
    ASSUME NEW day \in Days \cup CardDays
    PROVE  day \in Int /\ \A m \in 0..LastMonth : Length[m] + day > 0
OBVIOUS

(* The row that Count writes. *)
LEMMA CountedRowFact ==
    ASSUME NEW row \in Row, NEW read \in Row, NEW day \in Days \cup CardDays \cup {Null},
           read.installmentsPaid < read.totalInstallments,
           read.nextChargeDate.month < LastMonth
    PROVE  /\ CountedRow(row, read, day) \in Row
           /\ CountedRow(row, read, day).installmentsPaid = read.installmentsPaid + 1
           /\ CountedRow(row, read, day).totalInstallments = row.totalInstallments
           /\ CountedRow(row, read, day).isActive
                 => read.installmentsPaid + 1 < read.totalInstallments
<1> DEFINE number == read.installmentsPaid + 1
           next   == IF number >= read.totalInstallments \/ day \in {Null, 0}
                     THEN read.nextChargeDate ELSE NextOccurrence(read.nextChargeDate, day)
<1>1. /\ read.installmentsPaid \in 1..MaxInstallments
      /\ read.totalInstallments \in 1..MaxInstallments
      /\ read.nextChargeDate \in Dates
  BY DEF Row, Numbers
<1>2. number \in 1..MaxInstallments
  BY <1>1
<1>3. next \in Dates
  BY <1>1, OccurrenceInCalendar, InCalendar
<1>4. CountedRow(row, read, day) =
         [row EXCEPT !.installmentsPaid = number, !.nextChargeDate = next,
                     !.isActive = ~(number >= read.totalInstallments)]
  BY DEF CountedRow
<1>5. ~(number >= read.totalInstallments) => read.installmentsPaid + 1 < read.totalInstallments
  BY <1>1, <1>2
<1>. QED  BY <1>2, <1>3, <1>4, <1>5 DEF Row, Numbers

(* What the scheduler writes when it counts. *)
LEMMA CountFact ==
    ASSUME TypeOK, RunInv, Count
    PROVE  /\ current \in Purchases /\ batch[current] \in Row /\ purchase[current] \in Row
           /\ \E new \in Row :
                 /\ purchase' = [purchase EXCEPT ![current] = new]
                 /\ new.installmentsPaid = NumberAt(current)
                 /\ new.totalInstallments = purchase[current].totalInstallments
                 /\ new.isActive => NumberAt(current) < purchase[current].totalInstallments
<1>1. /\ current \in Purchases /\ batch[current] # Null
      /\ ReadRowIsCurrent(current)
  BY DEF RunInv, Count
<1>2. batch[current] \in Row /\ purchase[current] \in Row
  BY <1>1, RowFact DEF ReadRowIsCurrent
<1>3. ChargeDay(batch[current]) \in Days \cup CardDays \cup {Null}
  BY <1>2 DEF ChargeDay, Count, NoCardToAsk, Row, TypeOK
<1>4. batch[current].nextChargeDate.month < LastMonth
  <2>1. batch[current].nextChargeDate \in Dates /\ today \in Dates
    BY <1>2 DEF Row, TypeOK
  <2>2. /\ batch[current].nextChargeDate.month \in Int /\ today.month \in Int
        /\ batch[current].nextChargeDate.month <= today.month
    BY <1>1, <2>1, UpToFact, DatesFact DEF ReadRowIsCurrent
  <2>. QED  BY <2>2 DEF RunInv
<1> DEFINE new == CountedRow(purchase[current], batch[current], ChargeDay(batch[current]))
<1>5. /\ new \in Row
      /\ new.installmentsPaid = NumberAt(current)
      /\ new.totalInstallments = purchase[current].totalInstallments
      /\ new.isActive => NumberAt(current) < purchase[current].totalInstallments
  BY <1>1, <1>2, <1>3, <1>4, CountedRowFact DEF ReadRowIsCurrent, NumberAt
<1>6. purchase' = [purchase EXCEPT ![current] = new]
  BY DEF Count
<1>. QED  BY <1>1, <1>2, <1>5, <1>6

(* What a client writes who buys. *)
LEMMA BuyFact ==
    ASSUME TypeOK, RunInv,
           NEW p \in Purchases, NEW total \in 2..MaxInstallments,
           NEW c \in Cards \cup {Null}, NEW day \in Days \cup {Null}, Buy(p, total, c, day)
    PROVE  /\ ~Bought(p)
           /\ \E new \in Row :
                 /\ purchase' = [purchase EXCEPT ![p] = new]
                 /\ purchase'[p] = new /\ new # Null
                 /\ new.installmentsPaid = 1 /\ new.totalInstallments = total /\ new.isActive
<1> DEFINE chosen == IF day = Null THEN card[c] ELSE day
           new == [installmentsPaid |-> 1, totalInstallments |-> total, isActive |-> TRUE,
                   nextChargeDate |-> NextOccurrence(today, chosen),
                   cardId |-> c, fixedDay |-> day]
<1>1. chosen \in Days \cup CardDays
  BY DEF Buy, CanRefer, TypeOK
<1>2. NextOccurrence(today, chosen) \in Dates
  BY <1>1, OccurrenceInCalendar, InCalendar DEF RunInv, TypeOK
<1>3. new \in Row
  BY <1>2 DEF Row, Numbers
<1>4. purchase' = [purchase EXCEPT ![p] = new] /\ ~Bought(p)
  BY DEF Buy
<1>5. purchase'[p] = new
  BY <1>4 DEF TypeOK
<1>. QED  BY <1>3, <1>4, <1>5

-----------------------------------------------------------------------------
LEMMA InitInd == Init => IndInv
<1>. SUFFICES ASSUME Init  PROVE IndInv
  OBVIOUS
<1>1. [month |-> 0, day |-> 1] \in Dates
  BY DatesFact
<1>2. TypeOK
  BY <1>1 DEF Init, TypeOK, Nothing, NoneOf
<1>3. RunInv /\ OpeningInv
  BY DEF Init, RunInv, OpeningInv, Nothing
<1>4. ChargeAccounting /\ PaidUpIsClosed /\ AnnouncedInv
  BY DEF Init, ChargeAccounting, PaidUpIsClosed, AnnouncedInv, Nothing, NoneOf, Bought, PaidUp
<1>. QED  BY <1>2, <1>3, <1>4 DEF IndInv

(* Every step keeps the types. *)
LEMMA TypeStep == TypeOK /\ RunInv /\ [Next]_vars => TypeOK'
<1>. SUFFICES ASSUME TypeOK, RunInv, [Next]_vars  PROVE TypeOK'
  OBVIOUS
<1> USE DEF TypeOK
<1>1. ASSUME NEW p \in Purchases, NEW total \in 2..MaxInstallments,
             NEW c \in Cards \cup {Null}, NEW day \in Days \cup {Null}, Buy(p, total, c, day)
      PROVE  TypeOK'
  <2>1. PICK new \in Row : purchase' = [purchase EXCEPT ![p] = new]
    BY <1>1, BuyFact
  <2>2. purchase' \in [Purchases -> Row \cup {Null}]
    BY <2>1
  <2>. QED  BY <1>1, <2>2 DEF Buy, run, history
<1>2. ASSUME NEW p \in Purchases, NEW c \in Cards \cup {Null}, OpenFirst(p, c)
      PROVE  TypeOK'
  <2>1. charged' \in [Purchases -> [Numbers -> Nat]]
    BY <1>2, OneMoreFact, SMTT(30) DEF OpenFirst, Numbers
  <2>. QED  BY <1>2, <2>1 DEF OpenFirst, run, history
<1>3. ASSUME NEW p \in Purchases, NEW c \in Cards \cup {Null}, RefuseFirst(p, c) \/ FailFirst(p, c)
      PROVE  TypeOK'
  BY <1>3 DEF RefuseFirst, FailFirst, NotOpened, rows, run
<1>4. ASSUME NEW p \in Purchases, Cancel(p)
      PROVE  TypeOK'
  <2>1. [purchase[p] EXCEPT !.isActive = FALSE] \in Row
    BY <1>4, RowFact DEF Cancel, Row
  <2>. QED  BY <1>4, <2>1 DEF Cancel, run
<1>5. ASSUME NEW c \in Cards, NEW day \in CardDays, UpdateCard(c, day)
      PROVE  TypeOK'
  BY <1>5 DEF UpdateCard, run, history
<1>6. ASSUME NEW c \in Cards, RemoveCard(c)
      PROVE  TypeOK'
  <2>1. \A p \in Purchases : Bought(p) => [purchase[p] EXCEPT !.cardId = Null] \in Row
    BY RowFact DEF Row
  <2>. QED  BY <1>6, <2>1 DEF RemoveCard, run, history
<1>7. ASSUME NEW p \in Purchases, Charge(p)
      PROVE  TypeOK'
  BY <1>7, NumberFact DEF Charge, history
<1>8. CASE Count
  BY <1>8, CountFact DEF Count, history
<1>9. CASE Announce
  <2>1. current \in Purchases /\ NumberAt(current) \in Numbers
    BY <1>9, NumberFact DEF Announce, RunInv
  <2>2. announced' \in [Purchases -> [Numbers -> Nat]]
    BY <1>9, <2>1, OneMoreFact DEF Announce
  <2>. QED  BY <1>9, <2>1, <2>2 DEF Announce, history
<1>10. CASE Finish
  BY <1>10 DEF Finish, rows, history
<1>11. ASSUME Abort, failures' \in 0..MaxFailures
       PROVE  TypeOK'
  <2>1. pc = "charged" => current \in Purchases /\ NumberAt(current) \in Numbers
    BY NumberFact DEF RunInv
  <2>2. lost' \in [Purchases -> [Numbers -> Nat]]
    BY <1>11, <2>1, OneMoreFact DEF Abort
  <2>. QED  BY <1>11, <2>2 DEF Abort, rows, Nothing
<1>12. CASE Midnight
  <2>1. Tomorrow(today) \in Dates
    BY TomorrowFact DEF RunInv
  <2>. QED  BY <1>12, <2>1 DEF Midnight, rows, history
<1>13. CASE MissMidnight
  <2>1. Tomorrow(today) \in Dates
    BY TomorrowFact DEF RunInv
  <2>. QED  BY <1>13, <2>1 DEF MissMidnight, rows, run, history
<1>14. CASE UNCHANGED vars
  BY <1>14 DEF vars, rows, run, history
<1>15. ASSUME NEW p \in Purchases, AbortCharge(p)
       PROVE  TypeOK'
  BY <1>15, <1>11 DEF AbortCharge
<1>16. CASE AbortCount \/ FailRun
  BY <1>16, <1>11 DEF AbortCount, FailRun
<1>. QED
  BY <1>1, <1>2, <1>3, <1>4, <1>5, <1>6, <1>7, <1>8, <1>9, <1>10, <1>12, <1>13, <1>14,
     <1>15, <1>16 DEF Next, Client, Scheduler

(* The rows a run has read stay current in the columns it computes with. *)
LEMMA RunStep == IndInv /\ [Next]_vars => RunInv'
<1>. SUFFICES ASSUME TypeOK, RunInv, PaidUpIsClosed, [Next]_vars  PROVE RunInv'
  BY DEF IndInv
<1> USE DEF Bought, NumberAt
<1>1. ASSUME UNCHANGED <<today, run, cancelled>>,
             \A p \in Purchases : Bought(p) =>
                /\ purchase'[p] # Null
                /\ purchase'[p].installmentsPaid = purchase[p].installmentsPaid
                /\ purchase'[p].totalInstallments = purchase[p].totalInstallments
                /\ purchase'[p].isActive = purchase[p].isActive
      PROVE  RunInv'
  BY <1>1 DEF RunInv, ReadRowIsCurrent, Closed, TypeOK, run
<1>2. ASSUME NEW p \in Purchases, NEW total \in 2..MaxInstallments,
             NEW c \in Cards \cup {Null}, NEW day \in Days \cup {Null}, Buy(p, total, c, day)
      PROVE  RunInv'
  BY <1>1, <1>2 DEF Buy, history, TypeOK
<1>3. ASSUME NEW p \in Purchases, NEW c \in Cards \cup {Null},
             OpenFirst(p, c) \/ RefuseFirst(p, c) \/ FailFirst(p, c)
      PROVE  RunInv'
  BY <1>1, <1>3 DEF OpenFirst, RefuseFirst, FailFirst, NotOpened, rows, history
<1>4. ASSUME NEW p \in Purchases, Cancel(p)
      PROVE  RunInv'
  <2>1. /\ purchase' = [purchase EXCEPT ![p] = [purchase[p] EXCEPT !.isActive = FALSE]]
        /\ purchase[p] \in Row /\ Bought(p)
        /\ UNCHANGED <<today, run>>
    BY <1>4, RowFact DEF Cancel
  <2>2. \A q \in Purchases : Bought(q) =>
           /\ purchase'[q] # Null
           /\ purchase'[q].installmentsPaid = purchase[q].installmentsPaid
           /\ purchase'[q].totalInstallments = purchase[q].totalInstallments
           /\ ~purchase[q].isActive => ~purchase'[q].isActive
    BY <2>1 DEF TypeOK, Row
  <2>3. ~purchase'[p].isActive
    BY <2>1 DEF TypeOK, Row
  <2>4. cancelled' = IF batch[p] = Null THEN cancelled \cup {p} ELSE cancelled
    BY <1>4 DEF Cancel
  <2>. QED  BY <2>1, <2>2, <2>3, <2>4 DEF RunInv, ReadRowIsCurrent, Closed, TypeOK, run
<1>5. ASSUME NEW c \in Cards, NEW day \in CardDays, UpdateCard(c, day)
      PROVE  RunInv'
  BY <1>1, <1>5 DEF UpdateCard, history
<1>6. ASSUME NEW c \in Cards, RemoveCard(c)
      PROVE  RunInv'
  <2>1. \A p \in Purchases : Bought(p) =>
           /\ purchase[p] \in Row
           /\ purchase'[p] \in {purchase[p], [purchase[p] EXCEPT !.cardId = Null]}
    BY <1>6, RowFact DEF RemoveCard
  <2>2. \A row \in Row : LET new == [row EXCEPT !.cardId = Null]
                          IN  /\ new \in Row
                              /\ new.installmentsPaid = row.installmentsPaid
                              /\ new.totalInstallments = row.totalInstallments
                              /\ new.isActive = row.isActive
    BY DEF Row
  <2>3. \A p \in Purchases : Bought(p) =>
           /\ purchase'[p] # Null
           /\ purchase'[p].installmentsPaid = purchase[p].installmentsPaid
           /\ purchase'[p].totalInstallments = purchase[p].totalInstallments
           /\ purchase'[p].isActive = purchase[p].isActive
    BY <2>1, <2>2
  <2>. QED  BY <1>1, <1>6, <2>3 DEF RemoveCard, history
<1>7. ASSUME NEW p \in Purchases, Charge(p)
      PROVE  RunInv'
  BY <1>7 DEF Charge, history, RunInv, ReadRowIsCurrent, Closed, TypeOK
<1>8. CASE Count
  <2>1. PICK new \in Row :
           /\ purchase' = [purchase EXCEPT ![current] = new]
           /\ new.installmentsPaid = NumberAt(current)
           /\ new.totalInstallments = purchase[current].totalInstallments
    BY <1>8, CountFact
  <2>2. new # Null
    OBVIOUS
  <2>3. /\ UNCHANGED <<today, batch, cancelled, current>>
        /\ pc = "charged" /\ pc' = "counted"
    BY <1>8 DEF Count, history
  <2>4. current \in Purchases /\ batch[current] # Null /\ current \notin cancelled
    BY <2>3 DEF RunInv, ReadRowIsCurrent
  <2>5. \A p \in Purchases : p # current => purchase'[p] = purchase[p]
    BY <2>1 DEF TypeOK
  <2>6. purchase'[current] = new
    BY <2>1, <2>4 DEF TypeOK
  <2>. QED  BY <2>1, <2>2, <2>3, <2>4, <2>5, <2>6 DEF RunInv, ReadRowIsCurrent, Closed, TypeOK
<1>9. CASE Announce
  BY <1>9 DEF Announce, history, RunInv, ReadRowIsCurrent, Closed, TypeOK
<1>10. CASE Finish
  BY <1>10 DEF Finish, rows, history, RunInv, ReadRowIsCurrent, Closed, Nothing
<1>11. CASE Abort
  BY <1>11 DEF Abort, rows, RunInv, Closed, Nothing
<1>12. CASE Midnight
  <2>1. /\ today \in Dates /\ today' = Tomorrow(today)
        /\ today'.month < LastMonth /\ today' \in Dates
    <3>1. today.month < LastMonth - 1 /\ today.month \in Int
      BY <1>12, DatesFact DEF Midnight, TypeOK
    <3>2. Tomorrow(today).month \in Int
      BY <3>1, TomorrowFact, DatesFact DEF TypeOK
    <3>. QED  BY <1>12, <3>1, <3>2, TomorrowFact DEF Midnight, TypeOK
  <2>2. \A p \in Purchases : batch'[p] # Null =>
           /\ Bought(p) /\ purchase[p].isActive /\ batch'[p] = purchase[p]
           /\ batch'[p].installmentsPaid < batch'[p].totalInstallments
           /\ UpTo(batch'[p].nextChargeDate, today')
    BY <1>12 DEF Midnight, IsDue
  <2>3. pc' = "next" /\ UNCHANGED <<purchase, cancelled>>
    BY <1>12 DEF Midnight, rows, history
  <2>. QED  BY <2>1, <2>2, <2>3 DEF RunInv, ReadRowIsCurrent, Closed
<1>13. CASE MissMidnight
  <2>1. today'.month < LastMonth
    <3>1. today.month < LastMonth - 1 /\ today.month \in Int
      BY <1>13, DatesFact DEF MissMidnight, TypeOK
    <3>2. Tomorrow(today).month \in Int
      BY <3>1, TomorrowFact, DatesFact DEF TypeOK
    <3>. QED  BY <1>13, <3>1, <3>2, TomorrowFact DEF MissMidnight, TypeOK
  <2>2. pc = "idle" /\ batch = Nothing /\ UNCHANGED <<purchase, run, cancelled>>
    BY <1>13 DEF MissMidnight, rows, history, RunInv
  <2>. QED  BY <2>1, <2>2 DEF RunInv, Closed, Nothing, run
<1>14. CASE UNCHANGED vars
  BY <1>1, <1>14 DEF vars, rows, run, history
<1>15. ASSUME NEW p \in Purchases, AbortCharge(p)
       PROVE  Abort
  BY <1>15 DEF AbortCharge
<1>16. AbortCount \/ FailRun => Abort
  BY DEF AbortCount, FailRun
<1>. QED
  BY <1>2, <1>3, <1>4, <1>5, <1>6, <1>7, <1>8, <1>9, <1>10, <1>11, <1>12, <1>13, <1>14,
     <1>15, <1>16 DEF Next, Client, Scheduler

(* Only Buy makes a purchase, only it and the create that follows touch the *)
(* opening ones.                                                            *)
LEMMA OpeningStep == IndInv /\ [Next]_vars => OpeningInv'
<1>. SUFFICES ASSUME TypeOK, RunInv, OpeningInv, [Next]_vars  PROVE OpeningInv'
  BY DEF IndInv
<1> USE DEF Bought
<1>1. ASSUME \A p \in Purchases : Bought(p) => Bought(p)', UNCHANGED <<opening, unopened>>
      PROVE  OpeningInv'
  BY <1>1 DEF OpeningInv, TypeOK
<1>2. ASSUME NEW p \in Purchases, NEW total \in 2..MaxInstallments,
             NEW c \in Cards \cup {Null}, NEW day \in Days \cup {Null}, Buy(p, total, c, day)
      PROVE  OpeningInv'
  <2>1. opening' = opening \cup {<<p, c>>} /\ unopened' = unopened
    BY <1>2 DEF Buy, history
  <2>2. \A q \in Purchases : Bought(q) => Bought(q)' /\ q # p
    BY <1>2 DEF Buy, TypeOK
  <2>3. Bought(p)'
    BY <1>2, BuyFact
  <2>4. /\ \A o \in opening : o[1] \in Purchases /\ o[1] # p
        /\ p \notin unopened /\ <<p, c>>[1] = p
    BY <2>2 DEF OpeningInv, TypeOK
  <2>5. \A o \in opening' : Bought(o[1])' /\ o[1] \notin unopened'
    BY <2>1, <2>2, <2>3, <2>4 DEF OpeningInv
  <2>6. \A o, q \in opening' : o[1] = q[1] => o = q
    BY <2>1, <2>4 DEF OpeningInv
  <2>7. \A q \in unopened' : Bought(q)'
    BY <2>1, <2>2 DEF OpeningInv, TypeOK
  <2>. QED  BY <2>5, <2>6, <2>7 DEF OpeningInv
<1>3. ASSUME NEW p \in Purchases, NEW c \in Cards \cup {Null}, OpenFirst(p, c)
      PROVE  OpeningInv'
  BY <1>3 DEF OpenFirst, history, OpeningInv
<1>4. ASSUME NEW p \in Purchases, NEW c \in Cards \cup {Null}, RefuseFirst(p, c) \/ FailFirst(p, c)
      PROVE  OpeningInv'
  BY <1>4 DEF RefuseFirst, FailFirst, NotOpened, rows, OpeningInv
<1>5. ASSUME NEW p \in Purchases, Cancel(p)
      PROVE  OpeningInv'
  <2>1. /\ purchase' = [purchase EXCEPT ![p] = [purchase[p] EXCEPT !.isActive = FALSE]]
        /\ [purchase[p] EXCEPT !.isActive = FALSE] \in Row
    BY <1>5, RowFact DEF Cancel, Row
  <2>. QED  BY <1>1, <1>5, <2>1 DEF Cancel, TypeOK
<1>6. ASSUME NEW c \in Cards, RemoveCard(c)
      PROVE  OpeningInv'
  <2>1. \A p \in Purchases : Bought(p) => [purchase[p] EXCEPT !.cardId = Null] \in Row
    BY RowFact DEF Row
  <2>. QED  BY <1>1, <1>6, <2>1 DEF RemoveCard, history
<1>7. CASE Count
  BY <1>1, <1>7, CountFact DEF Count, history, TypeOK
<1>8. CASE UNCHANGED <<purchase, opening, unopened>>
  BY <1>1, <1>8
<1>9. ASSUME NEW c \in Cards, NEW day \in CardDays, UpdateCard(c, day)
      PROVE  UNCHANGED <<purchase, opening, unopened>>
  BY <1>9 DEF UpdateCard, history
<1>10. ASSUME \/ AbortCount \/ Announce \/ Finish \/ Midnight \/ MissMidnight \/ FailRun
              \/ UNCHANGED vars
       PROVE  UNCHANGED <<purchase, opening, unopened>>
  BY <1>10 DEF AbortCount, Announce, Finish, Midnight, MissMidnight, FailRun, Abort,
               rows, history, vars
<1>11. ASSUME NEW p \in Purchases, Charge(p) \/ AbortCharge(p)
       PROVE  UNCHANGED <<purchase, opening, unopened>>
  BY <1>11 DEF Charge, AbortCharge, Abort, rows, history
<1>. QED
  BY <1>2, <1>3, <1>4, <1>5, <1>6, <1>7, <1>8, <1>9, <1>10, <1>11 DEF Next, Client, Scheduler

-----------------------------------------------------------------------------
(* Most steps leave the counters of every purchase alone. *)
CountersKept ==
    \A p \in Purchases :
        /\ Bought(p)' = Bought(p)
        /\ Bought(p) => /\ purchase'[p].installmentsPaid = purchase[p].installmentsPaid
                        /\ purchase'[p].totalInstallments = purchase[p].totalInstallments
                        /\ purchase'[p].isActive => purchase[p].isActive

Buying == \E p \in Purchases, total \in 2..MaxInstallments,
             c \in Cards \cup {Null}, day \in Days \cup {Null} : Buy(p, total, c, day)

LEMMA CountersKeptFact ==
    ASSUME TypeOK, [Next]_vars, ~Buying, ~Count
    PROVE  CountersKept
<1> USE DEF Bought, CountersKept
<1>1. CASE UNCHANGED purchase
  BY <1>1
<1>2. ASSUME NEW p \in Purchases, Cancel(p)
      PROVE  CountersKept
  <2> DEFINE new == [purchase[p] EXCEPT !.isActive = FALSE]
  <2>1. purchase[p] \in Row /\ Bought(p) /\ purchase' = [purchase EXCEPT ![p] = new]
    BY <1>2, RowFact DEF Cancel
  <2>2. /\ new \in Row /\ ~new.isActive
        /\ new.installmentsPaid = purchase[p].installmentsPaid
        /\ new.totalInstallments = purchase[p].totalInstallments
    BY <2>1 DEF Row
  <2>3. purchase'[p] = new /\ \A q \in Purchases : q # p => purchase'[q] = purchase[q]
    BY <2>1 DEF TypeOK
  <2>. HIDE DEF new
  <2>. QED  BY <2>1, <2>2, <2>3
<1>3. ASSUME NEW c \in Cards, RemoveCard(c)
      PROVE  CountersKept
  <2>1. \A p \in Purchases :
           \/ purchase'[p] = purchase[p]
           \/ /\ Bought(p) /\ purchase[p] \in Row
              /\ purchase'[p] = [purchase[p] EXCEPT !.cardId = Null]
    BY <1>3, RowFact DEF RemoveCard
  <2>2. \A row \in Row : LET new == [row EXCEPT !.cardId = Null]
                          IN  /\ new \in Row
                              /\ new.installmentsPaid = row.installmentsPaid
                              /\ new.totalInstallments = row.totalInstallments
                              /\ new.isActive = row.isActive
    BY DEF Row
  <2>. QED  BY <2>1, <2>2
<1>4. ASSUME NEW p \in Purchases, NEW c \in Cards \cup {Null},
             OpenFirst(p, c) \/ RefuseFirst(p, c) \/ FailFirst(p, c)
      PROVE  UNCHANGED purchase
  BY <1>4 DEF OpenFirst, RefuseFirst, FailFirst, NotOpened, rows
<1>5. ASSUME NEW c \in Cards, NEW day \in CardDays, UpdateCard(c, day)
      PROVE  UNCHANGED purchase
  BY <1>5 DEF UpdateCard
<1>6. ASSUME NEW p \in Purchases, Charge(p) \/ AbortCharge(p)
      PROVE  UNCHANGED purchase
  BY <1>6 DEF Charge, AbortCharge, Abort, rows
<1>7. ASSUME \/ AbortCount \/ Announce \/ Finish \/ Midnight \/ MissMidnight \/ FailRun
             \/ UNCHANGED vars
      PROVE  UNCHANGED purchase
  BY <1>7 DEF AbortCount, Announce, Finish, Midnight, MissMidnight, FailRun, Abort, rows, vars
<1>. QED
  BY <1>1, <1>2, <1>3, <1>4, <1>5, <1>6, <1>7 DEF Next, Client, Scheduler, Buying

(* An abort leaves everything alone but the run and the lost charges. *)
LEMMA AbortFact ==
    ASSUME Abort
    PROVE  /\ UNCHANGED <<charged, announced, opening, unopened>>
           /\ pc' = "idle"
BY DEF Abort, rows

(* The steps that neither insert a transaction nor count one. *)
LEMMA QuietFact ==
    ASSUME [Next]_vars, ~Buying, ~Count, ~Abort,
           \A p \in Purchases : ~Charge(p),
           \A p \in Purchases, c \in Cards \cup {Null} :
              ~OpenFirst(p, c) /\ ~NotOpened(p, c)
    PROVE  /\ UNCHANGED <<charged, lost, opening, unopened>>
           /\ \/ UNCHANGED <<pc, current, batch>>
              \/ pc # "charged" /\ pc' # "charged"
           /\ Announce \/ UNCHANGED announced
           /\ Announce \/ UNCHANGED <<pc, current, batch>> \/ (pc # "counted" /\ pc' # "counted")
<1>1. ASSUME NEW p \in Purchases, Cancel(p)
      PROVE  UNCHANGED <<charged, announced, lost, opening, unopened, pc, current, batch>>
  BY <1>1 DEF Cancel, run
<1>2. ASSUME NEW c \in Cards, RemoveCard(c) \/ \E day \in CardDays : UpdateCard(c, day)
      PROVE  UNCHANGED <<charged, announced, lost, opening, unopened, pc, current, batch>>
  BY <1>2 DEF RemoveCard, UpdateCard, run, history
<1>3. CASE Announce
  BY <1>3 DEF Announce, history
<1>4. ASSUME Midnight \/ Finish
      PROVE  /\ UNCHANGED <<charged, announced, lost, opening, unopened>>
             /\ pc \in {"idle", "next"} /\ pc' \in {"idle", "next"}
  BY <1>4 DEF Midnight, Finish, rows, history
<1>5. ASSUME MissMidnight \/ UNCHANGED vars
      PROVE  UNCHANGED <<charged, announced, lost, opening, unopened, pc, current, batch>>
  BY <1>5 DEF MissMidnight, rows, run, history, vars
<1>. QED
  BY <1>1, <1>2, <1>3, <1>4, <1>5 DEF Next, Client, Scheduler, Buying, RefuseFirst, FailFirst,
     AbortCharge, AbortCount, FailRun

-----------------------------------------------------------------------------
(* Charges and counters move together. *)
LEMMA AccountingStep == IndInv /\ [Next]_vars => ChargeAccounting'
<1>. SUFFICES ASSUME TypeOK, RunInv, OpeningInv, ChargeAccounting, [Next]_vars
              PROVE  ChargeAccounting'
  BY DEF IndInv
<1> DEFINE Due(p, n) == IF Bought(p) /\ Accounted(p, n) THEN 1 ELSE 0
<1>0. \A p \in Purchases, n \in Numbers :
         charged[p][n] \in Nat /\ lost[p][n] \in Nat /\ charged[p][n] = lost[p][n] + Due(p, n)
  BY DEF TypeOK, ChargeAccounting
<1>1. ASSUME NEW p \in Purchases, NEW total \in 2..MaxInstallments,
             NEW c \in Cards \cup {Null}, NEW day \in Days \cup {Null}, Buy(p, total, c, day)
      PROVE  ChargeAccounting'
  <2>1. PICK new \in Row : /\ purchase' = [purchase EXCEPT ![p] = new]
                           /\ purchase'[p] = new /\ new # Null
                           /\ new.installmentsPaid = 1
    BY <1>1, BuyFact
  <2>2. /\ ~Bought(p) /\ batch[p] = Null
        /\ UNCHANGED <<charged, lost, pc, current, batch, unopened>>
        /\ opening' = opening \cup {<<p, c>>}
    BY <1>1, BuyFact DEF Buy, run, history, RunInv, ReadRowIsCurrent
  <2>3. ~(pc = "charged" /\ current = p)
    BY <2>2 DEF RunInv
  <2>4. \A n \in Numbers : ~Accounted(p, n)'
    <3>1. ~Opened(p)'
      BY <2>2 DEF Opened
    <3>2. \A n \in Numbers : n <= 1 => n = 1
      BY DEF Numbers
    <3>. QED  BY <2>1, <2>2, <2>3, <3>1, <3>2 DEF Accounted
  <2>5. \A q \in Purchases : q # p => purchase'[q] = purchase[q] /\ Opened(q)' = Opened(q)
    BY <2>1, <2>2 DEF TypeOK, Opened
  <2>6. \A q \in Purchases, n \in Numbers : q # p => Due(q, n)' = Due(q, n)
    BY <2>2, <2>5 DEF Bought, Accounted, NumberAt
  <2>7. \A n \in Numbers : Due(p, n) = 0 /\ Due(p, n)' = 0
    BY <2>2, <2>4
  <2>. QED  BY <1>0, <2>2, <2>6, <2>7 DEF ChargeAccounting
<1>2. ASSUME NEW p \in Purchases, NEW c \in Cards \cup {Null}, OpenFirst(p, c)
      PROVE  ChargeAccounting'
  <2>1. /\ <<p, c>> \in opening /\ opening' = opening \ {<<p, c>>}
        /\ charged' = [charged EXCEPT ![p][1] = @ + 1]
        /\ UNCHANGED <<purchase, lost, pc, current, batch, unopened>>
    BY <1>2 DEF OpenFirst, run, history
  <2>2. 1 \in Numbers /\ Bought(p) /\ p \notin unopened
        /\ \A d \in Cards \cup {Null} : <<p, d>> \in opening => d = c
    BY <2>1 DEF OpeningInv, Numbers
  <2>3. ~(pc = "charged" /\ current = p /\ 1 = NumberAt(p))
    BY NumberFact DEF RunInv
  <2>4. ~Accounted(p, 1)
    BY <2>1, <2>3 DEF Accounted, Opened
  <2>5. Opened(p)'
    BY <2>1, <2>2 DEF Opened
  <2>6. 1 <= purchase[p].installmentsPaid
    BY <2>2, RowFact DEF Row, Numbers
  <2>7. Due(p, 1) = 0 /\ Due(p, 1)' = 1
    BY <2>1, <2>2, <2>4, <2>5, <2>6 DEF Accounted, Bought
  <2>8. \A q \in Purchases : q # p => Opened(q)' = Opened(q)
    BY <2>1 DEF Opened
  <2>9. \A q \in Purchases, n \in Numbers : q # p \/ n # 1 => Due(q, n)' = Due(q, n)
    BY <2>1, <2>8 DEF Bought, Accounted, NumberAt
  <2>10. /\ charged'[p][1] = charged[p][1] + 1
         /\ \A q \in Purchases, n \in Numbers : q # p \/ n # 1 => charged'[q][n] = charged[q][n]
    BY <2>1, <2>2, OneMoreFact DEF TypeOK
  <2>. QED  BY <1>0, <2>1, <2>2, <2>7, <2>9, <2>10 DEF ChargeAccounting
<1>3. ASSUME NEW p \in Purchases, NEW c \in Cards \cup {Null}, NotOpened(p, c)
      PROVE  ChargeAccounting'
  <2>1. /\ <<p, c>> \in opening /\ opening' = opening \ {<<p, c>>}
        /\ unopened' = unopened \cup {p}
        /\ UNCHANGED <<purchase, charged, lost, pc, current, batch>>
    BY <1>3 DEF NotOpened, rows, run
  <2>2. \A q \in Purchases : Opened(q)' = Opened(q)
    BY <2>1 DEF Opened
  <2>3. \A q \in Purchases, n \in Numbers : Due(q, n)' = Due(q, n)
    BY <2>1, <2>2 DEF Bought, Accounted, NumberAt
  <2>. QED  BY <1>0, <2>1, <2>3 DEF ChargeAccounting
<1>4. ASSUME NEW p \in Purchases, Charge(p)
      PROVE  ChargeAccounting'
  <2>1. /\ pc = "next" /\ batch[p] # Null /\ pc' = "charged" /\ current' = p
        /\ charged' = [charged EXCEPT ![p][NumberAt(p)] = @ + 1]
        /\ UNCHANGED <<purchase, lost, batch, opening, unopened>>
    BY <1>4 DEF Charge, history
  <2>2. /\ NumberAt(p) \in Numbers /\ Bought(p)
        /\ NumberAt(p) = purchase[p].installmentsPaid + 1
        /\ purchase[p].installmentsPaid \in Nat
    BY <2>1, NumberFact, RowFact DEF RunInv, ReadRowIsCurrent, Row, Numbers
  <2>3. Due(p, NumberAt(p)) = 0 /\ Due(p, NumberAt(p))' = 1
    BY <2>1, <2>2 DEF Accounted, Bought, NumberAt
  <2>4. \A q \in Purchases, n \in Numbers :
           q # p \/ n # NumberAt(p) => Due(q, n)' = Due(q, n)
    BY <2>1 DEF Bought, Accounted, NumberAt, Opened
  <2>5. /\ charged'[p][NumberAt(p)] = charged[p][NumberAt(p)] + 1
        /\ \A q \in Purchases, n \in Numbers :
              q # p \/ n # NumberAt(p) => charged'[q][n] = charged[q][n]
    BY <2>1, <2>2, OneMoreFact DEF TypeOK
  <2>6. charged'[p][NumberAt(p)] = lost[p][NumberAt(p)] + Due(p, NumberAt(p))'
    BY <1>0, <2>2, <2>3, <2>5
  <2>7. \A q \in Purchases, n \in Numbers :
           q # p \/ n # NumberAt(p) => charged'[q][n] = lost[q][n] + Due(q, n)'
    BY <1>0, <2>4, <2>5
  <2>8. NumberAt(p)' = NumberAt(p)
    BY <2>1 DEF NumberAt
  <2>9. \A q \in Purchases, n \in Numbers : charged'[q][n] = lost[q][n] + Due(q, n)'
    BY <2>6, <2>7, <2>8
  <2>. QED  BY <2>1, <2>9 DEF ChargeAccounting
<1>5. CASE Count
  <2>1. /\ current \in Purchases /\ batch[current] # Null
        /\ pc = "charged" /\ pc' = "counted"
        /\ UNCHANGED <<charged, lost, batch, opening, unopened, current>>
    BY <1>5 DEF Count, history, RunInv
  <2>2. PICK new \in Row : /\ purchase' = [purchase EXCEPT ![current] = new]
                           /\ new.installmentsPaid = NumberAt(current)
    BY <1>5, CountFact
  <2>3. /\ purchase'[current] = new /\ new # Null /\ Bought(current)
        /\ \A q \in Purchases : q # current => purchase'[q] = purchase[q]
    BY <2>1, <2>2 DEF TypeOK, RunInv, ReadRowIsCurrent
  <2>4. /\ NumberAt(current) \in Numbers \ {1}
        /\ NumberAt(current) = purchase[current].installmentsPaid + 1
    BY <2>1, NumberFact DEF RunInv, ReadRowIsCurrent
  <2>5. \A n \in Numbers : Due(current, n)' = Due(current, n)
    <3>1. purchase[current].installmentsPaid \in Nat
      BY <2>1, <2>3, RowFact DEF Row, Numbers
    <3>2. Opened(current)' = Opened(current)
      BY <2>1 DEF Opened
    <3>3. \A n \in Numbers : n <= NumberAt(current)
                               <=> n <= purchase[current].installmentsPaid \/ n = NumberAt(current)
      BY <3>1, <2>4 DEF Numbers
    <3>4. \A n \in Numbers : Accounted(current, n)'
                               <=> n <= NumberAt(current) /\ (n = 1 => Opened(current))
      BY <2>1, <2>2, <2>3, <3>2 DEF Accounted
    <3>5. \A n \in Numbers : Accounted(current, n)
             <=> \/ n <= purchase[current].installmentsPaid /\ (n = 1 => Opened(current))
                 \/ n = NumberAt(current)
      BY <2>1 DEF Accounted
    <3>6. \A n \in Numbers : Accounted(current, n)' <=> Accounted(current, n)
      BY <2>4, <3>3, <3>4, <3>5
    <3>. QED  BY <2>1, <2>3, <3>6 DEF Bought
  <2>6. \A q \in Purchases, n \in Numbers : q # current => Due(q, n)' = Due(q, n)
    BY <2>1, <2>3 DEF Bought, Accounted, NumberAt, Opened
  <2>. QED  BY <1>0, <2>1, <2>5, <2>6 DEF ChargeAccounting
<1>6. CASE Abort /\ pc = "charged"
  <2>1. /\ current \in Purchases /\ batch[current] # Null
        /\ pc = "charged" /\ pc' = "idle"
        /\ lost' = [lost EXCEPT ![current][NumberAt(current)] = @ + 1]
        /\ UNCHANGED <<purchase, charged, opening, unopened>>
    BY <1>6 DEF Abort, rows, RunInv
  <2>2. /\ NumberAt(current) \in Numbers /\ Bought(current)
        /\ NumberAt(current) = purchase[current].installmentsPaid + 1
        /\ purchase[current].installmentsPaid \in Nat
    BY <2>1, NumberFact, RowFact DEF RunInv, ReadRowIsCurrent, Row, Numbers
  <2>3. Due(current, NumberAt(current)) = 1
    BY <2>1, <2>2 DEF Accounted
  <2>4. \A q \in Purchases, n \in Numbers :
           Due(q, n)' = IF q = current /\ n = NumberAt(current) THEN 0 ELSE Due(q, n)
    BY <2>1, <2>2 DEF Bought, Accounted, Opened
  <2>5. /\ lost'[current][NumberAt(current)] = lost[current][NumberAt(current)] + 1
        /\ \A q \in Purchases, n \in Numbers :
              q # current \/ n # NumberAt(current) => lost'[q][n] = lost[q][n]
    BY <2>1, <2>2, OneMoreFact DEF TypeOK
  <2>. QED  BY <1>0, <2>1, <2>2, <2>3, <2>4, <2>5 DEF ChargeAccounting
<1>7. CASE Abort /\ pc # "charged"
  <2>1. pc # "charged" /\ pc' # "charged" /\ UNCHANGED <<purchase, charged, lost, opening, unopened>>
    BY <1>7 DEF Abort, rows
  <2>2. \A q \in Purchases, n \in Numbers : Due(q, n)' = Due(q, n)
    BY <2>1 DEF Bought, Accounted, Opened
  <2>. QED  BY <1>0, <2>1, <2>2 DEF ChargeAccounting
<1>8. CASE /\ ~Buying /\ ~Count /\ ~Abort
           /\ \A p \in Purchases : ~Charge(p)
           /\ \A p \in Purchases, c \in Cards \cup {Null} : ~OpenFirst(p, c) /\ ~NotOpened(p, c)
  <2>1. /\ UNCHANGED <<charged, lost, opening, unopened>>
        /\ UNCHANGED <<pc, current, batch>> \/ (pc # "charged" /\ pc' # "charged")
    BY <1>8, QuietFact
  <2>2. CountersKept
    BY <1>8, CountersKeptFact
  <2>3. \A q \in Purchases : Opened(q)' = Opened(q)
    BY <2>1 DEF Opened
  <2>4. \A q \in Purchases, n \in Numbers : Due(q, n)' = Due(q, n)
    BY <2>1, <2>2, <2>3 DEF CountersKept, Accounted, NumberAt
  <2>. QED  BY <1>0, <2>1, <2>4 DEF ChargeAccounting
<1>. QED  BY <1>1, <1>2, <1>3, <1>4, <1>5, <1>6, <1>7, <1>8 DEF Buying

(* A purchase is closed when its last installment is counted. *)
LEMMA ClosedStep == IndInv /\ [Next]_vars => PaidUpIsClosed'
<1>. SUFFICES ASSUME TypeOK, RunInv, PaidUpIsClosed, [Next]_vars
              PROVE  PaidUpIsClosed'
  BY DEF IndInv
<1>1. ASSUME NEW p \in Purchases, NEW total \in 2..MaxInstallments,
             NEW c \in Cards \cup {Null}, NEW day \in Days \cup {Null}, Buy(p, total, c, day)
      PROVE  PaidUpIsClosed'
  <2>1. PICK new \in Row : /\ purchase' = [purchase EXCEPT ![p] = new]
                           /\ purchase'[p] = new
                           /\ new.installmentsPaid = 1 /\ new.totalInstallments = total
    BY <1>1, BuyFact
  <2>2. \A q \in Purchases : q # p => purchase'[q] = purchase[q]
    BY <2>1 DEF TypeOK
  <2>. QED  BY <2>1, <2>2 DEF PaidUpIsClosed, PaidUp, Closed, Bought
<1>2. CASE Count
  <2>1. PICK new \in Row :
           /\ purchase' = [purchase EXCEPT ![current] = new]
           /\ new.installmentsPaid = NumberAt(current)
           /\ new.totalInstallments = purchase[current].totalInstallments
           /\ new.isActive => NumberAt(current) < purchase[current].totalInstallments
    BY <1>2, CountFact
  <2>2. /\ current \in Purchases /\ batch[current] # Null
        /\ purchase[current].totalInstallments = batch[current].totalInstallments
    BY <1>2 DEF Count, RunInv, ReadRowIsCurrent
  <2>3. /\ purchase'[current] = new
        /\ \A q \in Purchases : q # current => purchase'[q] = purchase[q]
    BY <2>1, <2>2 DEF TypeOK
  <2>4. /\ NumberAt(current) <= purchase[current].totalInstallments
        /\ NumberAt(current) \in Int /\ purchase[current].totalInstallments \in Int
    <3>1. NumberAt(current) \in Numbers /\ NumberAt(current) <= batch[current].totalInstallments
      BY <2>2, NumberFact
    <3>2. new.totalInstallments \in Numbers
      BY DEF Row
    <3>. QED  BY <2>1, <2>2, <3>1, <3>2 DEF Numbers
  <2>5. /\ new.installmentsPaid <= new.totalInstallments
        /\ new.installmentsPaid = new.totalInstallments => ~new.isActive
        /\ new # Null
    BY <2>1, <2>4
  <2>. QED  BY <2>3, <2>5 DEF PaidUpIsClosed, PaidUp, Closed, Bought
<1>3. CASE ~Buying /\ ~Count
  <2>1. CountersKept
    BY <1>3, CountersKeptFact
  <2>2. \A p \in Purchases : Bought(p) => purchase'[p].isActive \in BOOLEAN
    BY <2>1, TypeStep DEF TypeOK, CountersKept, Row, Bought
  <2>. QED  BY <2>1, <2>2 DEF CountersKept, PaidUpIsClosed, PaidUp, Closed
<1>. QED  BY <1>1, <1>2, <1>3 DEF Buying

(* A member is told once of each installment that is counted. *)
LEMMA AnnouncedStep == IndInv /\ [Next]_vars => AnnouncedInv'
<1>. SUFFICES ASSUME TypeOK, RunInv, AnnouncedInv, [Next]_vars
              PROVE  AnnouncedInv'
  BY DEF IndInv
<1> DEFINE Told(p, n) == IF /\ Bought(p)
                            /\ n <= purchase[p].installmentsPaid
                            /\ ~(pc = "counted" /\ current = p /\ n = NumberAt(p))
                         THEN 1 ELSE 0
<1>0. \A p \in Purchases, n \in Numbers : announced[p][n] \in Nat /\ announced[p][n] <= Told(p, n)
  BY DEF TypeOK, AnnouncedInv
<1>1. ASSUME UNCHANGED announced,
             \A p \in Purchases, n \in Numbers : Told(p, n) <= Told(p, n)'
      PROVE  AnnouncedInv'
  BY <1>0, <1>1 DEF AnnouncedInv
<1>2. ASSUME NEW p \in Purchases, NEW total \in 2..MaxInstallments,
             NEW c \in Cards \cup {Null}, NEW day \in Days \cup {Null}, Buy(p, total, c, day)
      PROVE  AnnouncedInv'
  <2>1. PICK new \in Row : purchase' = [purchase EXCEPT ![p] = new]
    BY <1>2, BuyFact
  <2>2. /\ ~Bought(p)
        /\ UNCHANGED <<announced, pc, current, batch>>
    BY <1>2, BuyFact DEF Buy, run
  <2>3. \A q \in Purchases : q # p => purchase'[q] = purchase[q]
    BY <2>1 DEF TypeOK
  <2>4. \A q \in Purchases, n \in Numbers : Told(q, n) <= Told(q, n)'
    BY <2>2, <2>3 DEF Bought, NumberAt
  <2>. QED  BY <1>1, <2>2, <2>4
<1>3. CASE Count
  <2>1. PICK new \in Row :
           /\ purchase' = [purchase EXCEPT ![current] = new]
           /\ new.installmentsPaid = NumberAt(current)
    BY <1>3, CountFact
  <2>2. /\ current \in Purchases /\ batch[current] # Null
        /\ pc = "charged" /\ pc' = "counted"
        /\ UNCHANGED <<announced, current, batch>>
        /\ purchase[current].installmentsPaid \in Nat
        /\ NumberAt(current) = purchase[current].installmentsPaid + 1
    BY <1>3, NumberFact, RowFact DEF Count, RunInv, ReadRowIsCurrent, Row, Numbers
  <2>3. /\ purchase'[current] = new /\ new # Null
        /\ \A q \in Purchases : q # current => purchase'[q] = purchase[q]
    BY <2>1, <2>2 DEF TypeOK
  <2>4. \A q \in Purchases, n \in Numbers : q # current => Told(q, n) <= Told(q, n)'
    BY <2>2, <2>3 DEF Bought
  <2>5. NumberAt(current)' = NumberAt(current)
    BY <2>2 DEF NumberAt
  <2>6. \A n \in Numbers : n <= purchase[current].installmentsPaid
                            => n <= NumberAt(current) /\ n # NumberAt(current)
    BY <2>2 DEF Numbers
  <2>7. \A n \in Numbers : Told(current, n) <= Told(current, n)'
    BY <2>1, <2>2, <2>3, <2>5, <2>6 DEF Bought
  <2>. QED  BY <1>1, <2>2, <2>4, <2>7
<1>4. CASE Announce
  <2>1. /\ current \in Purchases /\ batch[current] # Null /\ pc = "counted" /\ pc' = "next"
        /\ announced' = [announced EXCEPT ![current][NumberAt(current)] = @ + 1]
        /\ UNCHANGED purchase
    BY <1>4 DEF Announce, RunInv
  <2>2. /\ NumberAt(current) \in Numbers /\ Bought(current)
        /\ NumberAt(current) = purchase[current].installmentsPaid
    BY <2>1, NumberFact DEF RunInv, ReadRowIsCurrent
  <2>3. PICK k \in Numbers : k = NumberAt(current)
    BY <2>2
  <2>4. PICK p \in Purchases : p = current
    BY <2>1
  <2>5. /\ announced'[p][k] = announced[p][k] + 1
        /\ \A q \in Purchases, n \in Numbers : q # p \/ n # k => announced'[q][n] = announced[q][n]
    BY <2>1, <2>3, <2>4, OneMoreFact DEF TypeOK
  <2>6. announced[p][k] = 0
    BY <1>0, <2>1, <2>3, <2>4
  <2>7. k <= purchase[p].installmentsPaid /\ Bought(p)
    BY <2>2, <2>3, <2>4 DEF Numbers
  <2>8. \A q \in Purchases, n \in Numbers :
           announced'[q][n] <= IF Bought(q) /\ n <= purchase[q].installmentsPaid THEN 1 ELSE 0
    BY <1>0, <2>5, <2>6, <2>7
  <2>. QED  BY <2>1, <2>8 DEF AnnouncedInv, Bought
<1>5. CASE ~Buying /\ ~Count /\ UNCHANGED <<announced, pc, current, batch>>
  <2>1. CountersKept
    BY <1>5, CountersKeptFact
  <2>2. \A q \in Purchases, n \in Numbers : Told(q, n) <= Told(q, n)'
    BY <1>5, <2>1 DEF CountersKept, NumberAt
  <2>. QED  BY <1>1, <1>5, <2>2
<1>6. CASE ~Buying /\ ~Count /\ UNCHANGED announced /\ pc' # "counted"
  <2>1. CountersKept
    BY <1>6, CountersKeptFact
  <2>2. \A q \in Purchases, n \in Numbers : Told(q, n) <= Told(q, n)'
    BY <1>6, <2>1 DEF CountersKept
  <2>. QED  BY <1>1, <1>6, <2>2
<1>7. ASSUME NEW p \in Purchases, NEW c \in Cards \cup {Null}, OpenFirst(p, c) \/ NotOpened(p, c)
      PROVE  UNCHANGED <<announced, pc, current, batch>>
  BY <1>7 DEF OpenFirst, NotOpened, rows, run
<1>8. ASSUME NEW p \in Purchases, Charge(p)
      PROVE  UNCHANGED announced /\ pc' # "counted"
  BY <1>8 DEF Charge
<1>9. ASSUME Abort
      PROVE  UNCHANGED announced /\ pc' # "counted"
  BY <1>9, AbortFact
<1>. QED  BY <1>2, <1>3, <1>4, <1>5, <1>6, <1>7, <1>8, <1>9, QuietFact DEF Buying

LEMMA IndStep == IndInv /\ [Next]_vars => IndInv'
BY TypeStep, RunStep, OpeningStep, AccountingStep, ClosedStep, AnnouncedStep DEF IndInv

LEMMA IndHolds == Spec => []IndInv
BY InitInd, IndStep, PTL DEF Spec

-----------------------------------------------------------------------------
(* Type correctness; the last date stored is still in the calendar. *)
THEOREM TypeCorrect == Spec => []TypeOK
<1>1. IndInv => TypeOK
  BY DEF IndInv
<1>. QED  BY IndHolds, <1>1, PTL

(* The installments counted and the transactions inserted agree, but for   *)
(* what the runs and requests that died left behind.                       *)
THEOREM ChargeAccountingHolds == Spec => []ChargeAccounting
<1>1. IndInv => ChargeAccounting
  BY DEF IndInv
<1>. QED  BY IndHolds, <1>1, PTL

(* No purchase is charged past its total; one that is paid up is closed. *)
THEOREM PaidUpIsClosedHolds == Spec => []PaidUpIsClosed
<1>1. IndInv => PaidUpIsClosed
  BY DEF IndInv
<1>. QED  BY IndHolds, <1>1, PTL

(* No member is told twice of an installment, nor of one not counted. *)
THEOREM AnnouncedOnceHolds == Spec => []AnnouncedOnce
<1>1. IndInv => AnnouncedOnce
  <2>. SUFFICES ASSUME TypeOK, AnnouncedInv  PROVE AnnouncedOnce
    BY DEF IndInv
  <2>1. \A p \in Purchases, n \in Numbers : announced[p][n] \in Nat
    BY DEF TypeOK
  <2>. QED  BY <2>1 DEF AnnouncedInv, AnnouncedOnce
<1>. QED  BY IndHolds, <1>1, PTL

(* A purchase cancelled while no run held its row is never charged again. *)
THEOREM CancelIsFinalHolds == Spec => CancelIsFinal
<1> DEFINE Final == \A p \in cancelled, n \in 2..MaxInstallments : charged'[p][n] = charged[p][n]
<1>1. IndInv /\ [Next]_vars => [Final]_vars
  <2>. SUFFICES ASSUME TypeOK, RunInv, Next  PROVE Final
    BY DEF IndInv
  <2>1. CASE UNCHANGED charged
    BY <2>1
  <2>2. ASSUME NEW p \in Purchases, NEW n \in Numbers, n = 1 \/ p \notin cancelled,
               charged' = [charged EXCEPT ![p][n] = @ + 1]
        PROVE  Final
    BY <2>2, OneMoreFact DEF TypeOK, Numbers
  <2>3. ASSUME NEW p \in Purchases, NEW c \in Cards \cup {Null}, OpenFirst(p, c)
        PROVE  Final
    BY <2>2, <2>3 DEF OpenFirst, Numbers
  <2>4. ASSUME NEW p \in Purchases, Charge(p)
        PROVE  Final
    BY <2>2, <2>4, NumberFact DEF Charge, RunInv, ReadRowIsCurrent
  <2>5. Buying \/ Count => UNCHANGED charged
    BY DEF Buying, Buy, Count
  <2>6. ASSUME NEW p \in Purchases, NEW c \in Cards \cup {Null}, NotOpened(p, c)
        PROVE  UNCHANGED charged
    BY <2>6 DEF NotOpened, rows
  <2>. QED  BY <2>1, <2>3, <2>4, <2>5, <2>6, AbortFact, QuietFact
<1>. QED  BY IndHolds, <1>1, PTL DEF Spec, CancelIsFinal
=============================================================================
