------------------------- MODULE SettlementsProofs --------------------------
(* The periods of every calendar, and the settlements of every workspace.   *)
EXTENDS Settlements, TLAPS

USE MonthsAssumption, FirstDayAssumption

-----------------------------------------------------------------------------
(* Months do not overlap: a day knows its month. *)
LEMMA MonthFact ==
    ASSUME NEW m \in FirstMonth..(FinalMonth - 1), NEW d \in DaysOf(m)
    PROVE  /\ MonthOf(d) = m
           /\ DayOf(d) = d - FirstDay[m] + 1
           /\ d \in Int /\ FirstDay[m] \in Int /\ FirstDay[m + 1] \in Int
           /\ FirstDay[m] <= d /\ d < FirstDay[m + 1]
<1>1. m + 1 \in FirstMonth..FinalMonth /\ FirstDay[m] \in Int /\ FirstDay[m + 1] \in Int
  OBVIOUS
<1>2. d \in Int /\ FirstDay[m] <= d /\ d < FirstDay[m + 1]
  BY <1>1 DEF DaysOf
<1>3. ASSUME NEW n \in FirstMonth..(FinalMonth - 1), d \in DaysOf(n)
      PROVE  n = m
  <2>1. n + 1 \in FirstMonth..FinalMonth /\ FirstDay[n] \in Int /\ FirstDay[n + 1] \in Int
    OBVIOUS
  <2>2. FirstDay[n] <= d /\ d < FirstDay[n + 1]
    BY <1>3, <2>1 DEF DaysOf
  <2>3. ~(n < m)
    <3>1. SUFFICES ASSUME n < m PROVE FALSE
      OBVIOUS
    <3>2. FirstDay[n + 1] <= FirstDay[m]
      BY <3>1, <2>1
    <3>. QED  BY <3>2, <1>1, <1>2, <2>1, <2>2
  <2>4. ~(m < n)
    <3>1. SUFFICES ASSUME m < n PROVE FALSE
      OBVIOUS
    <3>2. FirstDay[m + 1] <= FirstDay[n]
      BY <3>1, <1>1, <2>1
    <3>. QED  BY <3>2, <1>1, <1>2, <2>1, <2>2
  <2>. QED  BY <2>3, <2>4
<1>4. MonthOf(d) = m
  BY <1>3 DEF MonthOf
<1>. QED  BY <1>1, <1>2, <1>4 DEF DayOf

(* A day has a month, with a year of the calendar on both sides. *)
LEMMA DayFact ==
    ASSUME NEW d \in Days
    PROVE  /\ MonthOf(d) \in Inner
           /\ d \in DaysOf(MonthOf(d))
           /\ d \in Int
           /\ DayOf(d) \in Nat \ {0}
           /\ DayOf(d) = d - FirstDay[MonthOf(d)] + 1
<1>1. PICK m \in Inner : d \in DaysOf(m)
  BY DEF Days
<1>2. m \in FirstMonth..(FinalMonth - 1)
  BY DEF Inner
<1>. QED  BY <1>1, <1>2, MonthFact

(* The months that a monthly period runs between. *)
LEMMA MonthlyFact ==
    ASSUME NEW c \in 1..31, NEW d \in Days
    PROVE  \E e \in (FirstMonth + 12)..(FinalMonth - 12) :
              MonthlyPeriod(c, d) = [start |-> FirstDay[e - 1] + c, end |-> FirstDay[e] + c - 1]
<1> DEFINE m == MonthOf(d)
           e == IF DayOf(d) > c THEN m + 1 ELSE m
<1>1. m \in (FirstMonth + 12)..(FinalMonth - 13)
  BY DayFact DEF Inner
<1>2. e \in (FirstMonth + 12)..(FinalMonth - 12)
  BY <1>1
<1>3. MonthlyPeriod(c, d) = [start |-> FirstDay[e - 1] + c, end |-> FirstDay[e] + c - 1]
  BY DEF MonthlyPeriod
<1> HIDE DEF e
<1>. QED  BY <1>2, <1>3

LEMMA DivisionFact ==
    ASSUME NEW n \in Int
    PROVE  n \div 12 \in Int /\ n % 12 \in 0..11 /\ n = 12 * (n \div 12) + (n % 12)
OBVIOUS

LEMMA YearlyFact ==
    ASSUME NEW y \in 1..12, NEW d \in Days
    PROVE  \E k \in Int :
              /\ 12 * k + y - 1 \in FirstMonth..(FinalMonth - 12)
              /\ YearlyPeriod(y, d) = [start |-> FirstDay[12 * k + y - 1],
                                       end   |-> FirstDay[12 * k + y - 1 + 12] - 1]
              /\ 12 * k + y - 1 <= MonthOf(d) /\ MonthOf(d) < 12 * k + y - 1 + 12
<1> DEFINE m == MonthOf(d)
           q == m \div 12
           r == m % 12
<1>1. m \in (FirstMonth + 12)..(FinalMonth - 13)
  BY DayFact DEF Inner
<1>2. q \in Int /\ r \in 0..11 /\ m = 12 * q + r
  <2>1. m \in Int
    BY <1>1
  <2>. QED  BY <2>1, DivisionFact, Zenon
<1>3. m % 12 = r /\ m - (m % 12) = 12 * q
  BY <1>1, <1>2
<1> HIDE DEF m, q, r
<1>4. CASE r + 1 >= y
  <2>1. 12 * q + y - 1 \in Int
    BY <1>2
  <2>2. YearlyPeriod(y, d) = [start |-> FirstDay[12 * q + y - 1],
                              end   |-> FirstDay[12 * q + y - 1 + 12] - 1]
    BY <1>2, <1>4, <1>3 DEF YearlyPeriod, m, CalendarMonth
  <2>3. 12 * q + y - 1 \in FirstMonth..(FinalMonth - 12) /\ 12 * q + y - 1 <= m
        /\ m < 12 * q + y - 1 + 12
    BY <1>1, <1>2, <1>4
  <2>. QED  BY <1>2, <2>2, <2>3 DEF m
<1>5. CASE ~(r + 1 >= y)
  <2>1. 12 * q - 12 = 12 * (q - 1) /\ q - 1 \in Int
    BY <1>2
  <2>2. YearlyPeriod(y, d) = [start |-> FirstDay[12 * (q - 1) + y - 1],
                              end   |-> FirstDay[12 * (q - 1) + y - 1 + 12] - 1]
    BY <1>2, <1>5, <1>3, <2>1 DEF YearlyPeriod, m, CalendarMonth
  <2>3. 12 * (q - 1) + y - 1 \in FirstMonth..(FinalMonth - 12) /\ 12 * (q - 1) + y - 1 <= m
        /\ m < 12 * (q - 1) + y - 1 + 12
    BY <1>1, <1>2, <1>5, <2>1
  <2>. QED  BY <2>1, <2>2, <2>3 DEF m
<1>. QED  BY <1>4, <1>5

(* Two monthly, or two yearly, periods with different starts do not meet,   *)
(* whatever the cutoff, and neither do two weeks.                           *)
LEMMA MonthlyDisjoint ==
    ASSUME NEW c \in 1..31, NEW i \in Days, NEW j \in Days, NEW d \in Int,
           Within(d, MonthlyPeriod(c, i)), Within(d, MonthlyPeriod(c, j))
    PROVE  MonthlyPeriod(c, i) = MonthlyPeriod(c, j)
<1> DEFINE P(e) == [start |-> FirstDay[e - 1] + c, end |-> FirstDay[e] + c - 1]
           Ends == (FirstMonth + 12)..(FinalMonth - 12)
<1>1. PICK e \in Ends : MonthlyPeriod(c, i) = P(e)
  BY MonthlyFact
<1>2. PICK f \in Ends : MonthlyPeriod(c, j) = P(f)
  BY MonthlyFact
<1>3. ASSUME NEW x \in Ends, NEW y \in Ends, Within(d, P(x)), Within(d, P(y))
      PROVE  ~(x < y)
  <2>1. SUFFICES ASSUME x < y PROVE FALSE
    OBVIOUS
  <2>2. /\ x \in FirstMonth..FinalMonth /\ y - 1 \in FirstMonth..FinalMonth
        /\ y \in FirstMonth..FinalMonth /\ x - 1 \in FirstMonth..FinalMonth
        /\ x < y - 1 \/ x = y - 1
    BY <2>1
  <2>3. FirstDay[x] <= FirstDay[y - 1] /\ FirstDay[x] \in Int /\ FirstDay[y - 1] \in Int
    BY <2>2
  <2>4. d <= FirstDay[x] + c - 1 /\ FirstDay[y - 1] + c <= d
    BY <1>3, <2>2, <2>3 DEF Within
  <2>. QED  BY <2>3, <2>4
<1>4. ~(e < f) /\ ~(f < e)
  <2> HIDE DEF P
  <2>. QED  BY <1>1, <1>2, <1>3
<1>5. e = f
  BY <1>4
<1>. QED  BY <1>1, <1>2, <1>5

LEMMA YearlyDisjoint ==
    ASSUME NEW y \in 1..12, NEW i \in Days, NEW j \in Days, NEW d \in Int,
           Within(d, YearlyPeriod(y, i)), Within(d, YearlyPeriod(y, j))
    PROVE  YearlyPeriod(y, i) = YearlyPeriod(y, j)
<1> DEFINE F(k) == 12 * k + y - 1
           P(m) == [start |-> FirstDay[m], end |-> FirstDay[m + 12] - 1]
           Firsts == FirstMonth..(FinalMonth - 12)
<1>1. PICK a \in Int : F(a) \in Firsts /\ YearlyPeriod(y, i) = P(F(a))
  BY YearlyFact
<1>2. PICK b \in Int : F(b) \in Firsts /\ YearlyPeriod(y, j) = P(F(b))
  BY YearlyFact
<1>3. ASSUME NEW m \in Firsts, NEW n \in Firsts, Within(d, P(m)), Within(d, P(n))
      PROVE  ~(m + 12 <= n)
  <2>1. SUFFICES ASSUME m + 12 <= n PROVE FALSE
    OBVIOUS
  <2>2. /\ m \in FirstMonth..FinalMonth /\ m + 12 \in FirstMonth..FinalMonth
        /\ n \in FirstMonth..FinalMonth /\ n + 12 \in FirstMonth..FinalMonth
        /\ m + 12 < n \/ m + 12 = n
    BY <2>1
  <2>3. FirstDay[m + 12] <= FirstDay[n] /\ FirstDay[m + 12] \in Int /\ FirstDay[n] \in Int
    BY <2>2
  <2>4. d <= FirstDay[m + 12] - 1 /\ FirstDay[n] <= d
    BY <1>3, <2>2, <2>3 DEF Within
  <2>. QED  BY <2>3, <2>4
<1>4. ~(F(a) + 12 <= F(b)) /\ ~(F(b) + 12 <= F(a))
  <2> HIDE DEF F, P
  <2>. QED  BY <1>1, <1>2, <1>3
<1>5. a = b
  BY <1>4
<1>. QED  BY <1>1, <1>2, <1>5

LEMMA WeekFact ==
    ASSUME NEW s \in 0..6, NEW d \in Int
    PROVE  \E k \in Int : /\ WeeklyPeriod(s, d) = [start |-> 7 * k + s, end |-> 7 * k + s + 6]
                          /\ 7 * k + s <= d /\ d <= 7 * k + s + 6
<1> DEFINE q == (d - s + 7) \div 7
           r == (d - s + 7) % 7
<1>1. q \in Int /\ r \in 0..6 /\ d - s + 7 = 7 * q + r
  OBVIOUS
<1>2. WeeklyPeriod(s, d) = [start |-> d - r, end |-> d - r + 6]
  BY DEF WeeklyPeriod
<1> HIDE DEF q, r
<1>3. /\ q - 1 \in Int /\ d - r = 7 * (q - 1) + s
      /\ 7 * (q - 1) + s <= d /\ d <= 7 * (q - 1) + s + 6
  BY <1>1
<1>. QED  BY <1>2, <1>3

LEMMA WeeklyDisjoint ==
    ASSUME NEW s \in 0..6, NEW i \in Int, NEW j \in Int, NEW d \in Int,
           Within(d, WeeklyPeriod(s, i)), Within(d, WeeklyPeriod(s, j))
    PROVE  WeeklyPeriod(s, i) = WeeklyPeriod(s, j)
<1> DEFINE P(k) == [start |-> 7 * k + s, end |-> 7 * k + s + 6]
<1>1. PICK a \in Int : WeeklyPeriod(s, i) = P(a)
  BY WeekFact
<1>2. PICK b \in Int : WeeklyPeriod(s, j) = P(b)
  BY WeekFact
<1>3. a = b
  BY <1>1, <1>2 DEF Within
<1>. QED  BY <1>1, <1>2, <1>3

LEMMA ModelledFact ==
    /\ Modelled \subseteq Days /\ Modelled \subseteq Int
    /\ CreatedAt \in Modelled /\ CreatedAt \in Days /\ Dates \subseteq Modelled
<1>1. CreatedAt \in Int /\ LastDay \in Int /\ CreatedAt <= LastDay
  BY DaysAssumption
<1>. QED  BY <1>1, DaysAssumption DEF Modelled

(* What closeCurrentPeriod closes has integer bounds, and two periods that  *)
(* it closes under one configuration are equal or share no day.             *)
LEMMA PeriodType ==
    ASSUME NEW w \in Config, NEW d \in Days
    PROVE  PeriodToClose(w, d) \in Bounds
<1>1. d \in Int /\ CreatedAt \in Int
  BY DayFact, ModelledFact
<1>2. /\ w.cycle \in Cycles /\ w.cutoffDay \in 1..31
      /\ w.weekStartDay \in 0..6 /\ w.yearStartMonth \in 1..12
  BY DEF Config
<1>3. w.cutoffDay \in Int
  <2>1. \A x \in 1..31 : x \in Int
    OBVIOUS
  <2>. QED  BY <1>2, <2>1, Zenon
<1>4. CASE w.cycle = "INDEFINITE"
  BY <1>1, <1>4 DEF PeriodToClose, Bounds
<1>5. CASE w.cycle = "MONTHLY"
  <2>1. PICK e \in (FirstMonth + 12)..(FinalMonth - 12) :
          MonthlyPeriod(w.cutoffDay, d)
            = [start |-> FirstDay[e - 1] + w.cutoffDay, end |-> FirstDay[e] + w.cutoffDay - 1]
    BY <1>2, MonthlyFact
  <2>2. FirstDay[e - 1] \in Int /\ FirstDay[e] \in Int
    OBVIOUS
  <2>3. PeriodToClose(w, d) = [start |-> FirstDay[e - 1] + w.cutoffDay,
                               end   |-> FirstDay[e] + w.cutoffDay - 1]
    BY <1>5, <2>1 DEF PeriodToClose, CurrentPeriod
  <2>4. FirstDay[e - 1] + w.cutoffDay \in Int /\ FirstDay[e] + w.cutoffDay - 1 \in Int
    <3>1. \A x, y, c \in Int : x + c \in Int /\ y + c - 1 \in Int
      OBVIOUS
    <3>. QED  BY <1>3, <2>2, <3>1, Zenon
  <2>. QED  BY <2>3, <2>4 DEF Bounds
<1>6. CASE w.cycle = "WEEKLY"
  <2>1. PICK k \in Int : WeeklyPeriod(w.weekStartDay, d)
              = [start |-> 7 * k + w.weekStartDay, end |-> 7 * k + w.weekStartDay + 6]
    BY <1>1, <1>2, WeekFact
  <2>2. PeriodToClose(w, d) = [start |-> 7 * k + w.weekStartDay, end |-> 7 * k + w.weekStartDay + 6]
    BY <1>6, <2>1 DEF PeriodToClose, CurrentPeriod
  <2>3. 7 * k + w.weekStartDay \in Int /\ 7 * k + w.weekStartDay + 6 \in Int
    BY <1>2
  <2>. QED  BY <2>2, <2>3 DEF Bounds
<1>7. CASE w.cycle = "YEARLY"
  <2>1. PICK k \in Int :
          /\ 12 * k + w.yearStartMonth - 1 \in FirstMonth..(FinalMonth - 12)
          /\ YearlyPeriod(w.yearStartMonth, d)
              = [start |-> FirstDay[12 * k + w.yearStartMonth - 1],
                 end   |-> FirstDay[12 * k + w.yearStartMonth - 1 + 12] - 1]
    BY <1>2, YearlyFact
  <2> DEFINE m == 12 * k + w.yearStartMonth - 1
  <2>2. m \in FirstMonth..FinalMonth /\ m + 12 \in FirstMonth..FinalMonth
    BY <2>1
  <2>3. PeriodToClose(w, d) = [start |-> FirstDay[m], end |-> FirstDay[m + 12] - 1]
    BY <1>7, <2>1 DEF PeriodToClose, CurrentPeriod
  <2> HIDE DEF m
  <2>4. FirstDay[m] \in Int /\ FirstDay[m + 12] \in Int
    BY <2>2
  <2>. QED  BY <2>3, <2>4 DEF Bounds
<1>. QED  BY <1>2, <1>4, <1>5, <1>6, <1>7 DEF Cycles

LEMMA PeriodsDisjoint ==
    ASSUME NEW w \in Config, NEW i \in Days, NEW j \in Days, NEW d \in Int,
           Within(d, PeriodToClose(w, i)), Within(d, PeriodToClose(w, j))
    PROVE  PeriodToClose(w, i).start = PeriodToClose(w, j).start
<1>1. i \in Int /\ j \in Int
  BY DayFact
<1>2. /\ w.cycle \in Cycles /\ w.cutoffDay \in 1..31
      /\ w.weekStartDay \in 0..6 /\ w.yearStartMonth \in 1..12
  BY DEF Config
<1>3. CASE w.cycle = "INDEFINITE"
  BY <1>3 DEF PeriodToClose
<1>4. CASE w.cycle = "MONTHLY"
  BY <1>2, <1>4, MonthlyDisjoint DEF PeriodToClose, CurrentPeriod
<1>5. CASE w.cycle = "WEEKLY"
  BY <1>1, <1>2, <1>5, WeeklyDisjoint DEF PeriodToClose, CurrentPeriod
<1>6. CASE w.cycle = "YEARLY"
  BY <1>2, <1>6, YearlyDisjoint DEF PeriodToClose, CurrentPeriod
<1>. QED  BY <1>2, <1>3, <1>4, <1>5, <1>6 DEF Cycles

-----------------------------------------------------------------------------
(* The fields of what a handler holds. *)
LEMMA StatesFact ==
    ASSUME NEW g \in States
    PROVE  /\ g.pc = "close"  => g.patch \in Patches \cup {Null}
           /\ g.pc = "gather" => /\ g.period \in Bounds /\ g.under \in Config
                                /\ g.patch \in Patches \cup {Null}
           /\ g.pc = "store"  => /\ g.row \in SettlementRow /\ g.readOn \in Modelled
                                /\ g.patch \in Patches \cup {Null}
           /\ g.pc = "update" => g.patch \in Patches
BY DEF States, Idle, Check

LEMMA BecomeFact ==
    ASSUME TypeOK, NEW h \in Handlers, NEW g \in States, Become(h, g)
    PROVE  /\ handler' \in [Handlers -> States]
           /\ handler'[h] = g
           /\ \A k \in Handlers \ {h} : handler'[k] = handler[k]
BY DEF Become, TypeOK

LEMMA StatesType ==
    /\ Idle \in States /\ Check \in States
    /\ \A p \in Patches \cup {Null} : Close(p) \in States
    /\ \A p \in Patches : Update(p) \in States
    /\ \A p \in Patches \cup {Null}, b \in Bounds, w \in Config : Gather(b, w, p) \in States
    /\ \A p \in Patches \cup {Null}, r \in SettlementRow, d \in Modelled : Store(r, d, p) \in States
BY DEF States, Close, Update, Gather, Store

LEMMA PatchedType ==
    ASSUME NEW w \in Config, NEW p \in Patches
    PROVE  Patched(w, p) \in Config
<1>1. p \in Patch
  BY ConfigAssumption
<1>2. w = [cycle |-> w.cycle, cutoffDay |-> w.cutoffDay, weekStartDay |-> w.weekStartDay,
           yearStartMonth |-> w.yearStartMonth]
  BY DEF Config
<1>3. DOMAIN w = {"cycle", "cutoffDay", "weekStartDay", "yearStartMonth"}
  BY <1>2
<1>4. Patched(w, p) = [cycle          |-> IF p.cycle = Null THEN w.cycle ELSE p.cycle,
                       cutoffDay      |-> IF p.cutoffDay = Null THEN w.cutoffDay ELSE p.cutoffDay,
                       weekStartDay   |-> IF p.weekStartDay = Null THEN w.weekStartDay
                                                                  ELSE p.weekStartDay,
                       yearStartMonth |-> IF p.yearStartMonth = Null THEN w.yearStartMonth
                                                                    ELSE p.yearStartMonth]
  BY <1>3 DEF Patched
<1>. QED  BY <1>1, <1>4 DEF Config, Patch

(* The settlements after an upsert: the same, or one more with a new start. *)
LEMMA UpsertFact ==
    ASSUME NEW rows \in SUBSET SettlementRow, NEW row \in SettlementRow,
           \A s, u \in rows : s.start = u.start => s = u
    PROVE  /\ Upsert(rows, row) \subseteq SettlementRow
           /\ rows \subseteq Upsert(rows, row)
           /\ Upsert(rows, row) \subseteq rows \cup {row}
           /\ \A s, u \in Upsert(rows, row) : s.start = u.start => s = u
BY DEF Upsert

(* The settlements after updateSettlementStatus. *)
LEMMA StatusFact ==
    ASSUME TypeOK, NEW s \in settlement, UpdateStatus(s)
    PROVE  /\ settlement' \subseteq SettlementRow
           /\ \A u \in settlement' : \E v \in settlement :
                 u.start = v.start /\ u.end = v.end /\ u.counted = v.counted /\ u.under = v.under
           /\ \A v \in settlement : \E u \in settlement' :
                 /\ u.start = v.start /\ u.end = v.end /\ u.counted = v.counted
                 /\ v.status = "SETTLED" => u.status = "SETTLED"
           /\ \A u, v \in settlement' : u.start = v.start => u = v
<1> DEFINE z == [s EXCEPT !.status = "SETTLED"]
<1>1. settlement' = (settlement \ {s}) \cup {z}
  BY DEF UpdateStatus
<1>2. settlement \subseteq SettlementRow /\ \A u, v \in settlement : u.start = v.start => u = v
  BY DEF TypeOK
<1>3. /\ z \in SettlementRow /\ z.start = s.start /\ z.end = s.end /\ z.counted = s.counted
      /\ z.under = s.under /\ z.status = "SETTLED"
  BY <1>2 DEF SettlementRow
<1> HIDE DEF z
<1>. QED  BY <1>1, <1>2, <1>3

-----------------------------------------------------------------------------
(* A period, and a settlement, that closeCurrentPeriod computed on some day. *)
Closes(period, w) == \E n \in Modelled : period = PeriodToClose(w, n)

Computed(row) ==
    \E n \in Modelled :
        /\ row.start = PeriodToClose(row.under, n).start
        /\ \A c \in row.counted : Within(c[2], PeriodToClose(row.under, n))

PeriodInv ==
    /\ \A s \in settlement : Computed(s)
    /\ \A h \in Handlers : handler[h].pc = "gather" => Closes(handler[h].period, handler[h].under)
    /\ \A h \in Handlers : handler[h].pc = "store" => Computed(handler[h].row)

Inv == TypeOK /\ PeriodInv

LEMMA InitInv == Init => Inv
<1> SUFFICES ASSUME Init PROVE Inv
  OBVIOUS
<1>1. TypeOK
  BY ConfigAssumption, ModelledFact, StatesType DEF Init, TypeOK
<1>2. PeriodInv
  BY DEF Init, PeriodInv, Idle
<1>. QED  BY <1>1, <1>2 DEF Inv

(* A step that stores no settlement and lets a handler be at a state whose  *)
(* period, if it has one, is right.                                         *)
LEMMA BecomeInv ==
    ASSUME Inv, NEW h \in Handlers, NEW g \in States, Become(h, g), settlement' = settlement,
           g.pc = "gather" => Closes(g.period, g.under),
           g.pc = "store" => Computed(g.row)
    PROVE  PeriodInv' /\ handler' \in [Handlers -> States]
<1>1. /\ handler' \in [Handlers -> States] /\ handler'[h] = g
      /\ \A k \in Handlers \ {h} : handler'[k] = handler[k]
  BY BecomeFact DEF Inv
<1>2. \A s \in settlement' : Computed(s)
  BY DEF Inv, PeriodInv
<1>3. ASSUME NEW k \in Handlers
      PROVE  /\ handler'[k].pc = "gather" => Closes(handler'[k].period, handler'[k].under)
             /\ handler'[k].pc = "store" => Computed(handler'[k].row)
  <2>1. CASE k = h
    BY <1>1, <2>1
  <2>2. CASE k # h
    BY <1>1, <2>2 DEF Inv, PeriodInv
  <2>. QED  BY <2>1, <2>2
<1>4. PeriodInv'
  BY <1>2, <1>3 DEF PeriodInv
<1>. QED  BY <1>1, <1>4

LEMMA RowWritten ==
    ASSUME TypeOK, NEW t \in Transactions,
           NEW row \in TransactionRow \cup {Null},
           transaction' = [transaction EXCEPT ![t] = row], touched' = touched \cup {t}
    PROVE  transaction' \in [Transactions -> TransactionRow \cup {Null}]
           /\ touched' \subseteq Transactions
BY DEF TypeOK

LEMMA NextInv == Inv /\ [Next]_vars => Inv'
<1> SUFFICES ASSUME Inv, [Next]_vars PROVE Inv'
  OBVIOUS
<1> USE DEF tables, history
<1>0. /\ TypeOK /\ PeriodInv
      /\ today \in Modelled /\ today \in Days /\ workspace \in Config
  BY ModelledFact DEF Inv, TypeOK
<1>1. ASSUME NEW t \in Transactions, NEW d \in Dates, Enter(t, d) PROVE Inv'
  <2>1. PICK b \in BOOLEAN :
          transaction' = [transaction EXCEPT ![t] = [date |-> d, reconciled |-> b]]
    BY <1>0, <1>1 DEF Enter, TypeOK, TransactionRow
  <2>2. [date |-> d, reconciled |-> b] \in TransactionRow
    BY DEF TransactionRow
  <2>3. /\ transaction' \in [Transactions -> TransactionRow \cup {Null}]
        /\ touched' \subseteq Transactions
    BY <1>0, <1>1, <2>1, <2>2, RowWritten DEF Enter
  <2>. QED  BY <1>0, <1>1, <2>3 DEF Enter, Inv, TypeOK, PeriodInv
<1>2. ASSUME NEW t \in Transactions, Remove(t) PROVE Inv'
  <2>1. /\ transaction' \in [Transactions -> TransactionRow \cup {Null}]
        /\ touched' \subseteq Transactions
    BY <1>0, <1>2, RowWritten DEF Remove
  <2>. QED  BY <1>0, <1>2, <2>1 DEF Remove, Inv, TypeOK, PeriodInv
<1>3. ASSUME NEW t \in Transactions, NEW b \in BOOLEAN, Reconcile(t, b) PROVE Inv'
  <2>1. transaction[t] \in TransactionRow
    BY <1>0, <1>3 DEF Reconcile, TypeOK
  <2>2. [transaction[t] EXCEPT !.reconciled = b] \in TransactionRow
    BY <2>1 DEF TransactionRow
  <2>3. transaction' = [transaction EXCEPT ![t] = [transaction[t] EXCEPT !.reconciled = b]]
    BY <1>3 DEF Reconcile
  <2>4. /\ transaction' \in [Transactions -> TransactionRow \cup {Null}]
        /\ touched' \subseteq Transactions
    BY <1>0, <1>3, <2>2, <2>3, RowWritten DEF Reconcile
  <2>. QED  BY <1>0, <1>3, <2>4 DEF Reconcile, Inv, TypeOK, PeriodInv
<1>4. ASSUME NEW s \in settlement, UpdateStatus(s) PROVE Inv'
  <2>1. TypeOK'
    BY <1>0, <1>4, StatusFact DEF UpdateStatus, TypeOK
  <2>2. \A u \in settlement' : Computed(u)
    BY <1>0, <1>4, StatusFact DEF PeriodInv, Computed
  <2>. QED  BY <1>0, <1>4, <2>1, <2>2 DEF UpdateStatus, PeriodInv, Inv
<1>5. ASSUME NEW r \in Requests, StartCloseNow(r) PROVE Inv'
  <2>1. Close(Null) \in States /\ Close(Null).pc = "close"
    BY StatesType DEF Close
  <2>2. PeriodInv' /\ handler' \in [Handlers -> States]
    BY <1>5, <2>1, BecomeInv DEF StartCloseNow, Handlers
  <2>. QED  BY <1>0, <1>5, <2>2 DEF StartCloseNow, Inv, TypeOK
<1>6. ASSUME NEW r \in Requests, NEW p \in Patches, StartUpdate(r, p) PROVE Inv'
  <2>1. PICK g \in {Close(p), Update(p)} : Become(r, g)
    BY <1>6 DEF StartUpdate
  <2>2. g \in States /\ g.pc \in {"close", "update"}
    BY StatesType DEF Close, Update
  <2>3. PeriodInv' /\ handler' \in [Handlers -> States]
    BY <1>6, <2>1, <2>2, BecomeInv DEF StartUpdate, Handlers
  <2>. QED  BY <1>0, <1>6, <2>3 DEF StartUpdate, Inv, TypeOK
<1>7. ASSUME NEW r \in Requests, WriteUpdate(r) PROVE Inv'
  <2>1. handler[r].patch \in Patches
    BY <1>0, <1>7, StatesFact DEF WriteUpdate, TypeOK, Handlers
  <2>2. workspace' \in Config
    BY <1>0, <1>7, <2>1, PatchedType DEF WriteUpdate
  <2>3. PeriodInv' /\ handler' \in [Handlers -> States]
    BY <1>7, BecomeInv, StatesType DEF WriteUpdate, Handlers, Idle
  <2>4. disturbed' \in BOOLEAN
    BY <1>0, <1>7 DEF WriteUpdate, TypeOK
  <2>. QED  BY <1>0, <1>7, <2>2, <2>3, <2>4 DEF WriteUpdate, Inv, TypeOK
<1>8. ASSUME Midnight PROVE Inv'
  <2>1. PeriodInv' /\ handler' \in [Handlers -> States]
    BY <1>8, BecomeInv, StatesType DEF Midnight, Handlers, Check
  <2>2. today' \in Modelled
    BY <1>0, <1>8, DaysAssumption DEF Midnight, Modelled
  <2>. QED  BY <1>0, <1>8, <2>1, <2>2 DEF Midnight, Inv, TypeOK
<1>9. ASSUME MissMidnight PROVE Inv'
  <2>1. today' \in Modelled
    BY <1>0, <1>9, DaysAssumption DEF MissMidnight, Modelled
  <2>. QED  BY <1>0, <1>9, <2>1 DEF MissMidnight, Inv, TypeOK, PeriodInv
<1>10. ASSUME CheckDue PROVE Inv'
  <2>1. PICK g \in {Close(Null), Idle} : Become(Cron, g)
    BY <1>10 DEF CheckDue
  <2>2. g \in States /\ g.pc \in {"close", "idle"}
    BY StatesType DEF Close, Idle
  <2>3. PeriodInv' /\ handler' \in [Handlers -> States]
    BY <1>10, <2>1, <2>2, BecomeInv DEF CheckDue, Handlers
  <2>. QED  BY <1>0, <1>10, <2>3 DEF CheckDue, Inv, TypeOK
<1>11. ASSUME NEW h \in Handlers, ReadWorkspace(h) PROVE Inv'
  <2> DEFINE b == PeriodToClose(workspace, today)
             g == Gather(b, workspace, handler[h].patch)
  <2>1. handler[h].patch \in Patches \cup {Null}
    BY <1>0, <1>11, StatesFact DEF ReadWorkspace, TypeOK
  <2>2. b \in Bounds /\ Closes(b, workspace)
    BY <1>0, PeriodType DEF Closes
  <2>3. /\ g \in States /\ g.pc = "gather" /\ Closes(g.period, g.under)
    BY <1>0, <2>1, <2>2, StatesType DEF Gather
  <2>4. Become(h, g) /\ settlement' = settlement
    BY <1>11 DEF ReadWorkspace
  <2> HIDE DEF g
  <2>5. PeriodInv' /\ handler' \in [Handlers -> States]
    BY <2>3, <2>4, BecomeInv
  <2>. QED  BY <1>0, <1>11, <2>5 DEF ReadWorkspace, Inv, TypeOK
<1>12. ASSUME NEW h \in Handlers, ReadTransactions(h) PROVE Inv'
  <2> DEFINE b == handler[h].period
             w == handler[h].under
             row == [start |-> b.start, end |-> b.end, counted |-> Counted(b),
                     status |-> "PENDING", under |-> w]
             g == Store(row, today, handler[h].patch)
  <2>1. b \in Bounds /\ w \in Config /\ handler[h].patch \in Patches \cup {Null} /\ Closes(b, w)
    BY <1>0, <1>12, StatesFact DEF ReadTransactions, TypeOK, PeriodInv
  <2>2. Counted(b) \in Counts /\ \A c \in Counted(b) : Within(c[2], b)
    BY DEF Counted, Counts
  <2>3. row \in SettlementRow
    BY <2>1, <2>2 DEF SettlementRow, Bounds
  <2>4. Computed(row)
    BY <2>1, <2>2 DEF Computed, Closes
  <2>5. Become(h, g) /\ settlement' = settlement
    BY <1>12 DEF ReadTransactions
  <2> HIDE DEF row
  <2>6. g \in States /\ g.pc = "store" /\ g.row = row
    BY <1>0, <2>1, <2>3, StatesType DEF Store
  <2> HIDE DEF g
  <2>7. PeriodInv' /\ handler' \in [Handlers -> States]
    BY <2>4, <2>5, <2>6, BecomeInv
  <2>. QED  BY <1>0, <1>12, <2>7 DEF ReadTransactions, Inv, TypeOK
<1>13. ASSUME NEW h \in Handlers, StoreSettlement(h) PROVE Inv'
  <2> DEFINE row == handler[h].row
  <2>1. row \in SettlementRow /\ handler[h].patch \in Patches \cup {Null} /\ Computed(row)
    BY <1>0, <1>13, StatesFact DEF StoreSettlement, TypeOK, PeriodInv
  <2>2. settlement' = Upsert(settlement, row)
    BY <1>13 DEF StoreSettlement
  <2>3. /\ settlement' \subseteq SettlementRow /\ settlement' \subseteq settlement \cup {row}
        /\ \A s, u \in settlement' : s.start = u.start => s = u
    BY <1>0, <2>1, <2>2, UpsertFact DEF TypeOK
  <2>4. PICK g \in {Idle, Update(handler[h].patch)} :
          Become(h, g) /\ (g # Idle => handler[h].patch # Null)
    BY <1>13 DEF StoreSettlement
  <2>5. g \in States /\ g.pc \in {"idle", "update"}
    BY <2>1, <2>4, StatesType DEF Idle, Update
  <2>6. /\ handler' \in [Handlers -> States] /\ handler'[h] = g
        /\ \A k \in Handlers \ {h} : handler'[k] = handler[k]
    BY <1>0, <2>4, <2>5, BecomeFact
  <2>7. \A k \in Handlers : handler'[k].pc \in {"gather", "store"} => handler'[k] = handler[k]
    BY <2>5, <2>6
  <2>8. closed' \subseteq Int
    BY <1>0, <1>13, <2>1 DEF StoreSettlement, TypeOK, SettlementRow
  <2>9. \A s \in settlement' : Computed(s)
    BY <1>0, <2>1, <2>3 DEF PeriodInv
  <2>10. PeriodInv'
    BY <1>0, <2>7, <2>9 DEF PeriodInv
  <2>. QED  BY <1>0, <1>13, <2>3, <2>6, <2>8, <2>10 DEF StoreSettlement, Inv, TypeOK
<1>14. ASSUME NEW h \in Handlers, Fail(h) PROVE Inv'
  <2>1. PeriodInv' /\ handler' \in [Handlers -> States]
    BY <1>14, BecomeInv, StatesType DEF Fail, Idle
  <2>2. disturbed' \in BOOLEAN
    BY <1>0, <1>14 DEF Fail, TypeOK
  <2>. QED  BY <1>0, <1>14, <2>1, <2>2 DEF Fail, Inv, TypeOK
<1>15. CASE UNCHANGED vars
  BY <1>0, <1>15 DEF vars, Inv, TypeOK, PeriodInv
<1>. QED  BY <1>1, <1>2, <1>3, <1>4, <1>5, <1>6, <1>7, <1>8, <1>9, <1>10, <1>11, <1>12,
             <1>13, <1>14, <1>15 DEF Next

THEOREM Invariance == Spec => []Inv
BY InitInv, NextInv, PTL DEF Spec

(* Types, and one settlement for each period start. *)
THEOREM TypeCorrect == Spec => []TypeOK
<1>1. Inv => TypeOK
  BY DEF Inv
<1>. QED  BY <1>1, Invariance, PTL

LEMMA InvCountedOnce == Inv => CountedOnce
<1> SUFFICES ASSUME Inv, NEW s \in settlement, NEW u \in settlement, s.under = u.under,
                    NEW c \in s.counted \cap u.counted
             PROVE  s = u
  BY DEF CountedOnce
<1>1. /\ s \in SettlementRow /\ Computed(s) /\ Computed(u)
      /\ s.start = u.start => s = u
  BY DEF Inv, TypeOK, PeriodInv
<1>2. s.under \in Config /\ c[2] \in Int
  BY <1>1, ModelledFact DEF SettlementRow, Counts
<1>3. PICK i \in Modelled : /\ s.start = PeriodToClose(s.under, i).start
                            /\ Within(c[2], PeriodToClose(s.under, i))
  BY <1>1 DEF Computed
<1>4. PICK j \in Modelled : /\ u.start = PeriodToClose(s.under, j).start
                            /\ Within(c[2], PeriodToClose(s.under, j))
  BY <1>1 DEF Computed
<1>5. s.start = u.start
  BY <1>2, <1>3, <1>4, PeriodsDisjoint, ModelledFact
<1>. QED  BY <1>1, <1>5

(* No expense is asked for twice, for every cutoff, calendar and number of  *)
(* handlers that close periods at once.                                     *)
THEOREM CountedOnceHolds == Spec => []CountedOnce
BY Invariance, InvCountedOnce, PTL

(* A stored settlement keeps its period and what it counts, and one that is *)
(* settled stays so.                                                        *)
THEOREM SettlementIsFinalHolds == Spec => SettlementIsFinal
<1> DEFINE Kept == \A s \in settlement : \E u \in settlement' :
                      /\ u.start = s.start /\ u.end = s.end /\ u.counted = s.counted
                      /\ s.status = "SETTLED" => u.status = "SETTLED"
<1>1. Inv /\ [Next]_vars => [Kept]_vars
  <2> SUFFICES ASSUME Inv, Next PROVE Kept
    OBVIOUS
  <2>1. CASE settlement' = settlement
    BY <2>1
  <2>2. ASSUME NEW s \in settlement, UpdateStatus(s) PROVE Kept
    BY <2>2, StatusFact DEF Inv
  <2>3. ASSUME NEW h \in Handlers, StoreSettlement(h) PROVE Kept
    <3>1. handler[h].row \in SettlementRow
      BY <2>3, StatesFact DEF StoreSettlement, Inv, TypeOK
    <3>2. settlement \subseteq settlement'
      BY <2>3, <3>1, UpsertFact DEF StoreSettlement, Inv, TypeOK
    <3>. QED  BY <3>2
  <2>. QED
    BY <2>1, <2>2, <2>3 DEF Next, Enter, Remove, Reconcile, StartCloseNow, StartUpdate,
       WriteUpdate, Midnight, MissMidnight, CheckDue, ReadWorkspace, ReadTransactions, Fail,
       tables, history
<1>. QED  BY <1>1, Invariance, PTL DEF Spec, SettlementIsFinal

-----------------------------------------------------------------------------
(* NoExpenseForgotten.  A cutoff that every month has: a month without it    *)
(* has no last day of a period, and the run has nothing to close.            *)
EveryMonthHas(c) == \A m \in FirstMonth..(FinalMonth - 1) : c <= FirstDay[m + 1] - FirstDay[m]

CutoffsFit ==
    /\ \A w \in Workspaces : EveryMonthHas(w.cutoffDay)
    /\ \A p \in Patches : p.cutoffDay # Null => EveryMonthHas(p.cutoffDay)

TodaysPeriod == CurrentPeriod(workspace, today)

(* What is owed to a period was read for it. *)
Covers(counted, period) ==
    \A t \in Transactions \ touched :
        transaction[t] # Null /\ ~transaction[t].reconciled /\ Within(transaction[t].date, period)
        => <<t, transaction[t].date>> \in counted

(* A handler that has read the transactions today has read all that is owed *)
(* to its period.                                                           *)
PeriodOf(row) == [start |-> row.start, end |-> row.end]
ReadInv ==
    \A h \in Handlers : handler[h].pc = "store" =>
        LET g == handler[h]
        IN  /\ g.readOn <= today
            /\ Closes(PeriodOf(g.row), g.row.under)
            /\ g.readOn = today => Covers(g.row.counted, PeriodOf(g.row))

(* What was stored today is there, and covers the period that ends today. *)
ClosedInv ==
    ~disturbed => \A start \in closed : \E s \in settlement :
        /\ s.start = start
        /\ workspace.cycle # "INDEFINITE" /\ start = TodaysPeriod.start => Covers(s.counted, TodaysPeriod)

(* The run of the last day of a period is on its way, or has found or       *)
(* stored a settlement.                                                     *)
RunInv ==
    ~disturbed /\ LastOfPeriod(workspace, today) =>
        \/ handler[Cron] \in {Check, Close(Null), Gather(TodaysPeriod, workspace, Null)}
        \/ /\ handler[Cron].pc = "store" /\ handler[Cron].patch = Null
           /\ handler[Cron].row.start = TodaysPeriod.start
        \/ /\ handler[Cron] = Idle
           /\ \E s \in settlement : s.start = TodaysPeriod.start

FitInv == EveryMonthHas(workspace.cutoffDay)

ForgottenInv == Inv /\ ReadInv /\ ClosedInv /\ RunInv /\ FitInv

(* The fields of a configuration. *)
LEMMA ConfigFact ==
    ASSUME NEW w \in Config
    PROVE  /\ w.cycle \in Cycles /\ w.cutoffDay \in 1..31
           /\ w.weekStartDay \in 0..6 /\ w.yearStartMonth \in 1..12
           /\ w.cutoffDay \in Int /\ 1 <= w.cutoffDay
           /\ w.yearStartMonth \in Int
<1>1. /\ w.cycle \in Cycles /\ w.cutoffDay \in 1..31
      /\ w.weekStartDay \in 0..6 /\ w.yearStartMonth \in 1..12
  BY DEF Config
<1>2. /\ \A x \in 1..31 : x \in Int /\ 1 <= x
      /\ \A x \in 1..12 : x \in Int
  OBVIOUS
<1>. QED  BY <1>1, <1>2, Zenon

(* The day of the month of a day that is known to be in it. *)
LEMMA DayOfFact ==
    ASSUME NEW m \in FirstMonth..(FinalMonth - 1), NEW d \in Int,
           FirstDay[m] <= d, d < FirstDay[m + 1]
    PROVE  MonthOf(d) = m /\ DayOf(d) = d - FirstDay[m] + 1
<1>1. FirstDay[m] \in Int /\ FirstDay[m + 1] \in Int
  OBVIOUS
<1>2. d \in DaysOf(m)
  BY <1>1 DEF DaysOf
<1>. QED  BY <1>2, MonthFact

(* A day that follows in the month, or begins the next one. *)
LEMMA NextDayFact ==
    ASSUME NEW d \in Days, DayOf(d + 1) = 1
    PROVE  d + 1 = FirstDay[MonthOf(d) + 1] /\ MonthOf(d + 1) = MonthOf(d) + 1
<1> DEFINE m == MonthOf(d)
<1>1. m \in Inner /\ d \in DaysOf(m) /\ d \in Int
  BY DayFact
<1> HIDE DEF m
<1>2. m \in FirstMonth..(FinalMonth - 1) /\ m + 1 \in FirstMonth..(FinalMonth - 1)
      /\ m + 2 \in FirstMonth..FinalMonth
  BY <1>1 DEF Inner
<1>3. /\ FirstDay[m] \in Int /\ FirstDay[m + 1] \in Int /\ FirstDay[m + 1 + 1] \in Int
      /\ FirstDay[m] <= d /\ d < FirstDay[m + 1] /\ FirstDay[m + 1] < FirstDay[m + 1 + 1]
  BY <1>1, <1>2, MonthFact
<1>4. d + 1 = FirstDay[m + 1]
  <2>1. SUFFICES ASSUME d + 1 # FirstDay[m + 1] PROVE FALSE
    OBVIOUS
  <2>2. d + 1 \in Int /\ FirstDay[m] <= d + 1 /\ d + 1 < FirstDay[m + 1]
    BY <1>1, <1>3, <2>1
  <2>3. DayOf(d + 1) = ((d + 1) - FirstDay[m]) + 1
    <3> DEFINE e == d + 1
    <3>1. e \in Int /\ FirstDay[m] <= e /\ e < FirstDay[m + 1]
      BY <2>2
    <3> HIDE DEF e
    <3>2. DayOf(e) = e - FirstDay[m] + 1
      BY <1>2, <3>1, DayOfFact
    <3>. QED  BY <3>2, Zenon DEF e
  <2>. QED  BY <1>1, <1>3, <2>3
<1>5. MonthOf(d + 1) = m + 1
  BY <1>1, <1>2, <1>3, <1>4, DayOfFact
<1>. QED  BY <1>4, <1>5 DEF m

(* On the last day of a period the current period ends. *)
LEMMA LastIsEnd ==
    ASSUME NEW w \in Config, NEW d \in Days, LastOfPeriod(w, d)
    PROVE  w.cycle # "INDEFINITE" /\ CurrentPeriod(w, d).end = d
<1>1. /\ w.cycle \in Cycles /\ w.cutoffDay \in 1..31
      /\ w.weekStartDay \in 0..6 /\ w.yearStartMonth \in 1..12 /\ d \in Int
  BY DayFact, ConfigFact
<1>2. w.cycle # "INDEFINITE"
  BY DEF LastOfPeriod
<1>3. CASE w.cycle = "MONTHLY"
  <2> DEFINE m == MonthOf(d)
             c == w.cutoffDay
  <2>1. m \in FirstMonth..FinalMonth /\ c \in Int
    BY DayFact, ConfigFact DEF Inner
  <2>2. c = d - FirstDay[m] + 1 /\ DayOf(d) = c
    BY <1>3, DayFact DEF LastOfPeriod
  <2>3. CurrentPeriod(w, d).end = FirstDay[m] + c - 1
    BY <1>3, <2>1, <2>2 DEF CurrentPeriod, MonthlyPeriod
  <2> HIDE DEF m, c
  <2>4. FirstDay[m] \in Int
    BY <2>1
  <2>. QED  BY <1>1, <1>2, <2>1, <2>2, <2>3, <2>4
<1>4. CASE w.cycle = "WEEKLY"
  <2> DEFINE s == w.weekStartDay
  <2>1. (d + 1) % 7 = s /\ s \in 0..6
    BY <1>1, <1>4 DEF LastOfPeriod
  <2>2. CurrentPeriod(w, d) = WeeklyPeriod(s, d)
    BY <1>4 DEF CurrentPeriod
  <2> HIDE DEF s
  <2>3. PICK k \in Int : /\ WeeklyPeriod(s, d) = [start |-> 7 * k + s, end |-> 7 * k + s + 6]
                         /\ 7 * k + s <= d /\ d <= 7 * k + s + 6
    BY <1>1, <2>1, WeekFact
  <2>4. PICK q \in Int : d + 1 = 7 * q + s
    <3>1. (d + 1) \div 7 \in Int /\ d + 1 = 7 * ((d + 1) \div 7) + ((d + 1) % 7)
      BY <1>1
    <3>. QED  BY <2>1, <3>1
  <2>5. q = k + 1
    BY <1>1, <2>1, <2>3, <2>4
  <2>. QED  BY <1>1, <1>2, <2>1, <2>2, <2>3, <2>4, <2>5
<1>5. CASE w.cycle = "YEARLY"
  <2> DEFINE m == MonthOf(d)
             y == w.yearStartMonth
  <2>1. DayOf(d + 1) = 1 /\ CalendarMonth(MonthOf(d + 1)) = y
    BY <1>5 DEF LastOfPeriod
  <2>2. d + 1 = FirstDay[m + 1] /\ ((m + 1) % 12) + 1 = y
    BY <2>1, NextDayFact DEF CalendarMonth
  <2>3. PICK k \in Int :
          /\ YearlyPeriod(y, d) = [start |-> FirstDay[12 * k + y - 1],
                                   end   |-> FirstDay[12 * k + y - 1 + 12] - 1]
          /\ 12 * k + y - 1 <= m /\ m < 12 * k + y - 1 + 12
    <3> HIDE DEF y
    <3>. QED  BY <1>1, YearlyFact DEF y
  <2>4. m \in Int /\ y \in 1..12
    BY <1>1, DayFact DEF Inner
  <2>5. CurrentPeriod(w, d) = YearlyPeriod(y, d)
    BY <1>5 DEF CurrentPeriod
  <2> HIDE DEF m, y
  <2>6. PICK q \in Int : m + 1 = 12 * q + y - 1
    <3>1. (m + 1) \div 12 \in Int /\ m + 1 = 12 * ((m + 1) \div 12) + ((m + 1) % 12)
          /\ (m + 1) % 12 \in 0..11
      BY <2>4, DivisionFact
    <3>. QED  BY <2>2, <2>4, <3>1
  <2>7. m + 1 = 12 * k + y - 1 + 12
    BY <2>3, <2>4, <2>6
  <2>8. FirstDay[m + 1] = d + 1 /\ d \in Int
    BY <1>1, <2>2
  <2>. QED  BY <1>2, <2>3, <2>5, <2>7, <2>8
<1>. QED  BY <1>1, <1>2, <1>3, <1>4, <1>5 DEF Cycles

LEMMA PeriodNotEmpty ==
    ASSUME NEW w \in Config, NEW d \in Days, w.cycle # "INDEFINITE"
    PROVE  CurrentPeriod(w, d).start <= CurrentPeriod(w, d).end
<1>1. w.cycle \in Cycles /\ d \in Int
  BY DayFact, ConfigFact
<1>2. CASE w.cycle = "MONTHLY"
  <2> DEFINE c == w.cutoffDay
  <2>1. c \in Int /\ c \in 1..31 /\ CurrentPeriod(w, d) = MonthlyPeriod(c, d)
    BY <1>2, ConfigFact DEF CurrentPeriod
  <2> HIDE DEF c
  <2>2. PICK e \in (FirstMonth + 12)..(FinalMonth - 12) :
          MonthlyPeriod(c, d) = [start |-> FirstDay[e - 1] + c, end |-> FirstDay[e] + c - 1]
    BY <2>1, MonthlyFact
  <2>3. e - 1 \in FirstMonth..FinalMonth /\ e \in FirstMonth..FinalMonth /\ e - 1 < e
    OBVIOUS
  <2>4. FirstDay[e - 1] \in Int /\ FirstDay[e] \in Int /\ FirstDay[e - 1] < FirstDay[e]
    BY <2>3
  <2>. QED  BY <2>1, <2>2, <2>4
<1>3. CASE w.cycle = "WEEKLY"
  <2> DEFINE s == w.weekStartDay
  <2>1. s \in 0..6 /\ CurrentPeriod(w, d) = WeeklyPeriod(s, d)
    BY <1>3, ConfigFact DEF CurrentPeriod
  <2> HIDE DEF s
  <2>2. PICK k \in Int : WeeklyPeriod(s, d) = [start |-> 7 * k + s, end |-> 7 * k + s + 6]
    BY <1>1, <2>1, WeekFact
  <2>. QED  BY <2>1, <2>2
<1>4. CASE w.cycle = "YEARLY"
  <2> DEFINE y == w.yearStartMonth
  <2>1. y \in 1..12 /\ CurrentPeriod(w, d) = YearlyPeriod(y, d)
    BY <1>4, ConfigFact DEF CurrentPeriod
  <2> HIDE DEF y
  <2>2. PICK k \in Int :
          /\ 12 * k + y - 1 \in FirstMonth..(FinalMonth - 12)
          /\ YearlyPeriod(y, d) = [start |-> FirstDay[12 * k + y - 1],
                                   end   |-> FirstDay[12 * k + y - 1 + 12] - 1]
    BY <2>1, YearlyFact
  <2> DEFINE m == 12 * k + y - 1
  <2>3. m \in FirstMonth..FinalMonth /\ m + 12 \in FirstMonth..FinalMonth /\ m < m + 12
    BY <2>2
  <2>4. YearlyPeriod(y, d) = [start |-> FirstDay[m], end |-> FirstDay[m + 12] - 1]
    BY <2>2
  <2> HIDE DEF m
  <2>5. FirstDay[m] \in Int /\ FirstDay[m + 12] \in Int /\ FirstDay[m] < FirstDay[m + 12]
    BY <2>3
  <2>. QED  BY <2>1, <2>4, <2>5
<1>. QED  BY <1>1, <1>2, <1>3, <1>4 DEF Cycles

(* The day before a period starts is the last of the one before it, if its *)
(* month has the cutoff.                                                   *)
LEMMA LastBeforeStart ==
    ASSUME NEW w \in Config, NEW d \in Days, w.cycle # "INDEFINITE", EveryMonthHas(w.cutoffDay)
    PROVE  CurrentPeriod(w, d).start \in Int /\ LastOfPeriod(w, CurrentPeriod(w, d).start - 1)
<1>1. /\ w.cycle \in Cycles /\ w.cutoffDay \in 1..31
      /\ w.weekStartDay \in 0..6 /\ w.yearStartMonth \in 1..12 /\ d \in Int
  BY DayFact, ConfigFact
<1>2. CASE w.cycle = "MONTHLY"
  <2> DEFINE c == w.cutoffDay
  <2>1. PICK e \in (FirstMonth + 12)..(FinalMonth - 12) :
          MonthlyPeriod(c, d) = [start |-> FirstDay[e - 1] + c, end |-> FirstDay[e] + c - 1]
    BY <1>1, MonthlyFact
  <2> DEFINE m == e - 1
  <2>2. m \in FirstMonth..(FinalMonth - 1) /\ m + 1 \in FirstMonth..FinalMonth
    OBVIOUS
  <2>3. FirstDay[m] \in Int /\ FirstDay[m + 1] \in Int /\ c \in Int /\ 1 <= c
    <3>1. c \in Int /\ 1 <= c
      BY ConfigFact
    <3>. QED  BY <2>2, <3>1
  <2>4. c <= FirstDay[m + 1] - FirstDay[m]
    BY <2>2 DEF EveryMonthHas
  <2>5. CurrentPeriod(w, d).start = FirstDay[m] + c
    BY <1>2, <2>1 DEF CurrentPeriod
  <2> HIDE DEF c, m
  <2>6. /\ FirstDay[m] + c \in Int /\ (FirstDay[m] + c) - 1 \in Int
        /\ FirstDay[m] <= (FirstDay[m] + c) - 1 /\ (FirstDay[m] + c) - 1 < FirstDay[m + 1]
    BY <2>3, <2>4
  <2>7. DayOf((FirstDay[m] + c) - 1) = c
    <3> DEFINE last == (FirstDay[m] + c) - 1
    <3>1. last - FirstDay[m] + 1 = c
      BY <2>3
    <3>2. last \in Int /\ FirstDay[m] <= last /\ last < FirstDay[m + 1]
      BY <2>6
    <3> HIDE DEF last
    <3>3. DayOf(last) = c
      BY <2>2, <3>1, <3>2, DayOfFact
    <3>. QED  BY <3>3 DEF last
  <2>8. DayOf(CurrentPeriod(w, d).start - 1) = c /\ CurrentPeriod(w, d).start \in Int
    BY <2>5, <2>6, <2>7
  <2>. QED  BY <1>2, <2>8 DEF LastOfPeriod, c
<1>3. CASE w.cycle = "WEEKLY"
  <2> DEFINE s == w.weekStartDay
  <2>1. PICK k \in Int : WeeklyPeriod(s, d) = [start |-> 7 * k + s, end |-> 7 * k + s + 6]
    BY <1>1, WeekFact
  <2>2. CurrentPeriod(w, d).start = 7 * k + s /\ s \in 0..6
    BY <1>1, <1>3, <2>1 DEF CurrentPeriod
  <2> HIDE DEF s
  <2>3. 7 * k + s \in Int /\ (7 * k + s) % 7 = s /\ 7 * k + s - 1 + 1 = 7 * k + s
    BY <2>2
  <2>. QED  BY <1>3, <2>2, <2>3 DEF LastOfPeriod, s
<1>4. CASE w.cycle = "YEARLY"
  <2> DEFINE y == w.yearStartMonth
  <2>1. PICK k \in Int :
          /\ 12 * k + y - 1 \in FirstMonth..(FinalMonth - 12)
          /\ YearlyPeriod(y, d) = [start |-> FirstDay[12 * k + y - 1],
                                   end   |-> FirstDay[12 * k + y - 1 + 12] - 1]
    <3> HIDE DEF y
    <3>. QED  BY <1>1, YearlyFact DEF y
  <2> DEFINE m == 12 * k + y - 1
  <2>2. m \in FirstMonth..(FinalMonth - 1) /\ m + 1 \in FirstMonth..FinalMonth /\ m \in FirstMonth..FinalMonth
    BY <2>1
  <2>3. m % 12 = y - 1 /\ y \in Int
    BY <1>1
  <2>4. CurrentPeriod(w, d).start = FirstDay[m]
    BY <1>4, <2>1 DEF CurrentPeriod
  <2> HIDE DEF m, y
  <2>5. FirstDay[m] \in Int /\ FirstDay[m + 1] \in Int /\ FirstDay[m] < FirstDay[m + 1]
    BY <2>2
  <2>6. FirstDay[m] - 1 + 1 = FirstDay[m]
    BY <2>5
  <2>7. MonthOf(FirstDay[m]) = m /\ DayOf(FirstDay[m]) = 1
    BY <2>2, <2>5, DayOfFact
  <2>8. CalendarMonth(m) = y
    BY <2>2, <2>3 DEF CalendarMonth
  <2>. QED  BY <1>4, <2>4, <2>5, <2>6, <2>7, <2>8 DEF LastOfPeriod, y
<1>. QED  BY <1>1, <1>2, <1>3, <1>4 DEF Cycles

(* Periods of one configuration with one start are one period. *)
LEMMA SameStart ==
    ASSUME NEW w \in Config, NEW i \in Days, NEW j \in Days, w.cycle # "INDEFINITE",
           CurrentPeriod(w, i).start = CurrentPeriod(w, j).start
    PROVE  CurrentPeriod(w, i) = CurrentPeriod(w, j)
<1>1. /\ w.cycle \in Cycles /\ w.cutoffDay \in 1..31
      /\ w.weekStartDay \in 0..6 /\ w.yearStartMonth \in 1..12 /\ i \in Int /\ j \in Int
  BY DayFact, ConfigFact
<1>2. ASSUME NEW m \in FirstMonth..FinalMonth, NEW n \in FirstMonth..FinalMonth,
             FirstDay[m] = FirstDay[n]
      PROVE  m = n
  BY <1>2
<1>3. CASE w.cycle = "MONTHLY"
  <2> DEFINE c == w.cutoffDay
             P(e) == [start |-> FirstDay[e - 1] + c, end |-> FirstDay[e] + c - 1]
             Ends == (FirstMonth + 12)..(FinalMonth - 12)
  <2>1. PICK e \in Ends : CurrentPeriod(w, i) = P(e)
    BY <1>1, <1>3, MonthlyFact DEF CurrentPeriod
  <2>2. PICK f \in Ends : CurrentPeriod(w, j) = P(f)
    BY <1>1, <1>3, MonthlyFact DEF CurrentPeriod
  <2>3. e - 1 \in FirstMonth..FinalMonth /\ f - 1 \in FirstMonth..FinalMonth /\ c \in Int
    BY ConfigFact
  <2>4. FirstDay[e - 1] \in Int /\ FirstDay[f - 1] \in Int
    BY <2>3
  <2>5. FirstDay[e - 1] + c = FirstDay[f - 1] + c
    BY <2>1, <2>2
  <2> HIDE DEF c
  <2>6. FirstDay[e - 1] = FirstDay[f - 1]
    BY <2>3, <2>4, <2>5
  <2>7. e = f
    BY <1>2, <2>3, <2>6
  <2>. QED  BY <2>1, <2>2, <2>7
<1>4. CASE w.cycle = "WEEKLY"
  BY <1>4 DEF CurrentPeriod, WeeklyPeriod
<1>5. CASE w.cycle = "YEARLY"
  <2> DEFINE y == w.yearStartMonth
             F(k) == 12 * k + y - 1
             P(m) == [start |-> FirstDay[m], end |-> FirstDay[m + 12] - 1]
  <2>0. y \in 1..12 /\ \A n : CurrentPeriod(w, n) = YearlyPeriod(y, n)
    BY <1>1, <1>5 DEF CurrentPeriod
  <2> HIDE DEF y
  <2>1. PICK a \in Int : F(a) \in FirstMonth..(FinalMonth - 12) /\ CurrentPeriod(w, i) = P(F(a))
    BY <2>0, YearlyFact
  <2>2. PICK b \in Int : F(b) \in FirstMonth..(FinalMonth - 12) /\ CurrentPeriod(w, j) = P(F(b))
    BY <2>0, YearlyFact
  <2> HIDE DEF F
  <2>3. F(a) = F(b)
    BY <1>2, <2>1, <2>2
  <2>. QED  BY <2>1, <2>2, <2>3
<1>. QED  BY <1>1, <1>3, <1>4, <1>5 DEF Cycles

-----------------------------------------------------------------------------
(* What a step does to the rows that nobody writes today. *)
Kept == /\ touched \subseteq touched'
        /\ \A t \in Transactions \ touched' : transaction'[t] = transaction[t]

CoversNext(counted, period) ==
    \A t \in Transactions \ touched' :
        /\ transaction'[t] # Null /\ ~transaction'[t].reconciled
        /\ Within(transaction'[t].date, period)
        => <<t, transaction'[t].date>> \in counted

LEMMA CoversKept ==
    ASSUME Kept, NEW counted, NEW period, Covers(counted, period)
    PROVE  CoversNext(counted, period)
BY DEF Kept, Covers, CoversNext

LEMMA ReadStep ==
    ASSUME ReadInv, Kept, today' = today,
           \A h \in Handlers : handler'[h].pc = "store" =>
              \/ handler'[h] = handler[h]
              \/ /\ handler'[h].readOn <= today
                 /\ Closes(PeriodOf(handler'[h].row), handler'[h].row.under)
                 /\ CoversNext(handler'[h].row.counted, PeriodOf(handler'[h].row))
    PROVE  ReadInv'
<1> SUFFICES ASSUME NEW h \in Handlers, handler'[h].pc = "store"
             PROVE  /\ handler'[h].readOn <= today'
                    /\ Closes(PeriodOf(handler'[h].row), handler'[h].row.under)
                    /\ handler'[h].readOn = today' =>
                         CoversNext(handler'[h].row.counted, PeriodOf(handler'[h].row))
  BY DEF ReadInv, Covers, CoversNext, PeriodOf
<1>1. CASE handler'[h] = handler[h]
  BY <1>1, CoversKept DEF ReadInv
<1>. QED  BY <1>1

LEMMA ClosedStep ==
    ASSUME ClosedInv, Kept, today' = today, workspace' = workspace, closed' = closed,
           disturbed => disturbed',
           \A s \in settlement : \E u \in settlement' : u.start = s.start /\ u.counted = s.counted
    PROVE  ClosedInv'
<1> SUFFICES ASSUME ~disturbed', NEW start \in closed
             PROVE  \E u \in settlement' :
                      /\ u.start = start
                      /\ workspace.cycle # "INDEFINITE" /\ start = TodaysPeriod.start
                         => CoversNext(u.counted, TodaysPeriod)
  BY DEF ClosedInv, Covers, CoversNext, TodaysPeriod
<1>1. PICK s \in settlement :
        /\ s.start = start
        /\ workspace.cycle # "INDEFINITE" /\ start = TodaysPeriod.start
           => Covers(s.counted, TodaysPeriod)
  BY DEF ClosedInv
<1>2. PICK u \in settlement' : u.start = s.start /\ u.counted = s.counted
  OBVIOUS
<1>. QED  BY <1>1, <1>2, CoversKept

LEMMA RunStep ==
    ASSUME RunInv, today' = today, workspace' = workspace, disturbed => disturbed',
           handler'[Cron] = handler[Cron],
           \A s \in settlement : \E u \in settlement' : u.start = s.start
    PROVE  RunInv'
BY DEF RunInv, TodaysPeriod, Gather

LEMMA CronIsNoRequest == Cron \in Handlers /\ \A r \in Requests : r \in Handlers /\ r # Cron
BY HandlersAssumption DEF Handlers

(* A client's write of a transaction. *)
LEMMA TransactionStep ==
    ASSUME ForgottenInv, Kept, UNCHANGED <<today, workspace, settlement, handler, closed, disturbed>>
    PROVE  ReadInv' /\ ClosedInv' /\ RunInv' /\ FitInv'
<1>1. ReadInv /\ ClosedInv /\ RunInv /\ FitInv
  BY DEF ForgottenInv
<1>. QED  BY <1>1, ReadStep, ClosedStep, RunStep DEF FitInv

(* A step of a handler that stores nothing. *)
LEMMA HandlerStep ==
    ASSUME ForgottenInv, NEW h \in Handlers, NEW g \in States, Become(h, g),
           UNCHANGED <<today, tables, touched, closed>>, disturbed => disturbed',
           g.pc = "store" => /\ g.readOn <= today
                             /\ Closes(PeriodOf(g.row), g.row.under)
                             /\ Covers(g.row.counted, PeriodOf(g.row)),
           h # Cron \/ RunInv'
    PROVE  ReadInv' /\ ClosedInv' /\ RunInv' /\ FitInv'
<1>1. ReadInv /\ ClosedInv /\ RunInv /\ FitInv /\ TypeOK
  BY DEF ForgottenInv, Inv
<1>2. handler'[h] = g /\ \A k \in Handlers \ {h} : handler'[k] = handler[k]
  BY <1>1, BecomeFact
<1>3. Kept
  BY DEF Kept, tables
<1>4. ReadInv'
  <2>1. g.pc = "store" => CoversNext(g.row.counted, PeriodOf(g.row))
    BY <1>3, CoversKept
  <2>2. ASSUME NEW k \in Handlers, handler'[k].pc = "store"
        PROVE  \/ handler'[k] = handler[k]
               \/ /\ handler'[k].readOn <= today
                  /\ Closes(PeriodOf(handler'[k].row), handler'[k].row.under)
                  /\ CoversNext(handler'[k].row.counted, PeriodOf(handler'[k].row))
    BY <1>2, <2>1, <2>2
  <2>. QED  BY <1>1, <1>3, <2>2, ReadStep
<1>5. ClosedInv'
  BY <1>1, <1>3, ClosedStep DEF tables
<1>6. RunInv'
  BY <1>1, <1>2, CronIsNoRequest, RunStep DEF tables
<1>. QED  BY <1>1, <1>4, <1>5, <1>6 DEF FitInv, tables

LEMMA FitKept ==
    ASSUME CutoffsFit, TypeOK, FitInv, NEW p \in Patches, workspace' = Patched(workspace, p)
    PROVE  FitInv'
<1>1. DOMAIN workspace = {"cycle", "cutoffDay", "weekStartDay", "yearStartMonth"}
  BY DEF TypeOK, Config
<1>2. workspace'.cutoffDay = IF p.cutoffDay = Null THEN workspace.cutoffDay ELSE p.cutoffDay
  BY <1>1 DEF Patched
<1>. QED  BY <1>2 DEF CutoffsFit, FitInv

LEMMA ForgottenInit == ASSUME CutoffsFit PROVE Init => ForgottenInv
<1> SUFFICES ASSUME Init PROVE ForgottenInv
  OBVIOUS
<1>1. ReadInv
  BY DEF Init, ReadInv, Idle
<1>2. ClosedInv /\ RunInv /\ FitInv
  BY DEF Init, ClosedInv, RunInv, FitInv, CutoffsFit
<1>. QED  BY <1>1, <1>2, InitInv DEF ForgottenInv

LEMMA ForgottenStore ==
    ASSUME ForgottenInv, NEW h \in Handlers, StoreSettlement(h)
    PROVE  ReadInv' /\ ClosedInv' /\ RunInv' /\ FitInv'
<1> DEFINE row == handler[h].row
           p   == handler[h].patch
           g   == IF p = Null THEN Idle ELSE Update(p)
<1>1. /\ ReadInv /\ ClosedInv /\ RunInv /\ FitInv /\ TypeOK /\ PeriodInv
      /\ workspace \in Config /\ today \in Days
  BY ModelledFact DEF ForgottenInv, Inv, TypeOK
<1>2. row \in SettlementRow /\ p \in Patches \cup {Null} /\ handler[h].pc = "store"
  BY <1>1, StatesFact DEF StoreSettlement, TypeOK
<1>3. /\ Become(h, g) /\ settlement' = Upsert(settlement, row)
      /\ UNCHANGED <<today, workspace, transaction, touched, disturbed>>
      /\ closed' = IF settlement' # settlement /\ handler[h].readOn = today
                        /\ row.under = workspace
                   THEN closed \cup {row.start} ELSE closed
  BY DEF StoreSettlement
<1>4. g \in States /\ g.pc # "store"
  BY <1>2, StatesType DEF Idle, Update
<1>5. Kept
  BY <1>3 DEF Kept
<1>6. handler'[h] = g /\ \A k \in Handlers \ {h} : handler'[k] = handler[k]
  <2> HIDE DEF g
  <2>. QED  BY <1>1, <1>3, <1>4, BecomeFact
<1>7. /\ settlement \subseteq settlement'
      /\ settlement' # settlement => settlement' = settlement \cup {row}
      /\ \E s \in settlement' : s.start = row.start
  BY <1>3 DEF Upsert
<1>8. ReadInv'
  <2>1. ASSUME NEW k \in Handlers, handler'[k].pc = "store"
        PROVE  handler'[k] = handler[k]
    <3> HIDE DEF g
    <3>. QED  BY <1>4, <1>6, <2>1
  <2>. QED  BY <1>1, <1>3, <1>5, <2>1, ReadStep
<1>9. ClosedInv'
  <2>1. SUFFICES ASSUME ~disturbed, NEW start \in closed'
                 PROVE  \E u \in settlement' :
                          /\ u.start = start
                          /\ workspace.cycle # "INDEFINITE" /\ start = TodaysPeriod.start
                             => CoversNext(u.counted, TodaysPeriod)
    BY <1>3 DEF ClosedInv, Covers, CoversNext, TodaysPeriod
  <2>2. CASE start \in closed
    <3>1. PICK s \in settlement :
            /\ s.start = start
            /\ workspace.cycle # "INDEFINITE" /\ start = TodaysPeriod.start
               => Covers(s.counted, TodaysPeriod)
      BY <1>1, <2>1, <2>2 DEF ClosedInv
    <3>. QED  BY <1>5, <1>7, <3>1, CoversKept
  <2>3. CASE start \notin closed
    <3>1. /\ start = row.start /\ row \in settlement' /\ handler[h].readOn = today
          /\ row.under = workspace
      BY <1>3, <1>7, <2>1, <2>3
    <3>2. Covers(row.counted, PeriodOf(row)) /\ Closes(PeriodOf(row), workspace)
      BY <1>1, <1>2, <3>1 DEF ReadInv
    <3>3. ASSUME workspace.cycle # "INDEFINITE", start = TodaysPeriod.start
          PROVE  PeriodOf(row) = TodaysPeriod
      <4>1. PICK n \in Modelled : PeriodOf(row) = CurrentPeriod(workspace, n)
        BY <3>2, <3>3 DEF Closes, PeriodToClose
      <4>2. PeriodOf(row).start = row.start
        BY DEF PeriodOf
      <4>. QED  BY <1>1, <3>1, <3>3, <4>1, <4>2, SameStart, ModelledFact DEF TodaysPeriod
    <3>4. CoversNext(row.counted, PeriodOf(row))
      BY <1>5, <3>2, CoversKept
    <3>. QED  BY <3>1, <3>3, <3>4
  <2>. QED  BY <2>2, <2>3
<1>10. RunInv'
  <2>1. CASE h # Cron
    BY <1>1, <1>3, <1>6, <1>7, <2>1, CronIsNoRequest, RunStep
  <2>2. CASE h = Cron
    <3>1. SUFFICES ASSUME ~disturbed, LastOfPeriod(workspace, today)
                   PROVE  handler'[Cron] = Idle /\ \E s \in settlement' : s.start = TodaysPeriod.start
      BY <1>3 DEF RunInv, TodaysPeriod
    <3>2. handler[Cron].patch = Null /\ handler[Cron].row.start = TodaysPeriod.start
      BY <1>1, <1>2, <2>2, <3>1 DEF RunInv, Check, Close, Gather, Idle
    <3>. QED  BY <1>6, <1>7, <2>2, <3>2
  <2>. QED  BY <2>1, <2>2
<1>. QED  BY <1>1, <1>3, <1>8, <1>9, <1>10 DEF FitInv

LEMMA ForgottenNext ==
    ASSUME CutoffsFit PROVE ForgottenInv /\ [Next]_vars => ForgottenInv'
<1> SUFFICES ASSUME ForgottenInv, [Next]_vars
             PROVE  ReadInv' /\ ClosedInv' /\ RunInv' /\ FitInv'
  BY NextInv DEF ForgottenInv
<1>0. /\ ReadInv /\ ClosedInv /\ RunInv /\ FitInv /\ TypeOK /\ PeriodInv
      /\ today \in Modelled /\ today \in Days /\ today \in Int /\ workspace \in Config
      /\ Cron \in Handlers
  BY ModelledFact, CronIsNoRequest DEF ForgottenInv, Inv, TypeOK
<1> DEFINE Goal == ReadInv' /\ ClosedInv' /\ RunInv' /\ FitInv'
<1>1. ASSUME NEW t \in Transactions, NEW d \in Dates, Enter(t, d) PROVE Goal
  <2>1. Kept
    BY <1>0, <1>1 DEF Enter, Kept, TypeOK
  <2>. QED  BY <1>1, <2>1, TransactionStep DEF Enter
<1>2. ASSUME NEW t \in Transactions, Remove(t) PROVE Goal
  <2>1. Kept
    BY <1>0, <1>2 DEF Remove, Kept, TypeOK
  <2>. QED  BY <1>2, <2>1, TransactionStep DEF Remove
<1>3. ASSUME NEW t \in Transactions, NEW b \in BOOLEAN, Reconcile(t, b) PROVE Goal
  <2>1. Kept
    BY <1>0, <1>3 DEF Reconcile, Kept, TypeOK
  <2>. QED  BY <1>3, <2>1, TransactionStep DEF Reconcile
<1>4. ASSUME NEW s \in settlement, UpdateStatus(s) PROVE Goal
  <2>1. Kept /\ UNCHANGED <<today, workspace, handler, closed, disturbed>>
    BY <1>4 DEF UpdateStatus, Kept, history
  <2>2. \A v \in settlement : \E u \in settlement' : u.start = v.start /\ u.counted = v.counted
    BY <1>0, <1>4, StatusFact
  <2>. QED  BY <1>0, <2>1, <2>2, ReadStep, ClosedStep, RunStep DEF FitInv
<1>5. ASSUME NEW r \in Requests, StartCloseNow(r) PROVE Goal
  <2>1. Close(Null) \in States /\ Close(Null).pc # "store"
    BY StatesType DEF Close
  <2>. QED  BY <1>5, <2>1, CronIsNoRequest, HandlerStep DEF StartCloseNow, history
<1>6. ASSUME NEW r \in Requests, NEW p \in Patches, StartUpdate(r, p) PROVE Goal
  <2>1. PICK g \in {Close(p), Update(p)} : Become(r, g)
    BY <1>6 DEF StartUpdate
  <2>2. g \in States /\ g.pc # "store"
    BY StatesType DEF Close, Update
  <2>. QED  BY <1>6, <2>1, <2>2, CronIsNoRequest, HandlerStep DEF StartUpdate, history
<1>7. ASSUME NEW r \in Requests, WriteUpdate(r) PROVE Goal
  <2>1. handler[r].patch \in Patches /\ r \in Handlers /\ r # Cron
    BY <1>0, <1>7, StatesFact, CronIsNoRequest DEF WriteUpdate, TypeOK
  <2>2. FitInv'
    BY <1>0, <1>7, <2>1, FitKept DEF WriteUpdate
  <2>3. Idle \in States /\ Idle.pc # "store" /\ Become(r, Idle)
    BY <1>7, StatesType DEF Idle, WriteUpdate
  <2>4. CASE workspace' = workspace
    BY <1>7, <2>1, <2>3, <2>4, HandlerStep DEF WriteUpdate, tables
  <2>5. CASE workspace' # workspace
    <3>1. ClosedInv' /\ RunInv'
      BY <1>7, <2>5 DEF WriteUpdate, ClosedInv, RunInv
    <3>2. Kept /\ today' = today
      BY <1>7 DEF WriteUpdate, Kept
    <3>3. handler'[r] = Idle /\ \A k \in Handlers \ {r} : handler'[k] = handler[k]
      BY <1>0, <2>1, <2>3, BecomeFact
    <3>4. ReadInv'
      <4>1. \A k \in Handlers : handler'[k].pc = "store" => handler'[k] = handler[k]
        BY <2>3, <3>3
      <4>. QED  BY <1>0, <3>2, <4>1, ReadStep
    <3>. QED  BY <2>2, <3>1, <3>4
  <2>. QED  BY <2>4, <2>5
<1>8. ASSUME Midnight PROVE Goal
  <2>1. handler'[Cron] = Check /\ \A k \in Handlers \ {Cron} : handler'[k] = handler[k]
    BY <1>0, <1>8, StatesType, BecomeFact DEF Midnight
  <2>2. \A k \in Handlers : handler'[k].pc = "store" => handler'[k] = handler[k]
    BY <2>1 DEF Check
  <2>3. \A k \in Handlers : handler[k].pc = "store" => handler[k].readOn \in Int
    BY <1>0, StatesFact, ModelledFact DEF TypeOK
  <2>4. today' = today + 1 /\ UNCHANGED tables /\ closed' = {}
    BY <1>8 DEF Midnight
  <2>5. ASSUME NEW k \in Handlers, handler'[k].pc = "store"
        PROVE  /\ handler'[k].readOn <= today' /\ handler'[k].readOn # today'
               /\ Closes(PeriodOf(handler'[k].row), handler'[k].row.under)
    <3>1. /\ handler[k].readOn <= today /\ handler[k].readOn \in Int /\ handler'[k] = handler[k]
          /\ Closes(PeriodOf(handler[k].row), handler[k].row.under)
      BY <1>0, <2>2, <2>3, <2>5 DEF ReadInv
    <3>. QED  BY <1>0, <2>4, <3>1
  <2>6. ReadInv'
    BY <2>5 DEF ReadInv, PeriodOf
  <2>. QED  BY <1>0, <2>1, <2>4, <2>6 DEF ClosedInv, RunInv, FitInv, tables
<1>9. ASSUME MissMidnight PROVE Goal
  <2>1. /\ \A k \in Handlers : handler'[k] = Idle
        /\ disturbed' /\ workspace' = workspace
    BY <1>9 DEF MissMidnight, tables
  <2>. QED  BY <1>0, <2>1 DEF ReadInv, ClosedInv, RunInv, FitInv, Idle
<1>10. ASSUME CheckDue PROVE Goal
  <2> DEFINE g == IF EndsToday(workspace, today) THEN Close(Null) ELSE Idle
  <2>1. g \in States /\ g.pc # "store" /\ Become(Cron, g)
    BY <1>10, StatesType DEF Close, Idle, CheckDue
  <2>2. UNCHANGED <<today, tables, history>>
    BY <1>10 DEF CheckDue
  <2>3. LastOfPeriod(workspace, today) => g = Close(Null)
    BY <1>0, LastIsEnd DEF EndsToday
  <2> HIDE DEF g
  <2>4. handler'[Cron] = g
    BY <1>0, <2>1, BecomeFact
  <2>5. RunInv'
    BY <2>2, <2>3, <2>4 DEF RunInv, tables
  <2>. QED  BY <1>0, <2>1, <2>2, <2>5, HandlerStep DEF history
<1>11. ASSUME NEW h \in Handlers, ReadWorkspace(h) PROVE Goal
  <2> DEFINE b == PeriodToClose(workspace, today)
             g == Gather(b, workspace, handler[h].patch)
  <2>1. handler[h].patch \in Patches \cup {Null} /\ handler[h].pc = "close"
    BY <1>0, <1>11, StatesFact DEF ReadWorkspace, TypeOK
  <2>2. g \in States /\ g.pc # "store"
    BY <1>0, <2>1, PeriodType, StatesType DEF Gather
  <2>3. Become(h, g) /\ UNCHANGED <<today, tables, history>>
    BY <1>11 DEF ReadWorkspace
  <2>4. ASSUME h = Cron, ~disturbed, LastOfPeriod(workspace, today)
        PROVE  g = Gather(TodaysPeriod, workspace, Null)
    <3>1. handler[Cron] = Close(Null)
      BY <1>0, <2>1, <2>4 DEF RunInv, Check, Gather, Idle
    <3>2. b = TodaysPeriod
      BY <1>0, <2>4, LastIsEnd DEF PeriodToClose, TodaysPeriod
    <3>. QED  BY <2>4, <3>1, <3>2 DEF Close
  <2> HIDE DEF g
  <2>5. handler'[h] = g
    BY <1>0, <2>2, <2>3, BecomeFact
  <2>6. ASSUME h = Cron PROVE RunInv'
    BY <2>3, <2>4, <2>5, <2>6 DEF RunInv, tables, history, TodaysPeriod, Gather
  <2>. QED  BY <2>2, <2>3, <2>6, HandlerStep DEF history
<1>12. ASSUME NEW h \in Handlers, ReadTransactions(h) PROVE Goal
  <2> DEFINE b == handler[h].period
             row == [start |-> b.start, end |-> b.end, counted |-> Counted(b),
                     status |-> "PENDING", under |-> handler[h].under]
             g == Store(row, today, handler[h].patch)
  <2>1. /\ b \in Bounds /\ handler[h].under \in Config /\ Closes(b, handler[h].under)
        /\ handler[h].patch \in Patches \cup {Null} /\ handler[h].pc = "gather"
    BY <1>0, <1>12, StatesFact DEF ReadTransactions, TypeOK, PeriodInv
  <2>2. row \in SettlementRow
    BY <2>1 DEF SettlementRow, Bounds, Counted, Counts
  <2>3. PeriodOf(row) = b
    BY <2>1 DEF PeriodOf, Bounds
  <2>4. Covers(row.counted, b)
    <3>1. ASSUME NEW t \in Transactions, transaction[t] # Null, ~transaction[t].reconciled,
                 Within(transaction[t].date, b)
          PROVE  <<t, transaction[t].date>> \in Counted(b)
      <4>1. transaction[t] \in TransactionRow
        BY <1>0, <3>1 DEF TypeOK
      <4>2. transaction[t] = [date |-> transaction[t].date, reconciled |-> FALSE]
            /\ transaction[t].date \in Dates
        BY <3>1, <4>1 DEF TransactionRow
      <4>. QED  BY <3>1, <4>2 DEF Counted
    <3>. QED  BY <3>1 DEF Covers
  <2>5. Become(h, g) /\ UNCHANGED <<today, tables, history>>
    BY <1>12 DEF ReadTransactions
  <2>6. Closes(PeriodOf(row), row.under) /\ Covers(row.counted, PeriodOf(row))
    BY <2>1, <2>3, <2>4
  <2>7. row.start = b.start
    OBVIOUS
  <2> HIDE DEF row
  <2>8. /\ g \in States /\ g.readOn = today /\ g.row = row /\ g.pc = "store"
        /\ g.patch = handler[h].patch
    BY <1>0, <2>1, <2>2, StatesType DEF Store
  <2> HIDE DEF g
  <2>9. handler'[h] = g
    BY <1>0, <2>5, <2>8, BecomeFact
  <2>10. ASSUME h = Cron PROVE RunInv'
    <3>1. SUFFICES ASSUME ~disturbed, LastOfPeriod(workspace, today)
                   PROVE  /\ handler'[Cron].pc = "store" /\ handler'[Cron].patch = Null
                          /\ handler'[Cron].row.start = TodaysPeriod.start
      BY <2>5 DEF RunInv, TodaysPeriod, tables, history
    <3>2. handler[Cron] = Gather(TodaysPeriod, workspace, Null)
      BY <1>0, <2>1, <2>10, <3>1 DEF RunInv, Check, Close, Idle
    <3>3. handler[Cron].patch = Null /\ b.start = TodaysPeriod.start
      BY <2>10, <3>2 DEF Gather
    <3>. QED  BY <2>7, <2>8, <2>9, <2>10, <3>3
  <2>. QED  BY <1>0, <2>5, <2>6, <2>8, <2>10, HandlerStep DEF history
<1>13. ASSUME NEW h \in Handlers, StoreSettlement(h) PROVE Goal
  BY <1>13, ForgottenStore
<1>14. ASSUME NEW h \in Handlers, Fail(h) PROVE Goal
  <2>1. Idle \in States /\ Idle.pc # "store" /\ Become(h, Idle)
    BY <1>14, StatesType DEF Idle, Fail
  <2>2. UNCHANGED <<today, tables, touched, closed>> /\ disturbed' = (disturbed \/ h = Cron)
    BY <1>14 DEF Fail
  <2>3. h # Cron \/ RunInv'
    BY <2>2 DEF RunInv
  <2>. QED  BY <2>1, <2>2, <2>3, HandlerStep
<1>15. CASE UNCHANGED vars
  <2>1. Kept /\ UNCHANGED <<today, workspace, settlement, handler, closed, disturbed>>
    BY <1>15 DEF vars, tables, history, Kept
  <2>. QED  BY <2>1, TransactionStep
<1>. QED  BY <1>1, <1>2, <1>3, <1>4, <1>5, <1>6, <1>7, <1>8, <1>9, <1>10, <1>11, <1>12,
             <1>13, <1>14, <1>15 DEF Next

LEMMA InvForgotten == ForgottenInv => NoExpenseForgotten
<1> DEFINE p == CurrentPeriod(workspace, today)
<1> SUFFICES ASSUME ForgottenInv, handler[Cron] = Idle, ~disturbed,
                    LastOfPeriod(workspace, today),
                    \A s \in settlement : s.start = p.start => s.start \in closed,
                    NEW t \in Transactions \ touched,
                    transaction[t] # Null, ~transaction[t].reconciled,
                    InTodaysPeriod(transaction[t].date)
             PROVE  Settled(t, p.start)
  BY DEF NoExpenseForgotten
<1>1. /\ ClosedInv /\ RunInv /\ EveryMonthHas(workspace.cutoffDay)
      /\ workspace \in Config /\ today \in Days /\ today \in Int
  BY ModelledFact DEF ForgottenInv, Inv, TypeOK, FitInv
<1>2. \E s \in settlement : s.start = p.start
  BY <1>1 DEF RunInv, TodaysPeriod, Idle, Check, Close, Gather
<1>3. PICK s \in settlement :
        /\ s.start = p.start
        /\ workspace.cycle # "INDEFINITE" => Covers(s.counted, p)
  BY <1>1, <1>2 DEF ClosedInv, TodaysPeriod
<1>4. workspace.cycle # "INDEFINITE" /\ p.end = today
  BY <1>1, LastIsEnd
<1>5. p.start \in Int /\ LastOfPeriod(workspace, p.start - 1)
  BY <1>1, <1>4, LastBeforeStart
<1>6. Within(transaction[t].date, p)
  <2> DEFINE d == transaction[t].date
  <2>1. d \in Int /\ d <= today
    <3>1. transaction[t] \in TransactionRow
      BY DEF ForgottenInv, Inv, TypeOK
    <3>. QED  BY <3>1, ModelledFact DEF TransactionRow, InTodaysPeriod
  <2>2. \A n \in d..(today - 1) : ~LastOfPeriod(workspace, n)
    BY DEF InTodaysPeriod
  <2> HIDE DEF d, p
  <2>3. p.start <= d
    <3>1. SUFFICES ASSUME d < p.start PROVE FALSE
      BY <1>5, <2>1
    <3>2. CASE p.start <= today
      <4>1. p.start - 1 \in d..(today - 1)
        BY <1>1, <1>5, <2>1, <3>1, <3>2
      <4>. QED  BY <1>5, <2>2, <4>1
    <3>3. CASE today < p.start
      <4>1. p.start <= p.end
        BY <1>1, <1>4, PeriodNotEmpty DEF p
      <4>. QED  BY <1>1, <1>4, <1>5, <3>3, <4>1
    <3>. QED  BY <1>1, <1>5, <3>2, <3>3
  <2>. QED  BY <1>1, <1>4, <1>5, <2>1, <2>3 DEF Within, d
<1>. QED  BY <1>3, <1>4, <1>6 DEF Covers, Settled

(* On the last day of a period, once the run of that day is over, every     *)
(* transaction of the period that has been as it is since before that day   *)
(* is in its settlement, whatever the other handlers and the clients did.   *)
THEOREM NoExpenseForgottenHolds ==
    ASSUME CutoffsFit PROVE Spec => []NoExpenseForgotten
<1>1. Init => ForgottenInv
  BY ForgottenInit
<1>2. ForgottenInv /\ [Next]_vars => ForgottenInv'
  BY ForgottenNext
<1>. QED  BY <1>1, <1>2, InvForgotten, PTL DEF Spec

-----------------------------------------------------------------------------
(* The current period has the day in it, with a cutoff that its month and   *)
(* the month before have.                                                   *)
LEMMA MonthlyWithin ==
    ASSUME NEW c \in 1..31, EveryMonthHas(c), NEW d \in Days
    PROVE  Within(d, MonthlyPeriod(c, d))
<1> DEFINE m == MonthOf(d)
           k == DayOf(d)
<1>1. /\ m \in Inner /\ d \in DaysOf(m) /\ d \in Int
      /\ k = d - FirstDay[m] + 1
  BY DayFact
<1>2. MonthlyPeriod(c, d) = IF k > c
          THEN [start |-> FirstDay[(m + 1) - 1] + c, end |-> FirstDay[m + 1] + c - 1]
          ELSE [start |-> FirstDay[m - 1] + c, end |-> FirstDay[m] + c - 1]
  BY DEF MonthlyPeriod
<1> HIDE DEF m, k
<1>3. /\ m \in FirstMonth..(FinalMonth - 1) /\ m - 1 \in FirstMonth..(FinalMonth - 1)
      /\ m + 1 \in FirstMonth..FinalMonth /\ (m - 1) + 1 = m
  BY <1>1 DEF Inner
<1>4. /\ FirstDay[m] \in Int /\ FirstDay[m - 1] \in Int /\ FirstDay[m + 1] \in Int
      /\ FirstDay[m] <= d /\ d < FirstDay[m + 1]
  BY <1>1, <1>3, MonthFact
<1>5. c <= FirstDay[m] - FirstDay[m - 1]
  <2>1. c <= FirstDay[(m - 1) + 1] - FirstDay[m - 1]
    BY <1>3 DEF EveryMonthHas
  <2>. QED  BY <1>3, <2>1
<1>6. c \in Int /\ c >= 1
  OBVIOUS
<1>7. CASE k > c
  <2>1. (m + 1) - 1 = m
    BY <1>3
  <2>2. MonthlyPeriod(c, d) = [start |-> FirstDay[m] + c, end |-> FirstDay[m + 1] + c - 1]
    BY <1>2, <1>7, <2>1
  <2>3. FirstDay[m] + c <= d /\ d <= FirstDay[m + 1] + c - 1
    BY <1>1, <1>4, <1>6, <1>7
  <2>. QED  BY <1>1, <1>4, <1>6, <2>2, <2>3 DEF Within
<1>8. CASE ~(k > c)
  <2>1. MonthlyPeriod(c, d) = [start |-> FirstDay[m - 1] + c, end |-> FirstDay[m] + c - 1]
    BY <1>2, <1>8
  <2>2. FirstDay[m - 1] + c <= d /\ d <= FirstDay[m] + c - 1
    BY <1>1, <1>4, <1>5, <1>6, <1>8
  <2>. QED  BY <1>1, <1>4, <1>6, <2>1, <2>2 DEF Within
<1>. QED  BY <1>7, <1>8

LEMMA CurrentWithin ==
    ASSUME NEW w \in Config, w.cycle # "INDEFINITE", EveryMonthHas(w.cutoffDay), NEW d \in Days
    PROVE  Within(d, CurrentPeriod(w, d))
<1>1. /\ w.cycle \in {"MONTHLY", "WEEKLY", "YEARLY"} /\ w.cutoffDay \in 1..31
      /\ w.weekStartDay \in 0..6 /\ w.yearStartMonth \in 1..12 /\ d \in Int
  BY ConfigFact, DayFact DEF Cycles
<1>2. CASE w.cycle = "MONTHLY"
  BY <1>1, <1>2, MonthlyWithin DEF CurrentPeriod
<1>3. CASE w.cycle = "WEEKLY"
  <2>1. PICK k \in Int : /\ WeeklyPeriod(w.weekStartDay, d) = [start |-> 7 * k + w.weekStartDay,
                                                       end |-> 7 * k + w.weekStartDay + 6]
                         /\ 7 * k + w.weekStartDay <= d /\ d <= 7 * k + w.weekStartDay + 6
    BY <1>1, WeekFact
  <2>. QED  BY <1>1, <1>3, <2>1 DEF CurrentPeriod, Within
<1>4. CASE w.cycle = "YEARLY"
  <2>1. PICK k \in Int :
              /\ 12 * k + w.yearStartMonth - 1 \in FirstMonth..(FinalMonth - 12)
              /\ YearlyPeriod(w.yearStartMonth, d)
                    = [start |-> FirstDay[12 * k + w.yearStartMonth - 1],
                       end   |-> FirstDay[12 * k + w.yearStartMonth - 1 + 12] - 1]
              /\ 12 * k + w.yearStartMonth - 1 <= MonthOf(d)
              /\ MonthOf(d) < 12 * k + w.yearStartMonth - 1 + 12
    BY <1>1, YearlyFact
  <2> DEFINE a == 12 * k + w.yearStartMonth - 1
             m == MonthOf(d)
  <2>2. YearlyPeriod(w.yearStartMonth, d) = [start |-> FirstDay[a], end |-> FirstDay[a + 12] - 1]
    BY <2>1
  <2>3. m \in Inner /\ d \in DaysOf(m) /\ a \in FirstMonth..(FinalMonth - 12) /\ a <= m /\ m < a + 12
    BY <2>1, DayFact
  <2> HIDE DEF a, m
  <2>4. /\ a \in FirstMonth..FinalMonth /\ a + 12 \in FirstMonth..FinalMonth
        /\ m \in FirstMonth..FinalMonth /\ m + 1 \in FirstMonth..FinalMonth
        /\ m \in FirstMonth..(FinalMonth - 1) /\ d \in DaysOf(m)
        /\ a <= m /\ m + 1 <= a + 12 /\ a \in Int /\ m \in Int
    BY <2>3 DEF Inner
  <2>5. FirstDay[a] <= FirstDay[m] /\ FirstDay[m + 1] <= FirstDay[a + 12]
    <3>1. \A i, j \in FirstMonth..FinalMonth :
             FirstDay[i] \in Int /\ FirstDay[j] \in Int /\ (i <= j => FirstDay[i] <= FirstDay[j])
      OBVIOUS
    <3>. QED  BY <2>4, <3>1
  <2>6. /\ FirstDay[m] <= d /\ d < FirstDay[m + 1] /\ FirstDay[m] \in Int /\ FirstDay[m + 1] \in Int
        /\ FirstDay[a] \in Int /\ FirstDay[a + 12] \in Int
    BY <2>4, MonthFact
  <2>7. FirstDay[a] <= d /\ d <= FirstDay[a + 12] - 1
    BY <1>1, <2>5, <2>6
  <2>. QED  BY <1>1, <1>4, <2>2, <2>6, <2>7 DEF CurrentPeriod, Within
<1>. QED  BY <1>1, <1>2, <1>3, <1>4

(* Only a cutoff that some month lacks takes today out of the period that   *)
(* getCurrentPeriodBounds computes for it.                                  *)
THEOREM TodayIsInPeriodHolds ==
    ASSUME CutoffsFit PROVE Spec => []TodayIsInPeriod
<1>1. Init => ForgottenInv
  BY ForgottenInit
<1>2. ForgottenInv /\ [Next]_vars => ForgottenInv'
  BY ForgottenNext
<1>3. ForgottenInv => TodayIsInPeriod
  BY CurrentWithin, ModelledFact DEF ForgottenInv, FitInv, Inv, TypeOK, TodayIsInPeriod
<1>. QED  BY <1>1, <1>2, <1>3, PTL DEF Spec
=============================================================================
