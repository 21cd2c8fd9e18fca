---------------------------- MODULE Installments ----------------------------
(***************************************************************************)
(* Purchases in installments: InstallmentsService.create and cancel, and   *)
(* InstallmentsScheduler.processDueInstallments, which at midnight reads   *)
(* the due purchases once and then charges them one by one, each from the  *)
(* row as it was read.                                                     *)
(*                                                                         *)
(* A run of the scheduler is over before the next midnight; any await of   *)
(* it may throw or the process may die, which ends the run, and a midnight *)
(* passes without a run while the process is down.  Recalculating the      *)
(* balance (module Ledger) and the budget check write nothing that is read *)
(* here: they belong to the await that follows the charge.  A workspace    *)
(* with purchases is not deleted.  The members of a workspace are notified *)
(* alike: one of them stands for all.  Clients may relate transactions of  *)
(* their own to a purchase and a number; nothing reads those, and they are *)
(* no charges.                                                             *)
(***************************************************************************)
EXTENDS Calendar

CONSTANTS
    Purchases,          \* ids of purchases
    Cards,              \* ids of credit cards
    Days,               \* days of the month clients choose, 1 to 31
    CardDays,           \* close days of cards: any integer
    MaxInstallments,    \* bound on totalInstallments
    MaxFailures,        \* bound on failed runs, failed requests, missed midnights
    LastPurchaseMonth,  \* bound: the last month in which something is bought
    Null

ASSUME BoundsAssumption ==
    /\ MaxInstallments \in Nat \ {0, 1}
    /\ MaxFailures \in Nat
    /\ LastPurchaseMonth \in Nat
    /\ LastPurchaseMonth < LastMonth

(* The DTO of a card does not restrict its close day.  Bound: one that is 0 *)
(* or less counts back by no more than a month.                             *)
ASSUME DaysAssumption ==
    /\ Days \subseteq Nat \ {0}
    /\ CardDays \subseteq Int
    /\ \A day \in CardDays, m \in 0..LastMonth : Length[m] + day > 0

ASSUME NullAssumption ==
    /\ Null \notin Purchases
    /\ Null \notin Cards
    /\ Null \notin Days \cup CardDays

VARIABLES
    purchase,   \* purchase id -> row, or Null before it is bought
    card,       \* card id -> its statementCloseDay, or Null once deleted
    charged,    \* purchase id -> installment number -> transactions that create
                \* and the run inserted for it
    announced,  \* the same for INSTALLMENT_CHARGED notifications
    opening,    \* <<p, cardId>>: creates that have still to insert transaction 1
    today,
    pc,         \* the scheduler: "idle", "next", "charged" or "counted"
    current,    \* the purchase its loop is at
    batch,      \* purchase id -> the row as it was read at midnight, or Null
    failures,   \* how much has failed so far
    lost,       \* history: transactions whose run died before counting them
    unopened,   \* history: purchases whose create ended without transaction 1
    cancelled   \* history: purchases cancelled while no run held their row

rows    == <<purchase, card, charged, announced>>
run     == <<pc, current, batch>>
history == <<lost, unopened, cancelled>>
vars    == <<rows, opening, today, run, failures, history>>

Numbers == 1..MaxInstallments

(* dateMode STATEMENT is fixedDay = NULL. *)
Row == [installmentsPaid : Numbers, totalInstallments : Numbers, isActive : BOOLEAN,
        nextChargeDate : Dates, cardId : Cards \cup {Null}, fixedDay : Days \cup {Null}]

ASSUME NoRowAssumption == Null \notin Row

Bought(p) == purchase[p] # Null

(* A foreign key to a card can be stored: it is NULL or the card is there. *)
CanRefer(c) == c # Null => card[c] # Null

Nothing == [p \in Purchases |-> Null]
NoneOf  == [p \in Purchases |-> [n \in Numbers |-> 0]]

-----------------------------------------------------------------------------
Init ==
    /\ purchase = Nothing
    /\ card \in [Cards -> CardDays]
    /\ charged = NoneOf
    /\ announced = NoneOf
    /\ opening = {}
    /\ today = [month |-> 0, day |-> 1]
    /\ pc = "idle"
    /\ current = Null
    /\ batch = Nothing
    /\ failures = 0
    /\ lost = NoneOf
    /\ unopened = {}
    /\ cancelled = {}

(* InstallmentsService.create up to its first insert: resolveChargeDay      *)
(* takes the fixed day or the close day of the card, which a purchase in    *)
(* STATEMENT mode must have.  The first installment counts as paid although *)
(* its transaction is not there yet.                                        *)
Buy(p, total, c, day) ==
    /\ ~Bought(p)
    /\ today.month <= LastPurchaseMonth
    /\ CanRefer(c)
    /\ day = Null => c # Null
    /\ purchase' = [purchase EXCEPT ![p] =
            [installmentsPaid |-> 1, totalInstallments |-> total, isActive |-> TRUE,
             nextChargeDate |-> NextOccurrence(today, IF day = Null THEN card[c] ELSE day),
             cardId |-> c, fixedDay |-> day]]
    /\ opening' = opening \cup {<<p, c>>}
    /\ UNCHANGED <<card, charged, announced, today, run, failures, history>>

(* ... and its call of TransactionsService.create with number 1. *)
OpenFirst(p, c) ==
    /\ <<p, c>> \in opening
    /\ CanRefer(c)
    /\ charged' = [charged EXCEPT ![p][1] = @ + 1]
    /\ opening' = opening \ {<<p, c>>}
    /\ UNCHANGED <<purchase, card, announced, today, run, failures, history>>

NotOpened(p, c) ==
    /\ <<p, c>> \in opening
    /\ opening' = opening \ {<<p, c>>}
    /\ unopened' = unopened \cup {p}
    /\ UNCHANGED <<rows, today, run, lost, cancelled>>

(* That call refuses a card deleted meanwhile: the purchase stays, without  *)
(* transaction 1.                                                           *)
RefuseFirst(p, c) == ~CanRefer(c) /\ NotOpened(p, c) /\ UNCHANGED failures

(* Likewise if the call fails or the process dies before it. *)
FailFirst(p, c) ==
    /\ failures < MaxFailures
    /\ failures' = failures + 1
    /\ NotOpened(p, c)

(* InstallmentsService.cancel. *)
Cancel(p) ==
    /\ Bought(p)
    /\ purchase' = [purchase EXCEPT ![p].isActive = FALSE]
    /\ cancelled' = IF batch[p] = Null THEN cancelled \cup {p} ELSE cancelled
    /\ UNCHANGED <<card, charged, announced, opening, today, run, failures, lost, unopened>>

(* AccountsService.updateCard: another close day. *)
UpdateCard(c, day) ==
    /\ card[c] # Null
    /\ card' = [card EXCEPT ![c] = day]
    /\ UNCHANGED <<purchase, charged, announced, opening, today, run, failures, history>>

(* AccountsService.removeCard, or the deletion of its account: the foreign  *)
(* key of purchases is ON DELETE SET NULL.                                  *)
RemoveCard(c) ==
    /\ card[c] # Null
    /\ card' = [card EXCEPT ![c] = Null]
    /\ purchase' = [p \in Purchases |->
                       IF Bought(p) /\ purchase[p].cardId = c
                       THEN [purchase[p] EXCEPT !.cardId = Null]
                       ELSE purchase[p]]
    /\ UNCHANGED <<charged, announced, opening, today, run, failures, history>>

-----------------------------------------------------------------------------
(* Fault: a purchase that is not active is charged. *)
IsDueAnyway(row, date) ==
    /\ UpTo(row.nextChargeDate, date)
    /\ row.installmentsPaid < row.totalInstallments

(* Fault: only the purchases due on the very day are charged. *)
IsDueToday(row, date) ==
    /\ row.isActive
    /\ row.nextChargeDate = date
    /\ row.installmentsPaid < row.totalInstallments

(* What the query selects and the loop does not skip. *)
IsDue(row, date) ==
    /\ row.isActive
    /\ UpTo(row.nextChargeDate, date)
    /\ row.installmentsPaid < row.totalInstallments

(* Midnight: the scheduler reads the purchases that are due. *)
Midnight ==
    /\ pc = "idle"
    /\ today.month < LastMonth - 1
    /\ today' = Tomorrow(today)
    /\ pc' = "next"
    /\ batch' = [p \in Purchases |->
                    IF Bought(p) /\ IsDue(purchase[p], today') THEN purchase[p] ELSE Null]
    /\ UNCHANGED <<rows, opening, current, failures, history>>

(* Midnight while the process is down. *)
MissMidnight ==
    /\ pc = "idle"
    /\ today.month < LastMonth - 1
    /\ failures < MaxFailures
    /\ failures' = failures + 1
    /\ today' = Tomorrow(today)
    /\ UNCHANGED <<rows, opening, run, history>>

NumberAt(p) == batch[p].installmentsPaid + 1

(* prisma.transaction.create with the next number of the row as it was read. *)
Charge(p) ==
    /\ pc = "next"
    /\ batch[p] # Null
    /\ CanRefer(batch[p].cardId)
    /\ charged' = [charged EXCEPT ![p][NumberAt(p)] = @ + 1]
    /\ pc' = "charged"
    /\ current' = p
    /\ UNCHANGED <<purchase, card, announced, opening, today, batch, failures, history>>

(* Fault: the last installment is not recognised. *)
CountedRowOffByOne(row, read, day) ==
    [row EXCEPT !.installmentsPaid = read.installmentsPaid + 1,
                !.nextChargeDate = IF day = Null THEN read.nextChargeDate
                                   ELSE NextOccurrence(read.nextChargeDate, day),
                !.isActive = read.installmentsPaid < read.totalInstallments]

(* Fault: the charge is not counted. *)
CountedRowStuck(row, read, day) ==
    [row EXCEPT !.isActive = TRUE]

(* What prisma.installmentPurchase.update makes of a row: the counter, the  *)
(* date and isActive all come from the row read at midnight.  "!day" also   *)
(* holds of 0: the date stays.                                              *)
CountedRow(row, read, day) ==
    LET number == read.installmentsPaid + 1
        last   == number >= read.totalInstallments
    IN  [row EXCEPT !.installmentsPaid = number,
                    !.nextChargeDate = IF last \/ day \in {Null, 0} THEN read.nextChargeDate
                                       ELSE NextOccurrence(read.nextChargeDate, day),
                    !.isActive = ~last]

(* In STATEMENT mode card.findUnique throws when the cardId that was read   *)
(* is NULL, and finds nothing when the card has been deleted since.         *)
NoCardToAsk(row) == row.fixedDay = Null /\ row.cardId = Null

ChargeDay(row) == IF row.fixedDay = Null THEN card[row.cardId] ELSE row.fixedDay

(* Count the charge. *)
Count ==
    /\ pc = "charged"
    /\ ~NoCardToAsk(batch[current])
    /\ purchase' = [purchase EXCEPT ![current] =
                       CountedRow(@, batch[current], ChargeDay(batch[current]))]
    /\ pc' = "counted"
    /\ UNCHANGED <<card, charged, announced, opening, today, current, batch, failures, history>>

(* The INSTALLMENT_CHARGED notification of a member of the workspace. *)
Announce ==
    /\ pc = "counted"
    /\ announced' = [announced EXCEPT ![current][NumberAt(current)] = @ + 1]
    /\ pc' = "next"
    /\ current' = Null
    /\ batch' = [batch EXCEPT ![current] = Null]
    /\ UNCHANGED <<purchase, card, charged, opening, today, failures, history>>

Finish ==
    /\ pc = "next"
    /\ batch = Nothing
    /\ pc' = "idle"
    /\ UNCHANGED <<rows, opening, today, current, batch, failures, history>>

(* An exception leaves the whole loop: the purchases still in the batch wait *)
(* for the next midnight, and a charge that was not counted stays uncounted. *)
Abort ==
    /\ pc' = "idle"
    /\ current' = Null
    /\ batch' = Nothing
    /\ lost' = IF pc = "charged" THEN [lost EXCEPT ![current][NumberAt(current)] = @ + 1]
                                 ELSE lost
    /\ UNCHANGED <<rows, opening, today, unopened, cancelled>>

(* transaction.create is refused: the card of the row read is gone. *)
AbortCharge(p) ==
    /\ pc = "next"
    /\ batch[p] # Null
    /\ ~CanRefer(batch[p].cardId)
    /\ UNCHANGED failures
    /\ Abort

AbortCount == pc = "charged" /\ NoCardToAsk(batch[current]) /\ UNCHANGED failures /\ Abort

FailRun ==
    /\ pc # "idle"
    /\ failures < MaxFailures
    /\ failures' = failures + 1
    /\ Abort

-----------------------------------------------------------------------------
Scheduler ==
    \/ \E p \in Purchases : Charge(p) \/ AbortCharge(p)
    \/ Count \/ AbortCount \/ Announce \/ Finish

Client ==
    \/ \E p \in Purchases, total \in 2..MaxInstallments,
          c \in Cards \cup {Null}, day \in Days \cup {Null} : Buy(p, total, c, day)
    \/ \E p \in Purchases, c \in Cards \cup {Null} :
          OpenFirst(p, c) \/ RefuseFirst(p, c) \/ FailFirst(p, c)
    \/ \E p \in Purchases : Cancel(p)
    \/ \E c \in Cards : RemoveCard(c) \/ \E day \in CardDays : UpdateCard(c, day)

Next == Client \/ Scheduler \/ Midnight \/ MissMidnight \/ FailRun

Spec == Init /\ [][Next]_vars

(* Node runs a handler on as soon as its await has settled, and the clock   *)
(* and the cron timer do not stop.                                          *)
FairSpec == Spec /\ WF_vars(Scheduler) /\ WF_vars(Midnight)

-----------------------------------------------------------------------------
TypeOK ==
    /\ purchase \in [Purchases -> Row \cup {Null}]
    /\ card \in [Cards -> CardDays \cup {Null}]
    /\ charged \in [Purchases -> [Numbers -> Nat]]
    /\ announced \in [Purchases -> [Numbers -> Nat]]
    /\ opening \subseteq Purchases \X (Cards \cup {Null})
    /\ today \in Dates
    /\ pc \in {"idle", "next", "charged", "counted"}
    /\ current \in Purchases \cup {Null}
    /\ batch \in [Purchases -> Row \cup {Null}]
    /\ failures \in 0..MaxFailures
    /\ lost \in [Purchases -> [Numbers -> Nat]]
    /\ unopened \subseteq Purchases
    /\ cancelled \subseteq Purchases

Opened(p) == p \notin unopened /\ \A c \in Cards \cup {Null} : <<p, c>> \notin opening

(* Installment n of p has a transaction besides those of dead runs. *)
Accounted(p, n) ==
    \/ n <= purchase[p].installmentsPaid /\ (n = 1 => Opened(p))
    \/ pc = "charged" /\ current = p /\ n = NumberAt(p)

(* The counter and the transactions agree: an installment counted as paid   *)
(* has exactly one transaction, one not counted has none, except for the    *)
(* charge in progress, the charges of runs that died before counting, and a *)
(* first installment whose create died.  Concurrent cancellations and card  *)
(* changes, and rows as old as the start of the run, do not disturb it.     *)
ChargeAccounting ==
    \A p \in Purchases, n \in Numbers :
        charged[p][n] = lost[p][n] + IF Bought(p) /\ Accounted(p, n) THEN 1 ELSE 0

PaidUp(p) ==
    Bought(p) /\ purchase[p].installmentsPaid = purchase[p].totalInstallments

Closed(p) == Bought(p) /\ ~purchase[p].isActive

(* A purchase is never charged past its total, and one that is paid up is   *)
(* closed, whatever a run writes from the row it read.                      *)
PaidUpIsClosed ==
    \A p \in Purchases :
        /\ Bought(p) => purchase[p].installmentsPaid <= purchase[p].totalInstallments
        /\ PaidUp(p) => Closed(p)

(* However often an installment is charged again after runs that died, a    *)
(* member is told of it at most once, and never of one that is not counted. *)
AnnouncedOnce ==
    \A p \in Purchases, n \in Numbers :
        announced[p][n] <= IF Bought(p) /\ n <= purchase[p].installmentsPaid THEN 1 ELSE 0

(* A purchase cancelled while no run held its row is never charged again.   *)
(* (One cancelled during a run is: the run writes isActive = true back.)    *)
CancelIsFinal ==
    [][\A p \in cancelled, n \in 2..MaxInstallments : charged'[p][n] = charged[p][n]]_vars

(* A purchase in STATEMENT mode that has lost its card. *)
Orphan(p) == Bought(p) /\ NoCardToAsk(purchase[p])

(* Runs that die and midnights that are missed delay a purchase but never   *)
(* lose it: in the end it is closed, paid up or cancelled, unless some      *)
(* purchase has become an orphan (its exception may end every run first).   *)
ClosedInTheEnd ==
    \A p \in Purchases :
        Bought(p) ~> Closed(p) \/ \E q \in Purchases : Orphan(q)

(* "dateMode STATEMENT requires ... a cardId", and "purchase.cardId as      *)
(* string": a STATEMENT purchase that the scheduler counts has a card.      *)
StatementHasCard ==
    pc = "charged" => ~NoCardToAsk(batch[current])
=============================================================================
