---------------------------- MODULE Subscriptions ----------------------------
(***************************************************************************)
(* Subscriptions: SubscriptionsScheduler.processDueSubscriptions, which at *)
(* midnight reads the subscriptions that are due and bills them one after  *)
(* another from the rows as they were read, beside the requests that       *)
(* create, change and deactivate them.                                     *)
(*                                                                         *)
(* A run is over before the next midnight; any await of it may throw or    *)
(* the process may die, which ends it.  Amount, currency and name are left *)
(* out, and so is the deletion of a workspace.  The members of a workspace *)
(* are notified alike: one of them stands for all.                         *)
(***************************************************************************)
EXTENDS Calendar

CONSTANTS
    Subscriptions,  \* ids of subscriptions
    ClientDates,    \* dates clients send
    Frequencies,    \* frequencies clients send
    DaysPerWeek, MonthsPerYear,     \* 7 and 12, or less on a short calendar
    MaxChanges,     \* bound on changes by clients
    MaxFailures,    \* bound on failed runs, failed requests, missed midnights
    Null

ASSUME SubscriptionsAssumption ==
    /\ ClientDates \subseteq Dates
    /\ Frequencies \subseteq {"MONTHLY", "WEEKLY", "YEARLY"}
    /\ DaysPerWeek \in Nat \ {0} /\ MonthsPerYear \in Nat \ {0}
    /\ MaxChanges \in Nat /\ MaxFailures \in Nat

(* Months are longer than weeks, and no month is longer than two others, so *)
(* that what rolls over stays within the next one.                          *)
ASSUME CalendarAssumption ==
    /\ \A m \in 0..LastMonth : DaysPerWeek <= Length[m]
    /\ \A m, n, k \in 0..LastMonth : Length[m] <= Length[n] + Length[k]
    /\ \A d \in ClientDates : d.month + MonthsPerYear < LastMonth

VARIABLES
    subscription,   \* id -> row, or Null before it is created
    category,       \* is there a category 'Subscriptions' without workspace?
    opening,        \* subscriptions whose create has still to insert its transaction
    today, pc, current, batch,      \* the scheduler, as in Installments
    changes, failures,              \* bounds
    billed,     \* id -> due date -> transactions of the run since its date was set
    lost,       \* history: those of them that a run left without a new date
    changed,    \* history: subscriptions with another date since midnight
    stopped     \* history: id -> "no", or what a client stopped: "held" as
                \* long as the run may hold its row, then "stopped"

run     == <<today, pc, current, batch>>
bounds  == <<changes, failures>>
history == <<billed, lost, changed, stopped>>
vars    == <<subscription, category, opening, run, bounds, history>>

Row == [frequency : Frequencies, nextBillingDate : Dates, isActive : BOOLEAN]

ASSUME NullAssumption == Null \notin Subscriptions /\ Null \notin Dates /\ Null \notin Row

Nothing == [s \in Subscriptions |-> Null]
NoBills == [d \in Dates |-> 0]
Created(s) == subscription[s] # Null

(* setMonth(+1), setDate(+7) and setFullYear(+1). *)
Following(d, frequency) == CASE frequency = "MONTHLY" -> PlusMonths(d, 1)
                             [] frequency = "WEEKLY"  -> PlusDays(d, DaysPerWeek)
                             [] frequency = "YEARLY"  -> PlusMonths(d, MonthsPerYear)

-----------------------------------------------------------------------------
Init ==
    /\ subscription = Nothing
    /\ category \in BOOLEAN
    /\ opening = {}
    /\ today = [month |-> 0, day |-> 1] /\ pc = "idle" /\ current = Null /\ batch = Nothing
    /\ changes = 0 /\ failures = 0
    /\ billed = [s \in Subscriptions |-> NoBills]
    /\ lost = billed
    /\ changed = {} /\ stopped = [s \in Subscriptions |-> "no"]

Insert(s, frequency, date) ==
    /\ ~Created(s)
    /\ today.month = 0      \* bound: nothing is created later
    /\ subscription' = [subscription EXCEPT ![s] =
            [frequency |-> frequency, nextBillingDate |-> date, isActive |-> TRUE]]
    /\ UNCHANGED <<category, run, bounds, history>>

(* SubscriptionsService.create. *)
Create(s, frequency, date) == Insert(s, frequency, date) /\ UNCHANGED opening

(* TransactionsService.create with a subscriptionFrequency inserts the      *)
(* subscription first, due one period after the transaction's date ...      *)
CreateFirst(s, frequency, date) ==
    /\ Insert(s, frequency, Following(date, frequency))
    /\ opening' = opening \cup {s}

(* ... and then its transaction. *)
OpenFirst(s) ==
    /\ s \in opening
    /\ opening' = opening \ {s}
    /\ UNCHANGED <<subscription, category, run, bounds, history>>

(* If that insert fails, the subscription stays and bills. *)
FailFirst(s) ==
    /\ s \in opening
    /\ failures < MaxFailures
    /\ failures' = failures + 1
    /\ opening' = opening \ {s}
    /\ UNCHANGED <<subscription, category, run, changes, history>>

(* The history of a row that is stopped or set going again. *)
Stop(s, active) ==
    stopped' = [stopped EXCEPT ![s] = IF active THEN "no"
                                      ELSE IF @ # "no" THEN @
                                      ELSE IF batch[s] # Null THEN "held" ELSE "stopped"]

(* SubscriptionsService.update: any of the three fields, a date of Null     *)
(* being one that the DTO leaves out.                                       *)
Update(s, frequency, date, active) ==
    /\ Created(s)
    /\ changes < MaxChanges
    /\ changes' = changes + 1
    /\ subscription' = [subscription EXCEPT ![s] =
            [frequency |-> frequency, isActive |-> active,
             nextBillingDate |-> IF date = Null THEN @.nextBillingDate ELSE date]]
    /\ IF date = Null THEN UNCHANGED <<billed, lost, changed>>
       ELSE /\ billed' = [billed EXCEPT ![s] = NoBills]
            /\ lost' = [lost EXCEPT ![s] = NoBills]
            /\ changed' = changed \cup {s}
    /\ Stop(s, active)
    /\ UNCHANGED <<category, opening, run, failures>>

(* SubscriptionsService.deactivate. *)
Deactivate(s) ==
    /\ Created(s)
    /\ subscription' = [subscription EXCEPT ![s].isActive = FALSE]
    /\ Stop(s, FALSE)
    /\ UNCHANGED <<category, opening, run, bounds, billed, lost, changed>>

(* The run takes any category of that name without a workspace: clients'    *)
(* personal categories are such rows.  One is deleted when no transaction   *)
(* refers to it (any more).                                                 *)
SetCategory(there) ==
    /\ changes < MaxChanges
    /\ changes' = changes + 1
    /\ category' = there
    /\ UNCHANGED <<subscription, opening, run, failures, history>>

-----------------------------------------------------------------------------
(* Fault: only what is due on the very day is billed. *)
IsDueToday(row, date) == row.isActive /\ row.nextBillingDate = date

(* Fault: a deactivated subscription is billed. *)
IsDueAnyway(row, date) == UpTo(row.nextBillingDate, date)

IsDue(row, date) == row.isActive /\ UpTo(row.nextBillingDate, date)

(* Bound: the calendar has room for the date after one that is due. *)
LastNight == today.month + MonthsPerYear + 1 >= LastMonth

Midnight ==
    /\ pc = "idle" /\ ~LastNight
    /\ today' = Tomorrow(today)
    /\ pc' = "next"
    /\ batch' = [s \in Subscriptions |->
                    IF Created(s) /\ IsDue(subscription[s], today') THEN subscription[s] ELSE Null]
    /\ changed' = {}
    /\ stopped' = [s \in Subscriptions |-> IF stopped[s] = "no" THEN "no" ELSE "stopped"]
    /\ UNCHANGED <<subscription, category, opening, current, bounds, billed, lost>>

(* Midnight while the process is down. *)
MissMidnight ==
    /\ pc = "idle" /\ ~LastNight
    /\ failures < MaxFailures
    /\ failures' = failures + 1
    /\ today' = Tomorrow(today)
    /\ UNCHANGED <<subscription, category, opening, pc, current, batch, changes, history>>

(* Fault: without the category the date is moved on all the same. *)
FindCategoryAdvancing(s) ==
    /\ pc = "next" /\ batch[s] # Null
    /\ pc' = (IF category THEN "found" ELSE "billed") /\ current' = s
    /\ UNCHANGED <<subscription, category, opening, today, batch, bounds, history>>

(* category.findFirst: without the category the subscription is skipped. *)
FindCategory(s) ==
    /\ pc = "next" /\ batch[s] # Null
    /\ IF category THEN pc' = "found" /\ current' = s /\ UNCHANGED batch
       ELSE batch' = [batch EXCEPT ![s] = Null] /\ UNCHANGED <<pc, current>>
    /\ UNCHANGED <<subscription, category, opening, today, bounds, history>>

DueDate == batch[current].nextBillingDate

(* transaction.create. *)
Bill ==
    /\ pc = "found" /\ category
    /\ billed' = [billed EXCEPT ![current][DueDate] = @ + 1]
    /\ pc' = "billed"
    /\ UNCHANGED <<subscription, category, opening, today, current, batch, bounds,
                   lost, changed, stopped>>

(* Fault: the whole row is written back. *)
AdvancedWhole(row, read) ==
    [read EXCEPT !.nextBillingDate = Following(read.nextBillingDate, read.frequency)]

(* Fault: the date is left as it was. *)
AdvancedNot(row, read) == row

(* The row after subscription.update({data: {nextBillingDate}}): the date   *)
(* and the frequency it follows from are those read at midnight.            *)
Advanced(row, read) ==
    [row EXCEPT !.nextBillingDate = Following(read.nextBillingDate, read.frequency)]

(* The SUBSCRIPTION_BILLED notifications that follow write nothing that is  *)
(* read here; one that throws ends the run, as FailRun does right after.    *)
Advance ==
    /\ pc = "billed"
    /\ subscription' = [subscription EXCEPT ![current] = Advanced(@, batch[current])]
    /\ pc' = "next" /\ current' = Null
    /\ batch' = [batch EXCEPT ![current] = Null]
    /\ UNCHANGED <<category, opening, today, bounds, history>>

Finish ==
    /\ pc = "next" /\ batch = Nothing
    /\ pc' = "idle"
    /\ UNCHANGED <<subscription, category, opening, today, current, batch, bounds, history>>

(* An exception ends the run, and the rest of the list waits for midnight. *)
Abort ==
    /\ pc' = "idle" /\ current' = Null /\ batch' = Nothing
    /\ lost' = IF pc = "billed" THEN [lost EXCEPT ![current][DueDate] = @ + 1] ELSE lost
    /\ UNCHANGED <<subscription, category, opening, today, changes,
                   billed, changed, stopped>>

(* The category is deleted before the insert, which throws. *)
AbortBill == pc = "found" /\ ~category /\ UNCHANGED failures /\ Abort

FailRun ==
    /\ pc # "idle"
    /\ failures < MaxFailures
    /\ failures' = failures + 1
    /\ Abort

-----------------------------------------------------------------------------
Scheduler ==
    \/ \E s \in Subscriptions : FindCategory(s)
    \/ Bill \/ AbortBill \/ Advance \/ Finish

Client ==
    \/ \E s \in Subscriptions, f \in Frequencies, d \in ClientDates :
          Create(s, f, d) \/ CreateFirst(s, f, d)
    \/ \E s \in Subscriptions : OpenFirst(s) \/ FailFirst(s) \/ Deactivate(s)
    \/ \E s \in Subscriptions, f \in Frequencies, d \in ClientDates \cup {Null},
          active \in BOOLEAN : Update(s, f, d, active)
    \/ \E there \in BOOLEAN : SetCategory(there)

Next == Client \/ Scheduler \/ Midnight \/ MissMidnight \/ FailRun

Spec == Init /\ [][Next]_vars

(* As in Installments: an await settles, and the clock does not stop. *)
FairSpec == Spec /\ WF_vars(Scheduler) /\ WF_vars(Midnight)

-----------------------------------------------------------------------------
TypeOK ==
    /\ subscription \in [Subscriptions -> Row \cup {Null}]
    /\ batch \in [Subscriptions -> Row \cup {Null}]
    /\ category \in BOOLEAN
    /\ opening \subseteq Subscriptions /\ changed \subseteq Subscriptions
    /\ today \in Dates
    /\ pc \in {"idle", "next", "found", "billed"}
    /\ current \in Subscriptions \cup {Null}
    /\ changes \in 0..MaxChanges /\ failures \in 0..MaxFailures
    /\ billed \in [Subscriptions -> [Dates -> Nat]]
    /\ lost \in [Subscriptions -> [Dates -> Nat]]
    /\ stopped \in [Subscriptions -> {"no", "held", "stopped"}]

(* Since a client last set its date, a subscription is billed once for each *)
(* due date, and once more for every run that died between its transaction  *)
(* and its new date: the next night finds the old date.                     *)
BilledOnce ==
    \A s \in Subscriptions, d \in Dates : billed[s][d] <= 1 + lost[s][d]

(* The run moves no date on that it has not billed, whatever happened to    *)
(* the row since midnight; only a date that a client set meanwhile may be   *)
(* overwritten, unbilled, by the one that follows from the row as read.     *)
NoDueDateSkipped ==
    [][\A s \in Subscriptions :
          Advance /\ s = current /\ s \notin changed
          => /\ billed[s][subscription[s].nextBillingDate] > 0
             /\ Before(subscription[s].nextBillingDate, subscription'[s].nextBillingDate)]_vars

(* A subscription that a client stopped is not billed again, except once by *)
(* a run that already held its row: unlike an installment purchase it is    *)
(* never set going again by what the run writes.                            *)
StoppedForGood ==
    [][Bill => stopped[current] # "stopped"]_vars

(* Dates that enough nights follow for a failed run and a missed midnight.  *)
EarlyEnough(d) == d.month + MonthsPerYear + 3 <= LastMonth

Pending(s) ==
    /\ Created(s) /\ subscription[s].isActive
    /\ EarlyEnough(subscription[s].nextBillingDate)

(* What is due is billed in the end, and then due later, in spite of runs   *)
(* that die and midnights that are missed, unless the category is missing   *)
(* (or the end of the calendar too near).                                   *)
CaughtUp ==
    \A s \in Subscriptions :
        Pending(s) /\ EarlyEnough(today) ~> ~Pending(s) \/ ~category

(* "advances nextBillingDate by one month for MONTHLY frequency". *)
OneBillingPerMonth ==
    [][\A s \in Subscriptions :
          Advance /\ s = current /\ batch[s].frequency = "MONTHLY"
          => subscription'[s].nextBillingDate.month = batch[s].nextBillingDate.month + 1]_vars
=============================================================================
