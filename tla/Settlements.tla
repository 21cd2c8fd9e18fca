---------------------------- MODULE Settlements -----------------------------
(***************************************************************************)
(* The settlements of one workspace: closeCurrentPeriod, which three       *)
(* handlers call (the midnight run, closeNow, and update when the cycle    *)
(* changes), interleaved with each other and with clients that enter, edit *)
(* and reconcile transactions.  Closing takes three awaits: the workspace  *)
(* is read, then its transactions, then the settlement is upserted.        *)
(*                                                                         *)
(* The balances of a settlement are a function of the transactions it      *)
(* counts, which stand for them here.  Dates are days: a transaction of    *)
(* today is not later than now, one of the day the workspace was created   *)
(* not earlier.  The run reads all workspaces at once and then goes        *)
(* through them; the other workspaces are the delay between CheckDue and   *)
(* ReadWorkspace.  A run is over before the next midnight.  The workspace  *)
(* is not deleted.                                                         *)
(***************************************************************************)
EXTENDS Periods, FiniteSets

CONSTANTS
    Transactions,   \* ids of transactions of the workspace
    Requests,       \* requests to closeNow and to update
    Cron,           \* WorkspacesScheduler.autoCloseWorkspacePeriods
    Workspaces,     \* configurations of the workspace: a set of Config
    Patches,        \* bodies of update: a set of Patch
    CreatedAt,      \* the day the workspace was created
    Dates,          \* dates clients choose for transactions
    LastDay,        \* bound: the last day modelled
    Null

Config == [cycle : Cycles, cutoffDay : 1..31, weekStartDay : 0..6, yearStartMonth : 1..12]

(* A field that a body does not have is Null. *)
Patch == [cycle          : Cycles \cup {Null},
          cutoffDay      : (1..31) \cup {Null},
          weekStartDay   : (0..6) \cup {Null},
          yearStartMonth : (1..12) \cup {Null}]

ASSUME ConfigAssumption == Workspaces \subseteq Config /\ Patches \subseteq Patch

Modelled == CreatedAt..LastDay

ASSUME DaysAssumption ==
    /\ CreatedAt \in Int /\ LastDay \in Int
    /\ CreatedAt <= LastDay
    /\ Modelled \subseteq Days
    /\ Dates \subseteq Modelled

ASSUME HandlersAssumption == Cron \notin Requests /\ Null \notin Patches

VARIABLES
    today,
    workspace,      \* its row
    transaction,    \* id -> row, or Null
    settlement,     \* the rows of WorkspaceSettlement
    handler,        \* what each handler holds between two awaits
    touched,        \* history: the transactions written today
    closed,         \* history: starts of settlements read and stored today under the row as it is
    disturbed       \* history: today's run failed, or the row changed today

tables  == <<workspace, transaction, settlement>>
history == <<touched, closed, disturbed>>
vars    == <<today, tables, handler, history>>

Handlers == Requests \cup {Cron}

TransactionRow == [date : Dates, reconciled : BOOLEAN]

(* What a settlement or a handler has counted. *)
Counts == SUBSET (Transactions \X Dates)

(* under is history: the configuration that determined the period. *)
SettlementRow == [start : Int, end : Int, counted : Counts, status : {"PENDING", "SETTLED"},
                  under : Config]

Idle                       == [pc |-> "idle"]
Check                      == [pc |-> "check"]
Close(patch)               == [pc |-> "close", patch |-> patch]
Gather(period, w, patch)   == [pc |-> "gather", period |-> period, under |-> w, patch |-> patch]
Store(row, readOn, patch)  == [pc |-> "store", row |-> row, readOn |-> readOn, patch |-> patch]
Update(patch)              == [pc |-> "update", patch |-> patch]

Become(h, state) == handler' = [handler EXCEPT ![h] = state]

-----------------------------------------------------------------------------
Init ==
    /\ today = CreatedAt
    /\ workspace \in Workspaces
    /\ transaction = [t \in Transactions |-> Null]
    /\ settlement = {}
    /\ handler = [h \in Handlers |-> Idle]
    /\ touched = {}
    /\ closed = {}
    /\ disturbed = TRUE

(* TransactionsService.create and update: a date chosen by the client. *)
Enter(t, date) ==
    /\ transaction' = [transaction EXCEPT ![t] =
            [date |-> date, reconciled |-> IF @ = Null THEN FALSE ELSE @.reconciled]]
    /\ touched' = touched \cup {t}
    /\ UNCHANGED <<today, workspace, settlement, handler, closed, disturbed>>

(* TransactionsService.remove. *)
Remove(t) ==
    /\ transaction[t] # Null
    /\ transaction' = [transaction EXCEPT ![t] = Null]
    /\ touched' = touched \cup {t}
    /\ UNCHANGED <<today, workspace, settlement, handler, closed, disturbed>>

(* TransactionsService.reconcileMany, ExpenseGroupsService.reconcile. *)
Reconcile(t, reconciled) ==
    /\ transaction[t] # Null
    /\ transaction' = [transaction EXCEPT ![t].reconciled = reconciled]
    /\ touched' = touched \cup {t}
    /\ UNCHANGED <<today, workspace, settlement, handler, closed, disturbed>>

(* WorkspacesService.updateSettlementStatus: the body can only say SETTLED. *)
UpdateStatus(s) ==
    /\ settlement' = (settlement \ {s}) \cup {[s EXCEPT !.status = "SETTLED"]}
    /\ UNCHANGED <<today, workspace, transaction, handler, history>>

-----------------------------------------------------------------------------
(* closeNow, for which the cycle must be INDEFINITE. *)
StartCloseNow(r) ==
    /\ handler[r] = Idle
    /\ workspace.cycle = "INDEFINITE"
    /\ Become(r, Close(Null))
    /\ UNCHANGED <<today, tables, history>>

(* update closes the current period if the body has another cycle. *)
StartUpdate(r, patch) ==
    /\ handler[r] = Idle
    /\ Become(r, IF patch.cycle \notin {Null, workspace.cycle}
                 THEN Close(patch) ELSE Update(patch))
    /\ UNCHANGED <<today, tables, history>>

(* "data: dto". *)
Patched(row, patch) ==
    [f \in DOMAIN row |-> IF patch[f] = Null THEN row[f] ELSE patch[f]]

WriteUpdate(r) ==
    /\ handler[r].pc = "update"
    /\ workspace' = Patched(workspace, handler[r].patch)
    /\ disturbed' = (disturbed \/ workspace' # workspace)
    /\ Become(r, Idle)
    /\ UNCHANGED <<today, transaction, settlement, touched, closed>>

(* The cron job starts at midnight. *)
Midnight ==
    /\ today < LastDay
    /\ handler[Cron] = Idle
    /\ today' = today + 1
    /\ Become(Cron, Check)
    /\ touched' = {}
    /\ closed' = {}
    /\ disturbed' = FALSE
    /\ UNCHANGED tables

(* The process is down at midnight: nothing makes up for the run. *)
MissMidnight ==
    /\ today < LastDay
    /\ \A h \in Handlers : handler[h] = Idle
    /\ today' = today + 1
    /\ touched' = {}
    /\ closed' = {}
    /\ disturbed' = TRUE
    /\ UNCHANGED <<tables, handler>>

(* Fault: the run looks for the period that ended yesterday. *)
EndsYesterday(w, day) == w.cycle # "INDEFINITE" /\ CurrentPeriod(w, day - 1).end = day - 1

EndsToday(w, day) == w.cycle # "INDEFINITE" /\ CurrentPeriod(w, day).end = day

(* The run: the current period is closed if today is its last day. *)
CheckDue ==
    /\ handler[Cron] = Check
    /\ Become(Cron, IF EndsToday(workspace, today) THEN Close(Null) ELSE Idle)
    /\ UNCHANGED <<today, tables, history>>

-----------------------------------------------------------------------------
(* closeCurrentPeriod *)

PeriodToClose(w, now) == IF w.cycle = "INDEFINITE" THEN [start |-> CreatedAt, end |-> now]
                                                  ELSE CurrentPeriod(w, now)

(* prisma.workspace.findUnique, and now is the time it returns. *)
ReadWorkspace(h) ==
    /\ handler[h].pc = "close"
    /\ Become(h, Gather(PeriodToClose(workspace, today), workspace, handler[h].patch))
    /\ UNCHANGED <<today, tables, history>>

(* The transactions of the period that are not reconciled. *)
Counted(period) ==
    {c \in Transactions \X Dates :
        /\ transaction[c[1]] = [date |-> c[2], reconciled |-> FALSE]
        /\ Within(c[2], period)}

(* prisma.transaction.findMany and computePairwiseBalances. *)
ReadTransactions(h) ==
    LET g == handler[h]
    IN  /\ g.pc = "gather"
        /\ Become(h, Store([start |-> g.period.start, end |-> g.period.end,
                            counted |-> Counted(g.period), status |-> "PENDING",
                            under |-> g.under], today, g.patch))
        /\ UNCHANGED <<today, tables, history>>

(* Fault: a second closing replaces the settlement of the first. *)
UpsertReplacing(rows, row) == {s \in rows : s.start # row.start} \cup {row}

(* Fault: a plain insert, without the unique key. *)
UpsertInserting(rows, row) == rows \cup {row}

(* prisma.workspaceSettlement.upsert with "update: {}": one statement on    *)
(* the unique key (workspaceId, periodStart).                               *)
Upsert(rows, row) == IF \E s \in rows : s.start = row.start THEN rows ELSE rows \cup {row}

StoreSettlement(h) ==
    LET g == handler[h]
    IN  /\ g.pc = "store"
        /\ settlement' = Upsert(settlement, g.row)
        /\ closed' = IF settlement' # settlement /\ g.readOn = today /\ g.row.under = workspace
                     THEN closed \cup {g.row.start} ELSE closed
        /\ Become(h, IF g.patch = Null THEN Idle ELSE Update(g.patch))
        /\ UNCHANGED <<today, workspace, transaction, touched, disturbed>>

(* An await throws, or the process dies, which is this for all handlers. *)
Fail(h) ==
    /\ handler[h] # Idle
    /\ Become(h, Idle)
    /\ disturbed' = (disturbed \/ h = Cron)
    /\ UNCHANGED <<today, tables, touched, closed>>

Next ==
    \/ \E t \in Transactions, d \in Dates : Enter(t, d)
    \/ \E t \in Transactions : Remove(t)
    \/ \E t \in Transactions, b \in BOOLEAN : Reconcile(t, b)
    \/ \E s \in settlement : UpdateStatus(s)
    \/ \E r \in Requests : StartCloseNow(r)
    \/ \E r \in Requests, p \in Patches : StartUpdate(r, p)
    \/ \E r \in Requests : WriteUpdate(r)
    \/ Midnight
    \/ MissMidnight
    \/ CheckDue
    \/ \E h \in Handlers : ReadWorkspace(h)
    \/ \E h \in Handlers : ReadTransactions(h)
    \/ \E h \in Handlers : StoreSettlement(h)
    \/ \E h \in Handlers : Fail(h)

Spec == Init /\ [][Next]_vars

-----------------------------------------------------------------------------
Bounds == [start : Int, end : Int]

States == {Idle, Check}
    \cup [pc : {"close"}, patch : Patches \cup {Null}]
    \cup [pc : {"gather"}, period : Bounds, under : Config, patch : Patches \cup {Null}]
    \cup [pc : {"store"}, row : SettlementRow, readOn : Modelled, patch : Patches \cup {Null}]
    \cup [pc : {"update"}, patch : Patches]

(* Types, and the unique key: a period start has one settlement, however    *)
(* many handlers close the period at once.                                  *)
TypeOK ==
    /\ today \in Modelled
    /\ workspace \in Config
    /\ transaction \in [Transactions -> TransactionRow \cup {Null}]
    /\ settlement \subseteq SettlementRow
    /\ \A s, u \in settlement : s.start = u.start => s = u
    /\ handler \in [Handlers -> States]
    /\ touched \subseteq Transactions
    /\ closed \subseteq Int
    /\ disturbed \in BOOLEAN

(* A settlement keeps its period and what it counts from the moment it is   *)
(* stored, whoever closes the period again and under whatever cycle, and    *)
(* one that is settled stays so.                                            *)
SettlementIsFinal ==
    [][\A s \in settlement : \E u \in settlement' :
            /\ u.start = s.start /\ u.end = s.end /\ u.counted = s.counted
            /\ s.status = "SETTLED" => u.status = "SETTLED"]_vars

(* No expense is asked for twice: two settlements that were closed under    *)
(* one configuration of the workspace do not both count a transaction, as   *)
(* long as nobody moves it to another date.                                 *)
CountedOnce ==
    \A s, u \in settlement :
        s # u /\ s.under = u.under => s.counted \cap u.counted = {}

Settled(t, start) ==
    \E s \in settlement : s.start = start /\ <<t, transaction[t].date>> \in s.counted

(* The date belongs to the period that ends today. *)
InTodaysPeriod(date) ==
    /\ LastOfPeriod(workspace, today)
    /\ date <= today
    /\ \A d \in date..(today - 1) : ~LastOfPeriod(workspace, d)

(* No expense falls between two periods: on the last day of a period, once  *)
(* the run of that day is over, each transaction of the period that is not  *)
(* reconciled is in its settlement, if it has been as it is since before    *)
(* that day.  Not owed are a run that failed, a row that changed that day,  *)
(* and a period that somebody had closed before or from an older row.       *)
(* (SettlementIsFinal says that it stays there.)                            *)
NoExpenseForgotten ==
    LET start == CurrentPeriod(workspace, today).start
    IN  (/\ handler[Cron] = Idle
         /\ ~disturbed
         /\ LastOfPeriod(workspace, today)
         /\ \A s \in settlement : s.start = start => start \in closed)
        => \A t \in Transactions \ touched :
            transaction[t] # Null /\ ~transaction[t].reconciled
                /\ InTodaysPeriod(transaction[t].date) => Settled(t, start)

-----------------------------------------------------------------------------
(* Violated.  "Determine which month's cutoff ends the current settlement   *)
(* period ... We're on or before the cutoff, so period ends on current      *)
(* month's cutoff": the current period is one that today belongs to.        *)
TodayIsInPeriod ==
    workspace.cycle # "INDEFINITE" => Within(today, CurrentPeriod(workspace, today))

(* Violated.  closeNow "generates a pending settlement for indefinite       *)
(* workspace with accumulated expenses": the expenses that it read are then *)
(* in a settlement.                                                         *)
CloseNowSettles ==
    [][\A r \in Requests :
            StoreSettlement(r) /\ handler[r].patch = Null =>
                handler[r].row.counted \subseteq UNION {s.counted : s \in settlement'}]_vars
=============================================================================
