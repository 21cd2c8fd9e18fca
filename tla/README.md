# harmony-backend in TLA+

harmony-backend is a NestJS service over PostgreSQL (Prisma) for personal and shared
finances. One Node process serves all requests and runs three cron jobs at midnight. What
makes it hard is not parallelism but *interleaving*: every `await prisma...` is a statement
the database commits on its own (only `AuthService.register` uses a transaction), so

- any other handler may run between two awaits of a handler, and what a handler read before
  an await may be old after it;
- an exception, a lost connection or the end of the process leaves the first half of a
  handler committed and the second half undone, with nothing queued to finish it.

The modules here model those awaits one by one.

## Inventory

| Component (source) | State | Operations | What is hard, and what makes it correct |
|---|---|---|---|
| Transactions (`src/transactions`) | `Transaction` rows | create, update, remove, assignPaymentMethod, reconcileMany, recalculateBalance | Each write is followed by a recalculation of the account in separate awaits: the stored balance must agree with the rows once the handlers are done. |
| Accounts, cards (`src/accounts`) | `BankAccount` with `initialBalance`, `currentBalance`; `Card` | create, update, adjustBalance, remove; card create, update, remove | adjustBalance computes a difference from a stored balance; deletions SET NULL the references of transactions and purchases. |
| Installment purchases (`src/installments`) | `InstallmentPurchase`: counter, next date, isActive | create (purchase, then first transaction), cancel; midnight run | Charge and count are two awaits; the run writes from rows read at midnight; a run may die; each installment must be charged once, none past the total, none after a cancellation. |
| Subscriptions (`src/subscriptions`) | `Subscription`: frequency, next date, isActive | create, create with a transaction, update, deactivate; midnight run | As above, with a date that a client may also set, a category that may be missing, and month arithmetic: every due date is billed, once, and none is skipped. |
| Workspaces, membership (`src/workspaces`) | `Workspace`, `WorkspaceMember`, invite token | create, update, remove, members, salaries, joinByToken, regenerateInviteToken | joinByToken reads, inserts and clears in three awaits without a unique key: nobody joins twice, and a link stays valid until it is used or replaced. |
| Settlements (`src/workspaces`) | `WorkspaceSettlement` per (workspace, periodStart) | closeNow, cycle change, midnight close, status | Every expense in exactly one settlement; balances that cancel out; period bounds without gaps. |
| Budgets, savings (`src/budgets`) | `Budget`, `Saving` | create, update, remove, checkExceeded | A duplicate check before an insert, with a unique key that does not see NULLs; a check after each expense that must not miss the one that overspends. |
| Categories, expense groups (`src/categories`, `src/expense-groups`) | `Category`, `ExpenseGroup` | create, update, remove, assign, unassign, reconcile | References at deletion; the group an expense inherits is read before it is written. |
| Auth, users, API tokens (`src/auth`, `src/users`) | `User`, `ApiToken` | register, login, create and revoke tokens | Registration is all or nothing; a revoked token is dead, also for a request that is being answered. |
| Notifications (`src/notifications`) | `Notification` | create, markRead, deleteOne | Written by the runs, at most once per event. |
| Exchange rates, holidays (`src/exchange-rates`, `src/common/holidays`) | cached rows | getLatest, refresh | A cache before an external service that fails, and calls that overlap. |
| Dashboard (`src/dashboard`) | none | summaries, calendar, list of due events | Dates of card cycles pushed on by weekends and holidays, computed twice over different ranges: no due date may fall between two pages. |
| Encryption, controllers, DTOs, bootstrap | none | | Wiring. A module assumes a range where a DTO has one (the fixed day of a purchase, a cutoff day: 1 to 31) and says what it takes where there is none (the days of a card). |

Interactions: AccountsService.adjustBalance and InstallmentsService.create call
TransactionsService.create; InstallmentsScheduler and SubscriptionsScheduler insert
transactions themselves, the former calling recalculateBalance and checkExceeded; the
schedulers and create write notifications; WorkspacesScheduler calls closeCurrentPeriod;
foreign keys propagate deletions (`prisma/schema.prisma`: CASCADE from users to the workspaces
they own, and from workspaces and accounts; SET NULL from accounts, cards, members, purchases
and groups to transactions; RESTRICT from categories).

`PROJECT.json` lists the hazards at their lines, and the properties that cover them. Where the
code itself goes wrong in a hazard and nothing in the repository says it should not (an
overlap no unique key excludes, a write from a row read before), the property cannot forbid it:
it exempts exactly that case and says that nothing *else* leads there. The note of the hazard
and the comment of the property name the exempted case.

## Modules

| Module | Models |
|---|---|
| `Ledger` | accounts, transactions and the handlers that keep balances |
| `LedgerHistory` | `Ledger` with the balances each account has had |
| `LaggingBalance` | abstract specification: what a client may rely on when it reads a balance |
| `Calendar` | date arithmetic: nextOccurrenceOfDay, setMonth, setDate, the next day |
| `Installments` | purchases, their midnight run, cancellations and cards |
| `Subscriptions` | subscriptions, their midnight run, changes by clients during it |
| `Periods` | the settlement period of a day: monthly, weekly and yearly bounds |
| `Settlements` | one workspace: closing a period from the run, closeNow and update, while clients write |
| `DueDates` | the chain of due dates of a purchase on real months |
| `Agenda` | the dates of cards and recurring transactions in the dashboard's calendar and list |
| `PairwiseBalances` | who pays whom when a period is closed, one payment at a time |
| `Handlers` | requests in flight, as the five modules below see them |
| `Membership` | users, workspaces, members, invitation links |
| `Budgets` | budgets, their duplicate check and checkExceeded |
| `ExpenseGroups` | categories, expense groups, the group an expense inherits |
| `ApiTokens` | API tokens and the requests that use them |
| `ExternalData` | the stored exchange rates and holidays |
| `MCServices` | composes the five services that share no table |
| `MCCalculations` | composes `DueDates`, `Agenda` and `PairwiseBalances` |
| other `MC*` | small instances for TLC |
| `LedgerProofs`, `InstallmentsProofs`, `SubscriptionsProofs`, `SettlementsProofs`, `CalendarProofs` | theorems about the module of that name (`LedgerProofs` also about `LedgerHistory`) |
| `CalculationsProofs`, `ServicesProofs` | theorems about the modules that `MCCalculations` and `MCServices` compose |
| `FiniteSums` | lemmas about sums over finite sets |

### Ledger

`bankAccount` and `transaction` map ids to rows; `Unused` is an id not given out yet and
`Deleted` a row that is gone (uuids are not reused). `request[r]` is what handler `r` keeps
between two awaits, with a `pc` for the await it is at: `insert`, `update`, `delete`,
`assign`, then `read` and `write` for each account it still owes a recalculation. The
`Start...` actions are what a handler does before its first write: it looks up rows and
validates. The next action writes, with the row the handler read before: `WriteUpdate` and
`Delete` recalculate the account that findOne returned (`existing`), whatever account the
row is charged to by then, and `WriteAssign` recalculates the new account only. `RecalcRead`
reads all entries of an account, `RecalcWrite` stores their sum however old they are.
`Fail` ends a handler at any await; a crash of the process is `Fail` of all of them.
`RemoveAccount`, `RemoveWorkspace` and `RemoveUser` are single statements with what the
foreign keys make of them (`RemoveRows`): deleting a user deletes the workspaces it owns, in one
step several accounts and the transactions of several workspaces. Accounts are in personal
workspaces; which of the workspaces a user owns is left open.

`inSync` is a history variable: the accounts whose last recalculation wrote a sum that was
current, and that have since not lost a transaction behind the back of a handler (a moved
row, a deleted workspace or user) or been owed a recalculation by a handler that died. It states
what the code does guarantee:

- `SettledBalance`: an account in `inSync` to which no handler owes a recalculation shows
  its initial balance plus its transactions. Its exceptions are exactly the ways the code
  can leave a stale balance; each is repaired by any later recalculation.
- `NeverInvented` (`LedgerHistory`): a stored balance, however stale, is one the account
  really had. The code gets this by always storing a whole sum from one read; a version that
  added differences would break it.
- `AdjustOnTarget`: an adjustment of an account in step that no other request overlaps
  (`alone`) ends on the target, whatever others did before it.
- `LagsBehind`: the refinement. `LaggingBalance` is what the service promises of a balance:
  accounts open, money moves and accounts may close with it (`Move`), and a shown balance may
  at any time become one the account had (`CatchUp`), never in the step that moves money. `LedgerHistory`
  implements it with `shown` the column `currentBalance` of the accounts that exist and
  `actual` the sum of their rows.
- `EveryImpactShown` is what PRODUCT.md promises; assignPaymentMethod violates it even with
  one request at a time and no failures (run `Ledger_impact`).

### Calendar

A date is a month number and a day; the month lengths are a constant, so that the same
arithmetic runs on real months (`DueDates`, `Agenda`) and on months of one or two days
(`Installments`, `Subscriptions`, where every night costs states). `Rolled` is what a
JavaScript Date does with a day that the month lacks: it goes on into the next one. `Dated` is
what it does with day 0 or less: it goes back.

### Installments

`purchase` and `card` hold the rows. The scheduler is `pc`, `current` and `batch`, the due
rows as they were read at midnight; `Charge` inserts the transaction, `Count` writes
counter, date and isActive *computed from the row read*, `Announce` notifies. `Abort` is an
exception that leaves the loop: by failure (`FailRun`, bounded by `MaxFailures`), because
the card of the row read is gone and the foreign key refuses it (`AbortCharge`), or because
`card.findUnique` is asked for the id NULL (`AbortCount`). Clients buy, cancel and change or
delete cards at any moment of the run. `lost`, `unopened` and `cancelled` are history.

The DTO of a card takes any number for its close day and the column any integer, so `CardDays`
are integers: beyond the month they are clamped, 0 counts as no day when a charge is counted
(`!day`, the date then stays and the purchase is charged every night) and as the last day of
the month when it is bought. The model lets negative days reach back by no more than a month.
`charged` are the transactions that create and the run insert. A client may relate
transactions of its own to a purchase and a number (`transaction.dto.ts:70-75`); nothing in the
service reads them, and they are no charges.

- `ChargeAccounting`: an installment that is counted has exactly one transaction and one
  that is not has none, except one more for each run that died between `Charge` and `Count`
  and one less for a create that died before its first transaction.
- `PaidUpIsClosed`, `AnnouncedOnce`, `CancelIsFinal` (a cancellation *during* a run is
  overwritten by it: the property says which cancellations hold).
- `ClosedInTheEnd`, under fairness, with the orphan of the next item as its only exception.
- `StatementHasCard` is what the code asserts (`purchase.cardId as string`); deleting a card
  violates it (run `Installments_card`), and from then on the run throws every night.

### Subscriptions

`subscription` holds the rows, `category` says whether the run finds a category
'Subscriptions' (any row of that name with `workspaceId` NULL, so also a client's personal
one, and deletable), `opening` the creates of a transaction that inserted their subscription
and not yet the transaction. The scheduler is as in `Installments`: `FindCategory` (which
skips a subscription when there is none), `Bill`, `Advance`, `Finish`, with `AbortBill` when
the category goes between the two awaits and `FailRun` at any of them. `Advance` writes the
next date only, computed from date and frequency as read at midnight. `billed` counts the
transactions of each due date since a client last set the date; `lost`, `changed` and
`stopped` are history.

- `BilledOnce`: a due date is billed once, and once more for each run that died between
  `Bill` and `Advance`.
- `NoDueDateSkipped`: the run moves no date on that it has not billed, whatever clients did
  to the row meanwhile, except a date that they set during the run.
- `StoppedForGood`: a deactivated subscription is billed at most by the run that had read
  it (the run writes one column, so it cannot set it going again, as it can a purchase).
- `CaughtUp`, under fairness: what is due is billed and moved on in spite of failed runs and
  missed midnights, unless the category is missing.
- `OneBillingPerMonth` is what the title of a test says; setMonth violates it (run
  `Subscriptions_monthly`).

### Periods and Settlements

A period is a pair of day numbers; `FirstDay[m]` is the number of the first day of month
`m`, so that `new Date(y, m, d)` is `FirstDay[m] + d - 1`, with the roll-over of a day that
the month lacks. Time of day and time zones are left out: a transaction of today is not
later than now. `LastOfPeriod` says independently, from the calendar alone, after which days
a new period starts.

closeCurrentPeriod is three awaits, `ReadWorkspace`, `ReadTransactions`, `StoreSettlement`.
It is called by the run (`Midnight`, `CheckDue`), by closeNow and by an update that changes
the cycle, which writes the row afterwards (`WriteUpdate`). The balances of a settlement are
a function of the transactions it counts, so `counted` stands for them. findMany filters by
date and `reconciled` only, so transactions of every type are counted. `Upsert` is
the one statement on the key (workspaceId, periodStart) with `update: {}`.

- `CountedOnce`: settlements closed under one configuration count no transaction twice,
  unless a client moves it to another date. (A change of `cutoffDay` without a change of the
  cycle closes nothing and shifts the period, which may then overlap the one before; `under`,
  the configuration, is in the property for that.)
- `NoExpenseForgotten`: after the run of the last day of a period, each transaction of the
  period that is not reconciled and was not written that day is in its settlement. Not owed:
  a run that failed or did not take place, a row changed that day, and a period closed before
  (an early closing keeps its settlement, and what comes after it is lost).
- `SettlementIsFinal`: a stored settlement keeps its period and what it counts, and a settled
  one stays settled, whoever closes again.
- `TodayIsInPeriod` is what the comments of settlement.util.ts say; a cutoff day that a month
  lacks violates it (run `Settlements_cutoff`), and that period is never closed.
- `CloseNowSettles` is what the title of a test says; the second closeNow of an INDEFINITE
  workspace violates it (run `Settlements_closenow`).

### Calculations

These three modules have a state only to walk through their inputs; `MCCalculations` lets
one of them run (`computing`) while the others stand still.

`DueDates` follows one purchase from charge to charge. `NextChargeIsFirst` is the doc comment
of nextOccurrenceOfDay checked against all dates; `OneChargePerMonth` says that clamping in
a short month does not drift into the next ones.

`Agenda` has a credit card and a monthly recurring transaction; `TurnPage` is the user's next
month. It compares the *dates* that the two endpoints compute, for a card and a transaction
that both select. They do not select the same: getDueEvents takes the cards of accounts in every
workspace the user is a member of (`dashboard.service.ts:276-283`), getCalendarEvents those of
the one workspace that `findFirst({ ownerId })` returns, personal or not (506-515), and it takes
recurring transactions of one workspace when it is asked for one (425-436). Card days are days
of a month here; the DTO takes others. nextBusinessDay looks ten days on at most, which weekends and one holiday never need. `CalendarEvents` (getCalendarEvents) looks at the cycles that close in the month and
in the one before, `DueEvents` (getDueEvents) at a range of cycles around its dates, and both
push close and due dates on to the next business day.

- `DueInOrder`: no statement is due before it closes, nor before the one before it.
- `EveryDueShown`: the calendar of a month shows each statement due in it. Its exception is
  a due date that the push takes over the end of the month *after* the close: its cycle
  closed two months earlier, so that no page shows it.
- `ListAgrees`: calendar and list of a month tell the same, except for a close date that the
  push takes into the month, which only the list has.

`PairwiseBalances` computes the parts of the members and then makes one payment per step of
the loop. Amounts are cents times `whole`, so that parts of a cent are exact.

- `NobodyOverpays`, also when percentages do not add up to 100 or the payer has left.
- `SettledUp`: when they do add up, everybody ends up with its part, to a cent per member.
- `FewPayments`: fewer payments than members.

### Services

`Membership`, `Budgets`, `ExpenseGroups`, `ApiTokens` and `ExternalData` share no table, only
the shape of a handler (`Handlers`: `request[r]` is what handler `r` has still to do).
`MCServices` runs one of them at a time (`service`), from the same requests. In each, only
the operations whose awaits another request can tell apart take several steps.

In `ExpenseGroups` the body of a write (`Bodies`) has any category and any group that exist,
or leaves them out. `Resolved` is resolveExpenseGroupId: a group in the body as it is, or
that of the category in the body, read one await before `Write`. `Cascade` deletes a
workspace, or a user with some workspaces, and what is theirs, unless an expense elsewhere
has one of the categories (RESTRICT); that a purchase in installments also keeps its
category is left out. `origin` is history: whether the group of an expense was sent or taken
from its category, and whether the category has been regrouped since.

- `JoinedOnce`: joinByToken adds nobody who is a member already, unless what made it one
  overlapped the join. There is no unique key that would also exclude that.
- `LinkLives`: an invitation link stays valid until the owner replaces it or a join uses it,
  unless a join was in flight when the link was made: it clears whatever link it finds.
- `NoSecondBudget`: a month gets no second general budget from createBudget unless the two
  calls overlap; for categories the unique key excludes it (`BudgetsTypeOK`).
- `OverspendingNotified`: an expense that takes its category over the budget of this month is
  notified, by its own creation or a concurrent one: until somebody is, a check is still to
  be done. Lost only with a request that fails, and at the turn of the month.
- `GroupsTypeOK`: nothing refers to a workspace, user, category or group that is gone,
  whatever is deleted between a handler's read and its write.
- `InheritsGroup`: an expense that took its group from its category has the group of its
  category, also after other updates and after groups were deleted, until the category is
  regrouped; only an assignment between a request's read and its write leaves it behind.
- `OwnCategoryOwnGroup`: a workspace's own category is in groups of that workspace only, and
  so is an expense that took its group from such a category. Of others nothing can be said: a
  global or personal category goes into a group of any workspace, and a write accepts any
  category that exists and any group it is sent (`transactions.service.ts:94`).
- `RevokedForGood`: the late write of lastUsedAt does not bring a revoked token back.
- `QuotesOnce`: the quotes of a day are stored once unless calls overlap; skipDuplicates
  skips nothing, the rows differ in their time.
- `DegradedWithNothingStored`: a process falls back to weekends for the rest of its life
  only with no holidays stored, or when a call that failed overlapped the one that stored
  them.

## Runs

| Run | Shows | Bounds, and why they are enough |
|---|---|---|
| `Ledger_overlap` | `TypeOK`, `SettledBalance` | 2 accounts, 2 transactions, 2 handlers, 1 amount: a stale write needs two handlers, a moved row two accounts, a lost entry two transactions, and a deleted user may take both accounts at once. `Money` = -2..2 lets a sum overflow its column. |
| `Ledger_history` | `NeverInvented`, `AdjustOnTarget`, `LagsBehind` | 1 account, 2 transactions, 2 handlers, 2 amounts: balances that were had, were not, and lie between. |
| `Ledger_impact` | violation of `EveryImpactShown` | 1 handler, no failures. |
| `Installments` | `TypeOK`, `ChargeAccounting`, `PaidUpIsClosed`, `AnnouncedOnce`, `CancelIsFinal`, `ClosedInTheEnd` | 2 purchases of 2 installments, so that a batch has a rest; 1 card; 1 failure; months of 2 and 1 days so that day 2 is clamped; cards that close on day 0 or 2; 5 months, room to be paid up after the failure. |
| `Installments_card` | violation of `StatementHasCard` | 1 purchase of up to 3 installments, no failures. |
| `Subscriptions` | `TypeOK`, `BilledOnce`, `NoDueDateSkipped`, `StoppedForGood`, `CaughtUp` | 2 subscriptions, 1 change and 1 failure: the change may come at any await of the run, the failure between any two. Months of 2 and 1 days, weeks of 1 day, years of 2 months, so that each frequency falls due within 6 months. |
| `Subscriptions_monthly` | violation of `OneBillingPerMonth` | 1 subscription due on a day that the next month lacks, nothing changed, no failures. |
| `Settlements` | `TypeOK`, `CountedOnce`, `NoExpenseForgotten`, `SettlementIsFinal` | days 88 to 91 of a calendar with months of 3 and 2 days; monthly periods end on days 89 and 91 (cutoff 1), a year on day 90 and a week on day 91, so each kind of period ends, and the monthly and the yearly one are followed by the next. 1 transaction, dated on day 89 or 91, 2 requests and the run: two closings of one period need two handlers, a cycle change in between a third. All cycles, and a body that changes to MONTHLY with another cutoff. |
| `Settlements_cutoff` | violation of `TodayIsInPeriod` | cutoff day 3 in months of 3 and 2 days. |
| `Settlements_closenow` | violation of `CloseNowSettles` | an INDEFINITE workspace, one day. |
| `Services` | the properties of the five services, their rows as `ServicesTypeOK` | 2 handlers everywhere: each hazard is one request between two awaits of another. 2 users, their personal workspaces and a shared one, up to 4 members and 3 links (the link of a join, its successor, another workspace's); 1 budgeted category, 2 months, limits 0 and 1 with up to 2 spent; 1 client and 2 workspaces, 1 group (an expense or a category can also have none, and the group may be of either workspace), a global and another category, 1 expense; 2 tokens, 2 uses; 2 days, 1 restart. |
| `Calculations` | `DueDatesTypeOK`, `NextChargeIsFirst`, `OneChargePerMonth`, `DueInOrder`, `EveryDueShown`, `ListAgrees`, `NobodyOverpays`, `SettledUp`, `FewPayments` | months 0 to 8 are December to August with a February of 29 days; days 1, 5, 15 and 28 to 31; every weekday to begin with and a holiday on either side of the turn of February; 3 members with percentages that do or do not make 100, salaries or none, amounts of nothing, a cent and more. |

Purchases, transactions, handlers, accounts, users, workspaces and members are symmetric
where no action tells two of them apart, so the safety runs use symmetry; the runs with a
liveness property do not. Deadlock is not checked in the runs with a calendar or bounded ids
that end, where everything rightly stops; the ledger runs check it.

Fairness (`FairSpec` of `Installments` and of `Subscriptions`): weak fairness of the
scheduler's steps, because Node resumes a handler once its await has settled and nothing
blocks it, and of midnight, because the clock and the cron timer go on. Clients are not
fair: nobody must buy, cancel, or create a missing category. A run may still be ended by
failures and midnights may be missed, up to `MaxFailures`.

## Proofs

TLAPS proves, for every value of the constants that satisfies the ASSUMEs of the modules:

- `LedgerProofs`: `TypeCorrect` (`Spec => []TypeOK`) and `SettledBalanceHolds`. The types
  are inductive only with `WriteFits`: the sum a handler is about to write fits the column,
  because `RecalcRead` let no other through and initial balances never change.
  `SettledBalance` is then inductive, action by action: what an action does to the entries
  of an account (`EntriesUnchanged`), and whether it leaves a handler that owes it.
  `NeverInventedHolds` adds that also the sum of the entries a handler has read is in the
  history, and the refinement `LagsBehindHolds` follows from the same invariant: creation
  opens, `RecalcWrite` is `CatchUp`, and every other step is `Move` with the accounts it
  closes. All deletions are one kind of step there (`RemoveStep`). `AdjustOnTargetHolds` follows the one handler at work (`AloneInv`) from
  the row it computes to the sum it writes: `OnTheWay` says at each await that account and
  row together make the target. It needs that adding a row adds its amount to the sum, which
  holds of finite sums; `GivenOut` is finite because a step gives out at most one id.
- `FiniteSums`: what `MapThenSumSet` makes of a finite set. The library's induction is out of
  the provers' reach, so each lemma is shown by removing an element from a smallest set
  without it (`SubsetInduction`, a fact about least elements).
- `CalendarProofs`: `NextOccurrenceIsFirst`, for every calendar.
- `CalculationsProofs`: `DueDatesTypeCorrect`, `EveryChargeIsFirst`, `ChargedEveryMonth`, for
  every calendar. `DueInOrderHolds`, `EveryDueShownHolds` and `ListAgreesHolds` for months of
  28 days or more (`AgendaAssumption`), any card and rule, and *any* set of closed days: the
  push to a business day keeps dates in order (it walks over closed days only, so the later
  of two dates ends later or at the same one), and ten days reach no further than the next
  month. `NobodyOverpaysHolds` and `FewPaymentsHolds`, for every finite set of members and
  every input: the invariant counts turns, payments made plus debtors and creditors left
  never exceed the members, because every payment ends a turn. `SettledUpHolds` adds
  `Settling`: what is given is what is got, and whoever is off a list is owed or owes less
  than a cent; once one list is empty the sum of all balances, which is zero, bounds the
  other members' as well.
- `InstallmentsProofs`: `TypeCorrect`, `ChargeAccountingHolds`, `PaidUpIsClosedHolds`,
  `AnnouncedOnceHolds`, `CancelIsFinalHolds` from one invariant `IndInv`. Its core is
  `ReadRowIsCurrent`: the columns the run computes with are still those it read, because
  cancellations and card changes write other columns and only the run writes these.
- `SubscriptionsProofs`: `SubscriptionsTypeCorrect`, `BilledOnceHolds`,
  `NoDueDateSkippedHolds`, `StoppedForGoodHolds` from `SubscriptionsInv`. Here clients do
  write what the run computes with, so `ReadInv` says what is left of the row read: of a row
  nobody changed, its date; of one that was changed, that nothing but the date read is
  billed. `BillInv` bounds the bills of dates still to come by the runs that died, which is
  what makes `BilledOnce` inductive when a date comes round. `CalendarAssumption` asks that
  no month is longer than two others, so that a rolled date lies in the next month.
- `SettlementsProofs`: `TypeCorrect`, `CountedOnceHolds`, `SettlementIsFinalHolds`. The
  invariant adds to the types `PeriodInv`: the period that a settlement or a handler holds is
  `PeriodToClose` of the row it was read under, for some day. `PeriodsDisjoint` then says that two
  periods of one configuration with different starts share no day, for each cycle and any
  calendar, also with a cutoff that months lack. `NoExpenseForgottenHolds` follows the run
  through the last day of a period (`RunInv`), with what a handler has read and what has been
  stored today covering the period (`ReadInv`, `ClosedInv`). Its hypothesis `CutoffsFit`,
  that every month has the cutoffs workspaces and requests give, is the exception that the
  run `Settlements_cutoff` shows to be real; `TodayIsInPeriodHolds` says that it is the only
  one: under it the property which that run violates holds for every calendar.
- `ServicesProofs`: each service has an inductive invariant of its types, the shapes of its
  handlers, and what links a handler's earlier read to the rows now. `TokensIInv`
  (`ApiTokensTypeCorrect`, `RevokedForGoodHolds`), `ExternalInv` (`QuotesOnceHolds`,
  `DegradedHolds`: a call that waits knows of what was stored meanwhile), `BudgetsIInv`
  (`OverspendingNotifiedHolds`, `NoSecondBudgetHolds`: while nobody is notified of what is
  overspent, some handler has the check before it, or a request failed), `GroupsIInv`
  (`GroupsTypeCorrect`, `OwnCategoryOwnGroupHolds`, `InheritsGroupHolds`: the group a handler
  holds is that of its category unless it was sent or regrouped since, and then still one of
  the category's workspace), `MembershipIInv`
  (`JoinedOnceHolds`, `LinkLivesHolds`: a join that will insert saw no membership or one was
  made since). `ServicesTypeCorrect` combines them for the composition.

The assumptions on constants say what the code and its tables have: calendars with months in
order, amounts that are numbers, `NULL` and the marks of missing rows that are no row or id.

Model-checked only:

- `ClosedInTheEnd` and `CaughtUp`: liveness, which needs ENABLED.
- The violations: of the five properties the code violates, `TodayIsInPeriod` is proved under
  the hypothesis that excludes the violation; of the others the runs show the trace.

Every safety invariant and action property of a passing run is a theorem.

## Plan

The modules above were written in this order: ledger, calendar and installments, settlements,
subscriptions, balances, the small services, the dashboard's dates, the abstract balance.
What would add most to them, in order:

1. The other violations closed in the same way as `TodayIsInPeriod`: that an orphaned purchase
   comes of a deleted card only, that a monthly subscription skips a month only on a day the
   month lacks, that a balance at rest is wrong only after an assignment, a failure or a
   deleted workspace or user.
2. The safety half of `CaughtUp`: a due date moves on by no more than the period it was
   billed for.
3. The sums of DashboardService.getSummary (budget remainders, converted currencies) against
   an independent definition, and the deletion of a workspace while a run bills it.

## Not modelled

- Names, descriptions, currencies, encryption and formatting; authorisation answers, which
  change nothing; queries.
- Which cards and recurring transactions the dashboard's endpoints select.
- Savings, user settings, markRead and deleteOne of notifications, names and colours of
  categories and groups, updateMember: writes of one row that nothing else here reads. The
  percentages and salaries they leave are inputs of `PairwiseBalances`.
- getSummary, getAccounts and convertCurrency: sums over reads, without state.
- login, the JWT strategy, hashes: stateless.
- The time of day and time zones. getDueEvents from a day that months lack: `ListAgrees`
  asks for whole months.
- Rounding. DECIMAL columns are integers here and the payments are exact, while the code
  computes with doubles and rounds to cents.
- One-off scripts and migrations. The seed is part of the initial states (global categories,
  the unnamed exchange rate).
