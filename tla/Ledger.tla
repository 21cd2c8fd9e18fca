------------------------------- MODULE Ledger -------------------------------
(***************************************************************************)
(* Bank accounts, the transactions charged to them and the request         *)
(* handlers that keep BankAccount.currentBalance in step with them:        *)
(* TransactionsService.create, update, remove and assignPaymentMethod,     *)
(* AccountsService.createAccount, adjustBalance and removeAccount,         *)
(* WorkspacesService.remove, UsersService.remove, and the charge of        *)
(* InstallmentsScheduler.                                                  *)
(*                                                                         *)
(* A handler is a sequence of awaits.  Each await is one statement that    *)
(* PostgreSQL commits on its own, and any other handler may run between    *)
(* two of them, so every action below is one await (or several that no     *)
(* other handler can tell apart) and request[r] is what handler r keeps in *)
(* its local variables between two awaits.                                 *)
(*                                                                         *)
(* Left out: the requester and the payer.  The requester of a request is   *)
(* whoever may make it, so "the account exists and is yours" is "the       *)
(* account exists", and the 403 and 404 answers change nothing.  The       *)
(* budget check at the end of create writes only notifications, and the    *)
(* subscription that create may insert first is no part of a balance.      *)
(***************************************************************************)
EXTENDS Integers, FiniteSetsExt

CONSTANTS
    Accounts,       \* ids of bank accounts
    Transactions,   \* ids of transactions
    Requests,       \* handlers that can be in flight at once
    Personal,       \* personal workspaces: the accounts are in these
    Shared,         \* shared workspaces
    Money,          \* values a DECIMAL column takes: amounts and balances
    Amounts,        \* amounts and target balances clients send
    Types,          \* transaction types clients send
    Patches,        \* DTOs clients send to update a transaction
    Null,           \* SQL NULL, and null in a DTO
    Keep,           \* a DTO field that is absent: the column keeps its value
    Unused,         \* the row of an id that has not been given out yet
    Deleted         \* the row of an id whose row is gone; ids are never reused

ASSUME MoneyAssumption == Money \subseteq Int /\ Amounts \subseteq Money
ASSUME PatchAssumption ==
    Patches \subseteq [amount : Amounts \cup {Keep}, type : Types \cup {Keep},
                      bankAccountId : Accounts \cup {Null, Keep}]
ASSUME NullAssumption ==
    /\ Null \notin Accounts
    /\ Keep \notin Accounts
    /\ Keep # Null
    /\ Unused # Deleted

VARIABLES
    bankAccount,    \* account id -> row, Unused or Deleted
    transaction,    \* transaction id -> row, Unused or Deleted
    workspace,      \* the workspaces that exist
    request,        \* handler -> its local state
    inSync          \* history: see SettledBalance

vars == <<bankAccount, transaction, workspace, request, inSync>>

AccountRow == [workspaceId : Personal, initialBalance : Money, currentBalance : Money]

TransactionRow ==
    [amount : Int, type : Types \cup {"INCOME", "EXPENSE"},
     bankAccountId : Accounts \cup {Null}, workspaceId : Personal \cup Shared]

NoRow == {Unused, Deleted}

(* A row of a recalculation's findMany. *)
Entry == [id : Transactions, amount : Int]

ASSUME NoRowAssumption == NoRow \cap (AccountRow \cup TransactionRow) = {}

AccountExists(a) == bankAccount[a] \notin NoRow
TransactionExists(t) == transaction[t] \notin NoRow

(* The foreign key of a transaction row: NULL or a row that is there. *)
AccountOrNull(a) == a = Null \/ (a \in Accounts /\ AccountExists(a))

(***************************************************************************)
(* The balance of an account: TransactionsService.recalculateBalance adds  *)
(* INCOME to the initial balance, subtracts EXPENSE, and ignores TRANSFER  *)
(* and SAVING.                                                             *)
(***************************************************************************)
SignedAmount(row) == CASE row.type = "INCOME"  -> row.amount
                       [] row.type = "EXPENSE" -> -row.amount
                       [] OTHER                -> 0

ChargedTo(a) ==
    {t \in Transactions : TransactionExists(t) /\ transaction[t].bankAccountId = a}

Entries(a) ==
    {[id |-> t, amount |-> SignedAmount(transaction[t])] : t \in ChargedTo(a)}

EntryAmount(entry) == entry.amount
Total(entries) == MapThenSumSet(EntryAmount, entries)

BalanceOf(a, entries) == bankAccount[a].initialBalance + Total(entries)

Balance(a) == BalanceOf(a, Entries(a))

(***************************************************************************)
(* Handler states.  A recalculation still owes the balance of "now" and    *)
(* then of "next"; "goal" is the target of the adjustment that started it. *)
(***************************************************************************)
Idle == [pc |-> "idle"]

Inserting == [pc : {"insert"}, row : TransactionRow, goal : Amounts \cup {Null}]
Updating  == [pc : {"update"}, id : Transactions, patch : Patches,
              existing : Accounts \cup {Null}]
Deleting  == [pc : {"delete"}, id : Transactions, existing : Accounts \cup {Null}]
Assigning == [pc : {"assign"}, id : Transactions, to : Accounts \cup {Null}]
Reading   == [pc : {"read"}, now : Accounts, next : Accounts \cup {Null},
              goal : Amounts \cup {Null}]
Writing   == [pc : {"write"}, now : Accounts, next : Accounts \cup {Null},
              goal : Amounts \cup {Null}, seen : SUBSET Entry]

Handler == {Idle} \cup Inserting \cup Updating \cup Deleting \cup Assigning
           \cup Reading \cup Writing

(* The accounts handler r has still to recalculate. *)
Todo(r) == IF request[r].pc \in {"read", "write"}
           THEN {request[r].now, request[r].next} \ {Null}
           ELSE {}

(* Fault: the handler forgets the second account. *)
RecalculateFirstOnly(a, b, goal) ==
    IF a = Null /\ b = Null THEN Idle
    ELSE [pc |-> "read", now |-> IF a = Null THEN b ELSE a, next |-> Null, goal |-> goal]

(* recalculateBalance is called for a and then for b, skipping NULL. *)
Recalculate(a, b, goal) ==
    LET first == IF a = Null THEN b ELSE a
        then  == IF a = Null \/ a = b THEN Null ELSE b
    IN  IF first = Null THEN Idle
        ELSE [pc |-> "read", now |-> first, next |-> then, goal |-> goal]

Become(r, h) == request' = [request EXCEPT ![r] = h]

-----------------------------------------------------------------------------
Init ==
    /\ bankAccount = [a \in Accounts |-> Unused]
    /\ transaction = [t \in Transactions |-> Unused]
    /\ workspace = Personal \cup Shared
    /\ request = [r \in Requests |-> Idle]
    /\ inSync = Accounts

(* AccountsService.createAccount, in a personal workspace: the current       *)
(* balance is the initial one.                                               *)
CreateAccount(a) ==
    /\ bankAccount[a] = Unused
    /\ \E m \in Amounts, w \in workspace \cap Personal :
          bankAccount' = [bankAccount EXCEPT ![a] =
                            [workspaceId |-> w, initialBalance |-> m, currentBalance |-> m]]
    /\ UNCHANGED <<transaction, workspace, request, inSync>>

(* One statement deletes these accounts and these transactions; the foreign  *)
(* key of the other transactions of the accounts is SET NULL.  No balance is *)
(* recalculated, although a transaction may be lost to an account that stays.*)
RemoveRows(closed, lost) ==
    /\ bankAccount' = [a \in Accounts |-> IF a \in closed THEN Deleted ELSE bankAccount[a]]
    /\ transaction' =
          [t \in Transactions |->
              IF t \in lost THEN Deleted
              ELSE IF TransactionExists(t) /\ transaction[t].bankAccountId \in closed
              THEN [transaction[t] EXCEPT !.bankAccountId = Null]
              ELSE transaction[t]]
    /\ inSync' = inSync \ {transaction[t].bankAccountId : t \in lost}
    /\ UNCHANGED request

(* AccountsService.removeAccount. *)
RemoveAccount(a) ==
    /\ AccountExists(a)
    /\ RemoveRows({a}, {})
    /\ UNCHANGED workspace

(* ON DELETE CASCADE.  (A category that a transaction elsewhere still has    *)
(* may keep the statement from having any effect.)                           *)
Cascade(gone) ==
    /\ workspace' = workspace \ gone
    /\ RemoveRows({a \in Accounts : AccountExists(a) /\ bankAccount[a].workspaceId \in gone},
                  {t \in Transactions : TransactionExists(t) /\ transaction[t].workspaceId \in gone})

(* WorkspacesService.remove refuses a personal workspace. *)
RemoveWorkspace(w) == w \in workspace \cap Shared /\ Cascade({w})

(* UsersService.remove: the workspaces go that the user owns, whichever they *)
(* are.                                                                      *)
RemoveUser(owned) == owned \subseteq workspace /\ Cascade(owned)

-----------------------------------------------------------------------------
(* TransactionsService.create up to the insert: validatePaymentMethod found *)
(* the account of the DTO.                                                  *)
StartCreate(r) ==
    /\ request[r] = Idle
    /\ \E m \in Amounts, ty \in Types, a \in Accounts \cup {Null}, w \in workspace :
          /\ AccountOrNull(a)
          /\ Become(r, [pc |-> "insert", goal |-> Null,
                        row |-> [amount |-> m, type |-> ty,
                                 bankAccountId |-> a, workspaceId |-> w]])
    /\ UNCHANGED <<bankAccount, transaction, workspace, inSync>>

(* InstallmentsScheduler.processDueInstallments charges what its list of due *)
(* purchases says, without validating the account again.                     *)
StartCharge(r) ==
    /\ request[r] = Idle
    /\ \E m \in Amounts, a \in Accounts \cup {Null}, w \in workspace :
          /\ a \in Accounts => bankAccount[a] # Unused
          /\ Become(r, [pc |-> "insert", goal |-> Null,
                        row |-> [amount |-> m, type |-> "EXPENSE",
                                 bankAccountId |-> a, workspaceId |-> w]])
    /\ UNCHANGED <<bankAccount, transaction, workspace, inSync>>

(* Fault: the difference is taken from the wrong column. *)
BalanceReadInitial(a) == bankAccount[a].initialBalance

(* What adjustBalance compares the target with. *)
BalanceRead(a) == bankAccount[a].currentBalance

(* AccountsService.adjustBalance reads the stored balance and, unless it is *)
(* the target already, calls create with the difference.                    *)
StartAdjust(r) ==
    /\ request[r] = Idle
    /\ \E a \in Accounts, target \in Amounts :
          /\ AccountExists(a)
          /\ LET diff == target - BalanceRead(a)
             IN  /\ diff # 0
                 /\ Become(r, [pc |-> "insert", goal |-> target,
                               row |-> [amount |-> IF diff > 0 THEN diff ELSE -diff,
                                        type |-> IF diff > 0 THEN "INCOME" ELSE "EXPENSE",
                                        bankAccountId |-> a,
                                        workspaceId |-> bankAccount[a].workspaceId]])
    /\ UNCHANGED <<bankAccount, transaction, workspace, inSync>>

(* prisma.transaction.create, then recalculateBalance of its account.  The *)
(* insert throws when the account or the workspace is gone by now, or when *)
(* no column holds the amount.                                             *)
Insert(r) ==
    /\ request[r].pc = "insert"
    /\ LET row == request[r].row
       IN  IF /\ AccountOrNull(row.bankAccountId)
              /\ row.workspaceId \in workspace
              /\ row.amount \in Money
           THEN /\ \E t \in Transactions :
                     /\ transaction[t] = Unused
                     /\ transaction' = [transaction EXCEPT ![t] = row]
                /\ Become(r, Recalculate(row.bankAccountId, Null, request[r].goal))
           ELSE /\ Become(r, Idle)
                /\ UNCHANGED transaction
    /\ UNCHANGED <<bankAccount, workspace, inSync>>

(* TransactionsService.update: findOne reads the row, and with it the       *)
(* account the handler will recalculate; validatePaymentMethod checks the   *)
(* new account.                                                             *)
StartUpdate(r) ==
    /\ request[r] = Idle
    /\ \E t \in Transactions, patch \in Patches :
          /\ TransactionExists(t)
          /\ patch.bankAccountId \in Accounts => AccountExists(patch.bankAccountId)
          /\ Become(r, [pc |-> "update", id |-> t, patch |-> patch,
                        existing |-> transaction[t].bankAccountId])
    /\ UNCHANGED <<bankAccount, transaction, workspace, inSync>>

(* Fault: an absent field of the DTO is written too. *)
PatchedWithAbsent(row, patch) ==
    [row EXCEPT !.amount = patch.amount, !.type = patch.type,
                !.bankAccountId = patch.bankAccountId]

(* The row after "data: { ...dto }": an absent field leaves its column alone. *)
Patched(row, patch) ==
    [row EXCEPT !.amount = IF patch.amount = Keep THEN @ ELSE patch.amount,
                !.type   = IF patch.type = Keep THEN @ ELSE patch.type,
                !.bankAccountId =
                    IF patch.bankAccountId = Keep THEN @ ELSE patch.bankAccountId]

(* prisma.transaction.update, then recalculateBalance of the account that   *)
(* was read and of the account in the DTO.  It throws when the row or the   *)
(* account is gone.  An account the row moved to in between is neither.     *)
WriteUpdate(r) ==
    LET h   == request[r]
        to  == IF h.patch.bankAccountId = Keep THEN Null ELSE h.patch.bankAccountId
    IN  /\ h.pc = "update"
        /\ IF TransactionExists(h.id) /\ AccountOrNull(to)
           THEN /\ transaction' = [transaction EXCEPT ![h.id] = Patched(@, h.patch)]
                /\ inSync' = inSync \ ({transaction[h.id].bankAccountId} \ {h.existing})
                /\ Become(r, Recalculate(h.existing, to, Null))
           ELSE /\ Become(r, Idle)
                /\ UNCHANGED <<transaction, inSync>>
        /\ UNCHANGED <<bankAccount, workspace>>

(* TransactionsService.remove: findOne, delete, recalculate the account     *)
(* that findOne returned.                                                   *)
StartRemove(r) ==
    /\ request[r] = Idle
    /\ \E t \in Transactions :
          /\ TransactionExists(t)
          /\ Become(r, [pc |-> "delete", id |-> t,
                        existing |-> transaction[t].bankAccountId])
    /\ UNCHANGED <<bankAccount, transaction, workspace, inSync>>

Delete(r) ==
    LET h == request[r]
    IN  /\ h.pc = "delete"
        /\ IF TransactionExists(h.id)
           THEN /\ transaction' = [transaction EXCEPT ![h.id] = Deleted]
                /\ inSync' = inSync \ ({transaction[h.id].bankAccountId} \ {h.existing})
                /\ Become(r, Recalculate(h.existing, Null, Null))
           ELSE /\ Become(r, Idle)
                /\ UNCHANGED <<transaction, inSync>>
        /\ UNCHANGED <<bankAccount, workspace>>

(* TransactionsService.assignPaymentMethod: the account is written without  *)
(* a check, and only the new account is recalculated.                       *)
StartAssign(r) ==
    /\ request[r] = Idle
    /\ \E t \in Transactions, a \in Accounts \cup {Null} :
          /\ TransactionExists(t)
          /\ Become(r, [pc |-> "assign", id |-> t, to |-> a])
    /\ UNCHANGED <<bankAccount, transaction, workspace, inSync>>

WriteAssign(r) ==
    LET h == request[r]
    IN  /\ h.pc = "assign"
        /\ IF TransactionExists(h.id) /\ AccountOrNull(h.to)
           THEN /\ transaction' = [transaction EXCEPT ![h.id].bankAccountId = h.to]
                /\ inSync' = inSync \ ({transaction[h.id].bankAccountId} \ {h.to})
                /\ Become(r, Recalculate(h.to, Null, Null))
           ELSE /\ Become(r, Idle)
                /\ UNCHANGED <<transaction, inSync>>
        /\ UNCHANGED <<bankAccount, workspace>>

-----------------------------------------------------------------------------
(* recalculateBalance reads the initial balance, which nothing changes, and *)
(* the transactions of the account.  An account that is gone is skipped.  A *)
(* sum no DECIMAL column holds makes the write that follows throw.          *)
RecalcRead(r) ==
    LET h == request[r]
    IN  /\ h.pc = "read"
        /\ IF ~AccountExists(h.now)
           THEN Become(r, Recalculate(h.next, Null, Null)) /\ UNCHANGED inSync
           ELSE IF Balance(h.now) \in Money
           THEN /\ Become(r, [pc |-> "write", now |-> h.now, next |-> h.next,
                              goal |-> h.goal, seen |-> Entries(h.now)])
                /\ UNCHANGED inSync
           ELSE Become(r, Idle) /\ inSync' = inSync \ Todo(r)
        /\ UNCHANGED <<bankAccount, transaction, workspace>>

(* Fault: the sum is added to the stored balance. *)
NewBalanceIncremental(a, seen) == bankAccount[a].currentBalance + Total(seen)

(* The balance recalculateBalance writes after reading these entries. *)
NewBalance(a, seen) == BalanceOf(a, seen)

(* It writes the sum of the transactions it read, however old they are by   *)
(* now; the update of an account that is gone throws.                       *)
RecalcWrite(r) ==
    LET h == request[r]
        a == h.now
    IN  /\ h.pc = "write"
        /\ IF AccountExists(a)
           THEN /\ bankAccount' = [bankAccount EXCEPT ![a].currentBalance =
                                      NewBalance(a, h.seen)]
                /\ inSync' = IF h.seen = Entries(a) THEN inSync \cup {a}
                                                    ELSE inSync \ {a}
                /\ Become(r, Recalculate(h.next, Null, Null))
           ELSE /\ Become(r, Idle)
                /\ inSync' = inSync \ Todo(r)
                /\ UNCHANGED bankAccount
        /\ UNCHANGED <<transaction, workspace>>

(* Any await may throw (the connection is lost), and a crash of the process *)
(* is this step of every handler in flight: what was committed stays, what  *)
(* was still to be done is not.                                             *)
Fail(r) ==
    /\ request[r] # Idle
    /\ Become(r, Idle)
    /\ inSync' = inSync \ Todo(r)
    /\ UNCHANGED <<bankAccount, transaction, workspace>>

Step(r) ==
    \/ Insert(r) \/ WriteUpdate(r) \/ Delete(r) \/ WriteAssign(r)
    \/ RecalcRead(r) \/ RecalcWrite(r)

Start(r) ==
    \/ StartCreate(r) \/ StartCharge(r) \/ StartAdjust(r)
    \/ StartUpdate(r) \/ StartRemove(r) \/ StartAssign(r)

(* What clients and the installment scheduler cause when nothing fails. *)
Work ==
    \/ \E a \in Accounts : CreateAccount(a) \/ RemoveAccount(a)
    \/ \E w \in Shared : RemoveWorkspace(w)
    \/ \E owned \in SUBSET (Personal \cup Shared) : RemoveUser(owned)
    \/ \E r \in Requests : Start(r) \/ Step(r)

Next == Work \/ \E r \in Requests : Fail(r)

Spec == Init /\ [][Next]_vars

SpecWithoutFailures == Init /\ [][Work]_vars

-----------------------------------------------------------------------------
(* Rows and handler states are well formed. *)
TypeOK ==
    /\ bankAccount \in [Accounts -> AccountRow \cup NoRow]
    /\ transaction \in [Transactions -> TransactionRow \cup NoRow]
    /\ workspace \subseteq Personal \cup Shared
    /\ DOMAIN request = Requests
    /\ \A r \in Requests : request[r] \in Handler
    /\ inSync \subseteq Accounts

(* An account no handler still has to recalculate shows its initial balance *)
(* plus the transactions charged to it, whatever ran concurrently before,   *)
(* provided the recalculation that wrote last had read the transactions as  *)
(* they are (inSync).  An account leaves inSync only when such a write is   *)
(* stale, when a transaction leaves it behind the handler's back (a moved   *)
(* row, a deleted workspace or user) or when the handler that owed it a     *)
(* recalculation died: one later recalculation repairs all of these.        *)
SettledBalance ==
    \A a \in inSync :
        AccountExists(a) /\ (\A r \in Requests : a \notin Todo(r))
        => bankAccount[a].currentBalance = Balance(a)

(* What PRODUCT.md promises: an account that nothing is working on shows    *)
(* every transaction charged to it.                                         *)
EveryImpactShown ==
    (\A r \in Requests : request[r] = Idle)
    => \A a \in Accounts : AccountExists(a) =>
          bankAccount[a].currentBalance = Balance(a)
=============================================================================
