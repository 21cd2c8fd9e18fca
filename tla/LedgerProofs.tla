---------------------------- MODULE LedgerProofs ----------------------------
(* Type correctness and the settled-balance invariant of Ledger, and what   *)
(* LedgerHistory says of the balances that are shown, for any number of     *)
(* accounts, transactions and handlers.                                     *)
EXTENDS LedgerHistory, FiniteSums

(* The sum of entries, and the sum when an entry is added. *)
AmountOf == [e \in Entry |-> e.amount]

LEMMA TotalIsSum ==
    ASSUME NEW U \in SUBSET Entry, IsFiniteSet(U), NEW E \in SUBSET U
    PROVE  Total(E) = Sums(AmountOf, U)[E]
<1> DEFINE body(g) == [s \in SUBSET E |-> IF s = {} THEN 0
                                          ELSE EntryAmount(Picked(s)) + g[s \ {Picked(s)}]]
           A == CHOOSE g : g = body(g)
           S == Sums(AmountOf, E)
           g0 == [s \in SUBSET E |-> S[s]]
<1>1. Total(E) = A[E]
  BY Zenon DEF Total, MapThenSumSet, MapThenFoldSet, Picked
<1>2. /\ IsFiniteSet(E) /\ \A x \in U : AmountOf[x] = EntryAmount(x) /\ AmountOf[x] \in Int
  <2>1. IsFiniteSet(E)
    BY FS_Subset
  <2>. QED  BY <2>1 DEF AmountOf, EntryAmount, Entry
<1>3. \A s \in SUBSET E : s # {} => Picked(s) \in E /\ s \ {Picked(s)} \in SUBSET E
  BY <1>2, PickedFact
<1>4. /\ S[{}] = 0
      /\ \A s \in SUBSET E : s # {} => S[s] = AmountOf[Picked(s)] + S[s \ {Picked(s)}]
  BY <1>2, SumsOfAny
<1>5. g0 = body(g0)
  <2>1. ASSUME NEW s \in SUBSET E PROVE g0[s] = body(g0)[s]
    <3>1. CASE s = {}
      <4> HIDE DEF S
      <4>. QED  BY <1>4, <3>1
    <3>2. CASE s # {}
      <4> HIDE DEF S
      <4>1. g0[s] = EntryAmount(Picked(s)) + S[s \ {Picked(s)}]
        BY <1>2, <1>3, <1>4, <3>2
      <4>2. g0[s \ {Picked(s)}] = S[s \ {Picked(s)}]
        BY <1>3, <3>2
      <4>3. body(g0)[s] = EntryAmount(Picked(s)) + g0[s \ {Picked(s)}]
        BY <3>2
      <4>. QED  BY <4>1, <4>2, <4>3
    <3>. QED  BY <3>1, <3>2
  <2> DEFINE b0 == body(g0)
  <2>2. b0 = [s \in SUBSET E |-> b0[s]] /\ g0 = [s \in SUBSET E |-> g0[s]]
    OBVIOUS
  <2>3. \A s \in SUBSET E : g0[s] = b0[s]
    BY <2>1
  <2> HIDE DEF g0, b0
  <2>4. g0 = b0
    BY <2>2, <2>3
  <2>. QED  BY <2>4 DEF b0
<1>6. A = body(A)
  <2> HIDE DEF body, g0
  <2>. QED  BY <1>5
<1>7. \A s \in SUBSET E : SumRule(A, AmountOf, s)
  <2> HIDE DEF A
  <2>1. \A s \in SUBSET E : A[s] = IF s = {} THEN 0
                                   ELSE EntryAmount(Picked(s)) + A[s \ {Picked(s)}]
    BY <1>6
  <2>. QED  BY <1>2, <1>3, <2>1 DEF SumRule
<1>8. A[E] = S[E]
  <2> HIDE DEF A
  <2>1. E \in SUBSET E /\ \A x \in E : AmountOf[x] \in Int
    BY <1>2
  <2>. QED  BY <1>2, <1>7, <2>1, SumsUnique
<1>9. S[E] = Sums(AmountOf, U)[E]
  BY <1>2, SumsWithin
<1>. QED  BY <1>1, <1>8, <1>9

LEMMA TotalAdded ==
    ASSUME NEW E \in SUBSET Entry, IsFiniteSet(E), NEW e \in Entry, e \notin E
    PROVE  Total(E) \in Int /\ Total(E \cup {e}) = Total(E) + e.amount
<1> DEFINE U == E \cup {e}
           S == Sums(AmountOf, U)
<1>1. U \in SUBSET Entry /\ IsFiniteSet(U) /\ E \in SUBSET U /\ U \in SUBSET U /\ U \ {e} = E
  BY FS_AddElement
<1>2. /\ \A x \in U : AmountOf[x] \in Int
      /\ AmountOf[e] = e.amount
  BY DEF AmountOf, Entry
<1>3. Total(E) = S[E] /\ Total(U) = S[U]
  BY <1>1, TotalIsSum
<1>4. S[U] = AmountOf[e] + S[U \ {e}]
  <2>1. IsFiniteSet(U) /\ e \in U /\ \A x \in U : AmountOf[x] \in Int
    BY <1>1, <1>2
  <2> HIDE DEF U
  <2>. QED  BY <2>1, SumsFirst
<1>5. S[E] \in Int
  BY <1>1, <1>2, SumsOfAny
<1> HIDE DEF S
<1>6. e.amount \in Int
  BY DEF Entry
<1>7. Total(U) = Total(E) + e.amount
  <2>1. Total(U) = e.amount + Total(E)
    BY <1>1, <1>2, <1>3, <1>4
  <2>2. Total(E) \in Int
    BY <1>3, <1>5
  <2> HIDE DEF U
  <2>. QED  BY <1>6, <2>1, <2>2
<1>. QED  BY <1>3, <1>5, <1>7

-----------------------------------------------------------------------------
(***************************************************************************)
(* TypeOK alone is not inductive: a handler about to write must hold a sum *)
(* that the column takes.  It does, because RecalcRead let only such a sum *)
(* through and nothing changes an initial balance.                         *)
(***************************************************************************)
WriteFits ==
    \A r \in Requests : request[r].pc = "write" =>
        /\ bankAccount[request[r].now] # Unused
        /\ AccountExists(request[r].now) =>
              BalanceOf(request[r].now, request[r].seen) \in Money

TypeInv == TypeOK /\ WriteFits

USE MoneyAssumption, PatchAssumption, NullAssumption, NoRowAssumption

-----------------------------------------------------------------------------
(* What a recalculation reads. *)
LEMMA EntriesType ==
    ASSUME TypeOK, NEW a \in Accounts
    PROVE  Entries(a) \in SUBSET Entry
<1>1. ASSUME NEW t \in Transactions, TransactionExists(t)
      PROVE  SignedAmount(transaction[t]) \in Int
  <2>1. transaction[t] \in TransactionRow
    BY <1>1 DEF TypeOK, TransactionExists
  <2>2. transaction[t].amount \in Int
    BY <2>1 DEF TransactionRow
  <2>. QED  BY <2>2 DEF SignedAmount
<1>. QED  BY <1>1 DEF Entries, ChargedTo, Entry

(* Recalculate yields a well-formed handler state. *)
LEMMA RecalculateType ==
    ASSUME NEW a \in Accounts \cup {Null}, NEW b \in Accounts \cup {Null},
           NEW goal \in Amounts \cup {Null}
    PROVE  Recalculate(a, b, goal) \in {Idle} \cup Reading
BY DEF Recalculate, Reading

(* The entries of an account depend on the rows charged to it only. *)
LEMMA EntriesUnchanged ==
    ASSUME NEW a \in Accounts,
           \A t \in Transactions :
              \/ transaction'[t] = transaction[t]
              \/ t \notin ChargedTo(a) /\ t \notin ChargedTo(a)'
    PROVE  Entries(a)' = Entries(a)
<1>1. ChargedTo(a)' = ChargedTo(a)
  BY DEF ChargedTo, TransactionExists
<1>2. \A t \in ChargedTo(a) : SignedAmount(transaction[t])' = SignedAmount(transaction[t])
  BY <1>1 DEF ChargedTo, SignedAmount
<1>. QED  BY <1>1, <1>2 DEF Entries

(* An account no transaction is charged to shows its initial balance: the  *)
(* first unfolding of the fold that defines the sum.                       *)
LEMMA TotalOfNothing == Total({}) = 0
<1> DEFINE picked(s) == CHOOSE e \in s : TRUE
           body(g) == [s \in {{}} |-> IF s = {} THEN 0
                                      ELSE EntryAmount(picked(s)) + g[s \ {picked(s)}]]
           f == CHOOSE g : g = body(g)
<1>1. SUBSET {} = {{}}
  OBVIOUS
<1>2. Total({}) = f[{}]
  BY <1>1 DEF Total, MapThenSumSet, MapThenFoldSet
<1>3. \E g : g = body(g)
  <2>1. [s \in {{}} |-> 0] = body([s \in {{}} |-> 0])
    OBVIOUS
  <2>. QED  BY <2>1
<1>4. f = body(f)
  BY <1>3
<1>. QED  BY <1>2, <1>4

-----------------------------------------------------------------------------
LEMMA InitTypeInv == Init => TypeInv
BY DEF Init, TypeInv, TypeOK, WriteFits, Handler, Idle, NoRow

(* What the handler that takes a step may become without holding a sum. *)
Harmless == {Idle} \cup Inserting \cup Updating \cup Deleting \cup Assigning \cup Reading

LEMMA HarmlessFact ==
    /\ Harmless \subseteq Handler
    /\ \A h \in Harmless : h.pc # "write"
BY DEF Harmless, Handler, Idle, Inserting, Updating, Deleting, Assigning, Reading

LEMMA StartBecomes ==
    ASSUME TypeOK, NEW r \in Requests, Start(r)
    PROVE  /\ UNCHANGED <<bankAccount, transaction, workspace, inSync>>
           /\ \E h \in Harmless : Become(r, h)
<1>1. UNCHANGED <<bankAccount, transaction, workspace, inSync>>
  BY DEF Start, StartCreate, StartCharge, StartAdjust, StartUpdate, StartRemove, StartAssign
<1>2. workspace \subseteq Personal \cup Shared
  BY DEF TypeOK
<1>3. \A t \in Transactions : TransactionExists(t) =>
         transaction[t].bankAccountId \in Accounts \cup {Null}
  BY DEF TypeOK, TransactionExists, TransactionRow
<1>4. CASE StartCreate(r)
  <2>1. \E h \in Inserting : Become(r, h)
    BY <1>2, <1>4 DEF StartCreate, Inserting, TransactionRow
  <2>. QED  BY <1>1, <2>1 DEF Harmless
<1>5. CASE StartCharge(r)
  <2>1. \E h \in Inserting : Become(r, h)
    BY <1>2, <1>5 DEF StartCharge, Inserting, TransactionRow
  <2>. QED  BY <1>1, <2>1 DEF Harmless
<1>6. CASE StartAdjust(r)
  <2>1. \E h \in Inserting : Become(r, h)
    <3>1. PICK a \in Accounts, target \in Amounts :
             /\ AccountExists(a)
             /\ LET diff == target - BalanceRead(a)
                IN  Become(r, [pc |-> "insert", goal |-> target,
                               row |-> [amount |-> IF diff > 0 THEN diff ELSE -diff,
                                        type |-> IF diff > 0 THEN "INCOME" ELSE "EXPENSE",
                                        bankAccountId |-> a,
                                        workspaceId |-> bankAccount[a].workspaceId]])
      BY <1>6 DEF StartAdjust
    <3>2. target - BalanceRead(a) \in Int /\ bankAccount[a].workspaceId \in Personal
      <4>1. bankAccount[a] \in AccountRow
        BY <3>1 DEF TypeOK, AccountExists
      <4>2. bankAccount[a].currentBalance \in Int /\ bankAccount[a].workspaceId \in Personal
        BY <4>1 DEF AccountRow
      <4>3. target \in Int
        OBVIOUS
      <4>. QED  BY <4>2, <4>3 DEF BalanceRead
    <3>3. \A d \in Int : (IF d > 0 THEN d ELSE -d) \in Int
      OBVIOUS
    <3>. QED  BY <3>1, <3>2, <3>3 DEF Inserting, TransactionRow
  <2>. QED  BY <1>1, <2>1 DEF Harmless
<1>7. CASE StartUpdate(r)
  <2>1. \E h \in Updating : Become(r, h)
    BY <1>3, <1>7 DEF StartUpdate, Updating
  <2>. QED  BY <1>1, <2>1 DEF Harmless
<1>8. CASE StartRemove(r)
  <2>1. \E h \in Deleting : Become(r, h)
    BY <1>3, <1>8 DEF StartRemove, Deleting
  <2>. QED  BY <1>1, <2>1 DEF Harmless
<1>9. CASE StartAssign(r)
  <2>1. \E h \in Assigning : Become(r, h)
    BY <1>9 DEF StartAssign, Assigning
  <2>. QED  BY <1>1, <2>1 DEF Harmless
<1>. QED  BY <1>4, <1>5, <1>6, <1>7, <1>8, <1>9 DEF Start

(* What the rows of accounts may do: come into being, keep the initial     *)
(* balance, or go for good.                                                *)
RowsEvolve ==
    \A a \in Accounts :
        \/ bankAccount[a] = Unused
        \/ bankAccount'[a] = Deleted
        \/ bankAccount'[a] = bankAccount[a]
        \/ /\ bankAccount'[a] \in AccountRow
           /\ AccountExists(a)
           /\ bankAccount'[a].initialBalance = bankAccount[a].initialBalance

LEMMA FitsPreserved ==
    ASSUME TypeInv, RowsEvolve, NEW r \in Requests, request[r].pc = "write",
           request'[r] = request[r]
    PROVE  /\ bankAccount'[request'[r].now] # Unused
           /\ AccountExists(request[r].now)' =>
                 BalanceOf(request[r].now, request[r].seen)' \in Money
<1> DEFINE a == request[r].now
<1>1. a \in Accounts
  <2>1. request[r] \in Handler
    BY DEF TypeInv, TypeOK
  <2>. QED  BY <2>1 DEF Handler, Idle, Inserting, Updating, Deleting, Assigning, Reading, Writing
<1>2. bankAccount[a] # Unused /\ (AccountExists(a) => BalanceOf(a, request[r].seen) \in Money)
  BY DEF TypeInv, WriteFits
<1>3. bankAccount'[a] # Unused
  BY <1>1, <1>2 DEF RowsEvolve, NoRow
<1>4. ASSUME AccountExists(a)'
      PROVE  AccountExists(a) /\ bankAccount'[a].initialBalance = bankAccount[a].initialBalance
  BY <1>1, <1>2, <1>4 DEF RowsEvolve, AccountExists, NoRow
<1>. QED  BY <1>2, <1>3, <1>4 DEF BalanceOf

(* A step is type correct when its rows are, and when the handler that took *)
(* it either holds no sum or holds one that fits.                           *)
LEMMA TypeInvPreserved ==
    ASSUME TypeInv, RowsEvolve,
           bankAccount' \in [Accounts -> AccountRow \cup NoRow],
           transaction' \in [Transactions -> TransactionRow \cup NoRow],
           workspace' \subseteq Personal \cup Shared,
           inSync' \subseteq Accounts,
           \/ UNCHANGED request
           \/ \E r \in Requests : \E h \in Handler :
                 /\ Become(r, h)
                 /\ h.pc = "write" =>
                       /\ bankAccount'[h.now] # Unused
                       /\ AccountExists(h.now)' => BalanceOf(h.now, h.seen)' \in Money
    PROVE  TypeInv'
<1>1. TypeOK'
  BY DEF TypeInv, TypeOK, Become
<1>2. ASSUME NEW q \in Requests, request'[q].pc = "write"
      PROVE  /\ bankAccount'[request'[q].now] # Unused
             /\ AccountExists(request[q].now)' =>
                   BalanceOf(request[q].now, request[q].seen)' \in Money
  <2>1. CASE request'[q] = request[q]
    BY <1>2, <2>1, FitsPreserved
  <2>2. CASE request'[q] # request[q]
    <3>1. PICK r \in Requests, h \in Handler :
             /\ Become(r, h)
             /\ h.pc = "write" =>
                   /\ bankAccount'[h.now] # Unused
                   /\ AccountExists(h.now)' => BalanceOf(h.now, h.seen)' \in Money
      BY <2>2
    <3>2. q = r /\ request'[q] = h
      BY <2>2, <3>1 DEF Become, TypeInv, TypeOK
    <3>. QED  BY <1>2, <3>1, <3>2
  <2>. QED  BY <2>1, <2>2
<1>. QED  BY <1>1, <1>2 DEF TypeInv, WriteFits

-----------------------------------------------------------------------------
(* The actions that belong to no handler: a row comes, or rows go. *)
LEMMA CreatedRow ==
    ASSUME TypeOK, NEW a \in Accounts, CreateAccount(a)
    PROVE  \E row \in AccountRow :
              /\ bankAccount' = [bankAccount EXCEPT ![a] = row]
              /\ bankAccount'[a] = row /\ row \notin NoRow
              /\ row.currentBalance = row.initialBalance /\ row.initialBalance \in Int
<1>1. PICK m \in Amounts, w \in workspace \cap Personal :
         bankAccount' = [bankAccount EXCEPT ![a] =
                            [workspaceId |-> w, initialBalance |-> m, currentBalance |-> m]]
  BY DEF CreateAccount
<1> DEFINE row == [workspaceId |-> w, initialBalance |-> m, currentBalance |-> m]
<1>2. row \in AccountRow /\ row.currentBalance = m /\ row.initialBalance = m /\ m \in Int
  BY DEF AccountRow
<1>3. bankAccount' = [bankAccount EXCEPT ![a] = row]
  BY <1>1
<1> HIDE DEF row
<1>. QED  BY <1>2, <1>3 DEF TypeOK

(* The steps that delete accounts, transactions or both. *)
RemoveStep(closed, lost) ==
    /\ closed \in SUBSET Accounts /\ lost \in SUBSET Transactions
    /\ \A t \in lost : TransactionExists(t)
    /\ workspace' \subseteq workspace
    /\ RemoveRows(closed, lost)

TableStep ==
    \/ \E b \in Accounts : CreateAccount(b)
    \/ \E closed, lost : RemoveStep(closed, lost)

LEMMA TableSteps ==
    ASSUME \/ \E a \in Accounts : CreateAccount(a) \/ RemoveAccount(a)
           \/ \E w \in Shared : RemoveWorkspace(w)
           \/ \E owned \in SUBSET (Personal \cup Shared) : RemoveUser(owned)
    PROVE  TableStep
<1>1. ASSUME NEW a \in Accounts, RemoveAccount(a) PROVE RemoveStep({a}, {})
  BY <1>1 DEF RemoveAccount, RemoveStep
<1>2. ASSUME NEW gone, Cascade(gone) PROVE \E closed, lost : RemoveStep(closed, lost)
  <2> DEFINE closed == {a \in Accounts : AccountExists(a) /\ bankAccount[a].workspaceId \in gone}
             lost == {t \in Transactions : TransactionExists(t) /\ transaction[t].workspaceId \in gone}
  <2>1. RemoveRows(closed, lost) /\ workspace' \subseteq workspace
    BY <1>2 DEF Cascade
  <2>2. /\ closed \in SUBSET Accounts /\ lost \in SUBSET Transactions
        /\ \A t \in lost : TransactionExists(t)
    OBVIOUS
  <2> HIDE DEF closed, lost
  <2>. QED  BY <2>1, <2>2 DEF RemoveStep
<1>. QED  BY <1>1, <1>2 DEF RemoveWorkspace, RemoveUser, TableStep

LEMMA RemoveFact ==
    ASSUME TypeOK, NEW closed, NEW lost, RemoveStep(closed, lost)
    PROVE  /\ UNCHANGED request
           /\ workspace' \subseteq workspace /\ inSync' \subseteq inSync
           /\ bankAccount' \in [Accounts -> AccountRow \cup NoRow]
           /\ transaction' \in [Transactions -> TransactionRow \cup NoRow]
           /\ \A a \in Accounts : /\ a \in closed => ~AccountExists(a)'
                                  /\ bankAccount'[a] = IF a \in closed THEN Deleted ELSE bankAccount[a]
           /\ \A t \in Transactions : TransactionExists(t)' =>
                 /\ TransactionExists(t)
                 /\ \/ /\ transaction'[t] = transaction[t]
                       /\ transaction[t].bankAccountId \notin closed
                    \/ transaction'[t].bankAccountId = Null
<1>1. /\ closed \in SUBSET Accounts /\ lost \in SUBSET Transactions
      /\ workspace' \subseteq workspace /\ UNCHANGED request /\ inSync' \subseteq inSync
  BY DEF RemoveStep, RemoveRows
<1>2. \A a \in Accounts : bankAccount'[a] = IF a \in closed THEN Deleted ELSE bankAccount[a]
  BY DEF RemoveStep, RemoveRows
<1>3. bankAccount' \in [Accounts -> AccountRow \cup NoRow]
  BY <1>2 DEF RemoveStep, RemoveRows, TypeOK, NoRow
<1>4. ASSUME NEW t \in Transactions, TransactionExists(t)
      PROVE  /\ [transaction[t] EXCEPT !.bankAccountId = Null] \in TransactionRow
             /\ [transaction[t] EXCEPT !.bankAccountId = Null].bankAccountId = Null
  <2>1. transaction[t] \in TransactionRow
    BY <1>4 DEF TransactionExists, TypeOK
  <2>. QED  BY <2>1 DEF TransactionRow
<1>5. \A t \in Transactions : transaction'[t] =
         IF t \in lost THEN Deleted
         ELSE IF TransactionExists(t) /\ transaction[t].bankAccountId \in closed
         THEN [transaction[t] EXCEPT !.bankAccountId = Null]
         ELSE transaction[t]
  BY DEF RemoveStep, RemoveRows
<1>6. transaction' \in [Transactions -> TransactionRow \cup NoRow]
  BY <1>4, <1>5 DEF RemoveStep, RemoveRows, TypeOK, NoRow
<1>7. ASSUME NEW t \in Transactions, TransactionExists(t)'
      PROVE  /\ TransactionExists(t)
             /\ \/ /\ transaction'[t] = transaction[t]
                   /\ transaction[t].bankAccountId \notin closed
                \/ transaction'[t].bankAccountId = Null
  <2>1. t \notin lost
    BY <1>5, <1>7 DEF TransactionExists, NoRow
  <2>. QED  BY <1>4, <1>5, <1>7, <2>1 DEF TransactionExists
<1>8. \A a \in Accounts : a \in closed => ~AccountExists(a)'
  BY <1>2 DEF AccountExists, NoRow
<1>. QED  BY <1>1, <1>2, <1>3, <1>6, <1>7, <1>8

(* An account that stays, and stays in step, has lost no transaction. *)
LEMMA RemoveKeepsEntries ==
    ASSUME TypeOK, NEW closed, NEW lost, RemoveStep(closed, lost),
           NEW a \in Accounts, AccountExists(a)', a \in inSync'
    PROVE  Entries(a)' = Entries(a)
<1>1. a \notin closed
  BY RemoveFact
<1>3. \A t \in lost : transaction[t].bankAccountId # a
  <2>1. inSync' = inSync \ {transaction[t].bankAccountId : t \in lost}
    BY DEF RemoveStep, RemoveRows
  <2>. QED  BY <2>1
<1>2. ASSUME NEW t \in Transactions, transaction'[t] # transaction[t]
      PROVE  t \notin ChargedTo(a) /\ t \notin ChargedTo(a)'
  <2>1. t \in ChargedTo(a)' => FALSE
    BY <1>2, RemoveFact DEF ChargedTo
  <2>2. t \in lost \/ transaction[t].bankAccountId \in closed
    BY <1>2 DEF RemoveStep, RemoveRows
  <2>. QED  BY <1>1, <1>3, <2>1, <2>2 DEF ChargedTo
<1>. QED  BY <1>2, EntriesUnchanged

LEMMA TableActionsKeepTypeInv ==
    ASSUME TypeInv, TableStep
    PROVE  TypeInv'
<1>1. ASSUME NEW a \in Accounts, CreateAccount(a)
      PROVE  TypeInv'
  <2>1. PICK row \in AccountRow : bankAccount' = [bankAccount EXCEPT ![a] = row]
    BY <1>1, CreatedRow DEF TypeInv
  <2>2. RowsEvolve
    BY <1>1, <2>1 DEF CreateAccount, RowsEvolve, TypeInv, TypeOK
  <2>3. bankAccount' \in [Accounts -> AccountRow \cup NoRow]
    BY <2>1 DEF TypeInv, TypeOK
  <2>. QED
    BY <1>1, <2>2, <2>3, TypeInvPreserved DEF CreateAccount, TypeInv, TypeOK
<1>2. ASSUME NEW closed, NEW lost, RemoveStep(closed, lost)
      PROVE  TypeInv'
  <2>1. RowsEvolve
    BY <1>2, RemoveFact DEF RowsEvolve, TypeInv
  <2>. QED  BY <1>2, <2>1, RemoveFact, TypeInvPreserved DEF TypeInv, TypeOK
<1>. QED  BY <1>1, <1>2 DEF TableStep

LEMMA StartKeepsTypeInv ==
    ASSUME TypeInv, NEW r \in Requests, Start(r)
    PROVE  TypeInv'
<1>1. /\ UNCHANGED <<bankAccount, transaction, workspace, inSync>>
      /\ \E h \in Harmless : Become(r, h)
  BY StartBecomes DEF TypeInv
<1>2. RowsEvolve
  BY <1>1 DEF RowsEvolve
<1>. QED  BY <1>1, <1>2, HarmlessFact, TypeInvPreserved DEF TypeInv, TypeOK

(* What a handler in a given state keeps in its local variables. *)
LEMMA HandlerShape ==
    ASSUME TypeOK, NEW r \in Requests
    PROVE  /\ request[r].pc = "insert" => request[r] \in Inserting
           /\ request[r].pc = "update" => request[r] \in Updating
           /\ request[r].pc = "delete" => request[r] \in Deleting
           /\ request[r].pc = "assign" => request[r] \in Assigning
           /\ request[r].pc = "read"   => request[r] \in Reading
           /\ request[r].pc = "write"  => request[r] \in Writing
<1>1. request[r] \in Handler
  BY DEF TypeOK
<1>. QED
  BY <1>1 DEF Handler, Idle, Inserting, Updating, Deleting, Assigning, Reading, Writing

LEMMA WriteUpdateKeepsTypeInv ==
    ASSUME TypeInv, NEW r \in Requests, WriteUpdate(r)
    PROVE  TypeInv'
<1> DEFINE h  == request[r]
           to == IF h.patch.bankAccountId = Keep THEN Null ELSE h.patch.bankAccountId
<1>1. /\ UNCHANGED <<bankAccount, workspace>>
      /\ inSync' \subseteq inSync
      /\ h.pc = "update"
  BY DEF WriteUpdate
<1>2. /\ h.id \in Transactions
      /\ h.existing \in Accounts \cup {Null}
      /\ h.patch \in Patches
      /\ to \in Accounts \cup {Null}
  BY <1>1, HandlerShape DEF Updating, TypeInv
<1>3. transaction' \in [Transactions -> TransactionRow \cup NoRow]
  <2>1. ASSUME NEW row \in TransactionRow
        PROVE  Patched(row, h.patch) \in TransactionRow
    BY <1>2 DEF Patched, TransactionRow
  <2>. QED
    BY <1>2, <2>1 DEF WriteUpdate, TransactionExists, TypeInv, TypeOK
<1>4. \E g \in Harmless : Become(r, g)
  BY <1>2, RecalculateType DEF WriteUpdate, Harmless
<1>5. RowsEvolve
  BY <1>1 DEF RowsEvolve
<1>. QED  BY <1>1, <1>3, <1>4, <1>5, HarmlessFact, TypeInvPreserved DEF TypeInv, TypeOK

LEMMA InsertKeepsTypeInv ==
    ASSUME TypeInv, NEW r \in Requests, Insert(r)
    PROVE  TypeInv'
<1> DEFINE h == request[r]
<1>1. /\ UNCHANGED <<bankAccount, workspace, inSync>>
      /\ h.pc = "insert"
  BY DEF Insert
<1>2. /\ h.row \in TransactionRow
      /\ h.row.bankAccountId \in Accounts \cup {Null}
      /\ h.goal \in Amounts \cup {Null}
  BY <1>1, HandlerShape DEF Inserting, TransactionRow, TypeInv
<1>3. transaction' \in [Transactions -> TransactionRow \cup NoRow]
  BY <1>2 DEF Insert, TypeInv, TypeOK
<1>4. \E g \in Harmless : Become(r, g)
  BY <1>2, RecalculateType DEF Insert, Harmless
<1>5. RowsEvolve
  BY <1>1 DEF RowsEvolve
<1>. QED  BY <1>1, <1>3, <1>4, <1>5, HarmlessFact, TypeInvPreserved DEF TypeInv, TypeOK

LEMMA DeleteKeepsTypeInv ==
    ASSUME TypeInv, NEW r \in Requests, Delete(r)
    PROVE  TypeInv'
<1> DEFINE h == request[r]
<1>1. /\ UNCHANGED <<bankAccount, workspace>>
      /\ inSync' \subseteq inSync
      /\ h.pc = "delete"
  BY DEF Delete
<1>2. h.id \in Transactions /\ h.existing \in Accounts \cup {Null}
  BY <1>1, HandlerShape DEF Deleting, TypeInv
<1>3. transaction' \in [Transactions -> TransactionRow \cup NoRow]
  BY <1>2 DEF Delete, NoRow, TypeInv, TypeOK
<1>4. \E g \in Harmless : Become(r, g)
  BY <1>2, RecalculateType DEF Delete, Harmless
<1>5. RowsEvolve
  BY <1>1 DEF RowsEvolve
<1>. QED  BY <1>1, <1>3, <1>4, <1>5, HarmlessFact, TypeInvPreserved DEF TypeInv, TypeOK

LEMMA WriteAssignKeepsTypeInv ==
    ASSUME TypeInv, NEW r \in Requests, WriteAssign(r)
    PROVE  TypeInv'
<1> DEFINE h == request[r]
<1>1. /\ UNCHANGED <<bankAccount, workspace>>
      /\ inSync' \subseteq inSync
      /\ h.pc = "assign"
  BY DEF WriteAssign
<1>2. h.id \in Transactions /\ h.to \in Accounts \cup {Null}
  BY <1>1, HandlerShape DEF Assigning, TypeInv
<1>3. transaction' \in [Transactions -> TransactionRow \cup NoRow]
  <2>1. ASSUME NEW row \in TransactionRow
        PROVE  [row EXCEPT !.bankAccountId = h.to] \in TransactionRow
    BY <1>2 DEF TransactionRow
  <2>. QED
    BY <1>2, <2>1 DEF WriteAssign, TransactionExists, TypeInv, TypeOK
<1>4. \E g \in Harmless : Become(r, g)
  BY <1>2, RecalculateType DEF WriteAssign, Harmless
<1>5. RowsEvolve
  BY <1>1 DEF RowsEvolve
<1>. QED  BY <1>1, <1>3, <1>4, <1>5, HarmlessFact, TypeInvPreserved DEF TypeInv, TypeOK

LEMMA RecalcReadKeepsTypeInv ==
    ASSUME TypeInv, NEW r \in Requests, RecalcRead(r)
    PROVE  TypeInv'
<1> DEFINE h == request[r]
<1>1. /\ UNCHANGED <<bankAccount, transaction, workspace>>
      /\ inSync' \subseteq inSync
      /\ h.pc = "read"
  BY DEF RecalcRead
<1>2. /\ h.now \in Accounts
      /\ h.next \in Accounts \cup {Null}
      /\ h.goal \in Amounts \cup {Null}
  BY <1>1, HandlerShape DEF Reading, TypeInv
<1>3. \E g \in Handler :
         /\ Become(r, g)
         /\ g.pc = "write" =>
               /\ bankAccount'[g.now] # Unused
               /\ AccountExists(g.now)' => BalanceOf(g.now, g.seen)' \in Money
  <2>1. CASE ~AccountExists(h.now) \/ Balance(h.now) \notin Money
    <3>1. \E g \in Harmless : Become(r, g)
      BY <1>2, <2>1, RecalculateType DEF RecalcRead, Harmless
    <3>. QED  BY <3>1, HarmlessFact
  <2>2. CASE AccountExists(h.now) /\ Balance(h.now) \in Money
    <3>1. PICK g \in Writing :
             g = [pc |-> "write", now |-> h.now, next |-> h.next,
                  goal |-> h.goal, seen |-> Entries(h.now)]
      BY <1>2, EntriesType DEF Writing, TypeInv
    <3>2. Become(r, g)
      BY <2>2, <3>1 DEF RecalcRead
    <3>3. BalanceOf(g.now, g.seen) \in Money /\ AccountExists(g.now)
      BY <2>2, <3>1 DEF Balance
    <3>4. BalanceOf(g.now, g.seen)' \in Money /\ bankAccount'[g.now] # Unused
      BY <1>1, <3>3 DEF BalanceOf, AccountExists, NoRow
    <3>5. g \in Handler
      BY <3>1 DEF Handler
    <3>. QED  BY <3>2, <3>4, <3>5
  <2>. QED  BY <2>1, <2>2
<1>4. RowsEvolve
  BY <1>1 DEF RowsEvolve
<1>. QED  BY <1>1, <1>3, <1>4, TypeInvPreserved DEF TypeInv, TypeOK

(* The row a recalculation writes. *)
LEMMA RecalcWriteRow ==
    ASSUME TypeInv, NEW r \in Requests, RecalcWrite(r), AccountExists(request[r].now)
    PROVE  LET a   == request[r].now
               row == [bankAccount[a] EXCEPT !.currentBalance = NewBalance(a, request[r].seen)]
           IN  /\ bankAccount' = [bankAccount EXCEPT ![a] = row]
               /\ row \in AccountRow
               /\ row \notin NoRow
               /\ row.initialBalance = bankAccount[a].initialBalance
               /\ row.currentBalance = NewBalance(a, request[r].seen)
<1> DEFINE a   == request[r].now
           row == [bankAccount[a] EXCEPT !.currentBalance = NewBalance(a, request[r].seen)]
<1>1. request[r].pc = "write"
  BY DEF RecalcWrite
<1>2. a \in Accounts
  BY <1>1, HandlerShape DEF Writing, TypeInv
<1>3. bankAccount[a] \in AccountRow
  BY <1>2 DEF AccountExists, TypeInv, TypeOK
<1>4. NewBalance(a, request[r].seen) \in Money
  BY <1>1 DEF NewBalance, TypeInv, WriteFits
<1>5. row \in AccountRow
  BY <1>3, <1>4 DEF AccountRow
<1>6. row \notin NoRow
  BY <1>5
<1>7. /\ row.initialBalance = bankAccount[a].initialBalance
      /\ row.currentBalance = NewBalance(a, request[r].seen)
  BY <1>3 DEF AccountRow
<1>8. bankAccount' = [bankAccount EXCEPT ![a] = row]
  BY DEF RecalcWrite
<1>. QED  BY <1>5, <1>6, <1>7, <1>8

LEMMA RecalcWriteKeepsTypeInv ==
    ASSUME TypeInv, NEW r \in Requests, RecalcWrite(r)
    PROVE  TypeInv'
<1> DEFINE h == request[r]
           a == h.now
<1>1. /\ UNCHANGED <<transaction, workspace>>
      /\ h.pc = "write"
  BY DEF RecalcWrite
<1>2. a \in Accounts /\ h.next \in Accounts \cup {Null}
  BY <1>1, HandlerShape DEF Writing, TypeInv
<1>3. /\ bankAccount' \in [Accounts -> AccountRow \cup NoRow]
      /\ RowsEvolve
  <2>1. CASE AccountExists(a)
    <3>1. bankAccount' \in [Accounts -> AccountRow \cup NoRow]
      BY <1>2, <2>1, RecalcWriteRow DEF TypeInv, TypeOK
    <3>2. RowsEvolve
      BY <1>2, <2>1, RecalcWriteRow DEF RowsEvolve, TypeInv, TypeOK
    <3>. QED  BY <3>1, <3>2
  <2>2. CASE ~AccountExists(a)
    BY <2>2 DEF RecalcWrite, RowsEvolve, TypeInv, TypeOK
  <2>. QED  BY <2>1, <2>2
<1>4. inSync' \subseteq Accounts
  BY <1>2 DEF RecalcWrite, TypeInv, TypeOK
<1>5. \E g \in Harmless : Become(r, g)
  BY <1>2, RecalculateType DEF RecalcWrite, Harmless
<1>. QED  BY <1>1, <1>3, <1>4, <1>5, HarmlessFact, TypeInvPreserved DEF TypeInv, TypeOK

LEMMA FailKeepsTypeInv ==
    ASSUME TypeInv, NEW r \in Requests, Fail(r)
    PROVE  TypeInv'
<1>1. /\ UNCHANGED <<bankAccount, transaction, workspace>>
      /\ inSync' \subseteq inSync
      /\ Become(r, Idle)
      /\ Idle \in Harmless
  BY DEF Fail, Harmless
<1>2. RowsEvolve
  BY <1>1 DEF RowsEvolve
<1>. QED  BY <1>1, <1>2, HarmlessFact, TypeInvPreserved DEF TypeInv, TypeOK

LEMMA NextKeepsTypeInv == TypeInv /\ [Next]_vars => TypeInv'
<1>. SUFFICES ASSUME TypeInv, [Next]_vars  PROVE TypeInv'
  OBVIOUS
<1>1. CASE UNCHANGED vars
  BY <1>1 DEF vars, TypeInv, TypeOK, WriteFits, AccountExists, BalanceOf
<1>2. CASE Next
  BY <1>2, TableSteps, TableActionsKeepTypeInv, StartKeepsTypeInv, InsertKeepsTypeInv,
     WriteUpdateKeepsTypeInv, DeleteKeepsTypeInv, WriteAssignKeepsTypeInv,
     RecalcReadKeepsTypeInv, RecalcWriteKeepsTypeInv, FailKeepsTypeInv
     DEF Next, Work, Step
<1>. QED  BY <1>1, <1>2

(* Every reachable state is type correct and every sum a handler is about  *)
(* to write fits its column, whatever overlaps and whatever fails.         *)
THEOREM TypeInvariance == Spec => []TypeInv
<1>. QED  BY InitTypeInv, NextKeepsTypeInv, PTL DEF Spec

(* The rows and the handlers of Ledger stay well formed. *)
THEOREM TypeCorrect == Spec => []TypeOK
<1>1. TypeInv => TypeOK
  BY DEF TypeInv
<1>. QED  BY <1>1, TypeInvariance, PTL

-----------------------------------------------------------------------------
(* The inductive invariant behind SettledBalance.  The foreign key of the  *)
(* transaction table matters for one step only: an account that is created *)
(* has no transaction yet, so its initial balance is its balance.          *)
ChargesExist ==
    \A t \in Transactions : TransactionExists(t) =>
        AccountOrNull(transaction[t].bankAccountId)

SettledInv == TypeInv /\ ChargesExist /\ SettledBalance

LEMMA InitSettledInv == Init => SettledInv
<1>1. Init => ChargesExist
  BY DEF Init, ChargesExist, TransactionExists, NoRow
<1>2. Init => SettledBalance
  BY DEF Init, SettledBalance, AccountExists, NoRow
<1>. QED  BY <1>1, <1>2, InitTypeInv DEF SettledInv

(* A step that takes no account away and charges transactions only to      *)
(* accounts that are there keeps the foreign key.                          *)
LEMMA ChargesStillExist ==
    ASSUME ChargesExist,
           \A a \in Accounts : AccountExists(a) => AccountExists(a)',
           \A t \in Transactions :
              \/ transaction'[t] = transaction[t]
              \/ TransactionExists(t)' => AccountOrNull(transaction'[t].bankAccountId)
    PROVE  ChargesExist'
<1>. SUFFICES ASSUME NEW t \in Transactions, TransactionExists(t)'
              PROVE  AccountOrNull(transaction[t].bankAccountId)'
  BY DEF ChargesExist
<1>1. AccountOrNull(transaction'[t].bankAccountId)
  BY DEF ChargesExist, TransactionExists
<1>. QED  BY <1>1 DEF AccountOrNull

LEMMA SameAccounts ==
    ASSUME UNCHANGED bankAccount
    PROVE  \A a \in Accounts : AccountExists(a) => AccountExists(a)'
BY DEF AccountExists

LEMMA ChargesExistStep ==
    ASSUME TypeInv, ChargesExist, [Next]_vars
    PROVE  ChargesExist'
<1>1. CASE UNCHANGED vars
  BY <1>1 DEF vars, ChargesExist, TransactionExists, AccountOrNull, AccountExists
<1>2. ASSUME NEW a \in Accounts, CreateAccount(a)
      PROVE  ChargesExist'
  <2>1. \A b \in Accounts : AccountExists(b) => AccountExists(b)'
    BY <1>2, CreatedRow DEF AccountExists, TypeInv, TypeOK
  <2>. QED  BY <1>2, <2>1, ChargesStillExist DEF CreateAccount
<1>3. ASSUME NEW closed, NEW lost, RemoveStep(closed, lost)
      PROVE  ChargesExist'
  <2>. SUFFICES ASSUME NEW t \in Transactions, TransactionExists(t)'
                PROVE  AccountOrNull(transaction[t].bankAccountId)'
    BY DEF ChargesExist
  <2>1. CASE transaction'[t].bankAccountId = Null
    BY <2>1 DEF AccountOrNull
  <2>2. CASE transaction'[t].bankAccountId # Null
    <3>1. /\ TransactionExists(t) /\ transaction'[t] = transaction[t]
          /\ transaction[t].bankAccountId \notin closed
      BY <1>3, <2>2, RemoveFact DEF TypeInv
    <3>2. AccountOrNull(transaction[t].bankAccountId)
      BY <3>1 DEF ChargesExist
    <3>. QED  BY <1>3, <3>1, <3>2, RemoveFact DEF AccountOrNull, AccountExists, TypeInv
  <2>. QED  BY <2>1, <2>2
<1>4. CASE TableStep
  BY <1>2, <1>3, <1>4 DEF TableStep
<1>5. ASSUME NEW r \in Requests, Start(r)
      PROVE  ChargesExist'
  BY <1>5, StartBecomes, ChargesStillExist, SameAccounts DEF TypeInv
<1>6. ASSUME NEW r \in Requests, Insert(r)
      PROVE  ChargesExist'
  <2>1. \A t \in Transactions :
           \/ transaction'[t] = transaction[t]
           \/ transaction'[t] = request[r].row /\ AccountOrNull(request[r].row.bankAccountId)
    BY <1>6 DEF Insert, TypeInv, TypeOK
  <2>. QED  BY <1>6, <2>1, ChargesStillExist, SameAccounts DEF Insert
<1>7. ASSUME NEW r \in Requests, WriteUpdate(r)
      PROVE  ChargesExist'
  <2> DEFINE h == request[r]
             to == IF h.patch.bankAccountId = Keep THEN Null ELSE h.patch.bankAccountId
  <2>1. ASSUME NEW t \in Transactions, transaction'[t] # transaction[t]
        PROVE  AccountOrNull(transaction'[t].bankAccountId)
    <3>1. /\ t = h.id /\ TransactionExists(t) /\ AccountOrNull(to)
          /\ transaction'[t] = Patched(transaction[t], h.patch)
      BY <1>7, <2>1 DEF WriteUpdate, TypeInv, TypeOK
    <3>2. transaction[t] \in TransactionRow /\ AccountOrNull(transaction[t].bankAccountId)
      BY <3>1 DEF TransactionExists, ChargesExist, TypeInv, TypeOK
    <3>3. transaction'[t].bankAccountId =
             IF h.patch.bankAccountId = Keep THEN transaction[t].bankAccountId ELSE to
      BY <3>1, <3>2 DEF Patched, TransactionRow
    <3>. QED  BY <3>1, <3>2, <3>3
  <2>. QED  BY <1>7, <2>1, ChargesStillExist, SameAccounts DEF WriteUpdate
<1>8. ASSUME NEW r \in Requests, Delete(r)
      PROVE  ChargesExist'
  <2>1. \A t \in Transactions : transaction'[t] \in {transaction[t], Deleted}
    BY <1>8 DEF Delete, TypeInv, TypeOK
  <2>. QED
    BY <1>8, <2>1, ChargesStillExist, SameAccounts DEF Delete, TransactionExists, NoRow
<1>9. ASSUME NEW r \in Requests, WriteAssign(r)
      PROVE  ChargesExist'
  <2>1. ASSUME NEW t \in Transactions, transaction'[t] # transaction[t]
        PROVE  AccountOrNull(transaction'[t].bankAccountId)
    <3>1. /\ t = request[r].id /\ TransactionExists(t) /\ AccountOrNull(request[r].to)
          /\ transaction'[t] = [transaction[t] EXCEPT !.bankAccountId = request[r].to]
      BY <1>9, <2>1 DEF WriteAssign, TypeInv, TypeOK
    <3>2. transaction[t] \in TransactionRow
      BY <3>1 DEF TransactionExists, TypeInv, TypeOK
    <3>. QED  BY <3>1, <3>2 DEF TransactionRow
  <2>. QED  BY <1>9, <2>1, ChargesStillExist, SameAccounts DEF WriteAssign
<1>10. ASSUME NEW r \in Requests, RecalcRead(r) \/ Fail(r)
       PROVE  ChargesExist'
  BY <1>10, ChargesStillExist, SameAccounts DEF RecalcRead, Fail
<1>11. ASSUME NEW r \in Requests, RecalcWrite(r)
       PROVE  ChargesExist'
  <2>1. ASSUME NEW a \in Accounts, AccountExists(a)
        PROVE  AccountExists(a)'
    BY <1>11, <2>1, RecalcWriteRow DEF RecalcWrite, AccountExists, NoRow, TypeInv, TypeOK
  <2>. QED  BY <1>11, <2>1, ChargesStillExist DEF RecalcWrite
<1>. QED
  BY <1>1, <1>4, <1>5, <1>6, <1>7, <1>8, <1>9, <1>10, <1>11, TableSteps DEF Next, Work, Step

-----------------------------------------------------------------------------
Shown(a) == bankAccount[a].currentBalance = Balance(a)

(* Nobody has to recalculate a. *)
Quiet(a) == \A r \in Requests : a \notin Todo(r)

(* What a handler still owes once it calls recalculateBalance. *)
LEMMA RecalculateTodo ==
    ASSUME TypeInv, NEW r \in Requests, NEW goal,
           NEW a \in Accounts \cup {Null}, NEW b \in Accounts \cup {Null},
           Become(r, Recalculate(a, b, goal))
    PROVE  Todo(r)' = {a, b} \ {Null}
<1>1. request'[r] = Recalculate(a, b, goal)
  BY DEF Become, TypeInv, TypeOK
<1>. QED  BY <1>1 DEF Todo, Recalculate, Idle

LEMMA OthersTodo ==
    ASSUME TypeInv, NEW r \in Requests, NEW h, Become(r, h), NEW q \in Requests, q # r
    PROVE  Todo(q)' = Todo(q)
BY DEF Become, Todo, TypeInv, TypeOK

(* An account whose row and entries a step leaves alone, and which is quiet *)
(* after the step, was quiet before, unless the acting handler dropped it.  *)
LEMMA StillShown ==
    ASSUME TypeInv, SettledBalance,
           NEW a \in inSync, AccountExists(a)', Quiet(a)',
           bankAccount'[a] = bankAccount[a],
           Entries(a)' = Entries(a),
           \/ UNCHANGED request
           \/ \E r \in Requests : \E h : Become(r, h) /\ (a \in Todo(r) => a \in Todo(r)')
    PROVE  Shown(a)'
<1>1. AccountExists(a)
  BY DEF AccountExists
<1>2. Quiet(a)
  <2>1. CASE UNCHANGED request
    BY <2>1 DEF Quiet, Todo
  <2>2. ASSUME NEW r \in Requests, NEW h, Become(r, h), a \in Todo(r) => a \in Todo(r)'
        PROVE  Quiet(a)
    BY <2>2, OthersTodo DEF Quiet
  <2>. QED  BY <2>1, <2>2
<1>3. Shown(a)
  BY <1>1, <1>2 DEF SettledBalance, Quiet, Shown
<1>. QED  BY <1>3 DEF Shown, Balance, BalanceOf

(* A new account shows its initial balance, which is its balance. *)
LEMMA CreatedShown ==
    ASSUME TypeInv, ChargesExist, NEW a \in Accounts, CreateAccount(a)
    PROVE  Shown(a)'
<1>1. ChargedTo(a) = {}
  BY DEF CreateAccount, ChargedTo, ChargesExist, AccountOrNull, AccountExists, NoRow
<1>2. Entries(a)' = {}
  BY <1>1, EntriesUnchanged DEF CreateAccount, Entries
<1>3. /\ bankAccount'[a].currentBalance = bankAccount'[a].initialBalance
      /\ bankAccount'[a].initialBalance \in Int
  BY CreatedRow DEF TypeInv
<1>. QED  BY <1>2, <1>3, TotalOfNothing DEF Shown, Balance, BalanceOf

LEMMA SettledStep ==
    ASSUME SettledInv, [Next]_vars, NEW a \in inSync', AccountExists(a)', Quiet(a)'
    PROVE  Shown(a)'
<1>. USE DEF SettledInv
<1>0. a \in Accounts
  BY NextKeepsTypeInv DEF TypeInv, TypeOK
<1>1. CASE UNCHANGED vars
  <2>1. Entries(a)' = Entries(a)
    BY <1>0, <1>1, EntriesUnchanged DEF vars
  <2>. QED  BY <1>1, <2>1, StillShown DEF vars
<1>2. ASSUME NEW b \in Accounts, CreateAccount(b)
      PROVE  Shown(a)'
  <2>1. Entries(a)' = Entries(a)
    BY <1>0, <1>2, EntriesUnchanged DEF CreateAccount
  <2>2. CASE a # b
    BY <1>2, <2>1, <2>2, StillShown DEF CreateAccount, TypeInv, TypeOK
  <2>3. CASE a = b
    BY <1>2, <2>3, CreatedShown
  <2>. QED  BY <2>2, <2>3
<1>3. ASSUME NEW closed, NEW lost, RemoveStep(closed, lost)
      PROVE  Shown(a)'
  <2>1. a \in inSync /\ bankAccount'[a] = bankAccount[a] /\ UNCHANGED request
    BY <1>0, <1>3, RemoveFact DEF TypeInv
  <2>2. Entries(a)' = Entries(a)
    BY <1>0, <1>3, RemoveKeepsEntries DEF TypeInv
  <2>. QED  BY <2>1, <2>2, StillShown
<1>4. CASE TableStep
  BY <1>2, <1>3, <1>4 DEF TableStep
<1>5. ASSUME NEW r \in Requests, Start(r)
      PROVE  Shown(a)'
  <2>1. /\ UNCHANGED <<bankAccount, transaction, workspace, inSync>>
        /\ \E h : Become(r, h)
    BY <1>5, StartBecomes DEF TypeInv
  <2>2. Todo(r) = {}
    BY <1>5 DEF Start, StartCreate, StartCharge, StartAdjust, StartUpdate, StartRemove,
                StartAssign, Todo, Idle
  <2>3. Entries(a)' = Entries(a)
    BY <1>0, <2>1, EntriesUnchanged
  <2>. QED  BY <2>1, <2>2, <2>3, StillShown
<1>6. ASSUME NEW r \in Requests, Insert(r)
      PROVE  Shown(a)'
  <2> DEFINE row == request[r].row
  <2>1. /\ request[r].pc = "insert"
        /\ row.bankAccountId \in Accounts \cup {Null}
        /\ a \in inSync
        /\ bankAccount'[a] = bankAccount[a]
        /\ Todo(r) = {}
    BY <1>6, HandlerShape DEF Insert, Inserting, TransactionRow, TypeInv, Todo
  <2>2. CASE Become(r, Idle) /\ UNCHANGED transaction
    <3>1. Entries(a)' = Entries(a)
      BY <1>0, <2>2, EntriesUnchanged
    <3>. QED  BY <2>1, <2>2, <3>1, StillShown
  <2>3. ASSUME NEW t \in Transactions, transaction[t] = Unused,
               transaction' = [transaction EXCEPT ![t] = row],
               Become(r, Recalculate(row.bankAccountId, Null, request[r].goal))
        PROVE  Shown(a)'
    <3>1. row.bankAccountId # a
      BY <1>0, <2>1, <2>3, RecalculateTodo DEF Quiet
    <3>2. \A u \in Transactions :
             \/ transaction'[u] = transaction[u]
             \/ transaction[u] = Unused /\ transaction'[u] = row
      BY <2>3 DEF TypeInv, TypeOK
    <3>3. Entries(a)' = Entries(a)
      BY <1>0, <3>1, <3>2, EntriesUnchanged DEF ChargedTo, TransactionExists, NoRow
    <3>. QED  BY <2>1, <2>3, <3>3, StillShown
  <2>. QED  BY <1>6, <2>2, <2>3 DEF Insert
<1>7. ASSUME NEW r \in Requests, WriteUpdate(r)
      PROVE  Shown(a)'
  <2> DEFINE h  == request[r]
             to == IF h.patch.bankAccountId = Keep THEN Null ELSE h.patch.bankAccountId
  <2>1. /\ h.pc = "update"
        /\ h.id \in Transactions
        /\ h.existing \in Accounts \cup {Null}
        /\ to \in Accounts \cup {Null}
        /\ a \in inSync
        /\ bankAccount'[a] = bankAccount[a]
        /\ Todo(r) = {}
    BY <1>7, HandlerShape DEF WriteUpdate, Updating, TypeInv, Todo
  <2>2. CASE Become(r, Idle) /\ UNCHANGED transaction
    <3>1. Entries(a)' = Entries(a)
      BY <1>0, <2>2, EntriesUnchanged
    <3>. QED  BY <2>1, <2>2, <3>1, StillShown
  <2>3. CASE /\ TransactionExists(h.id)
             /\ transaction' = [transaction EXCEPT ![h.id] = Patched(@, h.patch)]
             /\ inSync' = inSync \ ({transaction[h.id].bankAccountId} \ {h.existing})
             /\ Become(r, Recalculate(h.existing, to, Null))
    <3>1. a # h.existing /\ a # to
      BY <1>0, <2>1, <2>3, RecalculateTodo DEF Quiet
    <3>2. transaction[h.id].bankAccountId # a
      BY <2>3, <3>1
    <3>3. /\ transaction'[h.id] = Patched(transaction[h.id], h.patch)
          /\ transaction[h.id] \in TransactionRow
      BY <2>1, <2>3 DEF TransactionExists, TypeInv, TypeOK
    <3>4. transaction'[h.id].bankAccountId # a
      BY <3>1, <3>2, <3>3 DEF Patched, TransactionRow
    <3>5. \A u \in Transactions : u # h.id => transaction'[u] = transaction[u]
      BY <2>3 DEF TypeInv, TypeOK
    <3>6. Entries(a)' = Entries(a)
      BY <1>0, <3>2, <3>4, <3>5, EntriesUnchanged DEF ChargedTo
    <3>. QED  BY <2>1, <2>3, <3>6, StillShown
  <2>. QED  BY <1>7, <2>2, <2>3 DEF WriteUpdate
<1>8. ASSUME NEW r \in Requests, Delete(r)
      PROVE  Shown(a)'
  <2> DEFINE h == request[r]
  <2>1. /\ h.pc = "delete"
        /\ h.id \in Transactions
        /\ h.existing \in Accounts \cup {Null}
        /\ a \in inSync
        /\ bankAccount'[a] = bankAccount[a]
        /\ Todo(r) = {}
    BY <1>8, HandlerShape DEF Delete, Deleting, TypeInv, Todo
  <2>2. CASE Become(r, Idle) /\ UNCHANGED transaction
    <3>1. Entries(a)' = Entries(a)
      BY <1>0, <2>2, EntriesUnchanged
    <3>. QED  BY <2>1, <2>2, <3>1, StillShown
  <2>3. CASE /\ transaction' = [transaction EXCEPT ![h.id] = Deleted]
             /\ inSync' = inSync \ ({transaction[h.id].bankAccountId} \ {h.existing})
             /\ Become(r, Recalculate(h.existing, Null, Null))
    <3>1. a # h.existing
      BY <1>0, <2>1, <2>3, RecalculateTodo DEF Quiet
    <3>2. transaction[h.id].bankAccountId # a
      BY <2>3, <3>1
    <3>3. \A u \in Transactions :
             \/ transaction'[u] = transaction[u]
             \/ u = h.id /\ transaction'[u] = Deleted
      BY <2>3 DEF TypeInv, TypeOK
    <3>4. Entries(a)' = Entries(a)
      BY <1>0, <3>2, <3>3, EntriesUnchanged DEF ChargedTo, TransactionExists, NoRow
    <3>. QED  BY <2>1, <2>3, <3>4, StillShown
  <2>. QED  BY <1>8, <2>2, <2>3 DEF Delete
<1>9. ASSUME NEW r \in Requests, WriteAssign(r)
      PROVE  Shown(a)'
  <2> DEFINE h == request[r]
  <2>1. /\ h.pc = "assign"
        /\ h.id \in Transactions
        /\ h.to \in Accounts \cup {Null}
        /\ a \in inSync
        /\ bankAccount'[a] = bankAccount[a]
        /\ Todo(r) = {}
    BY <1>9, HandlerShape DEF WriteAssign, Assigning, TypeInv, Todo
  <2>2. CASE Become(r, Idle) /\ UNCHANGED transaction
    <3>1. Entries(a)' = Entries(a)
      BY <1>0, <2>2, EntriesUnchanged
    <3>. QED  BY <2>1, <2>2, <3>1, StillShown
  <2>3. CASE /\ TransactionExists(h.id)
             /\ transaction' = [transaction EXCEPT ![h.id].bankAccountId = h.to]
             /\ inSync' = inSync \ ({transaction[h.id].bankAccountId} \ {h.to})
             /\ Become(r, Recalculate(h.to, Null, Null))
    <3>1. a # h.to
      BY <1>0, <2>1, <2>3, RecalculateTodo DEF Quiet
    <3>2. transaction[h.id].bankAccountId # a
      BY <2>3, <3>1
    <3>3. /\ transaction'[h.id] = [transaction[h.id] EXCEPT !.bankAccountId = h.to]
          /\ transaction[h.id] \in TransactionRow
      BY <2>1, <2>3 DEF TransactionExists, TypeInv, TypeOK
    <3>4. transaction'[h.id].bankAccountId # a
      BY <3>1, <3>3 DEF TransactionRow
    <3>5. \A u \in Transactions : u # h.id => transaction'[u] = transaction[u]
      BY <2>3 DEF TypeInv, TypeOK
    <3>6. Entries(a)' = Entries(a)
      BY <1>0, <3>2, <3>4, <3>5, EntriesUnchanged DEF ChargedTo
    <3>. QED  BY <2>1, <2>3, <3>6, StillShown
  <2>. QED  BY <1>9, <2>2, <2>3 DEF WriteAssign
<1>10. ASSUME NEW r \in Requests, RecalcRead(r)
       PROVE  Shown(a)'
  <2> DEFINE h == request[r]
  <2>1. /\ h.pc = "read"
        /\ h.now \in Accounts
        /\ h.next \in Accounts \cup {Null}
        /\ a \in inSync
        /\ AccountExists(a)
        /\ bankAccount'[a] = bankAccount[a]
        /\ Todo(r) = {h.now, h.next} \ {Null}
    BY <1>10, HandlerShape DEF RecalcRead, Reading, TypeInv, Todo, AccountExists
  <2>2. Entries(a)' = Entries(a)
    BY <1>0, <1>10, EntriesUnchanged DEF RecalcRead
  <2>3. CASE ~AccountExists(h.now) /\ Become(r, Recalculate(h.next, Null, Null))
    <3>1. Todo(r)' = {h.next} \ {Null}
      BY <2>1, <2>3, RecalculateTodo
    <3>. QED  BY <2>1, <2>2, <2>3, <3>1, StillShown
  <2>4. CASE Become(r, [pc |-> "write", now |-> h.now, next |-> h.next,
                        goal |-> h.goal, seen |-> Entries(h.now)])
    <3>1. Todo(r)' = Todo(r)
      BY <2>1, <2>4 DEF Become, Todo, TypeInv, TypeOK
    <3>. QED  BY <2>1, <2>2, <2>4, <3>1, StillShown
  <2>5. CASE Become(r, Idle) /\ inSync' = inSync \ Todo(r)
    BY <2>1, <2>2, <2>5, StillShown
  <2>. QED  BY <1>10, <2>3, <2>4, <2>5 DEF RecalcRead
<1>11. ASSUME NEW r \in Requests, RecalcWrite(r)
       PROVE  Shown(a)'
  <2> DEFINE h == request[r]
             b == h.now
  <2>1. /\ h.pc = "write"
        /\ b \in Accounts
        /\ h.next \in Accounts \cup {Null}
        /\ Todo(r) = {b, h.next} \ {Null}
    BY <1>11, HandlerShape DEF RecalcWrite, Writing, TypeInv, Todo
  <2>2. Entries(a)' = Entries(a)
    BY <1>0, <1>11, EntriesUnchanged DEF RecalcWrite
  <2>3. CASE AccountExists(b) /\ a = b
    <3>1. h.seen = Entries(a)
      BY <1>11, <2>3 DEF RecalcWrite
    <3>2. /\ bankAccount'[a].currentBalance = BalanceOf(a, Entries(a))
          /\ bankAccount'[a].initialBalance = bankAccount[a].initialBalance
      BY <1>0, <1>11, <2>3, <3>1, RecalcWriteRow DEF NewBalance, TypeInv, TypeOK
    <3>. QED  BY <2>2, <3>2 DEF Shown, Balance, BalanceOf
  <2>4. CASE AccountExists(b) /\ a # b
    <3>1. /\ a \in inSync
          /\ bankAccount'[a] = bankAccount[a]
          /\ Become(r, Recalculate(h.next, Null, Null))
      BY <1>0, <1>11, <2>4 DEF RecalcWrite, TypeInv, TypeOK
    <3>2. Todo(r)' = {h.next} \ {Null}
      BY <2>1, <3>1, RecalculateTodo
    <3>. QED  BY <2>1, <2>2, <2>4, <3>1, <3>2, StillShown
  <2>5. CASE ~AccountExists(b)
    <3>1. /\ a \in inSync \ Todo(r)
          /\ bankAccount'[a] = bankAccount[a]
          /\ Become(r, Idle)
      BY <1>11, <2>5 DEF RecalcWrite
    <3>. QED  BY <2>2, <3>1, StillShown
  <2>. QED  BY <2>3, <2>4, <2>5
<1>12. ASSUME NEW r \in Requests, Fail(r)
       PROVE  Shown(a)'
  <2>1. /\ a \in inSync \ Todo(r)
        /\ bankAccount'[a] = bankAccount[a]
        /\ Become(r, Idle)
    BY <1>12 DEF Fail
  <2>2. Entries(a)' = Entries(a)
    BY <1>0, <1>12, EntriesUnchanged DEF Fail
  <2>. QED  BY <2>1, <2>2, StillShown
<1>. QED
  BY <1>1, <1>4, <1>5, <1>6, <1>7, <1>8, <1>9, <1>10, <1>11, <1>12, TableSteps
     DEF Next, Work, Step

LEMMA SettledInvStep == SettledInv /\ [Next]_vars => SettledInv'
<1>. SUFFICES ASSUME SettledInv, [Next]_vars  PROVE SettledInv'
  OBVIOUS
<1>1. TypeInv'
  BY NextKeepsTypeInv DEF SettledInv
<1>2. ChargesExist'
  BY ChargesExistStep DEF SettledInv
<1>3. SettledBalance'
  BY SettledStep DEF SettledBalance, Shown, Quiet
<1>. QED  BY <1>1, <1>2, <1>3 DEF SettledInv

(* An account in step with its transactions that no handler still has to    *)
(* recalculate shows its initial balance plus everything charged to it.     *)
THEOREM SettledBalanceHolds == Spec => []SettledBalance
<1>1. SettledInv => SettledBalance
  BY DEF SettledInv
<1>. QED  BY InitSettledInv, SettledInvStep, <1>1, PTL DEF Spec

-----------------------------------------------------------------------------
(* A stored balance is never invented. *)
(* The sum a handler is about to write was a balance of the account too. *)
ReadBefore ==
    \A r \in Requests : request[r].pc = "write" =>
        (AccountExists(request[r].now) =>
            BalanceOf(request[r].now, request[r].seen) \in had[request[r].now])

HistoryInv == SettledInv /\ DOMAIN had = Accounts /\ NeverInvented /\ ReadBefore

-----------------------------------------------------------------------------
(* A row that is there after a step was there before, or is new, or has     *)
(* just been recalculated.                                                  *)
LEMMA RowStep ==
    ASSUME TypeInv, [Next]_vars, NEW a \in Accounts, AccountExists(a)'
    PROVE  \/ bankAccount'[a] = bankAccount[a]
           \/ CreateAccount(a)
           \/ /\ AccountExists(a)
              /\ \E r \in Requests : RecalcWrite(r) /\ request[r].now = a
<1>1. ASSUME NEW b \in Accounts, CreateAccount(b), b # a
      PROVE  bankAccount'[a] = bankAccount[a]
  BY <1>1 DEF CreateAccount, TypeInv, TypeOK
<1>2. ASSUME NEW closed, NEW lost, RemoveStep(closed, lost)
      PROVE  bankAccount'[a] = bankAccount[a]
  BY <1>2, RemoveFact DEF TypeInv
<1>3. ASSUME NEW r \in Requests, RecalcWrite(r), bankAccount'[a] # bankAccount[a]
      PROVE  AccountExists(a) /\ request[r].now = a
  BY <1>3 DEF RecalcWrite, TypeInv, TypeOK
<1>4. TableStep => bankAccount'[a] = bankAccount[a] \/ CreateAccount(a)
  BY <1>1, <1>2 DEF TableStep
<1>5. ASSUME NEW r \in Requests,
             \/ Start(r) \/ Insert(r) \/ WriteUpdate(r) \/ Delete(r) \/ WriteAssign(r)
             \/ RecalcRead(r) \/ Fail(r)
      PROVE  bankAccount' = bankAccount
  BY <1>5, StartBecomes
     DEF Insert, WriteUpdate, Delete, WriteAssign, RecalcRead, Fail, TypeInv
<1>. QED
  BY <1>3, <1>4, <1>5, TableSteps DEF Next, Work, Step, vars

(* No step changes the initial balance of an account. *)
LEMMA InitialBalanceStep ==
    ASSUME TypeInv, [Next]_vars, NEW a \in Accounts, AccountExists(a)', ~CreateAccount(a)
    PROVE  AccountExists(a) /\ bankAccount'[a].initialBalance = bankAccount[a].initialBalance
<1>1. CASE bankAccount'[a] = bankAccount[a]
  BY <1>1 DEF AccountExists
<1>2. ASSUME NEW r \in Requests, RecalcWrite(r), request[r].now = a, AccountExists(a)
      PROVE  bankAccount'[a].initialBalance = bankAccount[a].initialBalance
  BY <1>2, RecalcWriteRow DEF TypeInv, TypeOK
<1>. QED  BY <1>1, <1>2, RowStep

LEMMA HadGrows ==
    ASSUME DOMAIN had = Accounts, [HistoryNext]_historyVars, NEW a \in Accounts
    PROVE  had[a] \subseteq had'[a]
BY DEF HistoryNext, historyVars

LEMMA HadNow ==
    ASSUME HistoryNext, NEW a \in Accounts, AccountExists(a)'
    PROVE  Balance(a)' \in had'[a]
BY DEF HistoryNext, BalancesNow

LEMMA NeverInventedStep ==
    ASSUME HistoryInv, HistoryNext
    PROVE  NeverInvented'
<1>. USE DEF HistoryInv, SettledInv
<1>1. [Next]_vars /\ [HistoryNext]_historyVars
  BY DEF HistoryNext
<1>. SUFFICES ASSUME NEW a \in Accounts, AccountExists(a)'
              PROVE  bankAccount'[a].currentBalance \in had'[a]
  BY DEF NeverInvented
<1>2. CASE bankAccount'[a] = bankAccount[a]
  <2>1. bankAccount[a].currentBalance \in had[a]
    BY <1>2 DEF NeverInvented, AccountExists
  <2>. QED  BY <1>1, <1>2, <2>1, HadGrows
<1>3. CASE CreateAccount(a)
  BY <1>3, CreatedShown, HadNow DEF Shown
<1>4. ASSUME NEW r \in Requests, RecalcWrite(r), request[r].now = a, AccountExists(a)
      PROVE  bankAccount'[a].currentBalance \in had'[a]
  <2>1. bankAccount'[a].currentBalance = BalanceOf(a, request[r].seen)
    BY <1>4, RecalcWriteRow DEF NewBalance, TypeInv, TypeOK
  <2>2. BalanceOf(a, request[r].seen) \in had[a]
    BY <1>4 DEF ReadBefore, RecalcWrite
  <2>. QED  BY <1>1, <2>1, <2>2, HadGrows
<1>. QED  BY <1>1, <1>2, <1>3, <1>4, RowStep

(* Only the read of a recalculation makes a handler hold a sum. *)
LEMMA WriteComesFromRead ==
    ASSUME TypeInv, [Next]_vars, NEW q \in Requests, request'[q].pc = "write"
    PROVE  \/ request'[q] = request[q]
           \/ /\ UNCHANGED <<bankAccount, transaction>>
              /\ AccountExists(request'[q].now)
              /\ request'[q].seen = Entries(request'[q].now)
<1>. SUFFICES ASSUME request'[q] # request[q]
              PROVE  /\ UNCHANGED <<bankAccount, transaction>>
                     /\ AccountExists(request'[q].now)
                     /\ request'[q].seen = Entries(request'[q].now)
  OBVIOUS
<1>1. \A a, b, goal : Recalculate(a, b, goal).pc # "write"
  BY DEF Recalculate, Idle
<1>2. ASSUME NEW r \in Requests, NEW h, Become(r, h)
      PROVE  r = q /\ request'[q] = h
  BY <1>2 DEF Become, TypeInv, TypeOK
<1>3. Idle.pc # "write"
  BY DEF Idle
<1>4. ASSUME NEW r \in Requests, Start(r)
      PROVE  FALSE
  BY <1>2, <1>4, StartBecomes, HarmlessFact DEF TypeInv
<1>5. ASSUME NEW r \in Requests,
             Insert(r) \/ WriteUpdate(r) \/ Delete(r) \/ WriteAssign(r) \/ RecalcWrite(r) \/ Fail(r)
      PROVE  FALSE
  BY <1>1, <1>2, <1>3, <1>5 DEF Insert, WriteUpdate, Delete, WriteAssign, RecalcWrite, Fail
<1>6. ASSUME NEW r \in Requests, RecalcRead(r)
      PROVE  /\ UNCHANGED <<bankAccount, transaction>>
             /\ AccountExists(request'[q].now)
             /\ request'[q].seen = Entries(request'[q].now)
  BY <1>1, <1>2, <1>3, <1>6 DEF RecalcRead
<1>7. TableStep => UNCHANGED request
  BY RemoveFact DEF TableStep, CreateAccount, TypeInv
<1>. QED  BY <1>4, <1>5, <1>6, <1>7, TableSteps DEF Next, Work, Step, vars

LEMMA ReadBeforeStep ==
    ASSUME HistoryInv, HistoryNext
    PROVE  ReadBefore'
<1>. USE DEF HistoryInv, SettledInv
<1>1. [Next]_vars /\ [HistoryNext]_historyVars /\ TypeInv'
  BY NextKeepsTypeInv DEF HistoryNext
<1>. SUFFICES ASSUME NEW q \in Requests, request'[q].pc = "write",
                     AccountExists(request[q].now)'
              PROVE  BalanceOf(request[q].now, request[q].seen)' \in had'[request'[q].now]
  BY DEF ReadBefore
<1>2. PICK h \in Writing : h = request'[q]
  <2>1. request'[q] \in Handler
    BY <1>1 DEF TypeInv, TypeOK
  <2>. QED  BY <2>1 DEF Handler, Idle, Inserting, Updating, Deleting, Assigning, Reading
<1>3. h.now \in Accounts /\ AccountExists(h.now)'
  BY <1>2 DEF Writing
<1>4. CASE request'[q] = request[q]
  <2>1. bankAccount[h.now] # Unused
    BY <1>2, <1>4 DEF TypeInv, WriteFits
  <2>2. ~CreateAccount(h.now)
    BY <2>1 DEF CreateAccount
  <2>3. /\ AccountExists(h.now)
        /\ bankAccount'[h.now].initialBalance = bankAccount[h.now].initialBalance
    BY <1>1, <1>3, <2>2, InitialBalanceStep
  <2>4. BalanceOf(h.now, h.seen) \in had[h.now]
    BY <1>2, <1>4, <2>3 DEF ReadBefore
  <2>5. BalanceOf(h.now, h.seen)' = BalanceOf(h.now, h.seen)
    BY <2>3 DEF BalanceOf
  <2>. QED  BY <1>1, <1>2, <1>3, <2>4, <2>5, HadGrows
<1>5. CASE /\ UNCHANGED <<bankAccount, transaction>>
           /\ AccountExists(request'[q].now)
           /\ request'[q].seen = Entries(request'[q].now)
  <2>1. h.seen = Entries(h.now)
    BY <1>2, <1>5
  <2>2. Entries(h.now)' = Entries(h.now)
    BY <1>3, <1>5, EntriesUnchanged
  <2>3. BalanceOf(h.now, h.seen)' = Balance(h.now)'
    BY <2>1, <2>2 DEF Balance, BalanceOf
  <2>4. Balance(h.now)' \in had'[h.now]
    BY <1>3, HadNow
  <2>. QED  BY <1>2, <2>3, <2>4
<1>. QED  BY <1>1, <1>4, <1>5, WriteComesFromRead

LEMMA InitHistoryInv == HistoryInit => HistoryInv
  BY InitSettledInv
     DEF HistoryInit, HistoryInv, BalancesNow, NeverInvented, ReadBefore, Init, AccountExists,
         NoRow, Idle

LEMMA HistoryInvStep == HistoryInv /\ [HistoryNext]_historyVars => HistoryInv'
<1>1. ASSUME HistoryInv, HistoryNext
      PROVE  HistoryInv'
  <2>1. SettledInv'
    BY <1>1, SettledInvStep DEF HistoryInv, HistoryNext
  <2>2. DOMAIN had' = Accounts
    BY <1>1 DEF HistoryNext
  <2>. QED  BY <1>1, <2>1, <2>2, NeverInventedStep, ReadBeforeStep DEF HistoryInv
<1>2. ASSUME HistoryInv, UNCHANGED historyVars
      PROVE  HistoryInv'
  <2>1. SettledInv'
    BY <1>2, SettledInvStep DEF HistoryInv, historyVars
  <2>. QED
    BY <1>2, <2>1
       DEF HistoryInv, historyVars, vars, NeverInvented, ReadBefore, AccountExists, BalanceOf
<1>. QED  BY <1>1, <1>2

(* currentBalance is always a balance the account has really had. *)
THEOREM NeverInventedHolds == HistorySpec => []NeverInvented
<1>1. HistoryInv => NeverInvented
  BY DEF HistoryInv
<1>. QED  BY <1>1, InitHistoryInv, HistoryInvStep, PTL DEF HistorySpec

-----------------------------------------------------------------------------
(* The refinement of LaggingBalance.  Every step remembers the sums of the  *)
(* accounts that are open after it.                                         *)
LEMMA Remembers == HistoryNext => Lagging!Remember
<1>. SUFFICES ASSUME HistoryNext PROVE Lagging!Remember
  OBVIOUS
<1>1. \A a \in Accounts : BalancesNow'[a] =
         IF a \in DOMAIN ActualNow' THEN {ActualNow'[a]} ELSE {}
  BY DEF BalancesNow, ActualNow, OpenAccounts
<1>. QED  BY <1>1 DEF HistoryNext, Lagging!Remember

LEMMA InitRefined == HistoryInit => Lagging!Init
BY DEF HistoryInit, Init, Lagging!Init, BalancesNow, ActualNow, ShownNow, OpenAccounts,
       AccountExists, NoRow

(* The sum of an account whose row and entries stay is the same. *)
LEMMA SameBalance ==
    ASSUME NEW a \in Accounts, Entries(a)' = Entries(a),
           bankAccount'[a].initialBalance = bankAccount[a].initialBalance
    PROVE  Balance(a)' = Balance(a)
BY DEF Balance, BalanceOf

(* A step that leaves the accounts alone moves money and shows nothing. *)
LEMMA MoveRefined ==
    ASSUME UNCHANGED bankAccount, HistoryNext
    PROVE  Lagging!Move({})
<1>1. UNCHANGED OpenAccounts /\ UNCHANGED ShownNow
  BY DEF OpenAccounts, ShownNow, AccountExists
<1>2. ShownNow = [a \in OpenAccounts \ {} |-> ShownNow[a]]
  BY DEF ShownNow
<1>. QED  BY <1>1, <1>2, Remembers DEF Lagging!Move, Lagging!Open, ActualNow, ShownNow

LEMMA CreateRefined ==
    ASSUME HistoryInv, HistoryNext, NEW a \in Accounts, CreateAccount(a)
    PROVE  Lagging!OpenAccount(a)
<1>. USE DEF HistoryInv, SettledInv
<1>1. [Next]_vars /\ TypeInv /\ TypeInv'
  BY NextKeepsTypeInv DEF HistoryNext
<1>2. PICK row \in AccountRow : bankAccount' = [bankAccount EXCEPT ![a] = row]
  BY <1>1, CreatedRow DEF TypeInv
<1>4. AccountExists(a)' /\ ~AccountExists(a)
  <2>1. AccountExists(a)'
    BY <1>1, CreatedRow DEF TypeInv, AccountExists
  <2>2. ~AccountExists(a)
    BY DEF CreateAccount, AccountExists, NoRow
  <2>. QED  BY <2>1, <2>2
<1>5. ASSUME NEW b \in Accounts, b # a
      PROVE  bankAccount'[b] = bankAccount[b] /\ Entries(b)' = Entries(b)
  BY <1>1, <1>2, <1>5, EntriesUnchanged DEF CreateAccount, TypeInv, TypeOK
<1>6. OpenAccounts' = OpenAccounts \cup {a} /\ a \notin OpenAccounts
  BY <1>4, <1>5 DEF OpenAccounts, AccountExists
<1>7. Balance(a)' = bankAccount'[a].currentBalance
  BY CreatedShown DEF Shown
<1>8. ASSUME NEW b \in OpenAccounts
      PROVE  /\ Balance(b)' = Balance(b)
             /\ bankAccount'[b].currentBalance = bankAccount[b].currentBalance
  BY <1>5, <1>6, SameBalance DEF OpenAccounts
<1>. QED
  BY <1>6, <1>7, <1>8, Remembers DEF Lagging!OpenAccount, Lagging!Open, ActualNow, ShownNow

LEMMA RemoveRefined ==
    ASSUME HistoryInv, HistoryNext, NEW closed, NEW lost, RemoveStep(closed, lost)
    PROVE  closed \in SUBSET Accounts /\ Lagging!Move(closed)
<1>. USE DEF HistoryInv, SettledInv
<1>1. TypeOK /\ closed \in SUBSET Accounts
  BY DEF TypeInv, RemoveStep
<1>2. OpenAccounts' = OpenAccounts \ closed
  BY <1>1, RemoveFact DEF OpenAccounts, AccountExists
<1>3. ASSUME NEW b \in OpenAccounts'
      PROVE  bankAccount'[b].currentBalance = bankAccount[b].currentBalance
  BY <1>1, <1>2, RemoveFact DEF OpenAccounts
<1>4. ShownNow' = [b \in OpenAccounts \ closed |-> ShownNow[b]]
  BY <1>2, <1>3 DEF ShownNow
<1>5. DOMAIN ActualNow' = OpenAccounts \ closed /\ DOMAIN ShownNow = OpenAccounts
  BY <1>2 DEF ActualNow, ShownNow
<1>. QED
  BY <1>1, <1>4, <1>5, Remembers DEF Lagging!Move, Lagging!Open

LEMMA WriteRefined ==
    ASSUME HistoryInv, HistoryNext, NEW r \in Requests, RecalcWrite(r),
           AccountExists(request[r].now), request[r].now \in Accounts
    PROVE  Lagging!CatchUp(request[r].now)
<1>. USE DEF HistoryInv, SettledInv
<1>0. PICK a \in Accounts : a = request[r].now
  OBVIOUS
<1>1. /\ bankAccount'[a].currentBalance = BalanceOf(a, request[r].seen)
      /\ bankAccount'[a].initialBalance = bankAccount[a].initialBalance
      /\ AccountExists(a)'
  BY <1>0, RecalcWriteRow DEF NewBalance, TypeInv, TypeOK, AccountExists
<1>2. ASSUME NEW b \in Accounts, b # a
      PROVE  bankAccount'[b] = bankAccount[b]
  BY <1>0, <1>2, RecalcWriteRow DEF TypeInv, TypeOK
<1>3. ASSUME NEW b \in Accounts
      PROVE  Entries(b)' = Entries(b)
  BY EntriesUnchanged DEF RecalcWrite
<1>4. OpenAccounts' = OpenAccounts /\ a \in OpenAccounts
  BY <1>0, <1>1, <1>2 DEF OpenAccounts, AccountExists
<1>5. UNCHANGED ActualNow
  BY <1>1, <1>2, <1>3, <1>4, SameBalance DEF ActualNow, OpenAccounts
<1>6. ShownNow' = [ShownNow EXCEPT ![a] = ShownNow'[a]]
  BY <1>2, <1>4 DEF ShownNow, OpenAccounts
<1>7. ShownNow'[a] \in had[a]
  BY <1>0, <1>1, <1>4 DEF ShownNow, ReadBefore, RecalcWrite
<1>8. a \in DOMAIN ShownNow
  BY <1>4 DEF ShownNow
<1>. QED  BY <1>0, <1>5, <1>6, <1>7, <1>8, Remembers DEF Lagging!CatchUp, Lagging!Open

(* The service implements LaggingBalance, for any number of accounts,       *)
(* transactions and overlapping handlers: no step both moves money and      *)
(* shows a balance, and a balance it shows is one the account has had.      *)
THEOREM LagsBehindHolds == HistorySpec => LagsBehind
<1>1. ASSUME HistoryInv, HistoryNext
      PROVE  Lagging!Next
  <2>. USE DEF HistoryInv, SettledInv, Lagging!Next
  <2>1. CASE TableStep
    <3>1. ASSUME NEW a \in Accounts, CreateAccount(a) PROVE Lagging!Next
      BY <1>1, <3>1, CreateRefined
    <3>2. ASSUME NEW closed, NEW lost, RemoveStep(closed, lost) PROVE Lagging!Next
      BY <1>1, <3>2, RemoveRefined
    <3>. QED  BY <2>1, <3>1, <3>2 DEF TableStep
  <2>2. ASSUME NEW r \in Requests, RecalcWrite(r)
        PROVE  Lagging!Next
    <3>1. CASE AccountExists(request[r].now)
      <4>1. request[r].now \in Accounts
        BY <1>1, <2>2, HandlerShape DEF RecalcWrite, TypeInv, Writing
      <4>. QED  BY <1>1, <2>2, <3>1, <4>1, WriteRefined
    <3>2. CASE ~AccountExists(request[r].now)
      BY <1>1, <2>2, <3>2, MoveRefined DEF RecalcWrite
    <3>. QED  BY <3>1, <3>2
  <2>3. CASE UNCHANGED bankAccount
    BY <1>1, <2>3, MoveRefined
  <2>4. ASSUME NEW r \in Requests,
               \/ Start(r) \/ Insert(r) \/ WriteUpdate(r) \/ Delete(r) \/ WriteAssign(r)
               \/ RecalcRead(r) \/ Fail(r)
        PROVE  bankAccount' = bankAccount
    BY <1>1, <2>4, StartBecomes
       DEF Insert, WriteUpdate, Delete, WriteAssign, RecalcRead, Fail, TypeInv
  <2>. QED
    BY <1>1, <2>1, <2>2, <2>3, <2>4, TableSteps DEF HistoryNext, Next, Work, Step
<1>2. HistoryInv /\ [HistoryNext]_historyVars => [Lagging!Next]_(Lagging!abstractVars)
  BY <1>1
     DEF historyVars, vars, Lagging!abstractVars, ActualNow, ShownNow, OpenAccounts,
         AccountExists, Balance, BalanceOf, Entries, ChargedTo, TransactionExists, SignedAmount
<1>. QED
  BY <1>2, InitRefined, InitHistoryInv, HistoryInvStep, PTL
     DEF HistorySpec, LagsBehind, Lagging!Spec

-----------------------------------------------------------------------------
(* An adjustment ends on its target.  A handler that is alone in alone is   *)
(* the only one at work, and the account it adjusts is where the row to be  *)
(* inserted, or the row inserted, takes it to the target.  Finitely many    *)
(* transactions have ever been there, so that sums can be extended.         *)
AloneInv ==
    /\ alone \subseteq Requests
    /\ \A r \in alone : request[r] # Idle /\ \A q \in Requests \ {r} : request[q] = Idle

GivenOut == {t \in Transactions : transaction[t] # Unused}

(* The account is there, and nothing has been left behind on it. *)
Adjustable(a) == AccountExists(a) /\ a \in inSync

OnTheWay(r) ==
    LET h == request[r]
    IN  /\ h.pc = "insert" =>
              /\ h.row.bankAccountId \in Accounts /\ bankAccount[h.row.bankAccountId] # Unused
              /\ Adjustable(h.row.bankAccountId) =>
                    Balance(h.row.bankAccountId) + SignedAmount(h.row) = h.goal
        /\ h.pc = "read" =>
              /\ bankAccount[h.now] # Unused
              /\ Adjustable(h.now) => Balance(h.now) = h.goal
        /\ h.pc = "write" => (Adjustable(h.now) => BalanceOf(h.now, h.seen) = h.goal)

HasGoal(r) == request[r].pc \in {"insert", "read", "write"} /\ request[r].goal # Null

TargetInv == \A r \in alone : HasGoal(r) => OnTheWay(r)

AdjustInv == SettledInv /\ AloneInv /\ IsFiniteSet(GivenOut) /\ TargetInv

-----------------------------------------------------------------------------
(* Steps give out at most one id. *)
LEMMA GivenOutStep ==
    ASSUME TypeInv, [Next]_vars
    PROVE  \E t : GivenOut' \subseteq GivenOut \cup {t}
<1>1. \A t \in Transactions : TransactionExists(t) => transaction[t] # Unused
  BY DEF TransactionExists, NoRow
<1>2. ASSUME NEW r \in Requests, Insert(r)
      PROVE  \E t : GivenOut' \subseteq GivenOut \cup {t}
  BY <1>2 DEF Insert, GivenOut, TypeInv, TypeOK
<1>3. ASSUME NEW r \in Requests, WriteUpdate(r)
      PROVE  GivenOut' \subseteq GivenOut
  BY <1>1, <1>3 DEF WriteUpdate, GivenOut, TypeInv, TypeOK
<1>4. ASSUME NEW r \in Requests, Delete(r)
      PROVE  GivenOut' \subseteq GivenOut
  BY <1>1, <1>4 DEF Delete, GivenOut, TypeInv, TypeOK
<1>5. ASSUME NEW r \in Requests, WriteAssign(r)
      PROVE  GivenOut' \subseteq GivenOut
  BY <1>1, <1>5 DEF WriteAssign, GivenOut, TypeInv, TypeOK
<1>6. ASSUME NEW r \in Requests, Start(r) \/ RecalcRead(r) \/ RecalcWrite(r) \/ Fail(r)
      PROVE  GivenOut' \subseteq GivenOut
  BY <1>6, StartBecomes DEF RecalcRead, RecalcWrite, Fail, GivenOut, TypeInv
<1>7. ASSUME NEW closed, NEW lost, RemoveStep(closed, lost), NEW t \in Transactions,
             transaction[t] = Unused
      PROVE  transaction'[t] = Unused
  <2>1. ~TransactionExists(t) /\ t \notin lost
    BY <1>1, <1>7 DEF RemoveStep
  <2>. QED  BY <1>7, <2>1 DEF RemoveStep, RemoveRows
<1>8. CASE TableStep
  <2>1. ASSUME NEW a \in Accounts, CreateAccount(a)
        PROVE  GivenOut' \subseteq GivenOut
    BY <2>1 DEF CreateAccount, GivenOut
  <2>. QED  BY <1>7, <1>8, <2>1 DEF TableStep, GivenOut
<1>9. CASE UNCHANGED vars
  BY <1>9 DEF vars, GivenOut
<1>. QED  BY <1>2, <1>3, <1>4, <1>5, <1>6, <1>8, <1>9, TableSteps DEF Next, Work, Step

LEMMA GivenOutFinite ==
    ASSUME TypeInv, IsFiniteSet(GivenOut), [Next]_vars
    PROVE  IsFiniteSet(GivenOut)'
<1>1. PICK t : GivenOut' \subseteq GivenOut \cup {t}
  BY GivenOutStep
<1>2. IsFiniteSet(GivenOut \cup {t})
  BY FS_AddElement
<1>. QED  BY <1>1, <1>2, FS_Subset

-----------------------------------------------------------------------------
(* With nobody else at work the account shows its balance, and the row of   *)
(* an adjustment makes up the difference.                                   *)
LEMMA StartOnTheWay ==
    ASSUME SettledInv, NEW r \in Requests, Start(r),
           \A q \in Requests \ {r} : request'[q] = Idle, HasGoal(r)'
    PROVE  OnTheWay(r)'
<1>. USE DEF SettledInv
<1>1. /\ request[r] = Idle
      /\ UNCHANGED <<bankAccount, transaction, workspace, inSync>>
  BY DEF Start, StartCreate, StartCharge, StartAdjust, StartUpdate, StartRemove, StartAssign
<1>2. ASSUME NEW h, Become(r, h)
      PROVE  request'[r] = h /\ \A q \in Requests : request[q] = Idle
  BY <1>1, <1>2 DEF Become, TypeInv, TypeOK
<1>4. StartAdjust(r)
  <2>1. ASSUME NEW h, Become(r, h)
        PROVE  h.pc \in {"insert", "read", "write"} /\ h.goal # Null
    BY <1>2, <2>1 DEF HasGoal
  <2>2. ASSUME StartCreate(r) PROVE FALSE
    <3>1. \E m \in Amounts, ty \in Types, a \in Accounts \cup {Null}, w \in workspace :
             Become(r, [pc |-> "insert", goal |-> Null,
                        row |-> [amount |-> m, type |-> ty, bankAccountId |-> a, workspaceId |-> w]])
      BY <2>2 DEF StartCreate
    <3>2. \A row : [pc |-> "insert", goal |-> Null, row |-> row].goal = Null
      OBVIOUS
    <3>. QED  BY <2>1, <3>1, <3>2
  <2>3. ASSUME StartCharge(r) PROVE FALSE
    <3>1. \E m \in Amounts, a \in Accounts \cup {Null}, w \in workspace :
             Become(r, [pc |-> "insert", goal |-> Null,
                        row |-> [amount |-> m, type |-> "EXPENSE", bankAccountId |-> a, workspaceId |-> w]])
      BY <2>3 DEF StartCharge
    <3>2. \A row : [pc |-> "insert", goal |-> Null, row |-> row].goal = Null
      OBVIOUS
    <3>. QED  BY <2>1, <3>1, <3>2
  <2>4. ~StartUpdate(r)
    <3>1. \A t, p, a : [pc |-> "update", id |-> t, patch |-> p, existing |-> a].pc = "update"
      OBVIOUS
    <3>. QED  BY <2>1, <3>1 DEF StartUpdate
  <2>5. ~StartRemove(r)
    <3>1. \A t, a : [pc |-> "delete", id |-> t, existing |-> a].pc = "delete"
      OBVIOUS
    <3>. QED  BY <2>1, <3>1 DEF StartRemove
  <2>6. ~StartAssign(r)
    <3>1. \A t, a : [pc |-> "assign", id |-> t, to |-> a].pc = "assign"
      OBVIOUS
    <3>. QED  BY <2>1, <3>1 DEF StartAssign
  <2>. QED  BY <2>2, <2>3, <2>4, <2>5, <2>6 DEF Start
<1>5. PICK a \in Accounts, target \in Amounts :
         /\ AccountExists(a)
         /\ LET diff == target - BalanceRead(a)
            IN  Become(r, [pc |-> "insert", goal |-> target,
                           row |-> [amount |-> IF diff > 0 THEN diff ELSE -diff,
                                    type |-> IF diff > 0 THEN "INCOME" ELSE "EXPENSE",
                                    bankAccountId |-> a,
                                    workspaceId |-> bankAccount[a].workspaceId]])
  BY <1>4 DEF StartAdjust
<1> DEFINE shown == bankAccount[a].currentBalance
           diff == target - shown
           row == [amount |-> IF diff > 0 THEN diff ELSE -diff,
                   type |-> IF diff > 0 THEN "INCOME" ELSE "EXPENSE",
                   bankAccountId |-> a, workspaceId |-> bankAccount[a].workspaceId]
<1>6. shown \in Int /\ target \in Int
  <2>1. bankAccount[a] \in AccountRow
    BY <1>5 DEF TypeInv, TypeOK, AccountExists
  <2>. QED  BY <2>1 DEF AccountRow
<1>7. Become(r, [pc |-> "insert", goal |-> target, row |-> row])
  BY <1>5 DEF BalanceRead
<1>8. /\ row.bankAccountId = a
      /\ SignedAmount(row) = IF diff > 0 THEN diff ELSE -(-diff)
  BY DEF SignedAmount
<1> HIDE DEF row
<1>9. /\ request'[r].pc = "insert" /\ request'[r].goal = target /\ request'[r].row = row
      /\ \A q \in Requests : request[q] = Idle
  BY <1>2, <1>7
<1>10. SignedAmount(row) = target - shown
  BY <1>6, <1>8
<1>11. a \in inSync => shown = Balance(a)
  <2>1. \A q \in Requests : a \notin Todo(q)
    BY <1>9 DEF Todo, Idle
  <2>. QED  BY <1>5, <2>1 DEF SettledBalance
<1>12. Balance(a)' = Balance(a) /\ bankAccount'[a] # Unused /\ (Adjustable(a)' <=> Adjustable(a))
  <2>1. Entries(a)' = Entries(a)
    BY <1>1, EntriesUnchanged
  <2>. QED  BY <1>1, <1>5, <2>1 DEF Balance, BalanceOf, Adjustable, AccountExists, NoRow
<1>13. Adjustable(a)' => Balance(a)' + SignedAmount(row) = target
  <2> HIDE DEF shown
  <2>. QED  BY <1>6, <1>10, <1>11, <1>12 DEF Adjustable
<1>14. SignedAmount(request'[r].row) = SignedAmount(row)
  BY <1>9
<1>. QED
  BY <1>8, <1>9, <1>12, <1>13, <1>14 DEF OnTheWay

(* A new row adds its signed amount to the balance of its account. *)
LEMMA InsertedBalance ==
    ASSUME SettledInv, IsFiniteSet(GivenOut), NEW t \in Transactions, transaction[t] = Unused,
           NEW row \in TransactionRow, transaction' = [transaction EXCEPT ![t] = row],
           UNCHANGED bankAccount, NEW a \in Accounts, row.bankAccountId = a, AccountExists(a)
    PROVE  Balance(a)' = Balance(a) + SignedAmount(row)
<1>. USE DEF SettledInv, TypeInv
<1> DEFINE e == [id |-> t, amount |-> SignedAmount(row)]
<1>1. row.amount \in Int /\ SignedAmount(row) \in Int
  BY DEF TransactionRow, SignedAmount
<1>2. e \in Entry /\ e.amount = SignedAmount(row)
  BY <1>1 DEF Entry
<1>3. /\ transaction'[t] = row /\ row \notin NoRow /\ t \notin ChargedTo(a)
      /\ \A u \in Transactions : u # t => transaction'[u] = transaction[u]
  BY DEF TypeOK, ChargedTo, TransactionExists, NoRow
<1>4. ChargedTo(a)' = ChargedTo(a) \cup {t}
  BY <1>3 DEF ChargedTo, TransactionExists
<1>5. Entries(a)' = Entries(a) \cup {e}
  <2>1. \A u \in ChargedTo(a) : SignedAmount(transaction[u])' = SignedAmount(transaction[u])
    BY <1>3 DEF ChargedTo, SignedAmount
  <2>2. SignedAmount(transaction[t])' = SignedAmount(row)
    BY <1>3 DEF SignedAmount
  <2>. QED  BY <1>4, <2>1, <2>2 DEF Entries
<1>6. Entries(a) \in SUBSET Entry /\ e \notin Entries(a)
  <2>1. \A x \in Entries(a) : x.id \in ChargedTo(a)
    BY DEF Entries
  <2>. QED  BY <1>3, <2>1, EntriesType
<1>7. IsFiniteSet(Entries(a))
  <2>1. ChargedTo(a) \subseteq GivenOut
    BY DEF ChargedTo, GivenOut, TransactionExists, NoRow
  <2>2. IsFiniteSet(ChargedTo(a))
    BY <2>1, FS_Subset
  <2> DEFINE f == [u \in ChargedTo(a) |-> [id |-> u, amount |-> SignedAmount(transaction[u])]]
  <2>3. f \in Surjection(ChargedTo(a), Entries(a))
    BY DEF Surjection, Entries
  <2> HIDE DEF f
  <2>. QED  BY <2>2, <2>3, FS_Surjection
<1> HIDE DEF e
<1>8. Total(Entries(a)) \in Int /\ Total(Entries(a) \cup {e}) = Total(Entries(a)) + e.amount
  BY <1>2, <1>6, <1>7, TotalAdded
<1>9. bankAccount[a].initialBalance \in Int
  <2>1. bankAccount[a] \in AccountRow
    BY DEF AccountExists, TypeOK
  <2>. QED  BY <2>1 DEF AccountRow
<1>10. Balance(a)' = bankAccount[a].initialBalance + Total(Entries(a) \cup {e})
  BY <1>5 DEF Balance, BalanceOf
<1>11. Balance(a) = bankAccount[a].initialBalance + Total(Entries(a))
  BY DEF Balance, BalanceOf
<1>. QED  BY <1>1, <1>2, <1>8, <1>9, <1>10, <1>11

LEMMA RecalculateGoal ==
    /\ \A a, b, goal : Recalculate(a, b, goal) = Idle \/ Recalculate(a, b, goal).goal = goal
    /\ \A a \in Accounts : \A goal : Recalculate(a, Null, goal)
          = [pc |-> "read", now |-> a, next |-> Null, goal |-> goal]
    /\ Idle.pc = "idle"
BY DEF Recalculate, Idle

(* What a handler on its way to a target does next keeps it on its way. *)
LEMMA StepOnTheWay ==
    ASSUME SettledInv, IsFiniteSet(GivenOut), NEW r \in Requests, Step(r) \/ Fail(r),
           HasGoal(r) => OnTheWay(r), HasGoal(r)'
    PROVE  OnTheWay(r)'
<1>. USE DEF SettledInv
<1>1. ASSUME NEW h, Become(r, h)
      PROVE  request'[r] = h
  BY <1>1 DEF Become, TypeInv, TypeOK
<1>2. ASSUME NEW a, NEW b, Become(r, Recalculate(a, b, Null)) PROVE FALSE
  BY <1>1, <1>2, RecalculateGoal DEF HasGoal
<1>3. ~Become(r, Idle)
  BY <1>1, RecalculateGoal DEF HasGoal
<1>4. Insert(r) \/ RecalcRead(r)
  BY <1>2, <1>3 DEF Step, WriteUpdate, Delete, WriteAssign, RecalcWrite, Fail
<1>5. CASE Insert(r)
  <2>1. request[r].pc = "insert" /\ request[r].row \in TransactionRow
    BY <1>5, HandlerShape DEF Insert, Inserting, TypeInv
  <2>2. PICK row \in TransactionRow : row = request[r].row
    BY <2>1
  <2>3. PICK a, goal : a = row.bankAccountId /\ goal = request[r].goal
    OBVIOUS
  <2>4. PICK t \in Transactions :
           /\ transaction[t] = Unused
           /\ transaction' = [transaction EXCEPT ![t] = row]
           /\ AccountOrNull(a)
           /\ Become(r, Recalculate(a, Null, goal))
           /\ UNCHANGED <<bankAccount, inSync>>
    BY <1>3, <1>5, <2>2, <2>3 DEF Insert
  <2>5. request'[r] = Recalculate(a, Null, goal)
    BY <1>1, <2>4
  <2>6. a \in Accounts
    <3>1. a # Null
      BY <2>5, RecalculateGoal DEF HasGoal, Recalculate
    <3>. QED  BY <2>4, <3>1 DEF AccountOrNull
  <2>7. request'[r] = [pc |-> "read", now |-> a, next |-> Null, goal |-> goal]
    BY <2>5, <2>6, RecalculateGoal
  <2>8. /\ request'[r].pc = "read" /\ request'[r].now = a /\ request'[r].goal = goal
    BY <2>7
  <2>9. goal # Null
    BY <2>8 DEF HasGoal
  <2>10. bankAccount[a] # Unused /\ (Adjustable(a) => Balance(a) + SignedAmount(row) = goal)
    BY <2>1, <2>2, <2>3, <2>9 DEF HasGoal, OnTheWay
  <2>11. Adjustable(a)' => Adjustable(a)
    BY <2>4 DEF Adjustable, AccountExists
  <2>12. Adjustable(a) => Balance(a)' = Balance(a) + SignedAmount(row)
    BY <2>3, <2>4, <2>6, InsertedBalance DEF Adjustable
  <2>13. bankAccount'[a] # Unused /\ (Adjustable(a)' => Balance(a)' = goal)
    BY <2>4, <2>10, <2>11, <2>12
  <2>. QED  BY <2>8, <2>13 DEF OnTheWay
<1>6. CASE RecalcRead(r)
  <2>1. request[r].pc = "read" /\ request[r].now \in Accounts
    BY <1>6, HandlerShape DEF RecalcRead, Reading, TypeInv
  <2>2. PICK a, goal : a \in Accounts /\ a = request[r].now /\ goal = request[r].goal
    BY <2>1
  <2>3. PICK seen : seen = Entries(a)
    OBVIOUS
  <2>4. /\ UNCHANGED <<bankAccount, transaction, inSync>>
        /\ Become(r, [pc |-> "write", now |-> a, next |-> request[r].next, goal |-> goal,
                      seen |-> seen])
    BY <1>2, <1>3, <1>6, <2>2, <2>3 DEF RecalcRead
  <2>5. /\ request'[r].pc = "write" /\ request'[r].now = a /\ request'[r].goal = goal
        /\ request'[r].seen = seen
    BY <1>1, <2>4
  <2>6. goal # Null
    BY <2>5 DEF HasGoal
  <2>7. Adjustable(a) => Balance(a) = goal
    BY <2>1, <2>2, <2>6 DEF HasGoal, OnTheWay
  <2>8. Adjustable(a)' <=> Adjustable(a)
    BY <2>4 DEF Adjustable, AccountExists
  <2>9. BalanceOf(a, seen)' = Balance(a)
    BY <2>3, <2>4 DEF Balance, BalanceOf
  <2>. QED  BY <2>5, <2>7, <2>8, <2>9 DEF OnTheWay, BalanceOf
<1>. QED  BY <1>4, <1>5, <1>6

KeepsBalance(a) ==
    /\ bankAccount'[a] # Unused
    /\ Adjustable(a)' => /\ Adjustable(a) /\ Balance(a)' = Balance(a)
                         /\ bankAccount'[a] = bankAccount[a]

(* An account that stays in step keeps its balance when an account or a     *)
(* workspace comes or goes.                                                 *)
LEMMA TableKeepsBalance ==
    ASSUME SettledInv, TableStep, NEW a \in Accounts, bankAccount[a] # Unused
    PROVE  KeepsBalance(a)
<1>. USE DEF SettledInv, TypeInv
<1>1. ASSUME NEW b \in Accounts, CreateAccount(b) PROVE KeepsBalance(a)
  <2>1. bankAccount'[a] = bankAccount[a] /\ UNCHANGED <<transaction, inSync>>
    BY <1>1 DEF CreateAccount, TypeOK
  <2>2. Entries(a)' = Entries(a)
    BY <2>1, EntriesUnchanged
  <2>. QED  BY <2>1, <2>2 DEF KeepsBalance, Adjustable, AccountExists, Balance, BalanceOf
<1>2. ASSUME NEW closed, NEW lost, RemoveStep(closed, lost) PROVE KeepsBalance(a)
  <2>1. bankAccount'[a] # Unused
    BY <1>2, RemoveFact
  <2>2. ASSUME Adjustable(a)' PROVE Adjustable(a) /\ Balance(a)' = Balance(a)
                                    /\ bankAccount'[a] = bankAccount[a]
    <3>1. a \in inSync /\ bankAccount'[a] = bankAccount[a]
      BY <1>2, <2>2, RemoveFact DEF Adjustable
    <3>2. Entries(a)' = Entries(a)
      BY <1>2, <2>2, RemoveKeepsEntries DEF Adjustable
    <3>. QED  BY <2>2, <3>1, <3>2 DEF Adjustable, AccountExists, Balance, BalanceOf
  <2>. QED  BY <2>1, <2>2 DEF KeepsBalance
<1>. QED  BY <1>1, <1>2 DEF TableStep

LEMMA TableOnTheWay ==
    ASSUME SettledInv, TableStep, NEW r \in Requests, HasGoal(r) => OnTheWay(r), HasGoal(r)'
    PROVE  OnTheWay(r)'
<1>1. UNCHANGED request
  BY DEF TableStep, CreateAccount, RemoveStep, RemoveRows
<1>2. OnTheWay(r)
  BY <1>1 DEF HasGoal
<1>3. CASE request[r].pc = "insert"
  <2>1. PICK a \in Accounts : a = request[r].row.bankAccountId
    BY <1>2, <1>3 DEF OnTheWay
  <2>2. bankAccount[a] # Unused
    BY <1>2, <1>3, <2>1 DEF OnTheWay
  <2>3. /\ bankAccount'[a] # Unused
        /\ Adjustable(a)' => Adjustable(a) /\ Balance(a)' = Balance(a)
    BY <2>2, TableKeepsBalance DEF KeepsBalance
  <2>4. Adjustable(a) => Balance(a) + SignedAmount(request[r].row) = request[r].goal
    BY <1>2, <1>3, <2>1 DEF OnTheWay
  <2>5. request'[r].row.bankAccountId = a /\ request'[r].pc = "insert"
    BY <1>1, <1>3, <2>1
  <2>6. Adjustable(a)' => Balance(a)' + SignedAmount(request[r].row)' = request'[r].goal
    BY <1>1, <2>3, <2>4
  <2>. QED  BY <2>3, <2>5, <2>6 DEF OnTheWay
<1>4. CASE request[r].pc = "read"
  <2>1. PICK a \in Accounts : a = request[r].now
    BY <1>4, HandlerShape DEF SettledInv, TypeInv, Reading
  <2>2. bankAccount[a] # Unused /\ (Adjustable(a) => Balance(a) = request[r].goal)
    BY <1>2, <1>4, <2>1 DEF OnTheWay
  <2>3. /\ bankAccount'[a] # Unused
        /\ Adjustable(a)' => Adjustable(a) /\ Balance(a)' = Balance(a)
    BY <2>2, TableKeepsBalance DEF KeepsBalance
  <2>4. request'[r].now = a /\ request'[r].pc = "read" /\ request'[r].goal = request[r].goal
    BY <1>1, <1>4, <2>1
  <2>. QED  BY <2>2, <2>3, <2>4 DEF OnTheWay
<1>5. CASE request[r].pc = "write"
  <2>1. PICK a, seen : a \in Accounts /\ a = request[r].now /\ seen = request[r].seen
    BY <1>5, HandlerShape DEF SettledInv, TypeInv, Writing
  <2>2. bankAccount[a] # Unused
    BY <1>5, <2>1 DEF SettledInv, TypeInv, WriteFits
  <2>3. Adjustable(a) => BalanceOf(a, seen) = request[r].goal
    BY <1>2, <1>5, <2>1 DEF OnTheWay
  <2>4. Adjustable(a)' => Adjustable(a) /\ bankAccount'[a] = bankAccount[a]
    BY <2>1, <2>2, TableKeepsBalance DEF KeepsBalance
  <2>5. Adjustable(a)' => BalanceOf(a, seen)' = request[r].goal
    BY <2>3, <2>4 DEF BalanceOf
  <2>6. /\ request'[r].now = a /\ request'[r].pc = "write" /\ request'[r].goal = request[r].goal
        /\ request'[r].seen = seen
    BY <1>1, <1>5, <2>1
  <2>. QED  BY <2>5, <2>6 DEF OnTheWay, BalanceOf
<1>. QED  BY <1>1, <1>3, <1>4, <1>5 DEF HasGoal

LEMMA AloneStep ==
    ASSUME HistoryNext
    PROVE  AloneInv'
BY DEF HistoryNext, AloneInv, AtWork

LEMMA TargetStep ==
    ASSUME AdjustInv, HistoryNext
    PROVE  TargetInv'
<1>. USE DEF AdjustInv
<1> SUFFICES ASSUME NEW r \in alone', HasGoal(r)' PROVE OnTheWay(r)'
  BY DEF TargetInv
<1>1. /\ Next /\ r \in Requests /\ request'[r] # Idle
      /\ \A q \in Requests \ {r} : request'[q] = Idle
      /\ r \in alone \/ request[r] = Idle
  BY DEF HistoryNext, AtWork, AloneInv
<1>2. /\ r \in alone => \A q \in Requests \ {r} : request[q] = Idle
      /\ r \in alone => (HasGoal(r) => OnTheWay(r))
      /\ Idle.pc = "idle"
  BY DEF AloneInv, TargetInv, Idle
<1>3. request[r] = Idle => ~HasGoal(r)
  BY <1>2 DEF HasGoal
<1>4. HasGoal(r) => OnTheWay(r)
  BY <1>1, <1>2, <1>3
<1>5. ASSUME NEW q \in Requests, Start(q)
      PROVE  OnTheWay(r)'
  <2>1. request'[q] # Idle
    <3>1. ASSUME NEW h, Become(q, h), h.pc # "idle" PROVE request'[q] # Idle
      BY <1>2, <3>1 DEF Become, SettledInv, TypeInv, TypeOK
    <3>2. /\ \A g, row : [pc |-> "insert", goal |-> g, row |-> row].pc # "idle"
          /\ \A t, p, a : [pc |-> "update", id |-> t, patch |-> p, existing |-> a].pc # "idle"
          /\ \A t, a : [pc |-> "delete", id |-> t, existing |-> a].pc # "idle"
          /\ \A t, a : [pc |-> "assign", id |-> t, to |-> a].pc # "idle"
      OBVIOUS
    <3>3. CASE StartCreate(q) \/ StartCharge(q) \/ StartAdjust(q)
      <4>1. \E g, row : Become(q, [pc |-> "insert", goal |-> g, row |-> row])
        BY <3>3, Zenon DEF StartCreate, StartCharge, StartAdjust
      <4>. QED  BY <3>1, <3>2, <4>1
    <3>4. CASE StartUpdate(q) \/ StartRemove(q) \/ StartAssign(q)
      BY <3>1, <3>2, <3>4 DEF StartUpdate, StartRemove, StartAssign
    <3>. QED  BY <1>5, <3>3, <3>4 DEF Start
  <2>2. q = r
    BY <1>1, <2>1
  <2>. QED  BY <1>1, <1>5, <2>2, StartOnTheWay
<1>6. ASSUME NEW q \in Requests, Step(q) \/ Fail(q)
      PROVE  OnTheWay(r)'
  <2>1. request[q] # Idle
    BY <1>2, <1>6 DEF Step, Insert, WriteUpdate, Delete, WriteAssign, RecalcRead, RecalcWrite, Fail
  <2>2. q = r
    <3>1. CASE r \in alone
      BY <1>2, <2>1, <3>1
    <3>2. CASE request[r] = Idle
      <4>1. \E h : Become(q, h)
        BY <1>6 DEF Step, Insert, WriteUpdate, Delete, WriteAssign, RecalcRead, RecalcWrite, Fail
      <4>2. q # r => request'[r] = request[r]
        BY <1>1, <4>1 DEF Become, SettledInv, TypeInv, TypeOK
      <4>. QED  BY <1>1, <3>2, <4>2
    <3>. QED  BY <1>1, <3>1, <3>2
  <2>. QED  BY <1>1, <1>4, <1>6, <2>2, StepOnTheWay
<1>7. CASE TableStep
  BY <1>1, <1>4, <1>7, TableOnTheWay
<1>. QED  BY <1>1, <1>5, <1>6, <1>7, TableSteps DEF Next, Work

LEMMA AdjustInit == HistoryInit => AdjustInv
<1>. SUFFICES ASSUME HistoryInit PROVE AdjustInv
  OBVIOUS
<1>1. GivenOut = {}
  BY DEF HistoryInit, Init, GivenOut
<1>2. IsFiniteSet(GivenOut)
  BY <1>1, FS_EmptySet
<1>. QED  BY <1>2, InitSettledInv DEF HistoryInit, AdjustInv, AloneInv, TargetInv

LEMMA AdjustStep == AdjustInv /\ [HistoryNext]_historyVars => AdjustInv'
<1>1. ASSUME AdjustInv, HistoryNext
      PROVE  AdjustInv'
  <2>1. SettledInv' /\ IsFiniteSet(GivenOut)'
    BY <1>1, SettledInvStep, GivenOutFinite DEF AdjustInv, SettledInv, HistoryNext
  <2>. QED  BY <1>1, <2>1, AloneStep, TargetStep DEF AdjustInv
<1>2. ASSUME AdjustInv, UNCHANGED historyVars
      PROVE  AdjustInv'
  <2>1. SettledInv' /\ IsFiniteSet(GivenOut)'
    BY <1>2, SettledInvStep, GivenOutFinite DEF AdjustInv, SettledInv, historyVars
  <2>2. UNCHANGED <<bankAccount, transaction, request, inSync, alone>>
    BY <1>2 DEF historyVars, vars
  <2>3. AloneInv'
    BY <1>2, <2>2 DEF AdjustInv, AloneInv
  <2>4. \A a : Balance(a)' = Balance(a) /\ (Adjustable(a)' <=> Adjustable(a))
    BY <2>2 DEF Balance, BalanceOf, Entries, ChargedTo, TransactionExists, SignedAmount,
       Adjustable, AccountExists
  <2>5. ASSUME NEW r \in alone, OnTheWay(r) PROVE OnTheWay(r)'
    BY <2>2, <2>4, <2>5 DEF OnTheWay, BalanceOf, SignedAmount
  <2>6. TargetInv'
    BY <1>2, <2>2, <2>5 DEF AdjustInv, TargetInv, HasGoal
  <2>. QED  BY <2>1, <2>3, <2>6 DEF AdjustInv
<1>. QED  BY <1>1, <1>2

(* A balance adjustment that no other request overlaps ends on the target   *)
(* the client asked for, if the account was in step: the row that           *)
(* adjustBalance creates is the whole difference.                           *)
THEOREM AdjustOnTargetHolds == HistorySpec => AdjustOnTarget
<1>1. ASSUME AdjustInv, NEW r \in alone, RecalcWrite(r), request[r].goal # Null,
             request[r].now \in inSync, AccountExists(request[r].now)
      PROVE  bankAccount'[request[r].now].currentBalance = request[r].goal
  <2>1. r \in Requests /\ request[r].pc = "write"
    BY <1>1 DEF AdjustInv, AloneInv, RecalcWrite
  <2>2. BalanceOf(request[r].now, request[r].seen) = request[r].goal
    BY <1>1, <2>1 DEF AdjustInv, TargetInv, HasGoal, OnTheWay, Adjustable
  <2>3. request[r].now \in Accounts
    BY <1>1, <2>1, HandlerShape DEF Writing, AdjustInv, SettledInv, TypeInv
  <2>. QED
    BY <1>1, <2>1, <2>2, <2>3, RecalcWriteRow
       DEF NewBalance, AdjustInv, SettledInv, TypeInv, TypeOK
<1>2. AdjustInv /\ [HistoryNext]_historyVars
        => [\A r \in alone :
              /\ RecalcWrite(r)
              /\ request[r].goal # Null
              /\ request[r].now \in inSync
              /\ AccountExists(request[r].now)
              => bankAccount'[request[r].now].currentBalance = request[r].goal]_historyVars
  BY <1>1
<1>. QED  BY <1>2, AdjustInit, AdjustStep, PTL DEF HistorySpec, AdjustOnTarget
=============================================================================
