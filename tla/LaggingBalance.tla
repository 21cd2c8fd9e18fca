--------------------------- MODULE LaggingBalance ---------------------------
(***************************************************************************)
(* What a client may rely on when it reads the balance of an account: it   *)
(* may lag behind the transactions, but it is a balance the account really *)
(* had, and a step that moves money never touches a balance that is shown. *)
(***************************************************************************)
CONSTANT Accounts

VARIABLES
    actual,     \* open account -> the sum of its transactions at this moment
    shown,      \* open account -> the balance that clients read
    had         \* account -> the sums it has had

abstractVars == <<actual, shown, had>>

Open == DOMAIN shown

Remember ==
    had' = [a \in Accounts |-> had[a] \cup IF a \in DOMAIN actual' THEN {actual'[a]} ELSE {}]

(* Before there are accounts. *)
Init ==
    /\ DOMAIN actual = {}
    /\ DOMAIN shown = {}
    /\ had = [a \in Accounts |-> {}]

(* An account is opened, with the balance it shows. *)
OpenAccount(a) ==
    /\ a \in DOMAIN actual' \ Open
    /\ actual' = [b \in Open \cup {a} |-> IF b = a THEN actual'[a] ELSE actual[b]]
    /\ shown' = [b \in Open \cup {a} |-> IF b = a THEN actual'[a] ELSE shown[b]]
    /\ Remember

(* Transactions come, go or change account, and accounts may close. *)
Move(closed) ==
    /\ DOMAIN actual' = Open \ closed
    /\ shown' = [b \in Open \ closed |-> shown[b]]
    /\ Remember

(* A balance is brought up to one the account had, old or new. *)
CatchUp(a) ==
    /\ a \in Open
    /\ UNCHANGED actual
    /\ shown' = [shown EXCEPT ![a] = shown'[a]]
    /\ shown'[a] \in had[a]
    /\ Remember

Next ==
    \/ \E a \in Accounts : OpenAccount(a) \/ CatchUp(a)
    \/ \E closed \in SUBSET Accounts : Move(closed)

Spec == Init /\ [][Next]_abstractVars
=============================================================================
