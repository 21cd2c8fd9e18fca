------------------------- MODULE CalculationsProofs -------------------------
(***************************************************************************)
(* The computations on amounts and dates, for every value of their         *)
(* parameters: the payments of computePairwiseBalances, the chain of due   *)
(* dates that nextOccurrenceOfDay makes, and the dates of card cycles and  *)
(* recurring transactions that DashboardService shows.                     *)
(***************************************************************************)
EXTENDS DueDates, Agenda, PairwiseBalances, CalendarProofs, FiniteSums

-----------------------------------------------------------------------------
(* The payments of a closing.  What a member gave and got is within what it *)
(* owes and is owed, and every payment ends the turn of somebody.           *)
InputsOK ==
    /\ percentage \in [Members -> Percentages]
    /\ salary \in [Members -> Salaries \cup {NULL}]
    /\ paid \in [Members -> Amounts]
    /\ totalSpent \in Nat
    /\ whole \in Nat \ {0}

ListsOK ==
    /\ debtors \subseteq Members /\ creditors \subseteq Members
    /\ debtors \cap creditors = {}
    /\ gave \in [Members -> Int] /\ got \in [Members -> Int]

Turns ==
    /\ payments \in Nat
    /\ payments + Cardinality(debtors) + Cardinality(creditors) <= Cardinality(Members)

BalancesInv == InputsOK /\ ListsOK /\ NobodyOverpays /\ Turns /\ FewPayments

-----------------------------------------------------------------------------
(* A net balance is a whole number, also with salaries. *)
LEMMA NetIsInt ==
    ASSUME InputsOK, NEW m \in Members
    PROVE  Net(m) \in Int /\ Debt(m) \in Int /\ Credit(m) \in Int
<1>1. Weight(m) \in Nat
  BY BalancesAssumption DEF Weight, UsesSalaries, InputsOK
<1>2. paid[m] \in Nat
  BY BalancesAssumption DEF InputsOK
<1>3. paid[m] * whole \in Int /\ totalSpent * Weight(m) \in Int
  BY <1>1, <1>2 DEF InputsOK
<1>4. Net(m) \in Int
  BY <1>3 DEF Net
<1> QED
  BY <1>4 DEF Debt, Credit

(* Nobody is on both lists. *)
LEMMA BalancesInitInv == ASSUME BalancesInit PROVE BalancesInv
<1>1. InputsOK
  BY DEF BalancesInit, InputsOK
<1>2. \A m \in Members : Debt(m) >= 0 /\ Credit(m) >= 0 /\ ~(Debt(m) > 0 /\ Credit(m) > 0)
  <2>1. SUFFICES ASSUME NEW m \in Members
                 PROVE  Debt(m) >= 0 /\ Credit(m) >= 0 /\ ~(Debt(m) > 0 /\ Credit(m) > 0)
    OBVIOUS
  <2>2. Net(m) \in Int /\ Epsilon \in Nat
    BY <1>1, NetIsInt DEF InputsOK, Epsilon
  <2> QED
    BY <2>2 DEF Debt, Credit
<1>3. ListsOK
  BY <1>2 DEF BalancesInit, ListsOK
<1>4. NobodyOverpays
  <2>1. SUFFICES ASSUME NEW m \in Members PROVE Owes(m) >= 0 /\ Due(m) >= 0
    BY DEF NobodyOverpays
  <2>2. gave[m] = 0 /\ got[m] = 0
    BY DEF BalancesInit
  <2> QED
    BY <1>1, <1>2, <2>2, NetIsInt DEF Owes, Due
<1>5. Turns
  <2>1. /\ IsFiniteSet(debtors) /\ IsFiniteSet(creditors)
        /\ Cardinality(debtors) \in Nat /\ Cardinality(creditors) \in Nat
    BY <1>3, BalancesAssumption, FS_Subset, FS_CardinalityType DEF ListsOK
  <2>2. Cardinality(debtors \cup creditors)
          = Cardinality(debtors) + Cardinality(creditors) - Cardinality(debtors \cap creditors)
    BY <2>1, FS_Union
  <2>3. Cardinality(debtors \cap creditors) = 0
    BY <1>3, FS_EmptySet DEF ListsOK
  <2>4. Cardinality(debtors \cup creditors) <= Cardinality(Members)
    BY <1>3, BalancesAssumption, FS_Subset DEF ListsOK
  <2>5. payments = 0
    BY DEF BalancesInit
  <2> QED
    BY <2>1, <2>2, <2>3, <2>4, <2>5 DEF Turns
<1> QED
  BY <1>1, <1>3, <1>4, <1>5 DEF BalancesInv, BalancesInit, FewPayments

-----------------------------------------------------------------------------
(* A payment keeps the invariant. *)
LEMMA PayInv ==
    ASSUME BalancesInv, NEW d \in debtors, NEW c \in creditors, Pay(d, c)
    PROVE  BalancesInv'
<1> DEFINE amount == Payment(d, c)
<1>1. d \in Members /\ c \in Members
  BY DEF BalancesInv, ListsOK
<1>2. \A m \in Members : Debt(m) \in Int /\ Credit(m) \in Int /\ Owes(m) \in Int /\ Due(m) \in Int
  BY NetIsInt DEF BalancesInv, ListsOK, Owes, Due
<1>3. /\ amount \in Int /\ amount <= Owes(d) /\ amount <= Due(c)
      /\ amount = Owes(d) \/ amount = Due(c)
  BY <1>1, <1>2 DEF Payment
<1>4. /\ gave' = [gave EXCEPT ![d] = @ + amount]
      /\ got' = [got EXCEPT ![c] = @ + amount]
      /\ debtors' = IF Over(Owes(d) - amount) THEN debtors \ {d} ELSE debtors
      /\ creditors' = IF Over(Due(c) - amount) THEN creditors \ {c} ELSE creditors
      /\ payments' = payments + 1
      /\ UNCHANGED inputs
  BY DEF Pay
<1>5. InputsOK'
  BY <1>4 DEF BalancesInv, InputsOK, inputs
<1>6. ListsOK'
  BY <1>1, <1>3, <1>4 DEF BalancesInv, ListsOK
<1>7. NobodyOverpays'
  <2>1. SUFFICES ASSUME NEW m \in Members PROVE Owes(m)' >= 0 /\ Due(m)' >= 0
    BY DEF NobodyOverpays
  <2>2. Debt(m)' = Debt(m) /\ Credit(m)' = Credit(m)
    BY <1>4 DEF inputs, Debt, Credit, Net, Epsilon, Weight, UsesSalaries
  <2>3. Owes(m)' = IF m = d THEN Owes(m) - amount ELSE Owes(m)
    BY <1>1, <1>2, <1>3, <1>4, <2>2 DEF Owes, BalancesInv, ListsOK
  <2>4. Due(m)' = IF m = c THEN Due(m) - amount ELSE Due(m)
    BY <1>1, <1>2, <1>3, <1>4, <2>2 DEF Due, BalancesInv, ListsOK
  <2>5. Owes(m) >= 0 /\ Due(m) >= 0
    BY DEF BalancesInv, NobodyOverpays
  <2> QED
    BY <1>2, <1>3, <2>3, <2>4, <2>5
<1>8. /\ IsFiniteSet(debtors) /\ IsFiniteSet(creditors) /\ IsFiniteSet(Members)
      /\ Cardinality(debtors) \in Nat /\ Cardinality(creditors) \in Nat
      /\ Cardinality(Members) \in Nat
  BY BalancesAssumption, FS_Subset, FS_CardinalityType DEF BalancesInv, ListsOK
<1>9. /\ Cardinality(debtors \ {d}) = Cardinality(debtors) - 1
      /\ Cardinality(creditors \ {c}) = Cardinality(creditors) - 1
      /\ Cardinality(debtors \ {d}) \in Nat /\ Cardinality(creditors \ {c}) \in Nat
  BY <1>8, FS_RemoveElement, FS_CardinalityType
<1>10. Over(Owes(d) - amount) \/ Over(Due(c) - amount)
  BY <1>1, <1>2, <1>3 DEF Over, Epsilon, BalancesInv, InputsOK
<1>11. Cardinality(debtors') + Cardinality(creditors') <= Cardinality(debtors) + Cardinality(creditors) - 1
       /\ Cardinality(debtors') \in Nat /\ Cardinality(creditors') \in Nat
  BY <1>4, <1>8, <1>9, <1>10
<1>12. Turns'
  BY <1>4, <1>8, <1>11 DEF BalancesInv, Turns
<1>13. FewPayments'
  <2>1. payments + 2 <= Cardinality(Members)
    BY <1>8, <1>9 DEF BalancesInv, Turns
  <2> QED
    BY <1>4, <1>8, <2>1 DEF FewPayments, BalancesInv, Turns
<1> QED
  BY <1>5, <1>6, <1>7, <1>12, <1>13 DEF BalancesInv

(* The invariant holds throughout. *)
THEOREM BalancesInvHolds == BalancesSpec => []BalancesInv
<1>1. BalancesInit => BalancesInv
  BY BalancesInitInv
<1>2. BalancesInv /\ [BalancesNext]_balancesVars => BalancesInv'
  <2>1. SUFFICES ASSUME BalancesInv, [BalancesNext]_balancesVars PROVE BalancesInv'
    OBVIOUS
  <2>2. CASE BalancesNext
    <3>1. PICK d \in debtors, c \in creditors : Pay(d, c)
      BY <2>2 DEF BalancesNext
    <3> QED
      BY <2>1, <3>1, PayInv
  <2>3. CASE UNCHANGED balancesVars
    BY <2>1, <2>3 DEF balancesVars, inputs, BalancesInv, InputsOK, ListsOK, Turns, FewPayments,
       NobodyOverpays, Owes, Due, Debt, Credit, Net, Epsilon, Weight, UsesSalaries
  <2> QED
    BY <2>1, <2>2, <2>3
<1> QED
  BY <1>1, <1>2, PTL DEF BalancesSpec

(* Nobody is told to pay more than it owes, or is promised more than it is  *)
(* owed (computePairwiseBalances), whatever the percentages add up to.      *)
THEOREM NobodyOverpaysHolds == BalancesSpec => []NobodyOverpays
<1>1. BalancesInv => NobodyOverpays
  BY DEF BalancesInv
<1> QED
  BY <1>1, BalancesInvHolds, PTL

(* The loop of computePairwiseBalances ends, after fewer payments than      *)
(* there are members.                                                       *)
THEOREM FewPaymentsHolds == BalancesSpec => []FewPayments
<1>1. BalancesInv => FewPayments
  BY DEF BalancesInv
<1> QED
  BY <1>1, BalancesInvHolds, PTL

-----------------------------------------------------------------------------
(* What was spent was paid by members or elsewhere, what one gives another  *)
(* gets, and whoever is off a list has less than Epsilon to pay or to get.  *)
Settling ==
    /\ totalSpent = Total(paid) + elsewhere
    /\ Total(gave) = Total(got)
    /\ \A m \in Members : gave[m] >= 0 /\ got[m] >= 0
    /\ \A m \in Members : m \notin debtors => Owes(m) < Epsilon
    /\ \A m \in Members : m \notin creditors => Due(m) < Epsilon

LEMMA TotalIsSum ==
    ASSUME NEW f
    PROVE  Total(f) = Sums(f, Members)[Members]
BY Zenon DEF Total, MapThenSumSet, MapThenFoldSet, Sums, Picked

LEMMA WeightsTotal ==
    MapThenSumSet(Weight, Members) = Sums([m \in Members |-> Weight(m)], Members)[Members]
BY Zenon DEF MapThenSumSet, MapThenFoldSet, Sums, Picked

LEMMA SettlingInit == ASSUME BalancesInit PROVE Settling
<1>1. BalancesInv
  BY BalancesInitInv
<1>2. totalSpent = Total(paid) + elsewhere
  BY DEF BalancesInit
<1>3. Total(gave) = Total(got)
  BY DEF BalancesInit
<1>4. ASSUME NEW m \in Members
      PROVE  /\ gave[m] >= 0 /\ got[m] >= 0
             /\ m \notin debtors => Owes(m) < Epsilon
             /\ m \notin creditors => Due(m) < Epsilon
  <2>1. Debt(m) \in Int /\ Credit(m) \in Int
    BY <1>1, NetIsInt DEF BalancesInv
  <2>2. gave[m] = 0 /\ got[m] = 0
    BY DEF BalancesInit
  <2>3. Owes(m) = Debt(m) /\ Due(m) = Credit(m) /\ Epsilon \in Nat \ {0}
    BY <1>1, <2>1, <2>2 DEF Owes, Due, Epsilon, BalancesInv, InputsOK
  <2>4. (m \notin debtors => ~(Debt(m) > 0)) /\ (m \notin creditors => ~(Credit(m) > 0))
    BY DEF BalancesInit
  <2>. QED  BY <2>1, <2>2, <2>3, <2>4
<1>. QED  BY <1>2, <1>3, <1>4 DEF Settling

LEMMA SettlingPay ==
    ASSUME BalancesInv, Settling, NEW d \in debtors, NEW c \in creditors, Pay(d, c)
    PROVE  Settling'
<1> DEFINE amount == Payment(d, c)
<1>1. d \in Members /\ c \in Members
  BY DEF BalancesInv, ListsOK
<1>2. \A m \in Members : Debt(m) \in Int /\ Credit(m) \in Int /\ Owes(m) \in Int /\ Due(m) \in Int
  BY NetIsInt DEF BalancesInv, ListsOK, Owes, Due
<1>3. amount \in Int /\ amount >= 0
  BY <1>1, <1>2 DEF Payment, BalancesInv, NobodyOverpays
<1>4. /\ gave' = [gave EXCEPT ![d] = @ + amount]
      /\ got' = [got EXCEPT ![c] = @ + amount]
      /\ debtors' = IF Over(Owes(d) - amount) THEN debtors \ {d} ELSE debtors
      /\ creditors' = IF Over(Due(c) - amount) THEN creditors \ {c} ELSE creditors
      /\ UNCHANGED inputs
  BY DEF Pay
<1>5. gave \in [Members -> Int] /\ got \in [Members -> Int]
  BY DEF BalancesInv, ListsOK
<1> HIDE DEF amount
<1>6. (totalSpent = Total(paid) + elsewhere)'
  BY <1>4 DEF Settling, inputs, Total, MapThenSumSet, MapThenFoldSet
<1>7. (Total(gave) = Total(got))'
  <2>1. Sums(gave', Members)[Members] = Sums(gave, Members)[Members] + amount
    BY <1>1, <1>3, <1>4, <1>5, BalancesAssumption, SumsIncreased
  <2>2. Sums(got', Members)[Members] = Sums(got, Members)[Members] + amount
    BY <1>1, <1>3, <1>4, <1>5, BalancesAssumption, SumsIncreased
  <2>3. Sums(gave, Members)[Members] = Sums(got, Members)[Members]
    BY TotalIsSum DEF Settling
  <2>4. Total(gave)' = Sums(gave', Members)[Members] /\ Total(got)' = Sums(got', Members)[Members]
    BY Zenon DEF Total, MapThenSumSet, MapThenFoldSet, Sums, Picked
  <2>. QED  BY <2>1, <2>2, <2>3, <2>4
<1>8. ASSUME NEW m \in Members
      PROVE  /\ gave'[m] >= 0 /\ got'[m] >= 0
             /\ m \notin debtors' => Owes(m)' < Epsilon'
             /\ m \notin creditors' => Due(m)' < Epsilon'
  <2>1. gave'[m] >= 0 /\ got'[m] >= 0
    BY <1>3, <1>4, <1>5 DEF Settling
  <2>2. Debt(m)' = Debt(m) /\ Credit(m)' = Credit(m) /\ Epsilon' = Epsilon
    BY <1>4 DEF inputs, Debt, Credit, Net, Epsilon, Weight, UsesSalaries
  <2>3. Owes(m)' = IF m = d THEN Owes(m) - amount ELSE Owes(m)
    BY <1>1, <1>2, <1>3, <1>4, <1>5, <2>2 DEF Owes
  <2>4. Due(m)' = IF m = c THEN Due(m) - amount ELSE Due(m)
    BY <1>1, <1>2, <1>3, <1>4, <1>5, <2>2 DEF Due
  <2>5. m \notin debtors' => IF m = d THEN Over(Owes(m) - amount) ELSE m \notin debtors
    BY <1>4
  <2>6. m \notin creditors' => IF m = c THEN Over(Due(m) - amount) ELSE m \notin creditors
    BY <1>4
  <2>. QED  BY <2>1, <2>2, <2>3, <2>4, <2>5, <2>6 DEF Over, Settling
<1>. QED  BY <1>6, <1>7, <1>8 DEF Settling

(* Payments keep the sums of computePairwiseBalances in step. *)
THEOREM SettlingHolds == BalancesSpec => []Settling
<1>1. BalancesInit => Settling
  BY SettlingInit
<1>2. BalancesInv /\ Settling /\ [BalancesNext]_balancesVars => Settling'
  <2>1. SUFFICES ASSUME BalancesInv, Settling, [BalancesNext]_balancesVars PROVE Settling'
    OBVIOUS
  <2>2. CASE BalancesNext
    <3>1. PICK d \in debtors, c \in creditors : Pay(d, c)
      BY <2>2 DEF BalancesNext
    <3>. QED  BY <2>1, <3>1, SettlingPay
  <2>3. CASE UNCHANGED balancesVars
    <3>1. UNCHANGED <<splitMode, percentage, salary, paid, elsewhere, totalSpent, whole,
                      debtors, creditors, gave, got>>
      BY <2>3 DEF balancesVars, inputs
    <3>2. Total(paid)' = Total(paid) /\ Total(gave)' = Total(gave) /\ Total(got)' = Total(got)
      BY <3>1, Zenon DEF Total, MapThenSumSet, MapThenFoldSet
    <3>3. \A m \in Members : Owes(m)' = Owes(m) /\ Due(m)' = Due(m)
      BY <3>1 DEF Owes, Due, Debt, Credit, Net, Epsilon, Weight, UsesSalaries
    <3>. QED  BY <2>1, <3>1, <3>2, <3>3 DEF Settling, Epsilon
  <2>. QED  BY <2>1, <2>2, <2>3
<1>. QED  BY <1>1, <1>2, BalancesInvHolds, PTL DEF BalancesSpec

(* What a member has borne, less its part. *)
Borne(m) == paid[m] * whole + gave[m] - got[m] - totalSpent * Weight(m)

LEMMA BorneFact ==
    ASSUME BalancesInv, Settling, NEW m \in Members
    PROVE  /\ Borne(m) \in Int /\ Epsilon \in Nat \ {0}
           /\ m \notin debtors => Borne(m) >= -Epsilon
           /\ m \notin creditors => Borne(m) <= Epsilon
<1> DEFINE net == Net(m)
           e == Epsilon
           a == paid[m] * whole
           b == totalSpent * Weight(m)
           v == gave[m]
           t == got[m]
<1>1. Weight(m) \in Nat /\ paid[m] \in Nat /\ whole \in Nat /\ totalSpent \in Nat
  BY BalancesAssumption DEF Weight, UsesSalaries, InputsOK, BalancesInv
<1>2. a \in Int /\ b \in Int /\ net = a - b /\ v \in Int /\ t \in Int /\ e \in Nat \ {0}
  BY <1>1 DEF Net, Epsilon, BalancesInv, ListsOK, InputsOK
<1>3. /\ Debt(m) = (IF -net > e THEN -net ELSE 0) /\ Credit(m) = (IF net > e THEN net ELSE 0)
  BY DEF Debt, Credit
<1>4. /\ Owes(m) = Debt(m) - v /\ Due(m) = Credit(m) - t /\ Owes(m) >= 0 /\ Due(m) >= 0
      /\ v >= 0 /\ t >= 0
      /\ m \notin debtors => Owes(m) < e
      /\ m \notin creditors => Due(m) < e
  BY DEF Owes, Due, Settling, BalancesInv, NobodyOverpays
<1>5. Borne(m) = ((a + v) - t) - b
  BY <1>1, <1>2 DEF Borne
<1> HIDE DEF net, e, a, b, v, t
<1>6. Borne(m) = (net + v) - t /\ net \in Int
  BY <1>2, <1>5
<1>7. /\ m \notin debtors => Borne(m) >= -e
      /\ m \notin creditors => Borne(m) <= e
  BY <1>2, <1>3, <1>4, <1>6
<1>. QED  BY <1>2, <1>6, <1>7 DEF e

LEMMA BornesTotal ==
    ASSUME BalancesInv, Settling, MapThenSumSet(Weight, Members) = whole, elsewhere = 0
    PROVE  Sums([m \in Members |-> Borne(m)], Members)[Members] = 0
<1> DEFINE weights == [m \in Members |-> Weight(m)]
           less == -totalSpent
           nets == [m \in Members |-> whole * paid[m] + less * weights[m]]
           moves == [m \in Members |-> gave[m] - got[m]]
           bornes == [m \in Members |-> Borne(m)]
           Of(f) == Sums(f, Members)[Members]
<1>1. IsFiniteSet(Members)
  BY BalancesAssumption
<1>2. \A m \in Members : Weight(m) \in Int /\ paid[m] \in Int
  BY BalancesAssumption DEF Weight, UsesSalaries, InputsOK, BalancesInv
<1>3. /\ paid \in [Members -> Int] /\ weights \in [Members -> Int]
      /\ gave \in [Members -> Int] /\ got \in [Members -> Int]
      /\ totalSpent \in Int /\ whole \in Int
  BY <1>2 DEF BalancesInv, ListsOK, InputsOK
<1>4. nets \in [Members -> Int] /\ moves \in [Members -> Int]
  BY <1>3
<1>5. ASSUME NEW m \in Members
      PROVE  Borne(m) = nets[m] + moves[m] /\ Borne(m) \in Int
  <2> DEFINE p == paid[m]
             w == Weight(m)
             v == gave[m]
             t == got[m]
  <2>1. nets[m] = whole * p + less * w /\ moves[m] = v - t
    OBVIOUS
  <2>2. p \in Int /\ w \in Int /\ v \in Int /\ t \in Int /\ totalSpent \in Int /\ whole \in Int
    BY <1>2, <1>3
  <2>3. Borne(m) = p * whole + v - t - totalSpent * w
    BY DEF Borne
  <2> HIDE DEF p, w, v, t, nets, moves
  <2>4. /\ p * whole \in Int /\ totalSpent * w \in Int
        /\ whole * p = p * whole /\ less * w = -(totalSpent * w)
    BY <2>2
  <2>. QED  BY <2>1, <2>2, <2>3, <2>4
<1>6. Of(nets) = whole * Of(paid) + less * Of(weights)
  <2>1. less \in Int /\ \A m \in Members : nets[m] = whole * paid[m] + less * weights[m]
    BY <1>3
  <2>2. whole \in Int
    BY <1>3
  <2> HIDE DEF weights, nets, less
  <2>3. Sums(nets, Members)[Members]
          = whole * Sums(paid, Members)[Members] + less * Sums(weights, Members)[Members]
    <3>1. /\ IsFiniteSet(Members) /\ paid \in [Members -> Int] /\ weights \in [Members -> Int]
          /\ nets \in [Members -> Int] /\ whole \in Int /\ less \in Int
          /\ \A m \in Members : nets[m] = whole * paid[m] + less * weights[m]
      BY <1>1, <1>3, <1>4, <2>1, <2>2
    <3>2. \A f, g, h \in [Members -> Int] : \A a, b \in Int :
             (\A m \in Members : h[m] = a * f[m] + b * g[m])
             => Sums(h, Members)[Members] = a * Sums(f, Members)[Members] + b * Sums(g, Members)[Members]
      BY <1>1, SumsCombined
    <3>3. \A a, b \in Int :
             (\A m \in Members : nets[m] = a * paid[m] + b * weights[m])
             => Sums(nets, Members)[Members]
                  = a * Sums(paid, Members)[Members] + b * Sums(weights, Members)[Members]
      BY <3>1, <3>2, ZenonT(40)
    <3>. QED  BY <3>1, <3>3, Zenon
  <2>. QED  BY <2>3 DEF Of
<1>7. Of(moves) = Of(gave) - Of(got)
  <2>1. \A m \in Members : moves[m] = gave[m] - got[m]
    OBVIOUS
  <2> HIDE DEF moves
  <2>. QED  BY <1>1, <1>3, <1>4, <2>1, SumsSubtracted
<1>8. Of(bornes) = Of(nets) + Of(moves)
  <2>1. bornes \in [Members -> Int] /\ \A m \in Members : bornes[m] = nets[m] + moves[m]
    <3> HIDE DEF nets, moves
    <3>. QED  BY <1>5
  <2> HIDE DEF bornes, nets, moves
  <2>. QED  BY <1>1, <1>4, <2>1, SumsAdded
<1>9. Of(paid) = totalSpent /\ Of(weights) = whole /\ Of(gave) = Of(got) /\ Of(gave) \in Int
  <2>1. Of(weights) = whole
    BY WeightsTotal
  <2>2. Of(paid) \in Int /\ Of(gave) \in Int
    BY <1>1, <1>3, SumsFact
  <2>3. Of(gave) = Of(got) /\ totalSpent = Of(paid) + 0
    BY TotalIsSum DEF Settling
  <2> HIDE DEF Of
  <2>. QED  BY <2>1, <2>2, <2>3
<1> HIDE DEF Of, bornes, nets, moves, weights
<1>10. whole * totalSpent + less * whole = 0
  BY <1>3
<1>11. Of(bornes) = 0
  BY <1>6, <1>7, <1>8, <1>9, <1>10
<1>. QED  BY <1>11 DEF Of, bornes

(* Once computePairwiseBalances has made its payments every member has      *)
(* borne its part of the expenses, to a cent for every member, when the     *)
(* parts add up to the whole and members paid for everything.               *)
THEOREM SettledUpHolds == BalancesSpec => []SettledUp
<1>1. BalancesInv /\ Settling => SettledUp
  <2> SUFFICES ASSUME BalancesInv, Settling PROVE SettledUp
    OBVIOUS
  <2> SUFFICES ASSUME debtors = {} \/ creditors = {},
                      MapThenSumSet(Weight, Members) = whole, elsewhere = 0
               PROVE  \A m \in Members : /\ -(Cardinality(Members) * Epsilon) < Borne(m)
                                         /\ Borne(m) < Cardinality(Members) * Epsilon
    <3>1. Cardinality(Members) \in Nat
      BY BalancesAssumption, FS_CardinalityType
    <3>0. Epsilon \in Int
      BY DEF Epsilon, BalancesInv, InputsOK
    <3>2. -Cardinality(Members) * Epsilon = -(Cardinality(Members) * Epsilon)
      BY <3>0, <3>1
    <3>. QED  BY <3>2 DEF SettledUp, Borne
  <2> DEFINE bornes == [m \in Members |-> Borne(m)]
             none == [m \in Members |-> 0]
             less == [m \in Members |-> none[m] - bornes[m]]
             n == Cardinality(Members)
  <2>1. IsFiniteSet(Members) /\ Epsilon \in Nat \ {0} /\ n \in Int
    BY BalancesAssumption, FS_CardinalityType DEF Epsilon, BalancesInv, InputsOK
  <2>2. \A m \in Members : Borne(m) \in Int
    BY BorneFact
  <2>3. bornes \in [Members -> Int] /\ Sums(bornes, Members)[Members] = 0
    BY <2>2, BornesTotal
  <2>4. CASE debtors = {}
    <3>1. \A m \in Members : bornes[m] >= -Epsilon
      BY <2>4, BorneFact
    <3>2. \A m \in Members : bornes[m] = Borne(m)
      OBVIOUS
    <3> HIDE DEF bornes
    <3>3. \A m \in Members : -(n * Epsilon) < bornes[m] /\ bornes[m] < n * Epsilon
      BY <2>1, <2>3, <3>1, SumsBalanced
    <3>. QED  BY <3>2, <3>3
  <2>5. CASE creditors = {}
    <3>1. \A m \in Members : bornes[m] <= Epsilon
      BY <2>5, BorneFact
    <3>2. \A m \in Members : bornes[m] = Borne(m)
      OBVIOUS
    <3> HIDE DEF bornes
    <3>3. /\ less \in [Members -> Int] /\ none \in [Members -> Int]
          /\ \A m \in Members : less[m] = none[m] - bornes[m] /\ none[m] = 0
      BY <2>3
    <3> HIDE DEF less, none
    <3>4. Sums(less, Members)[Members] = 0
      <4>1. Sums(less, Members)[Members]
              = Sums(none, Members)[Members] - Sums(bornes, Members)[Members]
        BY <2>1, <2>3, <3>3, SumsSubtracted
      <4>2. Sums(none, Members)[Members] = 0 * n
        BY <2>1, <3>3, SumsOfSame
      <4> HIDE DEF n
      <4>. QED  BY <2>1, <2>3, <4>1, <4>2
    <3>5. \A m \in Members : less[m] = -bornes[m]
      BY <2>3, <3>3
    <3>6. \A m \in Members : less[m] >= -Epsilon
      BY <2>1, <2>3, <3>1, <3>5
    <3>7. \A m \in Members : -(n * Epsilon) < less[m] /\ less[m] < n * Epsilon
      BY <2>1, <3>3, <3>4, <3>6, SumsBalanced
    <3>8. n * Epsilon \in Int
      BY <2>1
    <3> HIDE DEF n
    <3>9. \A m \in Members : -(n * Epsilon) < bornes[m] /\ bornes[m] < n * Epsilon
      BY <2>3, <3>5, <3>7, <3>8
    <3>. QED  BY <3>2, <3>9 DEF n
  <2>. QED  BY <2>4, <2>5
<1>. QED  BY <1>1, BalancesInvHolds, SettlingHolds, PTL

-----------------------------------------------------------------------------
USE LastMonthAssumption, LengthAssumption, DaysAssumption

-----------------------------------------------------------------------------
(* Due dates. *)
ChainInv ==
    /\ chargeDay \in Days
    /\ charged \in Dates
    /\ nextCharge \in Dates
    /\ NextChargeIsFirst

LEMMA InRangeFact ==
    ASSUME NEW d \in Dates, InRange(d)
    PROVE  d.month < LastMonth
BY DatesFact DEF InRange

LEMMA ChainInvInit == DueDatesInit => ChainInv
<1>. SUFFICES ASSUME DueDatesInit  PROVE ChainInv
  OBVIOUS
<1>1. chargeDay \in Days /\ chargeDay \in Nat \ {0} /\ charged \in Dates /\ charged.month < LastMonth
  BY InRangeFact DEF DueDatesInit
<1>. QED  BY <1>1, NextOccurrenceIsFirst DEF DueDatesInit, ChainInv, NextChargeIsFirst

LEMMA ChainInvStep == ChainInv /\ [DueDatesNext]_dueDatesVars => ChainInv'
<1>. SUFFICES ASSUME ChainInv, [DueDatesNext]_dueDatesVars  PROVE ChainInv'
  OBVIOUS
<1>1. CASE ChargeInstallment
  <2>1. nextCharge \in Dates /\ nextCharge.month < LastMonth /\ chargeDay \in Nat \ {0}
    BY <1>1, InRangeFact DEF ChargeInstallment, ChainInv
  <2>. QED
    BY <1>1, <2>1, NextOccurrenceIsFirst DEF ChargeInstallment, ChainInv, NextChargeIsFirst
<1>2. CASE UNCHANGED <<chargeDay, charged, nextCharge>>
  BY <1>2 DEF ChainInv, NextChargeIsFirst
<1>. QED  BY <1>1, <1>2 DEF DueDatesNext, dueDatesVars

(* The stored dates are dates of the calendar. *)
THEOREM DueDatesTypeCorrect == DueDatesSpec => []DueDatesTypeOK
<1>1. ChainInv => DueDatesTypeOK
  BY DEF ChainInv, DueDatesTypeOK
<1>. QED  BY ChainInvInit, ChainInvStep, <1>1, PTL DEF DueDatesSpec

(* Every due date is the first date on the chosen day after the one before. *)
THEOREM EveryChargeIsFirst == DueDatesSpec => []NextChargeIsFirst
<1>1. ChainInv => NextChargeIsFirst
  BY DEF ChainInv
<1>. QED  BY ChainInvInit, ChainInvStep, <1>1, PTL DEF DueDatesSpec

(* An installment falls due once a month, every month, on the chosen day.   *)
THEOREM ChargedEveryMonth == DueDatesSpec => OneChargePerMonth
<1>1. ChainInv /\ [DueDatesNext]_dueDatesVars
      => [nextCharge' # nextCharge => /\ nextCharge'.month = nextCharge.month + 1
                                      /\ FallsOn(nextCharge', chargeDay)]_dueDatesVars
  <2>. SUFFICES ASSUME ChainInv, DueDatesNext, nextCharge' # nextCharge
                PROVE  /\ nextCharge'.month = nextCharge.month + 1
                       /\ FallsOn(nextCharge', chargeDay)
    BY DEF dueDatesVars
  <2>1. /\ nextCharge' = NextOccurrence(nextCharge, chargeDay)
        /\ nextCharge \in Dates /\ nextCharge.month < LastMonth /\ chargeDay \in Nat \ {0}
    BY InRangeFact DEF DueDatesNext, ChargeInstallment, ChainInv
  <2>2. FallsOn(nextCharge', chargeDay)
    BY <2>1, NextOccurrenceIsFirst
  <2>3. ~Before(nextCharge, [month |-> nextCharge.month,
                             day |-> Clamped(nextCharge.month, chargeDay)])
    BY <2>1, DatesFact DEF ChainInv, NextChargeIsFirst, FallsOn, Before
  <2>4. /\ nextCharge.month \in 0..LastMonth /\ nextCharge.month + 1 \in 0..LastMonth
        /\ nextCharge.day \in Int
        /\ \A m \in 0..LastMonth : Clamped(m, chargeDay) \in Nat \ {0}
    BY <2>1, DatesFact DEF Clamped, Smaller
  <2>. QED  BY <2>1, <2>2, <2>3, <2>4 DEF NextOccurrence, Dated, Before
<1>. QED  BY ChainInvInit, ChainInvStep, <1>1, PTL DEF DueDatesSpec, OneChargePerMonth

-----------------------------------------------------------------------------
(* The dashboard. *)
LEMMA RolledDayFact ==
    ASSUME NEW l \in Nat, NEW k \in Nat, k >= 28, NEW day \in 1..l, NEW n \in 0..10,
           ~(day + n <= l)
    PROVE  (day + n) - l \in 1..k /\ day + n > l
OBVIOUS

(* A date up to ten days on is a date of the same month or   *)
(* of the next one.                                                         *)
LEMMA PlusDaysFact ==
    ASSUME NEW d \in Dates, d.month < LastMonth, NEW n \in 0..10,
           \A m \in 0..LastMonth : Length[m] >= 28
    PROVE  /\ PlusDays(d, n) \in Dates
           /\ d.day + n <= Length[d.month] =>
                 PlusDays(d, n) = [month |-> d.month, day |-> d.day + n]
           /\ d.day + n > Length[d.month] =>
                 PlusDays(d, n) = [month |-> d.month + 1, day |-> (d.day + n) - Length[d.month]]
<1>1. /\ d.month \in 0..LastMonth /\ d.month + 1 \in 0..LastMonth /\ d.day \in 1..Length[d.month]
      /\ Length[d.month] \in Nat /\ Length[d.month + 1] \in Nat /\ Length[d.month + 1] >= 28
  BY DatesFact
<1>2. CASE d.day + n <= Length[d.month]
  <2>1. PlusDays(d, n) = [month |-> d.month, day |-> d.day + n]
    BY <1>2 DEF PlusDays, Rolled
  <2>2. d.day + n \in 1..Length[d.month] /\ ~(d.day + n > Length[d.month])
    BY <1>1, <1>2
  <2>. QED  BY <1>1, <2>1, <2>2, DatesFact
<1>3. CASE ~(d.day + n <= Length[d.month])
  <2>1. PlusDays(d, n) = [month |-> d.month + 1, day |-> (d.day + n) - Length[d.month]]
    BY <1>3 DEF PlusDays, Rolled
  <2>2. (d.day + n) - Length[d.month] \in 1..Length[d.month + 1] /\ d.day + n > Length[d.month]
    BY <1>1, <1>3, RolledDayFact
  <2>. QED  BY <1>1, <1>3, <2>1, <2>2, DatesFact
<1>. QED  BY <1>2, <1>3

(* A set of numbers has a least one. *)
LEMMA MinFact ==
    ASSUME NEW S \in SUBSET Nat, S # {}
    PROVE  Min(S) \in S /\ \A n \in S : Min(S) <= n
BY LeastFact DEF Min

(* nextBusinessDay goes on through closed days only. *)
LEMMA NextBusinessDayFact ==
    ASSUME NEW d
    PROVE  \E n \in 0..10 : /\ NextBusinessDay(d) = PlusDays(d, n)
                            /\ n = 10 \/ PlusDays(d, n) \notin closed
                            /\ \A i \in 0..10 : i < n => PlusDays(d, i) \in closed
<1> DEFINE S == {n \in 0..10 : n = 10 \/ PlusDays(d, n) \notin closed}
<1>1. S \in SUBSET Nat /\ 10 \in S
  OBVIOUS
<1>2. NextBusinessDay(d) = PlusDays(d, Min(S))
  BY DEF NextBusinessDay
<1>3. Min(S) \in S /\ \A n \in S : Min(S) <= n
  <2> HIDE DEF S
  <2>. QED  BY <1>1, MinFact
<1>4. \A i \in 0..10 : i < Min(S) => i \notin S
  <2>1. ASSUME NEW i \in 0..10, i < Min(S) PROVE i \notin S
    <3>1. Min(S) \in 0..10
      BY <1>3
    <3> HIDE DEF S
    <3>. QED  BY <1>3, <2>1, <3>1
  <2>. QED  BY <2>1
<1>. QED  BY <1>2, <1>3, <1>4

LongMonths == \A m \in 0..LastMonth : Length[m] >= 28

LEMMA DateFact ==
    ASSUME NEW d \in Dates
    PROVE  /\ d.month \in 0..LastMonth /\ d.month \in Int /\ d.day \in Int
           /\ d.day >= 1 /\ d.day <= Length[d.month] /\ Length[d.month] \in Int
           /\ d = [month |-> d.month, day |-> d.day]
BY DatesFact

LEMMA DateOfFact ==
    ASSUME NEW m \in 0..LastMonth, NEW day \in 1..Length[m]
    PROVE  [month |-> m, day |-> day] \in Dates
BY DatesFact

(* A date between d and ten days on is reached from d, and from a later     *)
(* date in no more days.                                                    *)
LEMMA DaysBetween ==
    ASSUME LongMonths, NEW d \in Dates, NEW e \in Dates, UpTo(d, e),
           d.month < LastMonth, e.month < LastMonth, NEW i \in 0..10, NEW j \in 0..10,
           Before(PlusDays(e, j), PlusDays(d, i))
    PROVE  \E k \in 0..10 : k < i /\ k >= j /\ PlusDays(d, k) = PlusDays(e, j)
<1> DEFINE l == Length[d.month]
<1>1. /\ d.month \in Int /\ d.day \in Int /\ d.day >= 1 /\ d.day <= l /\ l \in Int
      /\ e.month \in Int /\ e.day \in Int /\ e.day >= 1 /\ e.day <= Length[e.month]
      /\ Length[e.month] \in Int
  BY DateFact
<1>2. \A n \in 0..10 :
         /\ d.day + n <= l => PlusDays(d, n) = [month |-> d.month, day |-> d.day + n]
         /\ d.day + n > l =>
               PlusDays(d, n) = [month |-> d.month + 1, day |-> (d.day + n) - l]
  BY PlusDaysFact DEF LongMonths
<1>3. /\ e.day + j <= Length[e.month] =>
            PlusDays(e, j) = [month |-> e.month, day |-> e.day + j]
      /\ e.day + j > Length[e.month] =>
            PlusDays(e, j) = [month |-> e.month + 1, day |-> (e.day + j) - Length[e.month]]
  BY PlusDaysFact DEF LongMonths
<1> HIDE DEF l
<1>4. d.month < e.month \/ (d.month = e.month /\ d.day <= e.day)
  BY <1>1 DEF UpTo, Before
<1>5. \/ d.day + i <= l /\ PlusDays(d, i) = [month |-> d.month, day |-> d.day + i]
      \/ d.day + i > l /\ PlusDays(d, i) = [month |-> d.month + 1, day |-> (d.day + i) - l]
  <2>1. d.day + i <= l \/ d.day + i > l
    BY <1>1
  <2>. QED  BY <1>2, <2>1
<1>6. \/ /\ e.day + j <= Length[e.month]
         /\ PlusDays(e, j) = [month |-> e.month, day |-> e.day + j]
      \/ /\ e.day + j > Length[e.month]
         /\ PlusDays(e, j) = [month |-> e.month + 1, day |-> (e.day + j) - Length[e.month]]
  BY <1>1, <1>3
<1>7. CASE d.month = e.month
  <2>1. Length[e.month] = l /\ d.day <= e.day
    BY <1>1, <1>4, <1>7 DEF l
  <2>2. \/ e.day + j <= l /\ (d.day + i <= l => e.day + j < d.day + i)
        \/ e.day + j > l /\ d.day + i > l /\ (e.day + j) - l < (d.day + i) - l
    <3> DEFINE m == d.month
               early == d.day + i
               late  == e.day + j
    <3>1. PICK p, q : p = PlusDays(d, i) /\ q = PlusDays(e, j)
      OBVIOUS
    <3>2. q.month < p.month \/ (q.month = p.month /\ q.day < p.day)
      BY <3>1 DEF Before
    <3>3. \/ early <= l /\ p.month = m /\ p.day = early
          \/ early > l /\ p.month = m + 1 /\ p.day = early - l
      BY <1>5, <3>1
    <3>4. \/ late <= l /\ q.month = m /\ q.day = late
          \/ late > l /\ q.month = m + 1 /\ q.day = late - l
      BY <1>6, <1>7, <2>1, <3>1
    <3>5. early \in Int /\ late \in Int /\ l \in Int /\ m \in Int
      BY <1>1
    <3> HIDE DEF m, early, late
    <3>6. \/ late <= l /\ (early <= l => late < early)
          \/ late > l /\ early > l /\ late - l < early - l
      BY <3>2, <3>3, <3>4, <3>5
    <3>. QED  BY <3>6 DEF early, late
  <2> DEFINE k == (e.day + j) - d.day
  <2>3. k \in 0..10 /\ k < i /\ k >= j /\ d.day + k = e.day + j
    <3> DEFINE early == d.day
               late  == e.day
    <3>1. /\ early \in Int /\ late \in Int /\ l \in Int /\ early <= late /\ early >= 1 /\ late <= l
          /\ \/ late + j <= l /\ (early + i <= l => late + j < early + i)
             \/ late + j > l /\ early + i > l /\ (late + j) - l < (early + i) - l
      BY <1>1, <2>1, <2>2
    <3> HIDE DEF early, late
    <3>2. /\ (late + j) - early \in 0..10 /\ (late + j) - early < i /\ (late + j) - early >= j
          /\ early + ((late + j) - early) = late + j
      BY <3>1
    <3>. QED  BY <3>2 DEF early, late
  <2> HIDE DEF k
  <2>4. PlusDays(d, k) = PlusDays(e, j)
    <3>1. CASE e.day + j <= l /\ PlusDays(e, j) = [month |-> e.month, day |-> e.day + j]
      <4>1. PlusDays(d, k) = [month |-> d.month, day |-> d.day + k]
        BY <1>2, <2>3, <3>1
      <4>. QED  BY <1>7, <2>3, <3>1, <4>1
    <3>2. CASE e.day + j > l /\ PlusDays(e, j) = [month |-> e.month + 1, day |-> (e.day + j) - l]
      <4>1. PlusDays(d, k) = [month |-> d.month + 1, day |-> (d.day + k) - l]
        BY <1>2, <2>3, <3>2
      <4>. QED  BY <1>7, <2>3, <3>2, <4>1
    <3>. QED  BY <1>6, <2>1, <3>1, <3>2
  <2>. QED  BY <2>3, <2>4
<1>8. CASE d.month < e.month
  <2>1. /\ e.month = d.month + 1 /\ PlusDays(e, j) = [month |-> e.month, day |-> e.day + j]
        /\ d.day + i > l /\ e.day + j < (d.day + i) - l
    <3> DEFINE m == d.month
               n == e.month
               early == d.day + i
               late  == e.day + j
    <3>1. PICK p, q : p = PlusDays(d, i) /\ q = PlusDays(e, j)
      OBVIOUS
    <3>2. q.month < p.month \/ (q.month = p.month /\ q.day < p.day)
      BY <3>1 DEF Before
    <3>3. \/ early <= l /\ p.month = m /\ p.day = early
          \/ early > l /\ p.month = m + 1 /\ p.day = early - l
      BY <1>5, <3>1
    <3>4. \/ q.month = n /\ q.day = late /\ q = [month |-> n, day |-> late]
          \/ q.month = n + 1
      BY <1>6, <3>1
    <3>5. early \in Int /\ late \in Int /\ l \in Int /\ m \in Int /\ n \in Int /\ m < n
      BY <1>1, <1>8
    <3> HIDE DEF m, n, early, late
    <3>6. n = m + 1 /\ q = [month |-> n, day |-> late] /\ early > l /\ late < early - l
      BY <3>2, <3>3, <3>4, <3>5
    <3>. QED  BY <3>1, <3>6 DEF m, n, early, late
  <2> DEFINE k == ((e.day + j) + l) - d.day
  <2>2. k \in 0..10 /\ k < i /\ k >= j /\ d.day + k > l /\ (d.day + k) - l = e.day + j
    <3> DEFINE early == d.day
               late  == e.day
    <3>1. /\ early \in Int /\ late \in Int /\ l \in Int /\ late >= 1 /\ early <= l
          /\ late + j < (early + i) - l
      BY <1>1, <2>1
    <3> HIDE DEF early, late
    <3>2. /\ ((late + j) + l) - early \in 0..10 /\ ((late + j) + l) - early < i
          /\ ((late + j) + l) - early >= j
          /\ early + (((late + j) + l) - early) > l
          /\ (early + (((late + j) + l) - early)) - l = late + j
      BY <3>1
    <3>. QED  BY <3>2 DEF early, late
  <2> HIDE DEF k
  <2>3. PlusDays(d, k) = PlusDays(e, j)
    BY <1>2, <2>1, <2>2
  <2>. QED  BY <2>2, <2>3
<1>. QED  BY <1>4, <1>7, <1>8

(* nextBusinessDay lies in the month of its date or in the next one, and    *)
(* keeps dates in order, whatever days are closed.                          *)
LEMMA BusinessDayFact ==
    ASSUME LongMonths, NEW d \in Dates, d.month < LastMonth
    PROVE  NextBusinessDay(d) \in Dates /\ NextBusinessDay(d).month \in {d.month, d.month + 1}
<1>1. PICK n \in 0..10 : NextBusinessDay(d) = PlusDays(d, n)
  BY NextBusinessDayFact
<1>2. d.day + n \in Int /\ Length[d.month] \in Int
  BY DateFact
<1>3. d.day + n <= Length[d.month] \/ d.day + n > Length[d.month]
  BY <1>2
<1>. QED  BY <1>1, <1>3, PlusDaysFact DEF LongMonths

LEMMA BusinessDaysInOrder ==
    ASSUME LongMonths, NEW d \in Dates, NEW e \in Dates, UpTo(d, e),
           d.month < LastMonth, e.month < LastMonth
    PROVE  UpTo(NextBusinessDay(d), NextBusinessDay(e))
<1>1. PICK n \in 0..10 : /\ NextBusinessDay(d) = PlusDays(d, n)
                         /\ \A i \in 0..10 : i < n => PlusDays(d, i) \in closed
  BY NextBusinessDayFact
<1>2. PICK j \in 0..10 : /\ NextBusinessDay(e) = PlusDays(e, j)
                         /\ j = 10 \/ PlusDays(e, j) \notin closed
  BY NextBusinessDayFact
<1>3. ~Before(PlusDays(e, j), PlusDays(d, n))
  <2> SUFFICES ASSUME Before(PlusDays(e, j), PlusDays(d, n)) PROVE FALSE
    OBVIOUS
  <2>1. PICK k \in 0..10 : k < n /\ k >= j /\ PlusDays(d, k) = PlusDays(e, j)
    BY DaysBetween
  <2>2. j = 10
    BY <1>1, <1>2, <2>1
  <2>. QED  BY <2>1, <2>2
<1>4. PlusDays(d, n) \in Dates /\ PlusDays(e, j) \in Dates
  BY PlusDaysFact DEF LongMonths
<1>. QED  BY <1>1, <1>2, <1>3, <1>4, DateFact, SMTT(30) DEF UpTo, Before

(* The dates of a month are those between its first and its last one. *)
LEMMA WithinMonth ==
    ASSUME NEW m \in 0..LastMonth, NEW d \in Dates
    PROVE  Within(d, FirstOf(m), LastOf(m)) <=> d.month = m
<1>1. /\ m \in Int /\ d.month \in Int /\ d.day \in Int /\ d.day >= 1 /\ d.day <= Length[d.month]
      /\ Length[d.month] \in Int /\ d = [month |-> d.month, day |-> d.day]
  BY DateFact
<1>2. CASE d.month = m
  BY <1>1, <1>2 DEF Within, UpTo, Before, FirstOf, LastOf
<1>3. CASE d.month # m
  BY <1>1, <1>3 DEF Within, UpTo, Before, FirstOf, LastOf
<1>. QED  BY <1>2, <1>3

(* Of one month, the list looks at that month. *)
LEMMA OneMonthFact ==
    ASSUME NEW m \in 0..LastMonth
    PROVE  ListMonths(FirstOf(m), LastOf(m)) = {m}
<1> DEFINE from == FirstOf(m)
           to   == LastOf(m)
           steps == 0..to.month - from.month
           at[n \in steps] == IF n = 0 THEN from ELSE PlusMonths(at[n - 1], 1)
<1>1. m \in Int /\ from.month = m /\ to.month = m
  BY DEF FirstOf, LastOf
<1>2. steps = {0}
  BY <1>1
<1>3. at = [n \in steps |-> IF n = 0 THEN from ELSE PlusMonths(at[n - 1], 1)]
  <2> DEFINE f == [n \in steps |-> from]
  <2>1. f = [n \in steps |-> IF n = 0 THEN from ELSE PlusMonths(f[n - 1], 1)]
    BY <1>2
  <2>. QED  BY <2>1
<1>4. at[0] = from
  BY <1>2, <1>3
<1>5. UpTo(from, to)
  <2>1. Length[m] = 1 \/ 1 < Length[m]
    <3>1. Length[m] \in Nat \ {0}
      OBVIOUS
    <3>. QED  BY <3>1
  <2>. QED  BY <2>1 DEF UpTo, Before, FirstOf, LastOf
<1>6. ListMonths(from, to) = {at[n].month : n \in {n \in steps : UpTo(at[n], to)}}
  BY DEF ListMonths
<1> HIDE DEF from, to, steps, at
<1>7. ListMonths(from, to) = {m}
  BY <1>1, <1>2, <1>4, <1>5, <1>6
<1>. QED  BY <1>7 DEF from, to

(* What a card, a page and the calendar are. *)
AgendaInv ==
    /\ LongMonths
    /\ statementCloseDay \in Nat \ {0} /\ dueDay \in Nat \ {0}
    /\ page \in Nat \ {0} /\ page + 4 <= LastMonth

LEMMA AgendaInitInv == AgendaInit => AgendaInv
BY AgendaAssumption DEF AgendaInit, AgendaInv, LongMonths

LEMMA AgendaNextInv == AgendaInv /\ [AgendaNext]_agendaVars => AgendaInv'
BY DEF AgendaInv, AgendaNext, TurnPage, agendaVars, LongMonths

(* The dates of the cycle that closes in month m. *)
LEMMA CycleFact ==
    ASSUME AgendaInv, NEW m \in 0..LastMonth - 3
    PROVE  LET close == [month |-> m, day |-> Clamped(m, statementCloseDay)]
           IN  /\ close \in Dates /\ NominalDue(m) \in Dates /\ UpTo(close, NominalDue(m))
               /\ NominalDue(m).month \in {m, m + 1} /\ NominalDue(m).month < LastMonth
               /\ CloseDate(m) \in Dates /\ CloseDate(m).month \in {m, m + 1}
               /\ DueDate(m) \in Dates
               /\ DueDate(m).month \in {NominalDue(m).month, NominalDue(m).month + 1}
               /\ UpTo(CloseDate(m), DueDate(m))
<1> DEFINE close == [month |-> m, day |-> Clamped(m, statementCloseDay)]
<1>1. \A k \in 0..LastMonth : /\ Clamped(k, statementCloseDay) \in 1..Length[k]
                              /\ Clamped(k, dueDay) \in 1..Length[k]
  BY DEF Clamped, Smaller, AgendaInv
<1>2. m \in 0..LastMonth /\ m + 1 \in 0..LastMonth /\ m < LastMonth /\ m + 1 < LastMonth
  OBVIOUS
<1>3. DueMonth(m) \in {m, m + 1}
  BY DEF DueMonth
<1>4. close \in Dates /\ NominalDue(m) \in Dates
  <2>1. \A k \in {m, m + 1} : [month |-> k, day |-> Clamped(k, dueDay)] \in Dates
    BY <1>1, <1>2, DateOfFact
  <2>2. close \in Dates
    BY <1>1, <1>2, DateOfFact
  <2>. QED  BY <1>3, <2>1, <2>2 DEF NominalDue
<1>5. UpTo(close, NominalDue(m))
  <2>1. CASE dueDay <= statementCloseDay
    BY <1>2, <2>1 DEF NominalDue, DueMonth, UpTo, Before
  <2>2. CASE ~(dueDay <= statementCloseDay)
    <3>1. NominalDue(m) = [month |-> m, day |-> Clamped(m, dueDay)]
      BY <2>2 DEF NominalDue, DueMonth
    <3>2. Clamped(m, statementCloseDay) <= Clamped(m, dueDay)
      BY <1>2, <2>2 DEF Clamped, Smaller, AgendaInv
    <3>. QED  BY <1>1, <1>2, <3>1, <3>2 DEF UpTo, Before
  <2>. QED  BY <2>1, <2>2
<1>6. close.month = m /\ NominalDue(m).month \in {m, m + 1}
  BY <1>3 DEF NominalDue
<1>7. CloseDate(m) = NextBusinessDay(close) /\ DueDate(m) = NextBusinessDay(NominalDue(m))
  BY DEF CloseDate, DueDate
<1> HIDE DEF close
<1>8. LongMonths
  BY DEF AgendaInv
<1>. QED  BY <1>2, <1>4, <1>5, <1>6, <1>7, <1>8, BusinessDayFact, BusinessDaysInOrder DEF close

(* A statement is due after it closes and after the one of the month        *)
(* before, whatever days are closed.                                        *)
THEOREM DueInOrderHolds == AgendaSpec => []DueInOrder
<1>1. ASSUME AgendaInv PROVE DueInOrder
  <2>1. /\ page \in 0..LastMonth - 3 /\ page - 1 \in 0..LastMonth - 3 /\ LongMonths
        /\ page \in Int /\ (page - 1) + 1 = page
    BY <1>1 DEF AgendaInv
  <2>2. UpTo(CloseDate(page), DueDate(page))
    BY <1>1, <2>1, CycleFact
  <2>3. /\ NominalDue(page - 1) \in Dates /\ NominalDue(page) \in Dates
        /\ NominalDue(page - 1).month < LastMonth /\ NominalDue(page).month < LastMonth
    BY <1>1, <2>1, CycleFact
  <2>4. NominalDue(page - 1).month < NominalDue(page).month
    BY <2>1 DEF NominalDue, DueMonth
  <2>5. UpTo(NominalDue(page - 1), NominalDue(page))
    BY <2>4 DEF UpTo, Before
  <2>6. UpTo(DueDate(page - 1), DueDate(page))
    BY <2>1, <2>3, <2>5, BusinessDaysInOrder DEF DueDate
  <2>. QED  BY <2>2, <2>6 DEF DueInOrder
<1>. QED  BY <1>1, AgendaInitInv, AgendaNextInv, PTL DEF AgendaSpec

(* No due date is missing on the page of its month, but for those pushed    *)
(* over the end of the month after the one they close in.                   *)
THEOREM EveryDueShownHolds == AgendaSpec => []EveryDueShown
<1>1. ASSUME AgendaInv PROVE EveryDueShown
  <2> SUFFICES ASSUME NEW m \in AllCycles, DueDate(m).month = page,
                      ~(NominalDue(m).month = m + 1 /\ page = m + 2)
               PROVE  [type |-> "CARD_DUE", date |-> DueDate(m)] \in Shown
    BY DEF EveryDueShown
  <2>1. m \in 0..LastMonth - 3 /\ page \in 0..LastMonth /\ m \in Int /\ page \in Int
    BY <1>1 DEF AllCycles, AgendaInv
  <2>2. /\ DueDate(m) \in Dates /\ NominalDue(m).month \in {m, m + 1}
        /\ DueDate(m).month \in {NominalDue(m).month, NominalDue(m).month + 1}
    BY <1>1, <2>1, CycleFact
  <2>3. m \in CalendarCycles(page)
    BY <2>1, <2>2 DEF CalendarCycles
  <2>4. Within(DueDate(m), FirstOf(page), LastOf(page))
    BY <2>1, <2>2, WithinMonth
  <2>. QED  BY <2>3, <2>4 DEF Shown, CalendarEvents, Dues
<1>. QED  BY <1>1, AgendaInitInv, AgendaNextInv, PTL DEF AgendaSpec

(* The list of due events and the calendar tell the same of a month, but    *)
(* for a close date that was pushed into it.                                *)
THEOREM ListAgreesHolds == AgendaSpec => []ListAgrees
<1>1. ASSUME AgendaInv PROVE ListAgrees
  <2> DEFINE from == FirstOf(page)
             to   == LastOf(page)
  <2>1. /\ page \in 1..LastMonth - 4 /\ page \in Int /\ page \in 0..LastMonth
        /\ page - 1 \in 0..LastMonth - 3 /\ page + 1 \in 0..LastMonth - 3
        /\ page - 1 \in AllCycles
    BY <1>1 DEF AgendaInv, AllCycles
  <2>2. ListMonths(from, to) = {page}
    BY <2>1, OneMonthFact
  <2>3. /\ ListCycles(from, to) = {page - 1, page, page + 1}
        /\ CalendarCycles(page) = {page - 1, page}
    BY <2>1 DEF ListCycles, CalendarCycles, FirstOf, LastOf
  <2>4. /\ ~Within(CloseDate(page + 1), from, to) /\ ~Within(DueDate(page + 1), from, to)
    <3>1. /\ CloseDate(page + 1) \in Dates /\ DueDate(page + 1) \in Dates
          /\ CloseDate(page + 1).month > page /\ DueDate(page + 1).month > page
      <4>1. /\ CloseDate(page + 1) \in Dates /\ DueDate(page + 1) \in Dates
            /\ CloseDate(page + 1).month \in {page + 1, (page + 1) + 1}
            /\ NominalDue(page + 1).month \in {page + 1, (page + 1) + 1}
            /\ DueDate(page + 1).month
                 \in {NominalDue(page + 1).month, NominalDue(page + 1).month + 1}
        BY <1>1, <2>1, CycleFact, Zenon
      <4>. QED  BY <2>1, <4>1
    <3>. QED  BY <2>1, <3>1, WithinMonth
  <2> HIDE DEF from, to
  <2>5. /\ Shown = Closes({page}, from, to) \cup Dues({page - 1, page}, from, to)
                   \cup Occurrences({page}, from, to)
        /\ Listed = Closes({page - 1, page, page + 1}, from, to)
                    \cup Dues({page - 1, page, page + 1}, from, to)
                    \cup Occurrences({page}, from, to)
    BY <2>2, <2>3 DEF Shown, CalendarEvents, Listed, DueEvents, from, to
  <2>6. Shown \subseteq Listed
    BY <2>5 DEF Closes, Dues
  <2>7. ASSUME NEW e \in Listed, e \notin Shown
        PROVE  /\ e.type = "CARD_CLOSE"
               /\ \E m \in AllCycles : e.date = CloseDate(m) /\ m < page
    <3>1. e \notin Dues({page - 1, page, page + 1}, from, to)
      BY <2>4, <2>5, <2>7 DEF Dues
    <3>2. e \in Closes({page - 1, page, page + 1}, from, to)
      BY <2>5, <2>7, <3>1
    <3>3. e = [type |-> "CARD_CLOSE", date |-> CloseDate(page - 1)]
      BY <2>4, <2>5, <2>7, <3>2 DEF Closes
    <3>. QED  BY <2>1, <3>3
  <2>. QED  BY <2>6, <2>7 DEF ListAgrees
<1>. QED  BY <1>1, AgendaInitInv, AgendaNextInv, PTL DEF AgendaSpec
=============================================================================
