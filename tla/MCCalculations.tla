--------------------------- MODULE MCCalculations ---------------------------
(* The computations on one row or one period: due dates, the events of the  *)
(* dashboard and the payments of a closing.  They share no state, so that   *)
(* "computing" says which of them runs and the others stay as they are.     *)
EXTENDS DueDates, Agenda, PairwiseBalances, TLC

CONSTANTS a, b, c

VARIABLE computing

(* Months on from December before a leap year. *)
MCLength == [m \in 0..LastMonth |-> CASE m % 12 \in {0, 1, 3, 5, 7, 8, 10} -> 31
                                      [] m % 12 \in {4, 6, 9, 11}          -> 30
                                      [] m % 12 = 2                        -> 29]
MCDays == {1, 5, 15} \cup 28..31
MCHolidays == {LastOf(2), FirstOf(3)}

Symmetry == Permutations(Members)

DueDatesStill == chargeDay = 1 /\ charged = FirstOf(0)
AgendaStill ==
    /\ statementCloseDay = 1 /\ dueDay = 1 /\ dayOfMonth = 1
    /\ closed = Weekends(0) \cup {FirstOf(3)}
BalancesStill ==
    /\ splitMode = "MANUAL" /\ elsewhere = 0
    /\ paid = [m \in Members |-> 0]
    /\ percentage = [m \in Members |-> 0]
    /\ salary = [m \in Members |-> NULL]

Init ==
    /\ \/ computing = "dueDates" /\ AgendaStill /\ BalancesStill
       \/ computing = "agenda" /\ DueDatesStill /\ BalancesStill
       \/ computing = "balances" /\ DueDatesStill /\ AgendaStill
    /\ DueDatesInit /\ AgendaInit /\ BalancesInit

Next ==
    \/ computing = "dueDates" /\ DueDatesNext /\ UNCHANGED <<computing, agendaVars, balancesVars>>
    \/ computing = "agenda" /\ AgendaNext /\ UNCHANGED <<computing, dueDatesVars, balancesVars>>
    \/ computing = "balances" /\ BalancesNext /\ UNCHANGED <<computing, dueDatesVars, agendaVars>>

Spec == Init /\ [][Next]_<<computing, dueDatesVars, agendaVars, balancesVars>>
=============================================================================
