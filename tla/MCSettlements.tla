--------------------------- MODULE MCSettlements ----------------------------
(* Small instances of Settlements: two months of two or three days around a *)
(* week, so that each kind of period ends a few times in a few days.        *)
EXTENDS Settlements, TLC

CONSTANTS t1, r1, r2

(* Months of three and two days by turns; month 36 starts on day 91. *)
MCFirstDay == [m \in FirstMonth..FinalMonth |-> 1 + 5 * (m \div 2) + 3 * (m % 2)]

Row(cycle, cutoff) == [cycle |-> cycle, cutoffDay |-> cutoff, weekStartDay |-> 1,
                       yearStartMonth |-> 1]

Body(cycle, cutoff) == [cycle |-> cycle, cutoffDay |-> cutoff, weekStartDay |-> Null,
                        yearStartMonth |-> Null]

MCWorkspaces == {Row(c, 1) : c \in Cycles}
MCThirdDay   == {Row("MONTHLY", 3)}     \* a cutoff that every other month lacks
MCIndefinite == {Row("INDEFINITE", 1)}
MCPatches    == {Body("MONTHLY", 2)}

Symmetry == Permutations(Requests)
=============================================================================
