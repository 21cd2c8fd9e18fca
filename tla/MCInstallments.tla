--------------------------- MODULE MCInstallments ---------------------------
(* Small instances of Installments: short months, so that every night       *)
(* matters and a fixed day may be missing from a month.                     *)
EXTENDS Installments

CONSTANTS p1, p2, c1

MCLength == [m \in 0..LastMonth |-> IF m % 2 = 1 THEN 1 ELSE 2]
=============================================================================
