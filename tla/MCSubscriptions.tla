--------------------------- MODULE MCSubscriptions ---------------------------
(* Small instances of Subscriptions: months of two days and of one, weeks of  *)
(* one day and years of two months.                                          *)
EXTENDS Subscriptions

CONSTANTS s1, s2

MCLength == [m \in 0..LastMonth |-> IF m % 2 = 1 THEN 1 ELSE 2]

(* The date clients choose: the last day of a long month. *)
MCClientDates == {[month |-> 0, day |-> 2]}
=============================================================================
