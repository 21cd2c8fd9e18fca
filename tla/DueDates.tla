------------------------------ MODULE DueDates ------------------------------
(***************************************************************************)
(* The due dates of one installment purchase, month after month: the date  *)
(* the scheduler stores after a charge, computed from the date it stored   *)
(* before, on real month lengths.                                          *)
(***************************************************************************)
EXTENDS Calendar

CONSTANT Days   \* days of the month a client may choose (1 to 31)

ASSUME DaysAssumption == Days \subseteq Nat \ {0}

VARIABLES
    chargeDay,      \* InstallmentPurchase.fixedDay, or the card's close day
    charged,        \* the date of the purchase or of the last charge
    nextCharge      \* InstallmentPurchase.nextChargeDate

dueDatesVars == <<chargeDay, charged, nextCharge>>

(* The calendar goes on long enough to compute the date after d. *)
InRange(d) == d.month + 2 <= LastMonth

(* InstallmentsService.create on any date. *)
DueDatesInit ==
    /\ chargeDay \in Days
    /\ charged \in {d \in Dates : InRange(d)}
    /\ nextCharge = NextOccurrence(charged, chargeDay)

(* InstallmentsScheduler.processDueInstallments stores the next date. *)
ChargeInstallment ==
    /\ InRange(nextCharge)
    /\ charged' = nextCharge
    /\ nextCharge' = NextOccurrence(nextCharge, chargeDay)
    /\ UNCHANGED chargeDay

DueDatesNext == ChargeInstallment

DueDatesSpec == DueDatesInit /\ [][DueDatesNext]_dueDatesVars

-----------------------------------------------------------------------------
(* The dates stored are dates of the calendar: no 31st of April. *)
DueDatesTypeOK ==
    /\ chargeDay \in Days
    /\ {charged, nextCharge} \subseteq Dates

(* "Next date strictly after fromDate that falls on day": the next charge   *)
(* falls on the chosen day, or on the last one of a shorter month, later    *)
(* than the charge before it, and no such date lies between the two.        *)
NextChargeIsFirst ==
    /\ Before(charged, nextCharge)
    /\ FallsOn(nextCharge, chargeDay)
    /\ \A d \in Dates : Before(charged, d) /\ FallsOn(d, chargeDay) => UpTo(nextCharge, d)

(* An installment falls due exactly once in every month, also after a short *)
(* month moved it to that month's last day: the day does not drift.         *)
OneChargePerMonth ==
    [][nextCharge' # nextCharge => /\ nextCharge'.month = nextCharge.month + 1
                                   /\ FallsOn(nextCharge', chargeDay)]_dueDatesVars
=============================================================================
