---------------------------- MODULE ExternalData ----------------------------
(***************************************************************************)
(* The two services in front of a public API: ExchangeRatesService         *)
(* .getLatest, which keeps the quotes of a day in the database, and        *)
(* HolidaysService.getHolidayDates of one year, which keeps them in the    *)
(* database and in the memory of the process.                              *)
(*                                                                         *)
(* A fetch brings all the quotes of the day, or all the holidays of the    *)
(* year: what they are is left out.                                        *)
(***************************************************************************)
EXTENDS Integers, Handlers

CONSTANTS
    LastDay,        \* days go from 1 to LastDay
    MaxRestarts     \* bound

ASSUME ExternalDataAssumption == LastDay \in Nat \ {0} /\ MaxRestarts \in Nat

Days == 1..LastDay

VARIABLES
    now,            \* the day of the clock
    seedDay,        \* the day of the unnamed rate that seed.ts writes
    quotes,         \* day -> how many times its quotes were stored
    holidaysStored, \* are the holidays in the database?
    yearCache,      \* "all" or "none" of the holidays, or NULL
    stored,         \* history: what it asks for was stored since the call began
    restarts

externalTables == <<now, seedDay, quotes, holidaysStored, yearCache, stored, restarts>>
externalVars == <<externalTables, request>>

GoesTo(r, pc) == Goes(r, [pc |-> pc])
Begins(r, pc) ==
    /\ request[r] = Idle
    /\ GoesTo(r, pc)
    /\ stored' = [stored EXCEPT ![r] = FALSE]

ExternalInit ==
    /\ now = 1
    /\ seedDay \in Days \cup {NULL}
    /\ quotes = [d \in Days |-> 0]
    /\ holidaysStored = FALSE /\ yearCache = NULL
    /\ NobodyIn
    /\ stored = [r \in Requests |-> FALSE]
    /\ restarts = 0

-----------------------------------------------------------------------------
(* Fault: the quotes of the day before are looked for. *)
QuotesOfYesterday(day) == day > 1 /\ quotes[day - 1] > 0

(* The rows between the start of today and of tomorrow, with a name: the    *)
(* rate of the seed is not one.                                             *)
QuotesOf(day) == quotes[day] > 0

AskRates(r) ==
    /\ ~QuotesOf(now)
    /\ Begins(r, "fetch rates")
    /\ UNCHANGED <<now, seedDay, quotes, holidaysStored, yearCache, restarts>>

(* createMany dates the rows with the clock of now, to the millisecond:     *)
(* skipDuplicates skips nothing.                                            *)
StoreRates(r) ==
    /\ At(r, "fetch rates")
    /\ quotes' = [quotes EXCEPT ![now] = @ + 1]
    /\ stored' = [q \in Requests |-> stored[q] \/ (q # r /\ At(q, "fetch rates"))]
    /\ Ends(r)
    /\ UNCHANGED <<now, seedDay, holidaysStored, yearCache, restarts>>

AnyRate == seedDay # NULL \/ \E d \in Days : quotes[d] > 0

(* A refusal (a bad status, no array) is thrown to the client; for any other *)
(* failure the newest rows are answered, unless there are none.             *)
NoRates(r) ==
    /\ At(r, "fetch rates")
    /\ \/ Ends(r)
       \/ AnyRate /\ GoesTo(r, "answer old rates")
    /\ UNCHANGED <<now, seedDay, quotes, holidaysStored, yearCache, stored, restarts>>

AnswerOldRates(r) ==
    /\ At(r, "answer old rates")
    /\ Ends(r)
    /\ UNCHANGED <<now, seedDay, quotes, holidaysStored, yearCache, stored, restarts>>

-----------------------------------------------------------------------------
AskHolidays(r) ==
    /\ yearCache = NULL
    /\ Begins(r, "read holidays")
    /\ UNCHANGED <<now, seedDay, quotes, holidaysStored, yearCache, restarts>>

(* Fault: the database is not asked. *)
FoundNever == FALSE

Found == holidaysStored

ReadHolidays(r) ==
    /\ At(r, "read holidays")
    /\ IF Found THEN yearCache' = "all" /\ Ends(r)
                ELSE GoesTo(r, "fetch holidays") /\ UNCHANGED yearCache
    /\ UNCHANGED <<now, seedDay, quotes, holidaysStored, stored, restarts>>

(* createMany: another call may have stored some of them, or all. *)
StoreHolidays(r) ==
    /\ At(r, "fetch holidays")
    /\ holidaysStored' = TRUE
    /\ stored' = [q \in Requests |-> stored[q] \/ (q # r /\ request[q].pc \in {"read holidays", "fetch holidays"})]
    /\ GoesTo(r, "keep holidays")
    /\ UNCHANGED <<now, seedDay, quotes, yearCache, restarts>>

KeepHolidays(r) ==
    /\ At(r, "keep holidays")
    /\ yearCache' = "all"
    /\ Ends(r)
    /\ UNCHANGED <<now, seedDay, quotes, holidaysStored, stored, restarts>>

(* The source or createMany fails: only weekends, until the next restart. *)
NoHolidays(r) ==
    /\ At(r, "fetch holidays")
    /\ yearCache' = "none"
    /\ Ends(r)
    /\ UNCHANGED <<now, seedDay, quotes, holidaysStored, stored, restarts>>

NextDay ==
    /\ now < LastDay
    /\ now' = now + 1
    /\ UNCHANGED <<seedDay, quotes, holidaysStored, yearCache, request, stored, restarts>>

(* The process dies with its calls and its memory. *)
Restart ==
    /\ restarts < MaxRestarts /\ restarts' = restarts + 1
    /\ yearCache' = NULL
    /\ request' = [r \in Requests |-> Idle]
    /\ UNCHANGED <<now, seedDay, quotes, holidaysStored, stored>>

ExternalNext ==
    \/ \E r \in Requests :
          \/ AskRates(r) \/ StoreRates(r) \/ NoRates(r) \/ AnswerOldRates(r)
          \/ AskHolidays(r) \/ ReadHolidays(r) \/ StoreHolidays(r) \/ KeepHolidays(r) \/ NoHolidays(r)
    \/ NextDay \/ Restart

ExternalSpec == ExternalInit /\ [][ExternalNext]_externalVars

-----------------------------------------------------------------------------
(* The quotes of a day are stored once, so that answers list each of them   *)
(* once, unless the calls that store them overlap.                          *)
QuotesOnce ==
    [][\A r \in Requests :
          StoreRates(r) /\ quotes[now] > 0 => stored[r]]_externalVars

(* "Si la fuente externa falla y no hay nada cacheado, se degrada a sólo    *)
(* fines de semana": a process gives up the holidays that the database has  *)
(* only when a call that failed overlapped the one that stored them.        *)
DegradedWithNothingStored ==
    [][\A r \in Requests : NoHolidays(r) /\ holidaysStored => stored[r]]_externalVars
=============================================================================
