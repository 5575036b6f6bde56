------------------------------- MODULE Calendar -------------------------------
(***************************************************************************)
(* The date arithmetic of the day-wise polls.  A date is a struct tm cut   *)
(* down to tm_mday (1..31), tm_mon (0..11) and tm_year (years since 1900)  *)
(* in main.c, and a Date with day, month (1..12) and year in redis.c; both *)
(* are records of the fields day, month, year here, the first with month   *)
(* and year as struct tm counts them.                                      *)
(***************************************************************************)
EXTENDS Integers

(* The array of days_in_month(), which the code indexes with `month'. *)
MonthDays == <<31, 28, 31, 30, 31, 30, 31, 31, 30, 31, 30, 31>>

IsLeapYear(year) == \/ year % 4 = 0 /\ year % 100 # 0
                    \/ year % 400 = 0

(* The leap test counts months from 1, the array from 0: for month = 2     *)
(* days[month] is March.                                                   *)
DaysInMonth(month, year) ==
  IF month = 2 /\ IsLeapYear(year) THEN 29 ELSE MonthDays[month + 1]

(* Mutant: the month is passed as it is, as before 01/12/2025. *)
AddOneDayFromOne(d) ==
  IF d.day + 1 <= DaysInMonth(d.month % 12, d.year) THEN [d EXCEPT !.day = @ + 1]
  ELSE IF d.month < 12 THEN [day |-> 1, month |-> d.month + 1, year |-> d.year]
  ELSE [day |-> 1, month |-> 1, year |-> d.year + 1]

(* add_one_day() on a Date. *)
AddOneDay(d) ==
  IF d.day + 1 <= DaysInMonth(d.month - 1, d.year) THEN [d EXCEPT !.day = @ + 1]
  ELSE IF d.month < 12 THEN [day |-> 1, month |-> d.month + 1, year |-> d.year]
  ELSE [day |-> 1, month |-> 1, year |-> d.year + 1]

(* Mutant: the length is taken of the month that is left. *)
StepBackOldMonth(t) ==
  IF t.day > 1 THEN [t EXCEPT !.day = @ - 1]
  ELSE LET mon  == IF t.month = 0 THEN 11 ELSE t.month - 1
           year == IF t.month = 0 THEN t.year - 1 ELSE t.year
       IN [day |-> DaysInMonth(t.month, year), month |-> mon, year |-> year]

(* The step back of get_old_data() and idle_poll_phase() on a struct tm. *)
StepBack(t) ==
  IF t.day > 1 THEN [t EXCEPT !.day = @ - 1]
  ELSE LET mon  == IF t.month = 0 THEN 11 ELSE t.month - 1
           year == IF t.month = 0 THEN t.year - 1 ELSE t.year
       IN [day |-> DaysInMonth(mon, year), month |-> mon, year |-> year]
-----------------------------------------------------------------------------
(* What the Gregorian calendar says, on dates with month 1..12. *)

MonthLength(month, year) ==
  CASE month = 2 -> IF IsLeapYear(year) THEN 29 ELSE 28
    [] month \in {4, 6, 9, 11} -> 30
    [] OTHER -> 31

RealDate(d) == /\ d \in [day : Nat, month : 1..12, year : Nat]
               /\ d.day \in 1..MonthLength(d.month, d.year)

NextDay(d) ==
  IF d.day < MonthLength(d.month, d.year) THEN [d EXCEPT !.day = @ + 1]
  ELSE IF d.month < 12 THEN [day |-> 1, month |-> d.month + 1, year |-> d.year]
  ELSE [day |-> 1, month |-> 1, year |-> d.year + 1]

(* Days since the last day of the year 1 BC; d is a date with month 1..12. *)
Ordinal(d) ==
  LET years == d.year - 1
      before == <<0, 31, 59, 90, 120, 151, 181, 212, 243, 273, 304, 334>>
      leap == IF d.month > 2 /\ IsLeapYear(d.year) THEN 1 ELSE 0
  IN 365 * years + (years \div 4) - (years \div 100) + (years \div 400)
     + before[d.month] + leap + d.day

(* struct tm and Date. *)
DateOf(t) == [day |-> t.day, month |-> t.month + 1, year |-> t.year + 1900]
TmOf(d)   == [day |-> d.day, month |-> d.month - 1, year |-> d.year - 1900]
=============================================================================
