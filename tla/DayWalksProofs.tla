--------------------------- MODULE DayWalksProofs ---------------------------
(***************************************************************************)
(* Proofs about Calendar and DayWalks.  First, for every date, whether the *)
(* code's step to the neighbouring day is the calendar's: where the month  *)
(* index of days_in_month() counts from 0 and its leap test from 1, and    *)
(* where that is harmless.  Then what the walks over days make of it, for  *)
(* any meters, start dates and commands.                                   *)
(***************************************************************************)
EXTENDS DayWalks, TLAPS

CalendarDate == {d \in [day : Nat, month : Nat, year : Nat] : RealDate(d)}

(* The entry days_in_month() reads for a month counted from 0 is that      *)
(* month's length in a common year.                                        *)
LEMMA CommonMonths ==
  ASSUME NEW m \in 1..12
  PROVE  MonthDays[m] = IF m = 2 THEN 28 ELSE IF m \in {4, 6, 9, 11} THEN 30 ELSE 31
PROOF BY SMT DEF MonthDays

(* What the two callers get: in a leap year February is a day short and    *)
(* March, which has index 2, two days.                                     *)
LEMMA DaysAsCoded ==
  ASSUME NEW m \in 1..12, NEW y \in Int
  PROVE  DaysInMonth(m - 1, y) =
           IF m = 3 /\ IsLeapYear(y) THEN 29
           ELSE IF m = 2 THEN 28 ELSE IF m \in {4, 6, 9, 11} THEN 30 ELSE 31
<1>1. DaysInMonth(m - 1, y) = IF m = 3 /\ IsLeapYear(y) THEN 29 ELSE MonthDays[m]
  BY SMT DEF DaysInMonth
<1>2. QED
  BY <1>1, CommonMonths

(* add_one_day() is the calendar's next day for every date but 28 February, *)
(* 29 March and 30 March of a leap year.                                   *)
THEOREM AddOneDayExact ==
  ASSUME NEW d \in CalendarDate
  PROVE  AddOneDay(d) = NextDay(d) <=>
           ~ /\ IsLeapYear(d.year)
             /\ \/ d.month = 2 /\ d.day = 28
                \/ d.month = 3 /\ d.day \in {29, 30}
<1>1. /\ d \in [day : Nat, month : Nat, year : Nat]
      /\ d.day \in Nat /\ d.month \in 1..12 /\ d.year \in Nat
      /\ d.day \in 1..MonthLength(d.month, d.year)
  BY DEF CalendarDate, RealDate
<1> DEFINE coded == DaysInMonth(d.month - 1, d.year)
           real  == MonthLength(d.month, d.year)
           next  == [d EXCEPT !.day = @ + 1]
           turn  == IF d.month < 12
                    THEN [day |-> 1, month |-> d.month + 1, year |-> d.year]
                    ELSE [day |-> 1, month |-> 1, year |-> d.year + 1]
<1>2. /\ coded \in Int
      /\ coded = IF d.month = 3 /\ IsLeapYear(d.year) THEN 29
                 ELSE IF d.month = 2 THEN 28
                 ELSE IF d.month \in {4, 6, 9, 11} THEN 30 ELSE 31
  BY <1>1, DaysAsCoded
<1>3. /\ real \in Int
      /\ real = IF d.month = 2 THEN IF IsLeapYear(d.year) THEN 29 ELSE 28
                ELSE IF d.month \in {4, 6, 9, 11} THEN 30 ELSE 31
  BY <1>1 DEF MonthLength
<1>4. AddOneDay(d) = IF d.day + 1 <= coded THEN next ELSE turn
  BY DEF AddOneDay
<1>5. NextDay(d) = IF d.day < real THEN next ELSE turn
  BY DEF NextDay
<1>6. next # turn
  <2>1. next.day = d.day + 1 /\ next.month = d.month
    BY <1>1
  <2>2. turn.day = 1
    OBVIOUS
  <2>3. next.day # 1
    BY <1>1, <2>1
  <2>4. QED
    BY <2>2, <2>3
<1>7. AddOneDay(d) = NextDay(d) <=> (d.day + 1 <= coded <=> d.day < real)
  BY <1>4, <1>5, <1>6
<1>8. d.day \in Int /\ 1 <= d.day /\ d.day <= real
  BY <1>1, <1>3
<1> HIDE DEF coded, real, next, turn
<1>9. (d.day + 1 <= coded <=> d.day < real) <=>
        ~ /\ IsLeapYear(d.year)
          /\ \/ d.month = 2 /\ d.day = 28
             \/ d.month = 3 /\ d.day \in {29, 30}
  BY <1>1, <1>2, <1>3, <1>8, SMT
<1>10. QED
  BY <1>7, <1>9

(* The leap test on tm_year, which counts from 1900, agrees with the       *)
(* calendar's from 1901 to 2099, the year 2000 excepted.                   *)
LEMMA TmLeapYear ==
  ASSUME NEW y \in (1901..2099) \ {2000}
  PROVE  IsLeapYear(y - 1900) <=> IsLeapYear(y)
<1>1. (y - 1900) % 4 = y % 4
  BY SMT
<1>2. (y - 1900) % 100 = y % 100
  BY SMT
<1>3. (y - 1900) % 400 # 0 /\ y % 400 # 0
  BY SMT
<1>4. IsLeapYear(y - 1900) <=> (y - 1900) % 4 = 0 /\ (y - 1900) % 100 # 0
  BY <1>3, SMT DEF IsLeapYear
<1>5. IsLeapYear(y) <=> y % 4 = 0 /\ y % 100 # 0
  BY <1>3, SMT DEF IsLeapYear
<1>6. QED
  BY <1>1, <1>2, <1>4, <1>5

(* Before the first day of a month the backward walks are on the last day  *)
(* of the month before, but for 1 March and 1 April of a leap year; within *)
(* a month they always step to the day before.                             *)
THEOREM StepBackExact ==
  ASSUME NEW d \in CalendarDate, d.year \in (1901..2099) \ {2000}
  PROVE  NextDay(DateOf(StepBack(TmOf(d)))) = d <=>
           ~(IsLeapYear(d.year) /\ d.day = 1 /\ d.month \in {3, 4})
<1> DEFINE t == TmOf(d)
           e == DateOf(StepBack(t))
<1>1. /\ d \in [day : Nat, month : Nat, year : Nat]
      /\ d.day \in 1..MonthLength(d.month, d.year)
      /\ d.month \in 1..12 /\ d.year \in Nat /\ d.day \in Nat
      /\ d = [day |-> d.day, month |-> d.month, year |-> d.year]
  BY DEF CalendarDate, RealDate
<1>2. t = [day |-> d.day, month |-> d.month - 1, year |-> d.year - 1900]
  BY DEF TmOf
<1>3. MonthLength(d.month, d.year) \in Int
  BY <1>1 DEF MonthLength
<1>4. d.day >= 1 /\ d.day <= MonthLength(d.month, d.year)
  BY <1>1, <1>3
<1>5. CASE d.day > 1
  <2>1. StepBack(t) = [day |-> d.day - 1, month |-> d.month - 1, year |-> d.year - 1900]
    BY <1>2, <1>5 DEF StepBack
  <2>2. e = [day |-> d.day - 1, month |-> d.month, year |-> d.year]
    BY <2>1, <1>1 DEF DateOf
  <2>3. e.day < MonthLength(e.month, e.year)
    BY <1>1, <1>3, <1>4, <2>2
  <2>4. NextDay(e) = [e EXCEPT !.day = @ + 1]
    BY <2>3 DEF NextDay
  <2>5. [e EXCEPT !.day = @ + 1] = [day |-> d.day - 1 + 1, month |-> d.month, year |-> d.year]
    BY <2>2
  <2>6. d.day - 1 + 1 = d.day
    BY <1>1
  <2>7. NextDay(e) = d
    BY <1>1, <2>4, <2>5, <2>6
  <2>8. QED
    BY <1>1, <1>5, <2>7
<1>6. CASE d.day = 1 /\ d.month = 1
  <2>1. StepBack(t) = [day |-> DaysInMonth(11, d.year - 1900 - 1), month |-> 11,
                       year |-> d.year - 1900 - 1]
    BY <1>2, <1>6 DEF StepBack
  <2>2. DaysInMonth(11, d.year - 1900 - 1) = 31
    BY <1>1 DEF DaysInMonth, MonthDays
  <2>3. e = [day |-> 31, month |-> 12, year |-> d.year - 1]
    BY <2>1, <2>2, <1>1 DEF DateOf
  <2>4. MonthLength(12, d.year - 1) = 31
    BY DEF MonthLength
  <2>5. NextDay(e) = [day |-> 1, month |-> 1, year |-> d.year - 1 + 1]
    BY <2>3, <2>4 DEF NextDay
  <2>6. NextDay(e) = d
    BY <1>1, <1>6, <2>5
  <2>7. QED
    BY <1>6, <2>6
<1>7. CASE d.day = 1 /\ d.month # 1
  <2> DEFINE m == d.month - 1
             coded == DaysInMonth(m - 1, d.year - 1900)
  <2>1. m \in 1..11 /\ m + 1 = d.month /\ d.year - 1900 \in Int
    BY <1>1, <1>7
  <2>2. StepBack(t) = [day |-> coded, month |-> m - 1, year |-> d.year - 1900]
    BY <1>1, <1>2, <1>7 DEF StepBack
  <2>3. e = [day |-> coded, month |-> m, year |-> d.year]
    BY <2>2, <1>1 DEF DateOf
  <2>4. /\ coded \in Int
        /\ coded = IF m = 3 /\ IsLeapYear(d.year) THEN 29
                   ELSE IF m = 2 THEN 28 ELSE IF m \in {4, 6, 9, 11} THEN 30 ELSE 31
    <3>1. coded = IF m = 3 /\ IsLeapYear(d.year - 1900) THEN 29
                  ELSE IF m = 2 THEN 28 ELSE IF m \in {4, 6, 9, 11} THEN 30 ELSE 31
      BY <2>1, DaysAsCoded
    <3>2. IsLeapYear(d.year - 1900) <=> IsLeapYear(d.year)
      BY TmLeapYear
    <3>3. QED
      BY <3>1, <3>2
  <2>5. /\ MonthLength(m, d.year) \in Int
        /\ MonthLength(m, d.year) =
             IF m = 2 THEN IF IsLeapYear(d.year) THEN 29 ELSE 28
             ELSE IF m \in {4, 6, 9, 11} THEN 30 ELSE 31
    BY <2>1 DEF MonthLength
  <2>6. NextDay(e) = IF coded < MonthLength(m, d.year)
                     THEN [day |-> coded + 1, month |-> m, year |-> d.year]
                     ELSE [day |-> 1, month |-> m + 1, year |-> d.year]
    BY <2>1, <2>3 DEF NextDay
  <2>7. NextDay(e) = d <=> ~(coded < MonthLength(m, d.year))
    BY <1>1, <1>7, <2>1, <2>6
  <2>8. coded < MonthLength(m, d.year) <=> IsLeapYear(d.year) /\ m \in {2, 3}
    BY <2>1, <2>4, <2>5
  <2>9. m \in {2, 3} <=> d.month \in {3, 4}
    BY <1>1
  <2>10. QED
    BY <1>7, <2>7, <2>8, <2>9
<1>8. QED
  BY <1>1, <1>4, <1>5, <1>6, <1>7

-----------------------------------------------------------------------------
(***************************************************************************)
(* Days in a row.                                                          *)
(***************************************************************************)

LEMMA RealDates ==
  ASSUME NEW d
  PROVE  RealDate(d) <=> d \in CalendarDate
BY DEF CalendarDate, RealDate

LEMMA DateFields ==
  ASSUME NEW d \in CalendarDate
  PROVE  /\ d = [day |-> d.day, month |-> d.month, year |-> d.year]
         /\ d.day \in Nat /\ d.month \in 1..12 /\ d.year \in Nat
         /\ 1 <= d.day /\ d.day <= MonthLength(d.month, d.year)
<1>1. MonthLength(d.month, d.year) \in Int
  BY DEF MonthLength
<1> QED
  BY <1>1 DEF CalendarDate, RealDate

LEMMA MonthLengths ==
  ASSUME NEW m, NEW y
  PROVE  MonthLength(m, y) = IF m = 2 THEN IF IsLeapYear(y) THEN 29 ELSE 28
                             ELSE IF m \in {4, 6, 9, 11} THEN 30 ELSE 31
BY DEF MonthLength

LEMMA NextDayReal ==
  ASSUME NEW d \in CalendarDate
  PROVE  NextDay(d) \in CalendarDate /\ NextDay(d).year >= d.year
<1>1. /\ d = [day |-> d.day, month |-> d.month, year |-> d.year]
      /\ d.day \in Nat /\ d.month \in 1..12 /\ d.year \in Nat
      /\ 1 <= d.day /\ d.day <= MonthLength(d.month, d.year)
  BY DateFields
<1>2. CASE d.day < MonthLength(d.month, d.year)
  <2>1. NextDay(d) = [day |-> d.day + 1, month |-> d.month, year |-> d.year]
    BY <1>1, <1>2 DEF NextDay
  <2>2. d.day + 1 \in 1..MonthLength(d.month, d.year)
    BY <1>1, <1>2, MonthLengths
  <2> QED
    BY <1>1, <2>1, <2>2 DEF CalendarDate, RealDate
<1>3. CASE ~(d.day < MonthLength(d.month, d.year)) /\ d.month < 12
  <2>1. NextDay(d) = [day |-> 1, month |-> d.month + 1, year |-> d.year]
    BY <1>3 DEF NextDay
  <2>2. 1 \in 1..MonthLength(d.month + 1, d.year)
    BY MonthLengths
  <2> QED
    BY <1>1, <1>3, <2>1, <2>2 DEF CalendarDate, RealDate
<1>4. CASE ~(d.day < MonthLength(d.month, d.year)) /\ ~(d.month < 12)
  <2>1. NextDay(d) = [day |-> 1, month |-> 1, year |-> d.year + 1]
    BY <1>4 DEF NextDay
  <2>2. 1 \in 1..MonthLength(1, d.year + 1)
    BY MonthLengths
  <2> QED
    BY <1>1, <2>1, <2>2 DEF CalendarDate, RealDate
<1> QED
  BY <1>2, <1>3, <1>4

(* The days of the months before month m, in a common year. *)
Before == <<0, 31, 59, 90, 120, 151, 181, 212, 243, 273, 304, 334>>

Years(y) == 365 * y + (y \div 4) - (y \div 100) + (y \div 400)

LeapDay(m, y) == IF m > 2 /\ IsLeapYear(y) THEN 1 ELSE 0

LEMMA OrdinalIs ==
  ASSUME NEW d
  PROVE  Ordinal(d) = Years(d.year - 1) + Before[d.month] + LeapDay(d.month, d.year) + d.day
BY DEF Ordinal, Years, Before, LeapDay

LEMMA BeforeNext ==
  ASSUME NEW m \in 1..11
  PROVE  Before[m + 1] = Before[m] +
           (IF m = 2 THEN 28 ELSE IF m \in {4, 6, 9, 11} THEN 30 ELSE 31)
BY SMT DEF Before

LEMMA BeforeInt ==
  ASSUME NEW m \in 1..12
  PROVE  Before[m] \in Int
BY SMT DEF Before

LEMMA YearsNext ==
  ASSUME NEW y \in Int
  PROVE  /\ Years(y) \in Int
         /\ Years(y) = Years(y - 1) + (IF IsLeapYear(y) THEN 366 ELSE 365)
<1>1. /\ (y \div 4) \in Int /\ (y \div 100) \in Int /\ (y \div 400) \in Int
      /\ ((y - 1) \div 4) \in Int /\ ((y - 1) \div 100) \in Int /\ ((y - 1) \div 400) \in Int
  BY SMT
<1>2. (y \div 4) - ((y - 1) \div 4) = IF y % 4 = 0 THEN 1 ELSE 0
  BY SMT
<1>3. (y \div 100) - ((y - 1) \div 100) = IF y % 100 = 0 THEN 1 ELSE 0
  BY SMT
<1>4. (y \div 400) - ((y - 1) \div 400) = IF y % 400 = 0 THEN 1 ELSE 0
  BY SMT
<1>5. (y % 400 = 0 => y % 100 = 0) /\ (y % 100 = 0 => y % 4 = 0)
  BY SMT
<1> QED
  BY <1>1, <1>2, <1>3, <1>4, <1>5 DEF Years, IsLeapYear

LEMMA OrdinalInt ==
  ASSUME NEW d \in CalendarDate
  PROVE  Ordinal(d) \in Int
<1>1. d.day \in Nat /\ d.month \in 1..12 /\ d.year \in Nat
  BY DateFields
<1>2. Years(d.year - 1) \in Int
  <2>1. PICK y \in Int : y = d.year - 1
    BY <1>1
  <2> QED
    BY <2>1, YearsNext
<1>3. Before[d.month] \in Int /\ LeapDay(d.month, d.year) \in Int
  BY <1>1, BeforeInt DEF LeapDay
<1> QED
  BY <1>1, <1>2, <1>3, OrdinalIs

(* Ordinal counts days. *)
LEMMA OrdinalNext ==
  ASSUME NEW d \in CalendarDate
  PROVE  Ordinal(NextDay(d)) = Ordinal(d) + 1
<1>1. /\ d = [day |-> d.day, month |-> d.month, year |-> d.year]
      /\ d.day \in Nat /\ d.month \in 1..12 /\ d.year \in Nat
      /\ 1 <= d.day /\ d.day <= MonthLength(d.month, d.year)
  BY DateFields
<1>y. Years(d.year - 1) \in Int /\ Years(d.year) \in Int
  <2>1. PICK y \in Int : y = d.year - 1
    BY <1>1
  <2> QED
    BY <1>1, <2>1, YearsNext
<1>b. Before[d.month] \in Int /\ LeapDay(d.month, d.year) \in Int
  BY <1>1, BeforeInt DEF LeapDay
<1>2. CASE d.day < MonthLength(d.month, d.year)
  <2>1. NextDay(d) = [day |-> d.day + 1, month |-> d.month, year |-> d.year]
    BY <1>1, <1>2 DEF NextDay
  <2> DEFINE n == NextDay(d)
  <2>2. n.day = d.day + 1 /\ n.month = d.month /\ n.year = d.year
    BY <2>1
  <2> HIDE DEF n
  <2>3. Ordinal(n) = Years(d.year - 1) + Before[d.month] + LeapDay(d.month, d.year) + (d.day + 1)
    BY <2>2, OrdinalIs
  <2> QED
    BY <1>1, <1>y, <1>b, <2>3, OrdinalIs DEF n
<1>3. CASE ~(d.day < MonthLength(d.month, d.year)) /\ d.month < 12
  <2>1. NextDay(d) = [day |-> 1, month |-> d.month + 1, year |-> d.year]
    BY <1>3 DEF NextDay
  <2> DEFINE n == NextDay(d)
  <2>2. n.day = 1 /\ n.month = d.month + 1 /\ n.year = d.year
    BY <2>1
  <2> HIDE DEF n
  <2>3. Ordinal(n) = Years(d.year - 1) + Before[d.month + 1] + LeapDay(d.month + 1, d.year) + 1
    BY <2>2, OrdinalIs
  <2>4. d.day = MonthLength(d.month, d.year)
    BY <1>1, <1>3, MonthLengths
  <2>5. Before[d.month + 1] + LeapDay(d.month + 1, d.year)
          = Before[d.month] + LeapDay(d.month, d.year) + d.day
    <3>1. d.month \in 1..11
      BY <1>1, <1>3
    <3> QED
      BY <1>b, <2>4, <3>1, BeforeNext, MonthLengths DEF LeapDay
  <2>6. Before[d.month + 1] \in Int /\ LeapDay(d.month + 1, d.year) \in Int
    BY <1>1, <1>3, BeforeInt DEF LeapDay
  <2> QED
    BY <1>1, <1>y, <1>b, <2>3, <2>5, <2>6, OrdinalIs DEF n
<1>4. CASE ~(d.day < MonthLength(d.month, d.year)) /\ ~(d.month < 12)
  <2>1. NextDay(d) = [day |-> 1, month |-> 1, year |-> d.year + 1]
    BY <1>4 DEF NextDay
  <2> DEFINE n == NextDay(d)
  <2>2. n.day = 1 /\ n.month = 1 /\ n.year = d.year + 1 /\ n.year - 1 = d.year
    BY <1>1, <2>1
  <2> HIDE DEF n
  <2>3. Before[1] = 0 /\ Before[12] = 334
    BY DEF Before
  <2>4. Ordinal(n) = Years(d.year) + 1
    BY <1>y, <2>2, <2>3, OrdinalIs DEF LeapDay
  <2>5. d.month = 12 /\ d.day = 31
    BY <1>1, <1>4, MonthLengths
  <2>6. Ordinal(d) = Years(d.year - 1) + 334 + LeapDay(12, d.year) + 31
    BY <2>3, <2>5, OrdinalIs
  <2>7. Years(d.year) = Years(d.year - 1) + (IF IsLeapYear(d.year) THEN 366 ELSE 365)
    BY <1>1, YearsNext
  <2> QED
    BY <1>y, <2>4, <2>6, <2>7 DEF n, LeapDay
<1> QED
  BY <1>2, <1>3, <1>4

(* The steps of the code stay on days of the calendar, in leap years too:  *)
(* they leave a day out or take one twice there, but name no 30 February.  *)
LEMMA AddOneDayReal ==
  ASSUME NEW d \in CalendarDate
  PROVE  AddOneDay(d) \in CalendarDate
<1>1. /\ d = [day |-> d.day, month |-> d.month, year |-> d.year]
      /\ d.day \in Nat /\ d.month \in 1..12 /\ d.year \in Nat
      /\ 1 <= d.day /\ d.day <= MonthLength(d.month, d.year)
  BY DateFields
<1> DEFINE coded == DaysInMonth(d.month - 1, d.year)
<1>2. coded \in Int /\ coded <= MonthLength(d.month, d.year)
  BY <1>1, DaysAsCoded, MonthLengths
<1>3. CASE d.day + 1 <= coded
  <2>1. AddOneDay(d) = [day |-> d.day + 1, month |-> d.month, year |-> d.year]
    BY <1>1, <1>3 DEF AddOneDay
  <2>2. d.day + 1 \in 1..MonthLength(d.month, d.year)
    BY <1>1, <1>2, <1>3, MonthLengths
  <2> QED
    BY <1>1, <2>1, <2>2 DEF CalendarDate, RealDate
<1>4. CASE ~(d.day + 1 <= coded) /\ d.month < 12
  <2>1. AddOneDay(d) = [day |-> 1, month |-> d.month + 1, year |-> d.year]
    BY <1>4 DEF AddOneDay
  <2>2. 1 \in 1..MonthLength(d.month + 1, d.year)
    BY MonthLengths
  <2> QED
    BY <1>1, <1>4, <2>1, <2>2 DEF CalendarDate, RealDate
<1>5. CASE ~(d.day + 1 <= coded) /\ ~(d.month < 12)
  <2>1. AddOneDay(d) = [day |-> 1, month |-> 1, year |-> d.year + 1]
    BY <1>5 DEF AddOneDay
  <2>2. 1 \in 1..MonthLength(1, d.year + 1)
    BY MonthLengths
  <2> QED
    BY <1>1, <2>1, <2>2 DEF CalendarDate, RealDate
<1> QED
  BY <1>3, <1>4, <1>5

LEMMA TmOfDate ==
  ASSUME NEW d \in CalendarDate
  PROVE  DateOf(TmOf(d)) = d
<1>1. /\ d = [day |-> d.day, month |-> d.month, year |-> d.year]
      /\ d.month \in 1..12 /\ d.year \in Nat
  BY DateFields
<1>2. d.month - 1 + 1 = d.month /\ d.year - 1900 + 1900 = d.year
  BY <1>1
<1> QED
  BY <1>1, <1>2 DEF DateOf, TmOf

LEMMA StepBackReal ==
  ASSUME NEW d \in CalendarDate, d.year > 0
  PROVE  \E e \in CalendarDate : StepBack(TmOf(d)) = TmOf(e) /\ e.year >= d.year - 1
<1>1. /\ d = [day |-> d.day, month |-> d.month, year |-> d.year]
      /\ d.day \in Nat /\ d.month \in 1..12 /\ d.year \in Nat
      /\ 1 <= d.day /\ d.day <= MonthLength(d.month, d.year)
  BY DateFields
<1> DEFINE t == TmOf(d)
<1>2. t = [day |-> d.day, month |-> d.month - 1, year |-> d.year - 1900]
  BY DEF TmOf
<1>3. CASE d.day > 1
  <2> DEFINE e == [day |-> d.day - 1, month |-> d.month, year |-> d.year]
  <2>1. StepBack(t) = [day |-> d.day - 1, month |-> d.month - 1, year |-> d.year - 1900]
    BY <1>2, <1>3 DEF StepBack
  <2>2. StepBack(t) = TmOf(e)
    BY <2>1 DEF TmOf
  <2>3. d.day - 1 \in 1..MonthLength(d.month, d.year)
    BY <1>1, <1>3, MonthLengths
  <2>4. e \in CalendarDate /\ e.year >= d.year - 1
    BY <1>1, <2>3 DEF CalendarDate, RealDate
  <2> QED
    BY <2>2, <2>4
<1>4. CASE ~(d.day > 1) /\ d.month = 1
  <2> DEFINE e == [day |-> 31, month |-> 12, year |-> d.year - 1]
  <2>1. DaysInMonth(11, d.year - 1900 - 1) = 31
    BY DEF DaysInMonth, MonthDays
  <2>2. StepBack(t) = [day |-> 31, month |-> 11, year |-> d.year - 1900 - 1]
    BY <1>1, <1>2, <1>4, <2>1 DEF StepBack
  <2>3. d.year - 1900 - 1 = d.year - 1 - 1900
    BY <1>1
  <2>4. StepBack(t) = TmOf(e)
    BY <2>2, <2>3 DEF TmOf
  <2>5. 31 \in 1..MonthLength(12, d.year - 1) /\ d.year - 1 \in Nat
    BY <1>1, MonthLengths
  <2>6. e \in CalendarDate /\ e.year >= d.year - 1
    BY <1>1, <2>5 DEF CalendarDate, RealDate
  <2> QED
    BY <2>4, <2>6
<1>5. CASE ~(d.day > 1) /\ d.month # 1
  <2>0. PICK m \in 1..11 : m = d.month - 1
    BY <1>1, <1>5
  <2> DEFINE coded == DaysInMonth(m - 1, d.year - 1900)
             e == [day |-> coded, month |-> m, year |-> d.year]
  <2>1. coded \in Int /\ 1 <= coded /\ coded <= MonthLength(m, d.year)
    <3>1. d.year - 1900 \in Int
      BY <1>1
    <3>2. coded = IF m = 3 /\ IsLeapYear(d.year - 1900) THEN 29
                  ELSE IF m = 2 THEN 28 ELSE IF m \in {4, 6, 9, 11} THEN 30 ELSE 31
      BY <3>1, DaysAsCoded
    <3> QED
      BY <3>2, MonthLengths
  <2>2. StepBack(t) = [day |-> coded, month |-> m - 1, year |-> d.year - 1900]
    BY <1>1, <1>2, <1>5, <2>0 DEF StepBack
  <2> HIDE DEF coded
  <2>3. StepBack(t) = TmOf(e)
    BY <2>2 DEF TmOf
  <2>4. e \in CalendarDate /\ e.year >= d.year - 1
    BY <1>1, <2>1, MonthLengths DEF CalendarDate, RealDate
  <2> QED
    BY <2>3, <2>4
<1> QED
  BY <1>3, <1>4, <1>5

LEMMA PreviousDay ==
  ASSUME NEW d \in CalendarDate, d.year > 0
  PROVE  \E p \in CalendarDate : NextDay(p) = d /\ p.year \in {d.year, d.year - 1}
<1>1. /\ d = [day |-> d.day, month |-> d.month, year |-> d.year]
      /\ d.day \in Nat /\ d.month \in 1..12 /\ d.year \in Nat
      /\ 1 <= d.day /\ d.day <= MonthLength(d.month, d.year)
  BY DateFields
<1>2. CASE d.day > 1
  <2> DEFINE p == [day |-> d.day - 1, month |-> d.month, year |-> d.year]
  <2>1. d.day - 1 \in 1..MonthLength(d.month, d.year) /\ d.day - 1 < MonthLength(d.month, d.year)
        /\ d.day - 1 + 1 = d.day
    BY <1>1, <1>2, MonthLengths
  <2>2. p \in CalendarDate
    BY <1>1, <2>1 DEF CalendarDate, RealDate
  <2>3. NextDay(p) = [day |-> d.day - 1 + 1, month |-> d.month, year |-> d.year]
    BY <2>1 DEF NextDay
  <2> QED
    BY <1>1, <2>1, <2>2, <2>3
<1>3. CASE ~(d.day > 1) /\ d.month > 1
  <2>0. PICK m \in 1..11 : m = d.month - 1 /\ m + 1 = d.month
    BY <1>1, <1>3
  <2> DEFINE len == MonthLength(m, d.year)
             p == [day |-> len, month |-> m, year |-> d.year]
  <2>1. len \in 1..31
    BY MonthLengths
  <2>2. p \in CalendarDate
    BY <1>1, <2>1 DEF CalendarDate, RealDate
  <2>3. NextDay(p) = [day |-> 1, month |-> m + 1, year |-> d.year]
    BY <2>1 DEF NextDay
  <2>4. d.day = 1
    BY <1>1, <1>3
  <2> QED
    BY <1>1, <2>0, <2>2, <2>3, <2>4
<1>4. CASE ~(d.day > 1) /\ ~(d.month > 1)
  <2> DEFINE p == [day |-> 31, month |-> 12, year |-> d.year - 1]
  <2>1. d.year - 1 \in Nat /\ d.year - 1 + 1 = d.year /\ d.day = 1 /\ d.month = 1
    BY <1>1, <1>4
  <2>2. MonthLength(12, d.year - 1) = 31
    BY MonthLengths
  <2>3. p \in CalendarDate
    BY <2>1, <2>2 DEF CalendarDate, RealDate
  <2>4. NextDay(p) = [day |-> 1, month |-> 1, year |-> d.year - 1 + 1]
    BY <2>2 DEF NextDay
  <2> QED
    BY <1>1, <2>1, <2>3, <2>4
<1> QED
  BY <1>2, <1>3, <1>4

(* mktime()'s step back is the calendar's. *)
LEMMA YesterdayReal ==
  ASSUME today \in CalendarDate, today.year >= 1970
  PROVE  \E e \in CalendarDate : Yesterday = TmOf(e) /\ NextDay(e) = today /\ e.year >= 1969
<1> DEFINE T == [day : 1..31, month : 0..11, year : {today.year - 1900, today.year - 1901}]
           P(t) == RealDate(DateOf(t)) /\ NextDay(DateOf(t)) = today
<1>1. \E t \in T : P(t)
  <2>0. today.year > 0
    BY DateFields
  <2>1. PICK p \in CalendarDate : NextDay(p) = today /\ p.year \in {today.year, today.year - 1}
    BY <2>0, PreviousDay
  <2>2. /\ p.day \in Nat /\ p.month \in 1..12 /\ p.year \in Nat
        /\ 1 <= p.day /\ p.day <= MonthLength(p.month, p.year)
    BY DateFields
  <2>3. today.year \in Nat
    BY DateFields
  <2>4. TmOf(p) \in T
    BY <2>1, <2>2, <2>3, MonthLengths DEF TmOf
  <2>5. P(TmOf(p))
    BY <2>1, TmOfDate, RealDates
  <2> QED
    BY <2>4, <2>5
<1>2. Yesterday = CHOOSE t \in T : P(t)
  BY DEF Yesterday
<1>3. Yesterday \in T /\ P(Yesterday)
  BY <1>1, <1>2
<1> DEFINE e == DateOf(Yesterday)
<1>4. e \in CalendarDate /\ NextDay(e) = today
  BY <1>3, RealDates
<1>5. today.year \in Nat
  BY DateFields
<1>6. /\ Yesterday = [day |-> Yesterday.day, month |-> Yesterday.month, year |-> Yesterday.year]
      /\ Yesterday.month \in Int /\ Yesterday.year \in Int
      /\ Yesterday.year >= today.year - 1901
  BY <1>3, <1>5
<1>7. Yesterday.month + 1 - 1 = Yesterday.month /\ Yesterday.year + 1900 - 1900 = Yesterday.year
  BY <1>6
<1>8. TmOf(e) = Yesterday
  BY <1>6, <1>7 DEF TmOf, DateOf
<1>9. e.year >= 1969
  BY <1>5, <1>6 DEF DateOf
<1> QED
  BY <1>4, <1>8, <1>9

-----------------------------------------------------------------------------
(***************************************************************************)
(* Types.  A backward walk loses at most a year a step, so its date stays  *)
(* in the Christian era; after its last day the idle search starts again   *)
(* from yesterday, and the date it stood at is not used.                   *)
(***************************************************************************)
Steps == IF phase = "old" THEN idx ELSE old_poll_day

WalkDate ==
  \E e \in CalendarDate :
    local_copy = TmOf(e) /\ (e.year >= 1969 - Steps \/ (phase = "idle" /\ first_day))

OdCommands == [running : {TRUE}, start : OdStarts, curr_date : CalendarDate, i : Nat, ndays : Nat]

OdTyped == od = NoOd \/ (od \in OdCommands /\ od.ndays \in 1..OdDays /\ od.i < od.ndays)

CountersTyped ==
  /\ phase \in {"old", "idle"} /\ idx \in 0..NumOldDays
  /\ old_poll_day \in 0..NumOldDays /\ missing_old_data_midx \in 0..NumMeters
  /\ midnights \in 0..MaxMidnights /\ ods \in 0..MaxOd

DatesTyped ==
  /\ today \in CalendarDate /\ today.year >= 1970
  /\ origin \in CalendarDate /\ origin.year >= 1970

FlagsTyped == first_day \in BOOLEAN /\ chk \in BOOLEAN

TypeInv == CountersTyped /\ DatesTyped /\ WalkDate /\ OdTyped /\ FlagsTyped

LEMMA Constants ==
  /\ NumMeters \in Nat /\ Enabled \subseteq 0..NumMeters - 1
  /\ NumOldDays \in 0..255 /\ OdDays \in Nat /\ MaxOd \in Nat /\ MaxMidnights \in Nat
  /\ \A d \in Starts : d \in CalendarDate /\ d.year >= 1970
  /\ \A d \in OdStarts : d \in CalendarDate
BY DayWalksAssumption, RealDates

LEMMA TypeInvTypes == TypeInv => TypeOK
<1> SUFFICES ASSUME TypeInv PROVE TypeOK
  OBVIOUS
<1>1. RealDate(today) /\ RealDate(origin)
  BY RealDates DEF TypeInv, DatesTyped
<1>2. RealDate(DateOf(local_copy))
  BY TmOfDate, RealDates DEF TypeInv, WalkDate
<1>3. od # NoOd => /\ RealDate(od.curr_date) /\ od.running
                   /\ od.ndays \in 1..OdDays /\ od.i \in 0..od.ndays - 1
  <2> SUFFICES ASSUME od # NoOd
               PROVE  /\ RealDate(od.curr_date) /\ od.running
                      /\ od.ndays \in 1..OdDays /\ od.i \in 0..od.ndays - 1
    OBVIOUS
  <2>1. od \in OdCommands /\ od.ndays \in 1..OdDays /\ od.i < od.ndays
    BY DEF TypeInv, OdTyped
  <2>2. od.running = TRUE /\ od.curr_date \in CalendarDate /\ od.i \in Nat /\ od.ndays \in Nat
    BY <2>1 DEF OdCommands
  <2> QED
    BY <2>1, <2>2, RealDates
<1> QED
  BY <1>1, <1>2, <1>3, Zenon DEF TypeInv, CountersTyped, FlagsTyped, TypeOK

LEMMA InitTypes == Init => TypeInv
<1> SUFFICES ASSUME Init PROVE TypeInv
  OBVIOUS
<1>1. DatesTyped
  BY Constants DEF Init, DatesTyped
<1>2. CountersTyped
  BY Constants DEF Init, CountersTyped
<1>3. WalkDate
  <2>1. PICK e \in CalendarDate : Yesterday = TmOf(e) /\ e.year >= 1969
    BY <1>1, YesterdayReal DEF DatesTyped
  <2>2. e.year >= 1969 - 0
    BY <2>1
  <2> QED
    BY <2>1, <2>2 DEF Init, WalkDate, Steps
<1>4. OdTyped
  BY DEF Init, OdTyped
<1>5. FlagsTyped
  BY Zenon DEF Init, FlagsTyped
<1> QED
  BY <1>1, <1>2, <1>3, <1>4, <1>5 DEF TypeInv

(* The date of a backward walk after a step of it. *)
LEMMA WalkBack ==
  ASSUME NEW e \in CalendarDate, NEW n \in Nat, n < 255, e.year >= 1969 - n
  PROVE  \E f \in CalendarDate : StepBack(TmOf(e)) = TmOf(f) /\ f.year >= 1969 - (n + 1)
<1>1. e.year \in Nat /\ e.year > 0
  BY DateFields
<1>2. PICK f \in CalendarDate : StepBack(TmOf(e)) = TmOf(f) /\ f.year >= e.year - 1
  BY <1>1, StepBackReal
<1>3. f.year \in Nat
  BY DateFields
<1> QED
  BY <1>1, <1>2, <1>3

(* Where a turn of the idle search starts from. *)
StartDate == IF first_day THEN Yesterday ELSE local_copy

LEMMA StartReal ==
  ASSUME TypeInv, phase = "idle"
  PROVE  \E e \in CalendarDate : StartDate = TmOf(e) /\ e.year >= 1969 - old_poll_day
<1>1. old_poll_day \in Nat
  BY Constants DEF TypeInv, CountersTyped
<1>2. CASE first_day
  <2>1. PICK e \in CalendarDate : Yesterday = TmOf(e) /\ e.year >= 1969
    BY YesterdayReal DEF TypeInv, DatesTyped
  <2>2. e.year \in Nat
    BY DateFields
  <2> QED
    BY <1>1, <1>2, <2>1, <2>2 DEF StartDate
<1>3. CASE ~first_day
  BY <1>3 DEF StartDate, TypeInv, WalkDate, Steps
<1> QED
  BY <1>2, <1>3

(* What a turn of the idle search does to its day and its date. *)
IdleMoves ==
  \/ local_copy' = StartDate /\ UNCHANGED <<first_day, old_poll_day>>
  \/ /\ old_poll_day < NumOldDays - 1 /\ old_poll_day' = old_poll_day + 1 /\ first_day' = FALSE
     /\ local_copy' = StepBack(StartDate)
  \/ first_day' = TRUE /\ old_poll_day' = 0 /\ local_copy' = StartDate

LEMMA IdleTurnMoves == IdleTurn => IdleMoves
BY Zenon DEF IdleTurn, NextOldDay, IdleMoves, StartDate

LEMMA TypeInvKept == TypeInv /\ [Next]_vars => TypeInv'
<1> SUFFICES ASSUME TypeInv, [Next]_vars PROVE TypeInv'
  OBVIOUS
<1> USE DEF TypeInv
<1>c. /\ NumMeters \in Nat /\ NumOldDays \in Nat /\ NumOldDays <= 255
      /\ idx \in Nat /\ idx <= NumOldDays /\ old_poll_day \in Nat /\ old_poll_day <= NumOldDays
  BY Constants DEF CountersTyped
<1>f. FlagsTyped'
  <2>1. CASE IdleTurn
    <3>1. first_day' \in {first_day, TRUE, FALSE} /\ chk' = chk
      BY <2>1, Zenon DEF IdleTurn, NextOldDay, env
    <3> QED
      BY <3>1, Zenon DEF FlagsTyped
  <2>2. CASE SetChk
    <3>1. (~chk) \in BOOLEAN
      OBVIOUS
    <3> QED
      BY <2>2, <3>1, Zenon DEF SetChk, idle, FlagsTyped
  <2>3. CASE OldDay \/ OldDone \/ OdDay \/ OdStart \/ Midnight \/ UNCHANGED vars
    BY <2>3, Zenon DEF OldDay, OldDone, OdDay, OdStart, Midnight, vars, env, idle, FlagsTyped
  <2> QED
    BY <2>1, <2>2, <2>3, Zenon DEF Next, Program
<1>0. ASSUME UNCHANGED <<phase, idx, local_copy, idle>> PROVE WalkDate'
  BY <1>0 DEF idle, WalkDate, Steps
<1>1. CASE OldDay
  <2>1. DatesTyped' /\ OdTyped' /\ CountersTyped'
    BY <1>1, <1>c DEF OldDay, env, idle, odcmd, DatesTyped, OdTyped, CountersTyped
  <2>2. WalkDate'
    <3>1. /\ phase = "old" /\ phase' = "old" /\ idx < NumOldDays /\ idx' = idx + 1
          /\ local_copy' = StepBack(local_copy)
      BY <1>1 DEF OldDay
    <3>2. PICK e \in CalendarDate : local_copy = TmOf(e) /\ e.year >= 1969 - idx
      BY <3>1 DEF WalkDate, Steps
    <3>3. PICK n \in Nat : n = idx /\ n < 255 /\ e.year >= 1969 - n
      BY <1>c, <3>1, <3>2
    <3>4. PICK f \in CalendarDate : StepBack(TmOf(e)) = TmOf(f) /\ f.year >= 1969 - (n + 1)
      BY <3>3, WalkBack
    <3> QED
      BY <3>1, <3>2, <3>3, <3>4 DEF WalkDate, Steps
  <2> QED
    BY <1>f, <2>1, <2>2
<1>2. CASE OldDone
  <2>1. DatesTyped' /\ OdTyped' /\ CountersTyped'
    BY <1>2, <1>c DEF OldDone, env, idle, odcmd, DatesTyped, OdTyped, CountersTyped
  <2>2. WalkDate'
    <3>1. phase' = "idle" /\ local_copy' = Yesterday /\ old_poll_day' = old_poll_day
      BY <1>2 DEF OldDone, idle
    <3>2. PICK e \in CalendarDate : Yesterday = TmOf(e) /\ e.year >= 1969
      BY YesterdayReal DEF DatesTyped
    <3>3. e.year \in Nat
      BY DateFields
    <3> QED
      BY <1>c, <3>1, <3>2, <3>3 DEF WalkDate, Steps
  <2> QED
    BY <1>f, <2>1, <2>2
<1>3. CASE IdleTurn
  <2>1. DatesTyped' /\ OdTyped'
    BY <1>3 DEF IdleTurn, env, odcmd, DatesTyped, OdTyped
  <2>2. CountersTyped'
    BY <1>3, <1>c DEF IdleTurn, NextOldDay, env, odcmd, CountersTyped
  <2>3. WalkDate'
    <3>1. phase = "idle" /\ phase' = "idle" /\ IdleMoves
      BY <1>3, IdleTurnMoves DEF IdleTurn
    <3>2. PICK e \in CalendarDate : StartDate = TmOf(e) /\ e.year >= 1969 - old_poll_day
      BY <3>1, StartReal
    <3>3. CASE local_copy' = StartDate /\ UNCHANGED <<first_day, old_poll_day>>
      BY <3>1, <3>2, <3>3 DEF WalkDate, Steps
    <3>4. CASE first_day' = TRUE /\ old_poll_day' = 0 /\ local_copy' = StartDate
      BY <3>1, <3>2, <3>4 DEF WalkDate
    <3>5. CASE /\ old_poll_day < NumOldDays - 1 /\ old_poll_day' = old_poll_day + 1
               /\ local_copy' = StepBack(StartDate)
      <4>1. PICK n \in Nat : n = old_poll_day /\ n < 255 /\ e.year >= 1969 - n
        BY <1>c, <3>2, <3>5
      <4>2. PICK f \in CalendarDate : StepBack(TmOf(e)) = TmOf(f) /\ f.year >= 1969 - (n + 1)
        BY <4>1, WalkBack
      <4> QED
        BY <3>1, <3>2, <3>5, <4>1, <4>2 DEF WalkDate, Steps
    <3> QED
      BY <3>1, <3>3, <3>4, <3>5 DEF IdleMoves
  <2> QED
    BY <1>f, <2>1, <2>2, <2>3
<1>4. CASE OdDay
  <2>1. DatesTyped' /\ CountersTyped' /\ WalkDate'
    BY <1>0, <1>4 DEF OdDay, env, idle, DatesTyped, CountersTyped
  <2>2. OdTyped'
    <3>1. od.running /\ od # NoOd
      BY <1>4 DEF OdDay, NoOd
    <3>2. od \in OdCommands /\ od.ndays \in 1..OdDays /\ od.i < od.ndays
      BY <3>1 DEF OdTyped
    <3>3. od.curr_date \in CalendarDate /\ od.i \in Nat /\ od.ndays \in Nat
      BY <3>2 DEF OdCommands
    <3>4. AddOneDay(od.curr_date) \in CalendarDate
      BY <3>3, AddOneDayReal
    <3>5. CASE od.i + 1 < od.ndays
      <4>1. od' = [od EXCEPT !.curr_date = AddOneDay(od.curr_date), !.i = od.i + 1]
        BY <1>4, <3>5 DEF OdDay
      <4>2. PICK s \in OdStarts, c \in CalendarDate, k \in Nat, n \in Nat :
              od = [running |-> TRUE, start |-> s, curr_date |-> c, i |-> k, ndays |-> n]
        BY <3>2 DEF OdCommands
      <4>3. PICK next \in CalendarDate : next = AddOneDay(od.curr_date)
        BY <3>4
      <4>4. od' = [running |-> TRUE, start |-> s, curr_date |-> next, i |-> k + 1, ndays |-> n]
        BY <4>1, <4>2, <4>3
      <4>5. od' \in OdCommands /\ od'.ndays = od.ndays /\ od'.i = od.i + 1
        BY <4>2, <4>3, <4>4 DEF OdCommands
      <4> QED
        BY <3>2, <3>5, <4>5 DEF OdTyped
    <3>6. CASE ~(od.i + 1 < od.ndays)
      BY <1>4, <3>6 DEF OdDay, OdTyped, NoOd
    <3> QED
      BY <3>5, <3>6
  <2> QED
    BY <1>f, <2>1, <2>2
<1>5. CASE OdStart
  <2>1. DatesTyped' /\ CountersTyped' /\ WalkDate'
    BY <1>0, <1>5, Constants DEF OdStart, env, idle, DatesTyped, CountersTyped
  <2>2. OdTyped'
    <3>1. PICK d \in OdStarts, n \in 1..OdDays :
            od' = [running |-> TRUE, start |-> d, curr_date |-> d, i |-> 0, ndays |-> n]
      BY <1>5 DEF OdStart
    <3>2. n \in Nat /\ 0 < n /\ d \in CalendarDate
      BY Constants
    <3> QED
      BY <3>1, <3>2 DEF OdTyped, OdCommands
  <2> QED
    BY <1>f, <2>1, <2>2
<1>6. CASE Midnight
  <2>1. WalkDate' /\ OdTyped' /\ CountersTyped'
    BY <1>0, <1>6, Constants DEF Midnight, idle, odcmd, OdTyped, CountersTyped
  <2>2. DatesTyped'
    <3>1. NextDay(today) \in CalendarDate /\ NextDay(today).year >= today.year
      BY NextDayReal DEF DatesTyped
    <3>2. NextDay(today).year \in Nat /\ today.year \in Nat
      BY <3>1, DateFields DEF DatesTyped
    <3> QED
      BY <1>6, <3>1, <3>2 DEF Midnight, DatesTyped
  <2> QED
    BY <1>f, <2>1, <2>2
<1>7. CASE SetChk \/ UNCHANGED vars
  <2>1. UNCHANGED <<today, midnights, phase, idx, local_copy, idle, odcmd, origin>>
    BY <1>7 DEF SetChk, vars, env
  <2>2. DatesTyped' /\ CountersTyped' /\ WalkDate' /\ OdTyped'
    BY <1>0, <2>1 DEF idle, odcmd, DatesTyped, CountersTyped, OdTyped
  <2> QED
    BY <1>f, <2>2
<1> QED
  BY <1>1, <1>2, <1>3, <1>4, <1>5, <1>6, <1>7, Zenon DEF Next, Program

(* Every date a walk stands at is a day of the calendar, also where the    *)
(* walks err by a day in a leap year, and the counters stay in their loops. *)
THEOREM WalksTypeCorrect == Spec => []TypeOK
<1>1. TypeInv => TypeOK
  BY TypeInvTypes
<1> QED
  BY <1>1, InitTypes, TypeInvKept, PTL DEF Spec
-----------------------------------------------------------------------------
(***************************************************************************)
(* Counting.  On the dates where the code's step is the calendar's, a walk *)
(* takes its days one by one.  A backward walk starts at most MaxMidnights *)
(* days after the process did, and goes NumOldDays days back.              *)
(***************************************************************************)
BackExact(d) == /\ d.year \in (1901..2099) \ {2000}
                /\ ~(IsLeapYear(d.year) /\ d.day = 1 /\ d.month \in {3, 4})

ForthExact(d) == ~ /\ IsLeapYear(d.year)
                   /\ \/ d.month = 2 /\ d.day = 28
                      \/ d.month = 3 /\ d.day \in {29, 30}

(* The days a walk may come to are days where its step is right: those of  *)
(* common years from 1901 to 2099, and in a leap year the days before      *)
(* 28 February and after 1 April.                                          *)
LeapMarchAvoided ==
  /\ \A s \in Starts, d \in CalendarDate :
       Ordinal(d) \in Ordinal(s) - NumOldDays .. Ordinal(s) + MaxMidnights => BackExact(d)
  /\ \A s \in OdStarts, d \in CalendarDate :
       Ordinal(d) \in Ordinal(s) .. Ordinal(s) + OdDays => ForthExact(d)

LEMMA StepBackCounts ==
  ASSUME NEW d \in CalendarDate, BackExact(d)
  PROVE  Ordinal(DateOf(StepBack(TmOf(d)))) = Ordinal(d) - 1
<1>1. d.year \in (1901..2099) \ {2000} /\ d.year > 0
  BY DEF BackExact
<1>2. NextDay(DateOf(StepBack(TmOf(d)))) = d
  BY <1>1, StepBackExact DEF BackExact
<1>3. PICK e \in CalendarDate : StepBack(TmOf(d)) = TmOf(e)
  BY <1>1, StepBackReal
<1>4. DateOf(StepBack(TmOf(d))) = e /\ NextDay(e) = d
  BY <1>2, <1>3, TmOfDate
<1>5. Ordinal(d) = Ordinal(e) + 1 /\ Ordinal(e) \in Int
  BY <1>4, OrdinalNext, OrdinalInt
<1> QED
  BY <1>4, <1>5

LEMMA AddOneDayCounts ==
  ASSUME NEW d \in CalendarDate, ForthExact(d)
  PROVE  Ordinal(AddOneDay(d)) = Ordinal(d) + 1
<1>1. AddOneDay(d) = NextDay(d)
  BY AddOneDayExact DEF ForthExact
<1> QED
  BY <1>1, OrdinalNext

LEMMA YesterdayCounts ==
  ASSUME today \in CalendarDate, today.year >= 1970
  PROVE  Ordinal(DateOf(Yesterday)) = Ordinal(today) - 1
<1>1. PICK e \in CalendarDate : Yesterday = TmOf(e) /\ NextDay(e) = today
  BY YesterdayReal
<1>2. Ordinal(today) = Ordinal(e) + 1 /\ Ordinal(e) \in Int
  BY <1>1, OrdinalNext, OrdinalInt
<1> QED
  BY <1>1, <1>2, TmOfDate

(* The walk of the idle search stands on its first day until it steps.     *)
FirstDay == (first_day => old_poll_day = 0) /\ (~first_day => phase = "idle")

(* The day a backward walk was set from is one of those the clock showed.  *)
OriginPlaced ==
  \E s \in Starts : /\ Ordinal(today) = Ordinal(s) + midnights
                    /\ Ordinal(s) <= Ordinal(origin) /\ Ordinal(origin) <= Ordinal(today)

OldCount == phase = "old" => Ordinal(DateOf(local_copy)) = Ordinal(origin) - 1 - idx

IdleCount == phase = "idle" /\ ~first_day =>
               Ordinal(DateOf(local_copy)) = Ordinal(origin) - 1 - old_poll_day

OdCount == od.running => Ordinal(od.curr_date) = Ordinal(od.start) + od.i

CountInv == OldCount /\ IdleCount /\ OdCount /\ FirstDay /\ OriginPlaced

LEMMA InitCounts == Init => CountInv
<1> SUFFICES ASSUME Init PROVE CountInv
  OBVIOUS
<1>1. today \in Starts /\ today \in CalendarDate /\ today.year >= 1970
  BY Constants DEF Init
<1>2. Ordinal(today) \in Int
  BY <1>1, OrdinalInt
<1>3. OldCount
  <2>1. phase = "old" /\ idx = 0 /\ local_copy = Yesterday /\ origin = today
    BY DEF Init
  <2> QED
    BY <1>1, <1>2, <2>1, YesterdayCounts DEF OldCount
<1>4. IdleCount /\ FirstDay
  BY Zenon DEF Init, IdleCount, FirstDay
<1>5. OdCount
  BY DEF Init, NoOd, OdCount
<1>6. OriginPlaced
  BY <1>1, <1>2 DEF Init, OriginPlaced
<1> QED
  BY <1>3, <1>4, <1>5, <1>6 DEF CountInv

(* A date at most NumOldDays days before the one a walk was set from is    *)
(* one where the walk steps right.                                         *)
LEMMA WithinReach ==
  ASSUME LeapMarchAvoided, TypeInv, OriginPlaced,
         NEW e \in CalendarDate, NEW n \in Nat, n < NumOldDays,
         Ordinal(e) = Ordinal(origin) - 1 - n
  PROVE  BackExact(e)
<1>1. PICK s \in Starts : /\ Ordinal(today) = Ordinal(s) + midnights
                          /\ Ordinal(s) <= Ordinal(origin) /\ Ordinal(origin) <= Ordinal(today)
  BY DEF OriginPlaced
<1>2. /\ midnights \in Nat /\ midnights <= MaxMidnights
      /\ NumOldDays \in Nat /\ MaxMidnights \in Nat
  BY Constants DEF TypeInv, CountersTyped
<1>3. Ordinal(s) \in Int /\ Ordinal(origin) \in Int /\ Ordinal(today) \in Int
  BY Constants, OrdinalInt DEF TypeInv, DatesTyped
<1>4. Ordinal(e) \in Int /\ Ordinal(e) >= Ordinal(s) - NumOldDays
      /\ Ordinal(e) <= Ordinal(s) + MaxMidnights
  BY <1>1, <1>2, <1>3
<1> QED
  BY <1>2, <1>3, <1>4 DEF LeapMarchAvoided

(* The day a turn of the idle search starts from is the one it counts.     *)
LEMMA StartCounts ==
  ASSUME TypeInv, CountInv, phase = "idle"
  PROVE  Ordinal(DateOf(StartDate)) =
           Ordinal(IF first_day THEN today ELSE origin) - 1 - old_poll_day
<1>1. today \in CalendarDate /\ today.year >= 1970 /\ Ordinal(today) \in Int
  BY OrdinalInt DEF TypeInv, DatesTyped
<1>2. CASE first_day
  <2>1. old_poll_day = 0
    BY <1>2 DEF CountInv, FirstDay
  <2>2. Ordinal(DateOf(StartDate)) = Ordinal(today) - 1
    BY <1>1, <1>2, YesterdayCounts DEF StartDate
  <2> QED
    BY <1>1, <1>2, <2>1, <2>2
<1>3. CASE ~first_day
  BY <1>3 DEF CountInv, IdleCount, StartDate
<1> QED
  BY <1>2, <1>3

LEMMA OriginKept == TypeInv /\ OriginPlaced /\ [Next]_vars => OriginPlaced'
<1> SUFFICES ASSUME TypeInv, OriginPlaced, [Next]_vars PROVE OriginPlaced'
  OBVIOUS
<1>1. PICK s \in Starts : /\ Ordinal(today) = Ordinal(s) + midnights
                          /\ Ordinal(s) <= Ordinal(origin) /\ Ordinal(origin) <= Ordinal(today)
  BY DEF OriginPlaced
<1>2. /\ Ordinal(s) \in Int /\ Ordinal(today) \in Int /\ Ordinal(origin) \in Int
      /\ midnights \in Nat /\ today \in CalendarDate
  BY Constants, OrdinalInt DEF TypeInv, DatesTyped, CountersTyped
<1>3. CASE Midnight
  <2>1. today' = NextDay(today) /\ midnights' = midnights + 1 /\ origin' = origin
    BY <1>3 DEF Midnight
  <2>2. Ordinal(NextDay(today)) = Ordinal(today) + 1
    BY <1>2, OrdinalNext
  <2>3. Ordinal(today)' = Ordinal(today) + 1 /\ Ordinal(origin)' = Ordinal(origin)
    BY <2>1, <2>2
  <2> QED
    BY <1>1, <1>2, <2>1, <2>3 DEF OriginPlaced
<1>4. CASE ~Midnight
  <2>1. today' = today /\ midnights' = midnights /\ origin' \in {origin, today}
    BY <1>4 DEF Next, Program, OldDay, OldDone, IdleTurn, OdDay, OdStart, SetChk, vars, env
  <2>2. Ordinal(today)' = Ordinal(today) /\ Ordinal(origin)' \in {Ordinal(origin), Ordinal(today)}
    BY <2>1
  <2> QED
    BY <1>1, <1>2, <2>1, <2>2 DEF OriginPlaced
<1> QED
  BY <1>3, <1>4

LEMMA OdCountKept == LeapMarchAvoided /\ TypeInv /\ OdCount /\ [Next]_vars => OdCount'
<1> SUFFICES ASSUME LeapMarchAvoided, TypeInv, OdCount, [Next]_vars PROVE OdCount'
  OBVIOUS
<1>1. CASE OdDay
  <2>1. od.running /\ od # NoOd
    BY <1>1 DEF OdDay, NoOd
  <2>2. od \in OdCommands /\ od.ndays \in 1..OdDays /\ od.i < od.ndays
    BY <2>1 DEF TypeInv, OdTyped
  <2>3. PICK s \in OdStarts, c \in CalendarDate, k \in Nat, n \in Nat :
          od = [running |-> TRUE, start |-> s, curr_date |-> c, i |-> k, ndays |-> n]
    BY <2>2 DEF OdCommands
  <2>4. Ordinal(c) = Ordinal(s) + k
    BY <2>1, <2>3 DEF OdCount
  <2>5. CASE k + 1 < n
    <3>1. od' = [running |-> TRUE, start |-> s, curr_date |-> AddOneDay(c),
                 i |-> k + 1, ndays |-> n]
      BY <1>1, <2>3, <2>5 DEF OdDay
    <3>2. Ordinal(s) \in Int /\ Ordinal(c) \in Int /\ OdDays \in Nat
      BY Constants, OrdinalInt
    <3>3. Ordinal(c) \in Ordinal(s) .. Ordinal(s) + OdDays
      BY <2>2, <2>3, <2>4, <2>5, <3>2
    <3>4. ForthExact(c)
      BY <3>3 DEF LeapMarchAvoided
    <3>5. Ordinal(AddOneDay(c)) = Ordinal(s) + (k + 1)
      BY <2>4, <3>2, <3>4, AddOneDayCounts
    <3>6. Ordinal(od.curr_date)' = Ordinal(AddOneDay(c)) /\ Ordinal(od.start)' = Ordinal(s)
          /\ od'.i = k + 1
      BY <3>1
    <3> QED
      BY <3>5, <3>6 DEF OdCount
  <2>6. CASE ~(k + 1 < n)
    BY <1>1, <2>3, <2>6 DEF OdDay, NoOd, OdCount
  <2> QED
    BY <2>5, <2>6
<1>2. CASE OdStart
  <2>1. PICK d \in OdStarts, n \in 1..OdDays :
          od' = [running |-> TRUE, start |-> d, curr_date |-> d, i |-> 0, ndays |-> n]
    BY <1>2 DEF OdStart
  <2>2. Ordinal(od.curr_date)' = Ordinal(d) /\ Ordinal(od.start)' = Ordinal(d) /\ od'.i = 0
    BY <2>1
  <2>3. Ordinal(d) \in Int
    BY Constants, OrdinalInt
  <2> QED
    BY <2>2, <2>3 DEF OdCount
<1>3. CASE ~OdDay /\ ~OdStart
  <2>1. od' = od
    BY <1>3 DEF Next, Program, OldDay, OldDone, IdleTurn, Midnight, SetChk, vars, odcmd
  <2> QED
    BY <2>1 DEF OdCount
<1> QED
  BY <1>1, <1>2, <1>3

LEMMA FirstDayKept == FirstDay /\ [Next]_vars => FirstDay'
<1> SUFFICES ASSUME FirstDay, [Next]_vars PROVE FirstDay'
  OBVIOUS
<1>1. CASE IdleTurn
  <2>1. phase' = "idle" /\ IdleMoves
    BY <1>1, IdleTurnMoves DEF IdleTurn
  <2>2. CASE UNCHANGED <<first_day, old_poll_day>>
    BY <2>1, <2>2 DEF FirstDay
  <2>3. CASE first_day' = FALSE
    BY <2>1, <2>3 DEF FirstDay
  <2>4. CASE old_poll_day' = 0
    BY <2>1, <2>4 DEF FirstDay
  <2> QED
    BY <2>1, <2>2, <2>3, <2>4 DEF IdleMoves
<1>2. CASE ~IdleTurn
  <2>1. UNCHANGED <<first_day, old_poll_day>> /\ phase' \in {phase, "idle"}
    BY <1>2 DEF Next, Program, OldDay, OldDone, OdDay, OdStart, Midnight, SetChk, vars, env, idle
  <2> QED
    BY <2>1, Zenon DEF FirstDay
<1> QED
  BY <1>1, <1>2

LEMMA WalkCountKept ==
  LeapMarchAvoided /\ TypeInv /\ CountInv /\ [Next]_vars => OldCount' /\ IdleCount'
<1> SUFFICES ASSUME LeapMarchAvoided, TypeInv, CountInv, [Next]_vars
             PROVE  OldCount' /\ IdleCount'
  OBVIOUS
<1>t. /\ idx \in Nat /\ idx <= NumOldDays /\ old_poll_day \in Nat /\ NumOldDays \in Nat
      /\ Ordinal(origin) \in Int /\ Ordinal(today) \in Int
      /\ today \in CalendarDate /\ today.year >= 1970
  BY Constants, OrdinalInt DEF TypeInv, CountersTyped, DatesTyped
<1>1. CASE OldDay
  <2>1. /\ phase = "old" /\ phase' = "old" /\ idx < NumOldDays /\ idx' = idx + 1
        /\ local_copy' = StepBack(local_copy) /\ origin' = origin
    BY <1>1 DEF OldDay
  <2>2. PICK e \in CalendarDate : local_copy = TmOf(e)
    BY DEF TypeInv, WalkDate
  <2>3. Ordinal(e) = Ordinal(origin) - 1 - idx
    BY <2>1, <2>2, TmOfDate DEF CountInv, OldCount
  <2>4. PICK n \in Nat : n = idx
    BY <1>t
  <2>5. BackExact(e)
    BY <2>1, <2>3, <2>4, WithinReach DEF CountInv
  <2>6. Ordinal(DateOf(StepBack(local_copy))) = Ordinal(origin) - 1 - (idx + 1)
    BY <1>t, <2>2, <2>3, <2>5, StepBackCounts
  <2>7. /\ Ordinal(DateOf(local_copy))' = Ordinal(DateOf(StepBack(local_copy)))
        /\ Ordinal(origin)' = Ordinal(origin)
    BY <2>1
  <2> QED
    BY <2>1, <2>6, <2>7 DEF OldCount, IdleCount
<1>2. CASE OldDone
  <2>1. phase = "old" /\ phase' = "idle" /\ first_day' = first_day
    BY <1>2 DEF OldDone, idle
  <2>2. first_day'
    BY <2>1 DEF CountInv, FirstDay
  <2> QED
    BY <2>1, <2>2 DEF OldCount, IdleCount
<1>3. CASE IdleTurn
  <2>1. /\ phase = "idle" /\ phase' = "idle" /\ IdleMoves
        /\ origin' = IF first_day THEN today ELSE origin
    BY <1>3, IdleTurnMoves DEF IdleTurn
  <2>2. OldCount'
    BY <2>1 DEF OldCount
  <2>3. Ordinal(origin)' = Ordinal(IF first_day THEN today ELSE origin)
    BY <2>1
  <2>4. CASE local_copy' = StartDate /\ UNCHANGED <<first_day, old_poll_day>>
    <3>1. Ordinal(DateOf(local_copy))' = Ordinal(DateOf(StartDate))
      BY <2>4
    <3> QED
      BY <2>1, <2>2, <2>3, <2>4, <3>1, StartCounts DEF IdleCount
  <2>5. CASE first_day' = TRUE
    BY <2>2, <2>5 DEF IdleCount
  <2>6. CASE /\ old_poll_day < NumOldDays - 1 /\ old_poll_day' = old_poll_day + 1
             /\ local_copy' = StepBack(StartDate)
    <3>1. PICK e \in CalendarDate : StartDate = TmOf(e)
      BY <2>1, StartReal
    <3>2. Ordinal(e) = Ordinal(origin') - 1 - old_poll_day
      BY <2>1, <2>3, <3>1, StartCounts, TmOfDate
    <3>3. BackExact(e)
      <4>1. /\ TypeInv' /\ OriginPlaced'
        BY TypeInvKept, OriginKept DEF CountInv
      <4>2. PICK s \in Starts : /\ Ordinal(today') = Ordinal(s) + midnights'
                                /\ Ordinal(s) <= Ordinal(origin')
                                /\ Ordinal(origin') <= Ordinal(today')
        BY <4>1 DEF OriginPlaced
      <4>3. /\ midnights' \in Nat /\ midnights' <= MaxMidnights /\ MaxMidnights \in Nat
            /\ Ordinal(s) \in Int /\ origin' \in CalendarDate /\ today' \in CalendarDate
        BY <4>1, Constants, OrdinalInt DEF TypeInv, CountersTyped, DatesTyped
      <4>4. Ordinal(origin') \in Int /\ Ordinal(today') \in Int
        BY <4>3, OrdinalInt
      <4>5. Ordinal(e) \in Ordinal(s) - NumOldDays .. Ordinal(s) + MaxMidnights
        BY <1>t, <2>6, <3>2, <4>2, <4>3, <4>4
      <4> QED
        BY <4>5 DEF LeapMarchAvoided
    <3>4. Ordinal(DateOf(StepBack(StartDate))) = Ordinal(e) - 1
      BY <3>1, <3>3, StepBackCounts
    <3>5. Ordinal(DateOf(local_copy))' = Ordinal(DateOf(StepBack(StartDate)))
      BY <2>6
    <3>6. Ordinal(origin') \in Int /\ Ordinal(origin)' = Ordinal(origin')
      BY <1>t, <2>3
    <3>7. Ordinal(DateOf(local_copy))' = Ordinal(origin)' - 1 - old_poll_day'
      BY <1>t, <2>6, <3>2, <3>4, <3>5, <3>6
    <3> QED
      BY <2>2, <3>7 DEF IdleCount
  <2> QED
    BY <2>1, <2>4, <2>5, <2>6 DEF IdleMoves
<1>4. CASE ~OldDay /\ ~OldDone /\ ~IdleTurn
  <2>1. UNCHANGED <<phase, idx, local_copy, first_day, old_poll_day, origin>>
    BY <1>4 DEF Next, Program, OdDay, OdStart, Midnight, SetChk, vars, idle
  <2> QED
    BY <2>1 DEF CountInv, OldCount, IdleCount
<1> QED
  BY <1>1, <1>2, <1>3, <1>4

LEMMA CountsKept == LeapMarchAvoided /\ TypeInv /\ CountInv /\ [Next]_vars => CountInv'
BY OdCountKept, FirstDayKept, WalkCountKept, OriginKept DEF CountInv

LEMMA CountInvCounts == CountInv => WalksKeepCount
BY Zenon DEF CountInv, OldCount, IdleCount, OdCount, WalksKeepCount

(* No walk leaves a day out or takes one twice where it keeps off the end  *)
(* of February and March of a leap year, however many days it goes,        *)
(* whatever midnights pass and commands come in between.                   *)
THEOREM WalksCountDays == ASSUME LeapMarchAvoided PROVE Spec => []WalksKeepCount
<1>1. Init => TypeInv /\ CountInv
  BY InitTypes, InitCounts
<1>2. (TypeInv /\ CountInv) /\ [Next]_vars => (TypeInv /\ CountInv)'
  BY TypeInvKept, CountsKept
<1> QED
  BY <1>1, <1>2, CountInvCounts, PTL DEF Spec

-----------------------------------------------------------------------------
(***************************************************************************)
(* The search.  What it has passed by it has looked at: the days behind    *)
(* the one it stands on for all meters, that day for the meters below      *)
(* missing_old_data_midx.  Only the first day is taken anew each turn.     *)
(***************************************************************************)
Passed(m, k) == \/ k - 1 < old_poll_day
                \/ k - 1 = old_poll_day /\ m < missing_old_data_midx

PassedLooked ==
  phase = "idle" => \A m \in Enabled, k \in 2..NumOldDays :
                      Passed(m, k) => <<m, Ordinal(origin) - k>> \in checked

(* A turn that stays on its day has looked at the meter it leaves behind.  *)
LEMMA TurnLooks ==
  ASSUME TypeInv, CountInv, IdleTurn, missing_old_data_midx < NumMeters
  PROVE  /\ UNCHANGED <<first_day, old_poll_day>>
         /\ missing_old_data_midx' \in {missing_old_data_midx, missing_old_data_midx + 1}
         /\ checked \subseteq checked'
         /\ /\ missing_old_data_midx' = missing_old_data_midx + 1
            /\ missing_old_data_midx \in Enabled
            => <<missing_old_data_midx, Ordinal(origin') - 1 - old_poll_day>> \in checked'
<1>1. NumMeters \in Nat /\ missing_old_data_midx \in Int
  BY Constants DEF TypeInv, CountersTyped
<1>2. ~(missing_old_data_midx >= NumMeters)
  BY <1>1
<1>3. phase = "idle" /\ origin' = IF first_day THEN today ELSE origin
  BY DEF IdleTurn
<1>4. Ordinal(DateOf(StartDate)) = Ordinal(origin') - 1 - old_poll_day
  BY <1>3, StartCounts
<1>5. CASE /\ missing_old_data_midx \in Enabled
           /\ IF old_poll_day < NumOldDays
              THEN /\ Visit(missing_old_data_midx, StartDate)
                   /\ missing_old_data_midx' = missing_old_data_midx + 1
              ELSE UNCHANGED <<missing_old_data_midx, checked>>
           /\ UNCHANGED <<first_day, old_poll_day>>
  <2>1. CASE old_poll_day < NumOldDays
    <3>1. /\ checked' = checked \cup {<<missing_old_data_midx, Ordinal(DateOf(StartDate))>>}
          /\ missing_old_data_midx' = missing_old_data_midx + 1
      BY <1>5, <2>1 DEF Visit
    <3> QED
      BY <1>4, <1>5, <3>1
  <2>2. CASE ~(old_poll_day < NumOldDays)
    BY <1>1, <1>5, <2>2
  <2> QED
    BY <2>1, <2>2
<1>6. CASE /\ missing_old_data_midx \notin Enabled
           /\ missing_old_data_midx' = missing_old_data_midx + 1
           /\ UNCHANGED <<first_day, old_poll_day, checked>>
  BY <1>6
<1> QED
  BY <1>2, <1>5, <1>6 DEF IdleTurn, StartDate

LEMMA PassedLookedKept ==
  TypeInv /\ CountInv /\ PassedLooked /\ [Next]_vars => PassedLooked'
<1> SUFFICES ASSUME TypeInv, CountInv, PassedLooked, [Next]_vars PROVE PassedLooked'
  OBVIOUS
<1>t. /\ old_poll_day \in Nat /\ missing_old_data_midx \in Nat /\ NumOldDays \in Nat
      /\ NumMeters \in Nat
      /\ \A m \in Enabled : m \in Nat /\ m < NumMeters
  BY Constants DEF TypeInv, CountersTyped
<1>d. first_day => old_poll_day = 0
  BY DEF CountInv, FirstDay
<1>1. CASE IdleTurn
  <2>1. phase = "idle" /\ origin' = IF first_day THEN today ELSE origin
    BY <1>1 DEF IdleTurn
  <2>2. Ordinal(origin)' = Ordinal(origin')
    OBVIOUS
  <2> SUFFICES ASSUME NEW m \in Enabled, NEW k \in 2..NumOldDays, Passed(m, k)'
               PROVE  <<m, Ordinal(origin') - k>> \in checked'
    BY <2>2 DEF PassedLooked
  <2>3. \/ k - 1 < old_poll_day'
        \/ k - 1 = old_poll_day' /\ m < missing_old_data_midx'
    BY DEF Passed
  <2>4. CASE Passed(m, k) /\ checked \subseteq checked'
    <3>1. old_poll_day # 0
      BY <1>t, <2>4 DEF Passed
    <3>2. origin' = origin
      BY <1>d, <2>1, <3>1
    <3> QED
      BY <2>1, <2>4, <3>2 DEF PassedLooked
  <2>5. CASE missing_old_data_midx < NumMeters
    <3>1. /\ old_poll_day' = old_poll_day /\ checked \subseteq checked'
          /\ missing_old_data_midx' \in {missing_old_data_midx, missing_old_data_midx + 1}
      BY <1>1, <2>5, TurnLooks
    <3>2. CASE ~Passed(m, k)
      <4>1. /\ k - 1 = old_poll_day /\ m = missing_old_data_midx
            /\ missing_old_data_midx' = missing_old_data_midx + 1
        BY <1>t, <2>3, <3>1, <3>2 DEF Passed
      <4>2. <<m, Ordinal(origin') - 1 - old_poll_day>> \in checked'
        BY <1>1, <2>5, <4>1, TurnLooks
      <4>3. Ordinal(origin') \in Int
        BY <2>1, OrdinalInt DEF TypeInv, DatesTyped
      <4>4. Ordinal(origin') - 1 - old_poll_day = Ordinal(origin') - k
        BY <1>t, <4>1, <4>3
      <4> QED
        BY <4>2, <4>4
    <3> QED
      BY <2>4, <3>1, <3>2
  <2>6. CASE ~(missing_old_data_midx < NumMeters)
    <3>1. CASE old_poll_day' = old_poll_day + 1 /\ missing_old_data_midx' = 0
               /\ checked' = checked
      <4>1. Passed(m, k)
        BY <1>t, <2>3, <2>6, <3>1 DEF Passed
      <4> QED
        BY <2>4, <3>1, <4>1
    <3>2. CASE old_poll_day' = 0 /\ missing_old_data_midx' = 0
      BY <1>t, <2>3, <3>2
    <3> QED
      BY <1>1, <2>6, <3>1, <3>2 DEF IdleTurn, NextOldDay
  <2> QED
    BY <2>5, <2>6
<1>2. CASE OldDone
  <2>1. phase = "old" /\ first_day' = first_day /\ old_poll_day' = old_poll_day
        /\ missing_old_data_midx' = missing_old_data_midx
    BY <1>2 DEF OldDone, idle
  <2>2. old_poll_day' = 0
    BY <1>d, <2>1 DEF CountInv, FirstDay
  <2>3. ASSUME NEW m \in Enabled, NEW k \in 2..NumOldDays, Passed(m, k)'
        PROVE  FALSE
    <3>1. k - 1 < old_poll_day' \/ k - 1 = old_poll_day'
      BY <2>3 DEF Passed
    <3> QED
      BY <1>t, <2>2, <3>1
  <2> QED
    BY <2>3 DEF PassedLooked
<1>3. CASE OldDay
  <2>1. phase' = "old"
    BY <1>3 DEF OldDay
  <2> QED
    BY <2>1 DEF PassedLooked
<1>4. CASE ~IdleTurn /\ ~OldDone /\ ~OldDay
  <2>1. UNCHANGED <<phase, old_poll_day, missing_old_data_midx, origin, checked>>
    BY <1>4 DEF Next, Program, OdDay, OdStart, Midnight, SetChk, vars, idle
  <2> QED
    BY <2>1 DEF PassedLooked, Passed
<1> QED
  BY <1>1, <1>2, <1>3, <1>4

LEMMA PassedIsSearched == TypeInv /\ PassedLooked => OldDaysSearched
<1> SUFFICES ASSUME TypeInv, PassedLooked, AtEnd,
                    NEW m \in Enabled, NEW k \in 2..NumOldDays
             PROVE  <<m, Ordinal(origin) - k>> \in checked
  BY DEF OldDaysSearched
<1>1. /\ old_poll_day \in Nat /\ missing_old_data_midx \in Nat /\ NumOldDays \in Nat
      /\ m \in Nat /\ m < NumMeters
  BY Constants DEF TypeInv, CountersTyped
<1>2. Passed(m, k)
  BY <1>1 DEF AtEnd, Passed
<1> QED
  BY <1>2 DEF AtEnd, PassedLooked

(* When the idle search has come to its last day every enabled meter was   *)
(* looked at for every one of the past days but the first, for any number  *)
(* of meters and days, whatever came in between (off the end of February   *)
(* and March of a leap year).                                              *)
THEOREM SearchCovers == ASSUME LeapMarchAvoided PROVE Spec => []OldDaysSearched
<1> DEFINE Inv == TypeInv /\ CountInv /\ PassedLooked
<1>1. Init => Inv
  BY InitTypes, InitCounts DEF Init, PassedLooked
<1>2. Inv /\ [Next]_vars => Inv'
  BY TypeInvKept, CountsKept, PassedLookedKept
<1>3. Inv => OldDaysSearched
  BY PassedIsSearched
<1> QED
  BY <1>1, <1>2, <1>3, PTL DEF Spec
=============================================================================
