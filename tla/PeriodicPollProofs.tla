------------------------- MODULE PeriodicPollProofs -------------------------
(***************************************************************************)
(* Proofs about PeriodicPoll, for every set of enabled data types and      *)
(* every length of an hour, a day and a turn: the types of the variables,  *)
(* and how old the data of a meter that answers may become.                *)
(***************************************************************************)
EXTENDS PeriodicPoll, TLAPS

(* Quotient and remainder. *)
LEMMA DivMod ==
  ASSUME NEW t \in Nat, NEW d \in Nat \ {0}
  PROVE  t \div d \in Nat /\ t % d \in 0..d - 1 /\ t = d * (t \div d) + (t % d)
<1>1. t \div d \in Int /\ t \div d >= 0
  OBVIOUS
<1>2. t % d \in 0..d - 1
  OBVIOUS
<1>3. t = d * (t \div d) + (t % d)
  OBVIOUS
<1> QED
  BY <1>1, <1>2, <1>3

(* They are unique. *)
LEMMA DivModUnique ==
  ASSUME NEW d \in Nat \ {0}, NEW h \in Nat, NEW g \in Nat,
         NEW r \in 0..d - 1, NEW s \in 0..d - 1, d * h + r = d * g + s
  PROVE  h = g /\ r = s
<1>1. CASE h = g
  BY <1>1
<1>2. CASE h < g
  <2>1. PICK i \in Nat : g = h + 1 + i
    <3>1. g - h - 1 \in Nat
      BY <1>2
    <3> QED
      BY <3>1
  <2>2. d * g = d * h + d + d * i
    BY <2>1
  <2>3. d * i \in Nat
    OBVIOUS
  <2> QED
    BY <2>2, <2>3
<1>3. CASE g < h
  <2>1. PICK i \in Nat : h = g + 1 + i
    <3>1. h - g - 1 \in Nat
      BY <1>3
    <3> QED
      BY <3>1
  <2>2. d * h = d * g + d + d * i
    BY <2>1
  <2>3. d * i \in Nat
    OBVIOUS
  <2> QED
    BY <2>2, <2>3
<1> QED
  BY <1>1, <1>2, <1>3

LEMMA DivModIs ==
  ASSUME NEW d \in Nat \ {0}, NEW h \in Nat, NEW r \in 0..d - 1
  PROVE  (d * h + r) \div d = h /\ (d * h + r) % d = r
<1> DEFINE t == d * h + r
<1>1. t \in Nat
  OBVIOUS
<1>2. t \div d \in Nat /\ t % d \in 0..d - 1 /\ t = d * (t \div d) + (t % d)
  BY <1>1, DivMod
<1> HIDE DEF t
<1>3. d * h + r = d * (t \div d) + (t % d)
  BY <1>2 DEF t
<1>4. h = t \div d /\ r = t % d
  BY <1>2, <1>3, DivModUnique
<1> QED
  BY <1>4 DEF t

(* Two multiples of q that are less than q apart are equal, ... *)
LEMMA NearMultiples ==
  ASSUME NEW q \in Nat \ {0}, NEW a \in Nat, NEW g \in 0..q - 1,
         a % q = 0, (a + g) % q = 0
  PROVE  g = 0
<1>1. a = q * (a \div q) + 0 /\ a \div q \in Nat
  BY DivMod
<1>2. a + g = q * (a \div q) + g
  BY <1>1
<1>3. (q * (a \div q) + g) % q = g
  BY <1>1, DivModIs
<1> QED
  BY <1>2, <1>3

(* ... also when the second was taken modulo another multiple.  *)
LEMMA NearMultiplesWrapped ==
  ASSUME NEW q \in Nat \ {0}, NEW a \in Nat, NEW g \in 0..q - 1,
         NEW d \in Nat, d % q = 0, a + g >= d,
         a % q = 0, (a + g - d) % q = 0
  PROVE  g = 0
<1> DEFINE b == a + g - d
           x == a \div q
           y == d \div q
           z == b \div q
<1>1. /\ a = q * x + 0 /\ x \in Nat
      /\ d = q * y + 0 /\ y \in Nat
      /\ b = q * z + 0 /\ z \in Nat
  BY DivMod
<1>2. q * x + g = q * y + q * z
  BY <1>1
<1> HIDE DEF x, y, z
<1>3. y + z \in Nat /\ q * x + g = q * (y + z) + 0
  BY <1>1, <1>2
<1> QED
  BY <1>1, <1>3, DivModUnique
-----------------------------------------------------------------------------
(* The clock. *)

LEMMA DayType == MinPerHour \in Nat \ {0} /\ HourPerDay \in Nat \ {0} /\ Day \in Nat \ {0}
BY PeriodicPollAssumption DEF Day

LEMMA ClockTypes ==
  ASSUME NEW t \in 0..Day - 1
  PROVE  /\ Minute(t) \in 0..MinPerHour - 1 /\ Hour(t) \in 0..HourPerDay - 1
         /\ t = MinPerHour * Hour(t) + Minute(t)
<1>1. t \in Nat /\ MinPerHour \in Nat \ {0} /\ HourPerDay \in Nat \ {0}
  BY DayType
<1>2. /\ Hour(t) \in Nat /\ Minute(t) \in 0..MinPerHour - 1
      /\ t = MinPerHour * Hour(t) + Minute(t)
  BY <1>1, DivMod DEF Hour, Minute
<1>3. ~(Hour(t) >= HourPerDay)
  <2> SUFFICES ASSUME Hour(t) >= HourPerDay PROVE FALSE
    OBVIOUS
  <2>1. PICK i \in Nat : Hour(t) = HourPerDay + i
    <3>1. Hour(t) \in Nat /\ HourPerDay \in Nat
      BY <1>1, <1>2
    <3>2. Hour(t) - HourPerDay \in Nat /\ Hour(t) = HourPerDay + (Hour(t) - HourPerDay)
      BY <3>1
    <3> QED
      BY <3>2
  <2>2. MinPerHour * Hour(t) = MinPerHour * HourPerDay + MinPerHour * i
    BY <1>1, <2>1
  <2>3. PICK x \in Nat : x = MinPerHour * i
    BY <1>1
  <2>4. t < Day /\ Day \in Nat
    BY DayType
  <2>5. t = Day + x + Minute(t)
    BY <1>2, <2>2, <2>3 DEF Day
  <2> QED
    BY <1>1, <1>2, <2>3, <2>4, <2>5
<1> QED
  BY <1>1, <1>2, <1>3

(* A clock that moves on by less than an hour keeps the hour or comes to   *)
(* the next one, which may be the first of the day.                        *)
LEMMA ClockMoves ==
  ASSUME NEW t \in 0..Day - 1, NEW u \in 0..Day - 1, NEW g \in 0..MinPerHour - 1,
         u = t + g \/ u = t + g - Day
  PROVE  \/ Hour(u) = Hour(t) /\ Minute(u) = Minute(t) + g
         \/ /\ Minute(u) = Minute(t) + g - MinPerHour
            /\ \/ Hour(u) = Hour(t) + 1
               \/ Hour(u) = 0 /\ Hour(t) + 1 = HourPerDay
<1> DEFINE h == Hour(t)
           m == Minute(t)
           M == MinPerHour
           D == M * HourPerDay
<1>1. /\ m \in 0..M - 1 /\ h \in 0..HourPerDay - 1 /\ t = M * h + m
      /\ M \in Nat \ {0} /\ HourPerDay \in Nat \ {0}
  BY ClockTypes, DayType
<1>2. u = t + g \/ u = t + g - D
  BY DEF Day
<1>3. t \in Nat /\ u \in Nat /\ D \in Nat /\ t < D /\ u < D
  BY <1>1 DEF Day
<1> HIDE DEF h, m
<1>4. CASE m + g < M
  <2>1. t + g = M * h + (m + g)
    BY <1>1
  <2>2. M * h + M <= D
    <3>1. PICK i \in Nat : HourPerDay = h + 1 + i
      <4>1. HourPerDay - h - 1 \in Nat
        BY <1>1
      <4> QED
        BY <1>1, <4>1
    <3>2. D = M * h + M + M * i
      BY <1>1, <3>1
    <3>3. M * i \in Nat /\ M * h \in Nat
      BY <1>1
    <3> QED
      BY <1>1, <3>2, <3>3
  <2>3. M * h \in Nat
    BY <1>1
  <2> HIDE DEF D
  <2>4. u = M * h + (m + g)
    BY <1>1, <1>2, <1>3, <1>4, <2>1, <2>2, <2>3
  <2>5. m + g \in 0..M - 1 /\ h \in Nat
    BY <1>1, <1>4
  <2>6. u \div M = h /\ u % M = m + g
    BY <1>1, <2>4, <2>5, DivModIs
  <2> QED
    BY <2>6 DEF Hour, Minute, h, m
<1>5. CASE m + g >= M
  <2>1. m + g - M \in 0..M - 1
    BY <1>1, <1>5
  <2>2. t + g = M * (h + 1) + (m + g - M)
    BY <1>1
  <2>3. CASE u = t + g
    <3>1. u = M * (h + 1) + (m + g - M) /\ h + 1 \in Nat
      BY <1>1, <2>2, <2>3
    <3>2. u \div M = h + 1 /\ u % M = m + g - M
      BY <1>1, <2>1, <3>1, DivModIs
    <3> QED
      BY <3>2 DEF Hour, Minute, h, m
  <2>4. CASE u = t + g - D
    <3>1. h + 1 = HourPerDay
      <4> SUFFICES ASSUME h + 1 < HourPerDay PROVE FALSE
        BY <1>1
      <4>1. PICK i \in Nat : HourPerDay = h + 2 + i
        <5>1. HourPerDay - h - 2 \in Nat
          BY <1>1
        <5> QED
          BY <1>1, <5>1
      <4>2. D = M * (h + 1) + M + M * i
        BY <1>1, <4>1
      <4>3. PICK x \in Nat, y \in Nat : x = M * (h + 1) /\ y = M * i
        BY <1>1
      <4> HIDE DEF D
      <4>4. D = x + M + y /\ t + g = x + (m + g - M)
        BY <2>2, <4>2, <4>3
      <4>5. M \in Nat /\ u >= 0
        BY <1>1, <1>3
      <4> HIDE DEF M
      <4> QED
        BY <1>3, <2>1, <2>4, <4>3, <4>4, <4>5
    <3>2. u = M * 0 + (m + g - M)
      BY <1>1, <1>3, <2>2, <2>4, <3>1
    <3>3. u \div M = 0 /\ u % M = m + g - M
      BY <1>1, <2>1, <3>2, DivModIs
    <3> QED
      BY <3>1, <3>3 DEF Hour, Minute, h, m
  <2> QED
    BY <1>2, <2>3, <2>4
<1> QED
  BY <1>1, <1>4, <1>5
-----------------------------------------------------------------------------
(* The turn comes to the loops in the order of Steps. *)
StepNames == {Steps[i] : i \in DOMAIN Steps}

LEMMA StepsAre ==
  /\ StepNames = {"head", "clock", "midnight"} \cup Kinds
  /\ After("head") = "clock" /\ After("clock") = "midnight"
  /\ After("midnight") = "inst" /\ After("inst") = "ls"
  /\ After("ls") = "mn" /\ After("mn") = "bill"
  /\ After("bill") = "event" /\ After("event") = "head"
<1>1. /\ DOMAIN Steps = 1..8 /\ Len(Steps) = 8
      /\ Steps[1] = "head" /\ Steps[2] = "clock" /\ Steps[3] = "midnight"
      /\ Steps[4] = "inst" /\ Steps[5] = "ls" /\ Steps[6] = "mn"
      /\ Steps[7] = "bill" /\ Steps[8] = "event"
  BY DEF Steps
<1>2. \A i, j \in DOMAIN Steps : Steps[i] = Steps[j] => i = j
  BY <1>1
<1>3. ASSUME NEW i \in DOMAIN Steps
      PROVE  After(Steps[i]) = IF i = 8 THEN "head" ELSE Steps[i + 1]
  <2> DEFINE j == CHOOSE k \in DOMAIN Steps : Steps[k] = Steps[i]
  <2>1. j \in DOMAIN Steps /\ Steps[j] = Steps[i]
    OBVIOUS
  <2>2. j = i
    BY <1>2, <2>1
  <2> QED
    BY <1>1, <2>2 DEF After
<1>4. StepNames = {"head", "clock", "midnight"} \cup Kinds
  BY <1>1 DEF StepNames, Kinds
<1> HIDE DEF Steps
<1>5. After(Steps[1]) = Steps[2] /\ After(Steps[2]) = Steps[3] /\ After(Steps[3]) = Steps[4]
  BY <1>1, <1>3
<1>6. After(Steps[4]) = Steps[5] /\ After(Steps[5]) = Steps[6] /\ After(Steps[6]) = Steps[7]
  BY <1>1, <1>3
<1>7. After(Steps[7]) = Steps[8] /\ After(Steps[8]) = "head"
  BY <1>1, <1>3
<1> QED
  BY <1>1, <1>4, <1>5, <1>6, <1>7

(* One pass through the loop of k. *)
Loop(k) == NotDue(k) \/ AlreadyPolled(k) \/ NoConnection(k) \/ ReadOk(k) \/ ReadFails(k)

Flags == {0, 1}

Cleanings == {"started", "due", "done", "twice"}

(* What the extra read can do to unanswered. *)
Extra(k, u) ==
  \/ unanswered' = u
  \/ WithInst(k) /\ "inst" \in Enabled /\ unanswered' \in {u \ {"inst"}, u \cup {"inst"}}

LEMMA ExtraChanges ==
  ASSUME NEW k \in Kinds, NEW u, unanswered' \in WithExtra(k, u)
  PROVE  Extra(k, u)
BY DEF Extra, WithExtra

(* What a loop may change. *)
LEMMA LoopChanges ==
  ASSUME TypeOK, NEW k \in Kinds, Loop(k)
  PROVE  /\ Turn(k)
         /\ UNCHANGED <<clock, curr_time, elapsed, midnight_polled, enbl_data_clean, cleaned>>
         /\ age' = age \/ Stamp(k)
         /\ poll_flag' = poll_flag \/ \E f \in Flags : SetFlag(k, f)
         /\ last_inst_poll_min' \in {last_inst_poll_min, Minute(curr_time)}
         /\ polled' = polled \/ (k \in Enabled /\ polled' = polled \cup {k})
         /\ \/ unanswered' = unanswered
            \/ /\ k \in Enabled
               /\ \E u \in {unanswered \ {k}, unanswered \cup {k}} :
                    unanswered' = u \/ (Stamp(k) /\ Extra(k, u))
<1> USE DEF Flags
<1>1. CASE NotDue(k)
  BY <1>1 DEF NotDue
<1>2. CASE AlreadyPolled(k)
  BY <1>2 DEF AlreadyPolled
<1>3. CASE NoConnection(k)
  BY <1>3 DEF NoConnection, NoteMinute, Due
<1>4. CASE ReadOk(k)
  <2>1. PICK missed \in Missed(k) : unanswered' \in WithExtra(k, (unanswered \ {k}) \cup missed)
    BY <1>4 DEF ReadOk
  <2>2. (unanswered \ {k}) \cup missed \in {unanswered \ {k}, unanswered \cup {k}}
    BY <2>1 DEF Missed
  <2>3. Extra(k, (unanswered \ {k}) \cup missed)
    BY <2>1, ExtraChanges
  <2> QED
    BY <1>4, <2>2, <2>3 DEF ReadOk, NoteMinute, Due
<1>5. CASE ReadFails(k)
  <2>1. CASE k \in {"mn", "bill", "event"}
    <3>1. Stamp(k) /\ unanswered' \in WithExtra(k, unanswered \cup {k})
      BY <1>5, <2>1 DEF ReadFails
    <3>2. Extra(k, unanswered \cup {k})
      BY <3>1, ExtraChanges
    <3> QED
      BY <1>5, <3>1, <3>2 DEF ReadFails, NoteMinute, Due
  <2>2. CASE k \notin {"mn", "bill", "event"}
    BY <1>5, <2>2 DEF ReadFails, NoteMinute, Due
  <2> QED
    BY <2>1, <2>2
<1> QED
  BY <1>1, <1>2, <1>3, <1>4, <1>5 DEF Loop

LEMMA TurnType ==
  ASSUME NEW s \in StepNames, Turn(s)
  PROVE  step' \in StepNames
BY StepsAre DEF Turn, Kinds

LEMMA ConstantTypes ==
  /\ MaxTurn \in Nat \ {0}
  /\ \A k \in Kinds : Interval[k] \in Nat /\ MaxAge(k) \in Nat
BY PeriodicPollAssumption DEF MaxAge

LEMMA StampTypes ==
  ASSUME TypeOK, NEW k \in Kinds, age' = age \/ Stamp(k)
  PROVE  \A i \in Kinds : age'[i] \in 0..MaxAge(i)
BY ConstantTypes DEF TypeOK, Stamp

(* Every variable keeps its type; the age is capped and the minute of the  *)
(* last instantaneous poll is a minute or -1.                              *)
LEMMA TypeInductive == TypeOK /\ [Next]_vars => TypeOK'
<1> SUFFICES ASSUME TypeOK, [Next]_vars PROVE TypeOK'
  OBVIOUS
<1>t. /\ clock \in 0..Day - 1 /\ curr_time \in 0..Day - 1 /\ elapsed \in 0..MaxTurn
      /\ step \in StepNames
      /\ \A k \in Kinds : age[k] \in 0..MaxAge(k)
      /\ poll_flag \in [Kinds -> Flags]
      /\ last_inst_poll_min \in -1..MinPerHour - 1
      /\ midnight_polled \in BOOLEAN /\ enbl_data_clean \in BOOLEAN /\ cleaned \in Cleanings
      /\ polled \subseteq Enabled /\ unanswered \subseteq Enabled
  BY Zenon DEF TypeOK, StepNames, Flags, Cleanings
<1>1. CASE Tick
  <2>1. clock' \in 0..Day - 1
    BY <1>1, <1>t, DayType DEF Tick
  <2>2. elapsed' \in 0..MaxTurn
    BY <1>1, <1>t, ConstantTypes DEF Tick
  <2>3. \A k \in Kinds : age'[k] \in 0..MaxAge(k)
    BY <1>1, <1>t, ConstantTypes DEF Tick
  <2>4. UNCHANGED <<curr_time, step, poll_flag, last_inst_poll_min, midnight_polled,
                    enbl_data_clean, polled, unanswered>>
    BY <1>1 DEF Tick
  <2>5. cleaned' \in Cleanings
    BY <1>1, <1>t DEF Tick, Cleanings
  <2> QED
    BY <2>1, <2>2, <2>3, <2>4, <2>5 DEF TypeOK, Cleanings
<1>2. CASE Cleanup
  <2>1. step' \in StepNames
    BY <1>2, TurnType, StepsAre DEF Cleanup
  <2>2. enbl_data_clean' \in BOOLEAN
    BY <1>2, Zenon DEF Cleanup
  <2>4. cleaned' \in Cleanings
    BY <1>2, <1>t DEF Cleanup, NoteCleaning, Cleanings
  <2>3. UNCHANGED <<clock, curr_time, elapsed, age, poll_flag, last_inst_poll_min,
                    midnight_polled, polled, unanswered>>
    BY <1>2 DEF Cleanup
  <2> QED
    BY <2>1, <2>2, <2>3, <2>4, Zenon DEF TypeOK, StepNames, Cleanings
<1>3. CASE ReadClock
  <2>1. step' \in StepNames
    BY <1>3, TurnType, StepsAre DEF ReadClock
  <2>2. curr_time' \in 0..Day - 1 /\ elapsed' \in 0..MaxTurn /\ polled' \subseteq Enabled
    BY <1>3, <1>t, ConstantTypes DEF ReadClock
  <2>3. UNCHANGED <<clock, age, poll_flag, last_inst_poll_min, midnight_polled,
                    enbl_data_clean, cleaned, unanswered>>
    BY <1>3 DEF ReadClock
  <2> QED
    BY <2>1, <2>2, <2>3, Zenon DEF TypeOK, StepNames
<1>4. CASE Midnight
  <2>1. step' \in StepNames
    BY <1>4, TurnType, StepsAre DEF Midnight
  <2>2. midnight_polled' \in BOOLEAN
    BY <1>4, <1>t, Zenon DEF Midnight
  <2>3. UNCHANGED <<clock, curr_time, elapsed, age, poll_flag, last_inst_poll_min,
                    enbl_data_clean, cleaned, polled, unanswered>>
    BY <1>4 DEF Midnight
  <2> QED
    BY <2>1, <2>2, <2>3, Zenon DEF TypeOK, StepNames
<1>5. ASSUME NEW k \in Kinds, Loop(k) PROVE TypeOK'
  <2>1. step' \in StepNames
    BY <1>5, LoopChanges, TurnType, StepsAre
  <2>2. \A i \in Kinds : age'[i] \in 0..MaxAge(i)
    BY <1>5, LoopChanges, StampTypes
  <2>3. poll_flag' \in [Kinds -> Flags]
    <3>1. poll_flag' = poll_flag \/ \E f \in Flags : SetFlag(k, f)
      BY <1>5, LoopChanges
    <3> QED
      BY <1>t, <3>1 DEF SetFlag
  <2>4. last_inst_poll_min' \in -1..MinPerHour - 1
    <3>1. last_inst_poll_min' \in {last_inst_poll_min, Minute(curr_time)}
      BY <1>5, LoopChanges
    <3>2. Minute(curr_time) \in 0..MinPerHour - 1
      BY <1>t, ClockTypes
    <3> QED
      BY <1>t, <3>1, <3>2, DayType
  <2>5. polled' \subseteq Enabled /\ unanswered' \subseteq Enabled
    <3>1. polled' = polled \/ (k \in Enabled /\ polled' = polled \cup {k})
      BY <1>5, LoopChanges
    <3>2. unanswered' \subseteq unanswered \cup Enabled
      <4>1. CASE unanswered' = unanswered
        BY <4>1
      <4>2. CASE unanswered' # unanswered
        <5>1. PICK u \in {unanswered \ {k}, unanswered \cup {k}} :
                k \in Enabled /\ (unanswered' = u \/ Extra(k, u))
          BY <1>5, <4>2, LoopChanges
        <5>2. unanswered' \subseteq u \cup Enabled
          BY <5>1 DEF Extra
        <5> QED
          BY <5>1, <5>2
      <4> QED
        BY <4>1, <4>2
    <3> QED
      BY <1>t, <3>1, <3>2
  <2>6. UNCHANGED <<clock, curr_time, elapsed, midnight_polled, enbl_data_clean, cleaned>>
    BY <1>5, LoopChanges
  <2> QED
    BY <2>1, <2>2, <2>3, <2>4, <2>5, <2>6, Zenon DEF TypeOK, StepNames, Flags
<1>6. CASE UNCHANGED vars
  BY <1>6, Zenon DEF TypeOK, vars
<1> QED
  BY <1>1, <1>2, <1>3, <1>4, <1>5, <1>6 DEF Next, Program, Loop

(* The variables of the schedule keep their types: indices into the day,   *)
(* ages up to their cap, flags that are 0 or 1.                            *)
THEOREM ScheduleTypeCorrect == Spec => []TypeOK
<1>1. Init => TypeOK
  <2> SUFFICES ASSUME Init PROVE TypeOK
    OBVIOUS
  <2>1. /\ clock \in 0..Day - 1 /\ curr_time \in 0..Day - 1
        /\ elapsed \in 0..MaxTurn /\ last_inst_poll_min \in -1..MinPerHour - 1
    BY DayType, ConstantTypes DEF Init
  <2>2. step \in StepNames
    BY StepsAre DEF Init
  <2>3. \A k \in Kinds : age[k] \in 0..MaxAge(k)
    BY ConstantTypes DEF Init
  <2>4. poll_flag \in [Kinds -> Flags]
    <3>1. poll_flag = [k \in Kinds |-> 1] /\ 1 \in Flags
      BY DEF Init, Flags
    <3> QED
      BY <3>1
  <2>5. /\ {midnight_polled, enbl_data_clean} \subseteq BOOLEAN /\ cleaned \in Cleanings
        /\ polled \subseteq Enabled /\ unanswered \subseteq Enabled
    BY Zenon DEF Init, Cleanings
  <2> QED
    BY <2>1, <2>2, <2>3, <2>4, <2>5, Zenon DEF TypeOK, StepNames, Flags, Cleanings
<1> QED
  BY <1>1, TypeInductive, PTL DEF Spec
-----------------------------------------------------------------------------
(* The turn has yet to come to the loop of k. *)
Waits(k) ==
  \/ step \in {"midnight", "inst"}
  \/ step = "ls" /\ k # "inst"
  \/ step = "mn" /\ k \in {"mn", "bill", "event"}
  \/ step = "bill" /\ k \in {"bill", "event"}
  \/ step = "event" /\ k = "event"

(* The age of the data when the turn read the clock. *)
AgeRead(k) == age[k] - elapsed

(* How long the reading has been in the unit that the due test looks at. *)
Since(k) == IF k \in Hourly THEN Minute(curr_time) ELSE 0

DueReading(k) == Reading(k) % PollInterval(k) = 0

(* Armed: a reading beyond the interval polls. *)
FreshArmed(k) ==
  AgeRead(k) < Interval[k] + (IF Waits(k) THEN MaxTurn ELSE 0)

(* Not armed: polled since the clock came to the multiple of the interval  *)
(* that it still reads, or else the next loop arms it.                     *)
FreshUnarmed(k) ==
  IF Waits(k) THEN /\ AgeRead(k) < Interval[k]
                   /\ DueReading(k) => AgeRead(k) <= MaxTurn + Since(k)
  ELSE AgeRead(k) <= 0 \/ (DueReading(k) /\ AgeRead(k) <= MaxTurn + Since(k))

(* The instantaneous poll, not armed: polled in the minute it noted. *)
FreshInst ==
  IF Waits("inst") THEN /\ AgeRead("inst") <= MaxTurn
                        /\ Minute(curr_time) = last_inst_poll_min => AgeRead("inst") <= 0
  ELSE AgeRead("inst") <= 0 /\ Minute(curr_time) = last_inst_poll_min

Fresh(k) ==
  IF poll_flag[k] = 1 THEN FreshArmed(k)
  ELSE IF k = "inst" THEN FreshInst ELSE FreshUnarmed(k)

(* The clock is as far from the reading as the turn has lasted. *)
ClockOK ==
  clock = curr_time + elapsed \/ clock = curr_time + elapsed - Day

(* After its loop, the instantaneous poll that is not armed has noted the  *)
(* minute of the turn, whether or not its data was read since.             *)
Noted ==
  "inst" \in Enabled /\ poll_flag["inst"] # 1 /\ ~Waits("inst")
    => last_inst_poll_min = Minute(curr_time)

FreshInv == ClockOK /\ Noted /\ \A k \in Enabled \ unanswered : Fresh(k)

(* What keeps data fresh: a turn is shorter than an hour, the interval of  *)
(* a due test is at least two of its units, divides the hour or the day    *)
(* evenly, and is longer than two turns and the unit that stays due.       *)
(* Nothing is asked of the interval of the instantaneous data.             *)
Schedulable ==
  /\ MaxTurn < MinPerHour
  /\ \A k \in Enabled \ {"inst"} :
       /\ PollInterval(k) >= 2
       /\ 2 * MaxTurn + Unit(k) <= Interval[k]
       /\ (IF k \in Hourly THEN HourPerDay ELSE MinPerHour) % PollInterval(k) = 0

LEMMA ReadingType ==
  ASSUME TypeOK
  PROVE  /\ Minute(curr_time) \in 0..MinPerHour - 1
         /\ \A k \in Kinds : age[k] \in Nat /\ AgeRead(k) \in Int /\ Since(k) \in Nat
                             /\ Since(k) < Unit(k)
<1>1. Minute(curr_time) \in 0..MinPerHour - 1
  BY ClockTypes DEF TypeOK
<1>2. \A k \in Kinds : age[k] \in Nat /\ elapsed \in Nat
  BY ConstantTypes DEF TypeOK
<1> QED
  BY <1>1, <1>2, DayType DEF AgeRead, Since, Unit

(* Between two readings that are both due the clock stays in the unit that *)
(* the due test looks at.                                                  *)
LEMMA DueReadings ==
  ASSUME TypeOK, ClockOK, Schedulable, curr_time' = clock,
         NEW k \in Enabled \ {"inst"}, DueReading(k), DueReading(k)'
  PROVE  Since(k)' = Since(k) + (IF k \in Hourly THEN elapsed ELSE 0)
         /\ (k \notin Hourly => elapsed = 0)
<1> DEFINE t == curr_time
           u == clock
           q == PollInterval(k)
<1>0. /\ MaxTurn < MinPerHour /\ q >= 2
      /\ 2 * MaxTurn + Unit(k) <= Interval[k]
      /\ (IF k \in Hourly THEN HourPerDay ELSE MinPerHour) % q = 0
  BY DEF Schedulable
<1>1. /\ t \in 0..Day - 1 /\ u \in 0..Day - 1 /\ elapsed \in 0..MinPerHour - 1
      /\ u = t + elapsed \/ u = t + elapsed - Day
  BY <1>0, ConstantTypes, DayType DEF TypeOK, ClockOK
<1>2. \/ Hour(u) = Hour(t) /\ Minute(u) = Minute(t) + elapsed
      \/ /\ Minute(u) = Minute(t) + elapsed - MinPerHour
         /\ Hour(u) = Hour(t) + 1 \/ (Hour(u) = 0 /\ Hour(t) + 1 = HourPerDay)
  BY <1>1, ClockMoves
<1>3. /\ Minute(t) \in Nat /\ Hour(t) \in Nat /\ Minute(u) \in Nat /\ Hour(u) \in Nat
      /\ MinPerHour \in Nat /\ HourPerDay \in Nat
  BY <1>1, ClockTypes, DayType
<1>4. Interval[k] \in Nat /\ MaxTurn \in Nat /\ elapsed \in 0..MaxTurn /\ k \in Kinds
  BY ConstantTypes, PeriodicPollAssumption DEF TypeOK
<1>5. CASE k \in Hourly
  <2>1. Hour(t) % q = 0 /\ Hour(u) % q = 0
    BY <1>5 DEF DueReading, Reading
  <2>2. q \in Nat \ {0} /\ 1 \in 0..q - 1
    <3>1. q \in Int
      BY <1>4, <1>5, DayType DEF PollInterval, Unit
    <3> QED
      BY <1>0, <3>1
  <2>3. Hour(u) # Hour(t) + 1
    BY <1>3, <2>1, <2>2, NearMultiples
  <2>4. Hour(t) + 1 # HourPerDay
    BY <1>0, <1>3, <1>5, <2>1, <2>2, NearMultiples
  <2>5. Minute(u) = Minute(t) + elapsed
    BY <1>2, <2>3, <2>4
  <2> QED
    BY <1>5, <2>5 DEF Since
<1>6. CASE k \notin Hourly
  <2>1. Minute(t) % q = 0 /\ Minute(u) % q = 0 /\ MinPerHour % q = 0
    BY <1>0, <1>6 DEF DueReading, Reading
  <2>2. q = Interval[k]
    BY <1>4, <1>6 DEF PollInterval, Unit
  <2>3. q \in Nat \ {0} /\ elapsed \in 0..q - 1
    BY <1>0, <1>4, <1>6, <2>2 DEF Unit
  <2>4. CASE Minute(u) = Minute(t) + elapsed
    <3>1. elapsed = 0
      BY <1>3, <2>1, <2>3, <2>4, NearMultiples
    <3> QED
      BY <1>6, <3>1 DEF Since
  <2>5. CASE Minute(u) = Minute(t) + elapsed - MinPerHour
    <3>1. Minute(t) + elapsed >= MinPerHour
      BY <1>3, <1>4, <2>5
    <3>2. elapsed = 0
      BY <1>3, <2>1, <2>3, <2>5, <3>1, NearMultiplesWrapped
    <3> QED
      BY <1>6, <3>2 DEF Since
  <2> QED
    BY <1>2, <2>4, <2>5
<1> QED
  BY <1>5, <1>6

(* Waits along the turn: true from the reading of the clock to the loop.   *)
LEMMA ReadStartsWait ==
  ASSUME Turn("clock"), NEW i \in Kinds
  PROVE  ~Waits(i) /\ Waits(i)'
BY StepsAre DEF Turn, Waits, Kinds

LEMMA OtherStepsWait ==
  ASSUME Turn("head") \/ Turn("midnight"), NEW i \in Kinds
  PROVE  Waits(i)' = Waits(i)
BY StepsAre DEF Turn, Waits, Kinds

LEMMA LoopEndsWait ==
  ASSUME NEW k \in Kinds, Turn(k)
  PROVE  /\ Waits(k) /\ ~Waits(k)'
         /\ \A i \in Kinds : i # k => Waits(i)' = Waits(i)
<1>1. CASE k = "inst"
  BY <1>1, StepsAre DEF Turn, Waits, Kinds
<1>2. CASE k = "ls"
  BY <1>2, StepsAre DEF Turn, Waits, Kinds
<1>3. CASE k = "mn"
  BY <1>3, StepsAre DEF Turn, Waits, Kinds
<1>4. CASE k = "bill"
  BY <1>4, StepsAre DEF Turn, Waits, Kinds
<1>5. CASE k = "event"
  BY <1>5, StepsAre DEF Turn, Waits, Kinds
<1> QED
  BY <1>1, <1>2, <1>3, <1>4, <1>5 DEF Kinds

LEMMA LoopsAfterInst ==
  ASSUME NEW k \in Kinds \ {"inst"}, Turn(k)
  PROVE  ~Waits("inst")
BY StepsAre DEF Turn, Waits, Kinds

LEMMA PositiveInterval ==
  ASSUME NEW k \in Enabled
  PROVE  Interval[k] \in Nat /\ Interval[k] > 0
<1>1. k \in Kinds /\ Interval[k] \in Nat /\ Unit(k) \in Nat \ {0} /\ PollInterval(k) > 0
  BY ConstantTypes, PeriodicPollAssumption DEF Unit
<1>2. Interval[k] # 0
  BY <1>1 DEF PollInterval
<1> QED
  BY <1>1, <1>2

(* Younger data is as fresh. *)
LEMMA YoungerIsFresh ==
  ASSUME TypeOK, NEW k \in Enabled, Fresh(k),
         AgeRead(k)' \in Int, AgeRead(k)' <= AgeRead(k),
         poll_flag'[k] = poll_flag[k], Waits(k)' = Waits(k),
         UNCHANGED curr_time, k = "inst" => UNCHANGED last_inst_poll_min
  PROVE  Fresh(k)'
<1>1. /\ AgeRead(k) \in Int /\ Since(k) \in Nat /\ MaxTurn \in Nat /\ Interval[k] \in Nat
      /\ Minute(curr_time) \in Int
  BY ReadingType, ConstantTypes, PeriodicPollAssumption
<1>2. Since(k)' = Since(k) /\ DueReading(k)' = DueReading(k) /\ Minute(curr_time)' = Minute(curr_time)
  BY DEF Since, DueReading, Reading
<1>3. CASE poll_flag[k] = 1
  BY <1>1, <1>3 DEF Fresh, FreshArmed
<1>4. CASE poll_flag[k] # 1 /\ k = "inst"
  BY <1>1, <1>2, <1>4 DEF Fresh, FreshInst
<1>5. CASE poll_flag[k] # 1 /\ k # "inst"
  BY <1>1, <1>2, <1>5 DEF Fresh, FreshUnarmed
<1> QED
  BY <1>3, <1>4, <1>5

(* The next reading makes the data older by what the turn lasted. *)
LEMMA FreshAtReading ==
  ASSUME TypeOK, TypeOK', FreshInv, Schedulable, ReadClock,
         NEW k \in Enabled \ unanswered
  PROVE  Fresh(k)'
<1>1. /\ ~Waits(k) /\ Waits(k)'
  BY PeriodicPollAssumption, ReadStartsWait DEF ReadClock
<1>2. /\ curr_time' = clock /\ elapsed' = 0 /\ UNCHANGED <<age, poll_flag, last_inst_poll_min>>
  BY DEF ReadClock
<1>3. /\ k \in Kinds /\ MaxTurn \in Nat /\ Interval[k] \in Nat /\ Interval[k] > 0
      /\ AgeRead(k) \in Int /\ elapsed \in 0..MaxTurn
      /\ Since(k) \in Nat /\ Since(k) < Unit(k) /\ Unit(k) \in Nat
  <2>1. k \in Kinds /\ Interval[k] \in Nat /\ MaxTurn \in Nat /\ Unit(k) \in Nat \ {0}
    BY ConstantTypes, PeriodicPollAssumption DEF Unit
  <2>2. Interval[k] > 0
    <3>1. PollInterval(k) > 0
      BY PeriodicPollAssumption
    <3>2. Interval[k] # 0
      BY <2>1, <3>1 DEF PollInterval
    <3> QED
      BY <2>1, <3>2
  <2> QED
    BY <2>1, <2>2, ReadingType DEF TypeOK
<1>4. AgeRead(k)' = AgeRead(k) + elapsed
  <2>1. age[k] \in Nat /\ elapsed \in Nat
    BY <1>3, ReadingType
  <2> QED
    BY <1>2, <2>1 DEF AgeRead
<1>5. Fresh(k) /\ ClockOK
  BY DEF FreshInv
<1>6. Since(k)' \in Nat
  BY <1>3, ReadingType, ClockTypes DEF Since, TypeOK
<1>7. CASE poll_flag[k] = 1
  BY <1>1, <1>2, <1>3, <1>4, <1>5, <1>7 DEF Fresh, FreshArmed
<1>8. CASE poll_flag[k] # 1 /\ k = "inst"
  <2>1. AgeRead(k) <= 0 /\ Minute(curr_time) = last_inst_poll_min
    BY <1>1, <1>5, <1>8 DEF Fresh, FreshInst
  <2>2. Minute(curr_time)' = Minute(curr_time) => elapsed = 0
    <3>1. /\ curr_time \in 0..Day - 1 /\ clock \in 0..Day - 1 /\ elapsed \in 0..MinPerHour - 1
          /\ clock = curr_time + elapsed \/ clock = curr_time + elapsed - Day
      BY <1>3, <1>5, DayType DEF Schedulable, TypeOK, ClockOK
    <3>2. \/ Minute(clock) = Minute(curr_time) + elapsed
          \/ Minute(clock) = Minute(curr_time) + elapsed - MinPerHour
      BY <3>1, ClockMoves
    <3>3. Minute(curr_time)' = Minute(clock)
      BY <1>2 DEF Minute
    <3>4. Minute(curr_time) \in Nat /\ Minute(clock) \in Nat
      BY <3>1, ClockTypes
    <3> QED
      BY <3>1, <3>2, <3>3, <3>4, DayType
  <2>3. /\ AgeRead(k)' <= MaxTurn
        /\ Minute(curr_time)' = last_inst_poll_min => AgeRead(k)' <= 0
    BY <1>3, <1>4, <2>1, <2>2
  <2> QED
    BY <1>1, <1>2, <1>8, <2>3 DEF Fresh, FreshInst
<1>9. CASE poll_flag[k] # 1 /\ k # "inst"
  <2>0. 2 * MaxTurn + Unit(k) <= Interval[k]
    BY <1>9 DEF Schedulable
  <2>1. \/ AgeRead(k) <= 0
        \/ DueReading(k) /\ AgeRead(k) <= MaxTurn + Since(k)
    BY <1>1, <1>5, <1>9 DEF Fresh, FreshUnarmed
  <2>2. AgeRead(k)' < Interval[k]
    BY <1>3, <1>4, <2>0, <2>1
  <2>3. ASSUME DueReading(k)' PROVE AgeRead(k)' <= MaxTurn + Since(k)'
    <3>1. CASE AgeRead(k) <= 0
      BY <1>3, <1>4, <1>6, <3>1
    <3>2. CASE DueReading(k) /\ AgeRead(k) <= MaxTurn + Since(k)
      <4>1. /\ Since(k)' = Since(k) + (IF k \in Hourly THEN elapsed ELSE 0)
            /\ (k \notin Hourly => elapsed = 0)
        BY <1>2, <1>5, <1>9, <2>3, <3>2, DueReadings
      <4> QED
        BY <1>3, <1>4, <3>2, <4>1
    <3> QED
      BY <2>1, <3>1, <3>2
  <2> QED
    BY <1>1, <1>2, <1>9, <2>2, <2>3 DEF Fresh, FreshUnarmed
<1> QED
  BY <1>7, <1>8, <1>9

(* A loop polls what is due and armed, and arms what is not due. *)
LEMMA FreshAfterLoop ==
  ASSUME TypeOK, TypeOK', FreshInv, NEW k \in Kinds, Loop(k),
         NEW i \in Enabled \ unanswered'
  PROVE  Fresh(i)'
<1>1. /\ Turn(k) /\ UNCHANGED <<clock, curr_time, elapsed>>
      /\ age' = age \/ Stamp(k)
      /\ poll_flag' = poll_flag \/ \E f \in Flags : SetFlag(k, f)
  BY LoopChanges
<1>2. /\ i \in Kinds /\ MaxTurn \in Nat /\ Interval[i] \in Nat
      /\ age[i] \in Nat /\ elapsed \in Nat
  BY ConstantTypes, PeriodicPollAssumption, ReadingType DEF TypeOK
<1>3. /\ AgeRead(i) \in Int /\ AgeRead(i)' \in Int /\ AgeRead(i)' <= AgeRead(i)
      /\ age'[i] = 0 => AgeRead(i)' <= 0
  <2>1. age'[i] = age[i] \/ age'[i] = 0
    BY <1>1, <1>2 DEF Stamp
  <2> QED
    BY <1>1, <1>2, <2>1 DEF AgeRead
<1>4. CASE i # k
  <2>2. poll_flag'[i] = poll_flag[i]
    BY <1>1, <1>2, <1>4 DEF SetFlag, TypeOK
  <2>3. Waits(i)' = Waits(i)
    BY <1>1, <1>2, <1>4, LoopEndsWait
  <2>4. i = "inst" => UNCHANGED last_inst_poll_min
    BY <1>4 DEF Loop, NotDue, AlreadyPolled, NoConnection, ReadOk, ReadFails, NoteMinute, Rearmed
  <2>5. CASE i \notin unanswered
    <3>1. Fresh(i)
      BY <2>5 DEF FreshInv
    <3> QED
      BY <1>1, <1>3, <2>2, <2>3, <2>4, <3>1, YoungerIsFresh
  <2>6. CASE i \in unanswered
    <3>1. /\ i = "inst" /\ Stamp(k) /\ WithInst(k)
      <4>1. PICK u \in {unanswered \ {k}, unanswered \cup {k}} :
              unanswered' = u \/ (Stamp(k) /\ Extra(k, u))
        BY <2>6, LoopChanges
      <4>2. i \in u
        BY <1>4, <2>6, <4>1
      <4>3. Stamp(k) /\ Extra(k, u) /\ i \notin unanswered'
        BY <4>1, <4>2
      <4> QED
        BY <4>2, <4>3 DEF Extra
    <3>2. age'[i] = 0
      BY <1>2, <3>1 DEF Stamp
    <3>3. AgeRead(i)' <= 0
      BY <1>3, <3>2
    <3>4. ~Waits(i) /\ ~Waits(i)'
      BY <1>1, <1>4, <2>3, <3>1, LoopsAfterInst
    <3>5. CASE poll_flag[i] = 1
      <4>1. Interval[i] > 0
        BY <1>2, PositiveInterval
      <4> QED
        BY <1>2, <1>3, <2>2, <3>3, <3>4, <3>5, <4>1 DEF Fresh, FreshArmed
    <3>6. CASE poll_flag[i] # 1
      <4>1. last_inst_poll_min = Minute(curr_time)
        BY <3>1, <3>4, <3>6 DEF FreshInv, Noted
      <4>2. last_inst_poll_min' = Minute(curr_time)'
        BY <1>1, <2>4, <3>1, <4>1
      <4> QED
        BY <2>2, <3>1, <3>3, <3>4, <3>6, <4>2 DEF Fresh, FreshInst
    <3> QED
      BY <3>5, <3>6
  <2> QED
    BY <2>5, <2>6
<1>5. CASE i = k
  <2>w. Waits(k) /\ ~Waits(k)'
    BY <1>1, LoopEndsWait
  <2>f. ASSUME NEW f \in Flags, SetFlag(k, f) PROVE poll_flag'[k] = f
    <3>1. poll_flag \in [Kinds -> Flags]
      BY Zenon DEF TypeOK, Flags
    <3> QED
      BY <2>f, <3>1 DEF SetFlag
  <2>s. /\ Since(k)' = Since(k) /\ (DueReading(k)' <=> DueReading(k))
        /\ Minute(curr_time)' = Minute(curr_time)
    BY <1>1 DEF Since, DueReading, Reading
  <2>1. CASE NotDue(k)
    <3>1. AgeRead(k)' < Interval[k]
      <4>1. ~(AgeRead(k) >= Interval[k])
        BY <1>5, <2>1 DEF NotDue, Due, AgeRead
      <4> QED
        BY <1>2, <1>3, <1>5, <4>1
    <3>2. poll_flag'[k] = 1
      BY <2>1, <2>f DEF NotDue, Flags
    <3> QED
      BY <1>2, <1>3, <1>5, <2>w, <3>1, <3>2 DEF Fresh, FreshArmed
  <2>2. CASE AlreadyPolled(k)
    <3>1. /\ Due(k) /\ ~Armed(k)
          /\ UNCHANGED <<age, poll_flag, last_inst_poll_min, unanswered>>
      BY <2>2 DEF AlreadyPolled
    <3>2. Fresh(k) /\ poll_flag[k] # 1
      BY <1>5, <3>1 DEF FreshInv, Armed
    <3>3. CASE k = "inst"
      <4>1. last_inst_poll_min = Minute(curr_time)
        BY <3>1, <3>3 DEF Armed, Rearmed
      <4>2. AgeRead(k) <= 0
        BY <2>w, <3>2, <3>3, <4>1 DEF Fresh, FreshInst
      <4>3. AgeRead(k)' <= 0 /\ Minute(curr_time)' = last_inst_poll_min'
        BY <1>3, <1>5, <2>s, <3>1, <4>1, <4>2
      <4> QED
        BY <1>5, <2>w, <3>1, <3>2, <3>3, <4>3 DEF Fresh, FreshInst
    <3>4. CASE k # "inst"
      <4>1. AgeRead(k) < Interval[k] /\ (DueReading(k) => AgeRead(k) <= MaxTurn + Since(k))
        BY <2>w, <3>2, <3>4 DEF Fresh, FreshUnarmed
      <4>2. DueReading(k)
        BY <1>2, <1>3, <1>5, <3>1, <4>1 DEF Due, AgeRead, DueReading
      <4>3. AgeRead(k)' = AgeRead(k)
        BY <1>1, <3>1 DEF AgeRead
      <4> QED
        BY <1>5, <2>s, <2>w, <3>1, <3>2, <3>4, <4>1, <4>2, <4>3 DEF Fresh, FreshUnarmed
    <3> QED
      BY <3>3, <3>4
  <2>3. CASE ReadOk(k)
    <3>1. age'[k] = 0
      BY <1>2, <1>5, <2>3 DEF ReadOk, Stamp
    <3>2. poll_flag'[k] = 0
      BY <2>3, <2>f DEF ReadOk, Flags
    <3>3. k = "inst" => last_inst_poll_min' = Minute(curr_time)'
      BY <2>3, <2>s DEF ReadOk, NoteMinute, Rearmed
    <3>4. AgeRead(k)' <= 0
      BY <1>3, <1>5, <3>1
    <3> QED
      BY <1>5, <2>w, <3>2, <3>3, <3>4 DEF Fresh, FreshInst, FreshUnarmed
  <2>4. CASE NoConnection(k) \/ ReadFails(k)
    <3>1. k \notin unanswered'
      BY <1>5
    <3>2. unanswered' \in {unanswered \cup {k}} \cup WithExtra(k, unanswered \cup {k})
      BY <2>4 DEF NoConnection, ReadFails
    <3>3. WithInst(k) => k # "inst"
      BY DEF WithInst
    <3> QED
      BY <3>1, <3>2, <3>3 DEF WithExtra
  <2> QED
    BY <2>1, <2>2, <2>3, <2>4 DEF Loop
<1> QED
  BY <1>4, <1>5

(* Every way past the loop of the instantaneous data notes the minute or   *)
(* arms its poll.                                                          *)
LEMMA NotedInductive ==
  ASSUME TypeOK, Noted, [Next]_vars
  PROVE  Noted'
<1> SUFFICES ASSUME "inst" \in Enabled, poll_flag'["inst"] # 1, ~Waits("inst")'
             PROVE  last_inst_poll_min' = Minute(curr_time)'
  BY DEF Noted
<1>1. CASE UNCHANGED <<step, curr_time, poll_flag, last_inst_poll_min>>
  BY <1>1 DEF Noted, Waits, Minute
<1>2. CASE Tick \/ UNCHANGED vars
  BY <1>1, <1>2 DEF Tick, vars
<1>3. CASE Cleanup \/ Midnight
  <2>1. /\ Turn("head") \/ Turn("midnight")
        /\ UNCHANGED <<curr_time, poll_flag, last_inst_poll_min>>
    BY <1>3 DEF Cleanup, Midnight
  <2>2. Waits("inst")' = Waits("inst")
    BY <2>1, OtherStepsWait DEF Kinds
  <2> QED
    BY <2>1, <2>2 DEF Noted, Minute
<1>4. CASE ReadClock
  <2>1. Waits("inst")'
    BY <1>4, ReadStartsWait DEF ReadClock, Kinds
  <2> QED
    BY <2>1
<1>5. ASSUME NEW k \in Kinds, Loop(k) PROVE last_inst_poll_min' = Minute(curr_time)'
  <2>1. Turn(k) /\ UNCHANGED curr_time
    BY <1>5, LoopChanges
  <2>2. CASE k # "inst"
    <3>1. Waits("inst")' = Waits("inst")
      BY <2>1, <2>2, LoopEndsWait DEF Kinds
    <3>2. poll_flag'["inst"] = poll_flag["inst"]
      <4>1. poll_flag' = poll_flag \/ \E f \in Flags : SetFlag(k, f)
        BY <1>5, LoopChanges
      <4>2. poll_flag \in [Kinds -> Flags] /\ "inst" \in Kinds
        BY DEF TypeOK, Flags, Kinds
      <4> QED
        BY <2>2, <4>1, <4>2 DEF SetFlag
    <3>3. UNCHANGED last_inst_poll_min
      BY <1>5, <2>2 DEF Loop, NotDue, AlreadyPolled, NoConnection, ReadOk, ReadFails, NoteMinute, Rearmed
    <3> QED
      BY <2>1, <3>1, <3>2, <3>3 DEF Noted, Minute
  <2>3. CASE k = "inst"
    <3>1. CASE NotDue(k)
      <4>1. poll_flag \in [Kinds -> Flags] /\ SetFlag(k, 1)
        BY <3>1 DEF TypeOK, Flags, NotDue
      <4> QED
        BY <2>3, <4>1 DEF SetFlag
    <3>2. CASE AlreadyPolled(k)
      BY <2>1, <2>3, <3>2 DEF AlreadyPolled, Armed, Rearmed, Minute
    <3>3. CASE NoConnection(k) \/ ReadOk(k) \/ ReadFails(k)
      <4>1. NoteMinute(k)
        BY <3>3 DEF NoConnection, ReadOk, ReadFails
      <4> QED
        BY <2>1, <2>3, <4>1 DEF NoteMinute, Rearmed, Minute
    <3> QED
      BY <1>5, <3>1, <3>2, <3>3 DEF Loop
  <2> QED
    BY <2>2, <2>3
<1> QED
  BY <1>2, <1>3, <1>4, <1>5 DEF Next, Program, Loop

LEMMA FreshInductive ==
  ASSUME Schedulable, TypeOK, TypeOK', FreshInv, [Next]_vars
  PROVE  FreshInv'
<1>m. MaxTurn \in Nat /\ MaxTurn < Day
  <2>1. PICK i \in Nat : HourPerDay = i + 1
    <3>1. HourPerDay - 1 \in Nat /\ HourPerDay = (HourPerDay - 1) + 1
      BY DayType
    <3> QED
      BY <3>1
  <2>2. MinPerHour * HourPerDay = MinPerHour * i + MinPerHour
    BY <2>1, DayType
  <2>3. PICK x \in Nat : x = MinPerHour * i
    BY <2>1, DayType
  <2>4. Day = x + MinPerHour
    BY <2>2, <2>3 DEF Day
  <2> QED
    BY <2>3, <2>4, DayType, ConstantTypes DEF Schedulable
<1>t. /\ clock \in 0..Day - 1 /\ curr_time \in 0..Day - 1 /\ elapsed \in 0..MaxTurn
      /\ Day \in Nat \ {0}
  BY DayType DEF TypeOK
<1>0. ClockOK /\ \A k \in Enabled \ unanswered : Fresh(k)
  BY DEF FreshInv
<1>n. Noted'
  BY NotedInductive DEF FreshInv
<1>1. CASE Tick
  <2>1. clock' = (IF clock + 1 < Day THEN clock + 1 ELSE 0) /\ elapsed' = elapsed + 1
    <3>1. clock' = (clock + 1) % Day /\ elapsed' = elapsed + 1
      BY <1>1 DEF Tick
    <3>2. CASE clock + 1 < Day
      BY <1>t, <3>1, <3>2
    <3>3. CASE clock + 1 = Day
      <4>1. Day % Day = 0
        BY <1>t
      <4> QED
        BY <1>t, <3>1, <3>3, <4>1
    <3> QED
      BY <1>t, <3>2, <3>3
  <2>2. UNCHANGED <<curr_time, step, poll_flag, last_inst_poll_min, unanswered>>
    BY <1>1 DEF Tick
  <2>3. ClockOK'
    BY <1>0, <1>m, <1>t, <2>1, <2>2 DEF ClockOK, Day
  <2>4. ASSUME NEW k \in Enabled \ unanswered PROVE Fresh(k)'
    <3>1. k \in Kinds /\ age[k] \in Nat /\ elapsed \in Nat
      BY PeriodicPollAssumption, ReadingType, <1>t
    <3>2. age'[k] = age[k] \/ age'[k] = age[k] + 1
      BY <1>1, <3>1 DEF Tick
    <3>3. AgeRead(k)' \in Int /\ AgeRead(k)' <= AgeRead(k)
      BY <2>1, <3>1, <3>2 DEF AgeRead
    <3>4. Waits(k)' = Waits(k)
      BY <2>2 DEF Waits
    <3> QED
      BY <1>0, <2>2, <3>3, <3>4, YoungerIsFresh
  <2> QED
    BY <1>n, <2>2, <2>3, <2>4 DEF FreshInv
<1>2. CASE Cleanup \/ Midnight \/ UNCHANGED vars
  <2>1. UNCHANGED <<clock, curr_time, elapsed, age, poll_flag, last_inst_poll_min, unanswered>>
    BY <1>2 DEF Cleanup, Midnight, vars
  <2>2. \A k \in Kinds : Waits(k)' = Waits(k)
    <3>1. Turn("head") \/ Turn("midnight") \/ UNCHANGED step
      BY <1>2 DEF Cleanup, Midnight, vars
    <3> QED
      BY <3>1, OtherStepsWait DEF Waits
  <2>3. ASSUME NEW k \in Enabled \ unanswered PROVE Fresh(k)'
    <3>1. k \in Kinds
      BY PeriodicPollAssumption
    <3>2. AgeRead(k)' = AgeRead(k) /\ AgeRead(k) \in Int
      BY <2>1, <3>1, ReadingType DEF AgeRead
    <3> QED
      BY <1>0, <2>1, <2>2, <3>1, <3>2, YoungerIsFresh
  <2>4. ClockOK'
    BY <1>0, <2>1 DEF ClockOK, Day
  <2> QED
    BY <1>n, <2>1, <2>3, <2>4 DEF FreshInv
<1>3. CASE ReadClock
  <2>1. ClockOK' /\ unanswered' = unanswered
    BY <1>3, <1>t DEF ReadClock, ClockOK
  <2> QED
    BY <1>3, <1>n, <2>1, FreshAtReading DEF FreshInv
<1>4. ASSUME NEW k \in Kinds, Loop(k) PROVE FreshInv'
  <2>1. UNCHANGED <<clock, curr_time, elapsed>>
    BY <1>4, LoopChanges
  <2>2. ClockOK'
    BY <1>0, <2>1 DEF ClockOK, Day
  <2> QED
    BY <1>4, <1>n, <2>2, FreshAfterLoop DEF FreshInv
<1> QED
  BY <1>1, <1>2, <1>3, <1>4 DEF Next, Program, Loop

(* Under such a schedule data whose last read, extra reads included,       *)
(* succeeded never gets older than its interval and two turns, whatever    *)
(* minutes the turns fall on and whichever other polls fail in between.    *)
THEOREM DataStaysFresh ==
  ASSUME Schedulable
  PROVE  Spec => []FreshData
<1>1. Init => FreshInv
  <2> SUFFICES ASSUME Init PROVE FreshInv
    OBVIOUS
  <2>1. ClockOK
    BY DayType DEF Init, ClockOK
  <2>2. ASSUME NEW k \in Enabled \ unanswered PROVE Fresh(k)
    <3>1. k \in Kinds /\ k # "inst"
      BY PeriodicPollAssumption DEF Init
    <3>2. AgeRead(k) = 0 /\ poll_flag[k] = 1
      BY <3>1 DEF Init, AgeRead
    <3>3. Interval[k] > 0 /\ Interval[k] \in Nat /\ MaxTurn \in Nat
      <4>1. Unit(k) \in Nat \ {0} /\ 2 * MaxTurn + Unit(k) <= Interval[k]
        BY <3>1, DayType DEF Schedulable, Unit
      <4> QED
        BY <3>1, <4>1, ConstantTypes
    <3> QED
      BY <3>2, <3>3 DEF Fresh, FreshArmed
  <2>3. Noted
    BY DEF Init, Noted, Kinds
  <2> QED
    BY <2>1, <2>2, <2>3 DEF FreshInv
<1>2. TypeOK /\ TypeOK' /\ FreshInv /\ [Next]_vars => FreshInv'
  BY FreshInductive
<1>3. TypeOK /\ FreshInv => FreshData
  <2> SUFFICES ASSUME TypeOK, FreshInv, NEW k \in Enabled \ unanswered
               PROVE  age[k] < Interval[k] + 2 * MaxTurn
    BY DEF FreshData
  <2>1. /\ k \in Kinds /\ MaxTurn \in Nat \ {0} /\ Interval[k] \in Nat
        /\ age[k] \in Nat /\ elapsed \in 0..MaxTurn
        /\ Since(k) \in Nat /\ Since(k) < Unit(k) /\ Unit(k) \in Nat
        /\ Fresh(k) /\ AgeRead(k) = age[k] - elapsed /\ AgeRead(k) \in Int
    BY PeriodicPollAssumption, ConstantTypes, ReadingType DEF TypeOK, FreshInv, Unit, AgeRead
  <2>2. CASE poll_flag[k] = 1
    <3>1. AgeRead(k) < Interval[k] + MaxTurn
      BY <2>1, <2>2 DEF Fresh, FreshArmed
    <3> QED
      BY <2>1, <3>1
  <2>3. CASE poll_flag[k] # 1 /\ k = "inst"
    <3>1. AgeRead(k) <= MaxTurn
      BY <2>1, <2>3 DEF Fresh, FreshInst
    <3>2. Interval[k] > 0
      <4>1. PollInterval(k) > 0
        BY PeriodicPollAssumption
      <4>2. Interval[k] # 0
        BY <2>3, <4>1 DEF PollInterval, Unit, Hourly
      <4> QED
        BY <2>1, <4>2
    <3> QED
      BY <2>1, <3>1, <3>2
  <2>4. CASE poll_flag[k] # 1 /\ k # "inst"
    <3>1. 2 * MaxTurn + Unit(k) <= Interval[k]
      BY <2>4 DEF Schedulable
    <3>2. AgeRead(k) < Interval[k]
      BY <2>1, <2>4, <3>1 DEF Fresh, FreshUnarmed
    <3> QED
      BY <2>1, <3>2
  <2> QED
    BY <2>2, <2>3, <2>4
<1> QED
  BY <1>1, <1>2, <1>3, ScheduleTypeCorrect, PTL DEF Spec
-----------------------------------------------------------------------------
(* data_cleanup(). *)

(* The head of a turn was passed at most this long ago. *)
SinceHead == elapsed + (IF step = "clock" THEN 0 ELSE MaxTurn)

NextHour(h) == IF h + 1 = HourPerDay THEN 0 ELSE h + 1

(* While a call is due the flag is set and no turn can have begun in the   *)
(* window; a flag not set again was cleared by a head that saw this hour.  *)
CleanInv(first) ==
  /\ cleaned = "due" => /\ Hour(clock) = CleanHour /\ enbl_data_clean
                        /\ Minute(clock) - first < SinceHead
  /\ cleaned = "done" /\ Hour(clock) = CleanHour => ~enbl_data_clean
  /\ cleaned # "twice"
  /\ ~enbl_data_clean => \/ Hour(clock) = CleanHour
                         \/ Hour(clock) = NextHour(CleanHour) /\ Minute(clock) < SinceHead

(* The window takes two of the longest turns. *)
WideWindow(first, last) ==
  /\ CleanWindow = first..last
  /\ 2 * MaxTurn <= last - first + 1
  /\ HourPerDay >= 2

LEMMA WindowTypes ==
  ASSUME NEW first \in Nat, NEW last \in Nat, WideWindow(first, last)
  PROVE  /\ MaxTurn \in Nat \ {0} /\ MinPerHour \in Nat /\ first <= last /\ last < MinPerHour
         /\ 2 * MaxTurn <= MinPerHour /\ 1 \in 0..MinPerHour - 1
<1>1. MaxTurn \in Nat \ {0} /\ MinPerHour \in Nat
  BY ConstantTypes, DayType
<1>2. first <= last
  BY <1>1 DEF WideWindow
<1>3. last \in CleanWindow
  BY <1>2 DEF WideWindow
<1>4. last < MinPerHour
  BY <1>1, <1>3, PeriodicPollAssumption
<1> QED
  BY <1>1, <1>2, <1>4 DEF WideWindow

LEMMA TickCleans ==
  ASSUME NEW first \in Nat, NEW last \in Nat, WideWindow(first, last),
         TypeOK, TypeOK', CleanInv(first), Tick
  PROVE  CleanInv(first)'
<1>1. /\ clock \in 0..Day - 1 /\ clock' \in 0..Day - 1
      /\ elapsed \in 0..MaxTurn - 1 /\ elapsed' = elapsed + 1
      /\ UNCHANGED <<step, enbl_data_clean>>
  <2>1. elapsed \in 0..MaxTurn /\ MaxTurn \in Nat /\ elapsed < MaxTurn
    BY ConstantTypes DEF TypeOK, Tick
  <2> QED
    BY <2>1 DEF TypeOK, Tick
<1>2. clock' = clock + 1 \/ clock' = clock + 1 - Day
  <2>1. clock' = (clock + 1) % Day /\ Day \in Nat \ {0}
    BY DayType DEF Tick
  <2>2. CASE clock + 1 < Day
    BY <1>1, <2>1, <2>2
  <2>3. CASE clock + 1 = Day
    <3>1. Day % Day = 0
      BY <2>1
    <3> QED
      BY <1>1, <2>1, <2>3, <3>1
  <2> QED
    BY <1>1, <2>1, <2>2, <2>3
<1> DEFINE h == Hour(clock)
           m == Minute(clock)
           hh == Hour(clock')
           mm == Minute(clock')
<1>3. \/ hh = h /\ mm = m + 1
      \/ /\ mm = m + 1 - MinPerHour
         /\ hh = h + 1 \/ (hh = 0 /\ h + 1 = HourPerDay)
  BY <1>1, <1>2, WindowTypes, ClockMoves
<1>4. /\ m \in 0..MinPerHour - 1 /\ mm \in 0..MinPerHour - 1
      /\ h \in 0..HourPerDay - 1 /\ hh \in 0..HourPerDay - 1
  BY <1>1, ClockTypes
<1>5. /\ MaxTurn \in Nat \ {0} /\ MinPerHour \in Nat /\ first <= last /\ last < MinPerHour
      /\ 2 * MaxTurn <= MinPerHour /\ 2 * MaxTurn <= last - first + 1
      /\ HourPerDay \in Nat /\ HourPerDay >= 2 /\ CleanHour \in 0..HourPerDay - 1
  BY WindowTypes, DayType, PeriodicPollAssumption DEF WideWindow
<1>6. PICK b \in {0, MaxTurn} : SinceHead = elapsed + b /\ SinceHead' = elapsed + 1 + b
  BY <1>1 DEF SinceHead
<1>7. /\ cleaned = "due" => h = CleanHour /\ enbl_data_clean /\ m - first < elapsed + b
      /\ cleaned = "done" /\ h = CleanHour => ~enbl_data_clean
      /\ cleaned # "twice"
      /\ ~enbl_data_clean => h = CleanHour \/ (h = NextHour(CleanHour) /\ m < elapsed + b)
  BY <1>6, Zenon DEF CleanInv
<1>8. cleaned' = IF h # CleanHour /\ hh = CleanHour THEN "due" ELSE cleaned
  BY DEF Tick
<1>9. Hour(clock)' = hh /\ Minute(clock)' = mm
  BY DEF Hour, Minute
<1> HIDE DEF h, m, hh, mm
<1>a. CASE hh = h /\ mm = m + 1
  <2>1. cleaned' = cleaned
    BY <1>8, <1>a
  <2>2. cleaned = "due" => mm - first < elapsed + 1 + b
    BY <1>1, <1>4, <1>5, <1>6, <1>7, <1>a
  <2>3. ~enbl_data_clean => h = CleanHour \/ (h = NextHour(CleanHour) /\ mm < elapsed + 1 + b)
    BY <1>1, <1>4, <1>5, <1>6, <1>7, <1>a
  <2> QED
    BY <1>1, <1>6, <1>7, <1>9, <1>a, <2>1, <2>2, <2>3 DEF CleanInv, NextHour
<1>b. CASE /\ mm = m + 1 - MinPerHour
           /\ hh = h + 1 \/ (hh = 0 /\ h + 1 = HourPerDay)
  <2>1. m = MinPerHour - 1 /\ mm = 0 /\ hh = NextHour(h) /\ hh # h
    BY <1>4, <1>5, <1>b DEF NextHour
  <2>2. elapsed + b <= 2 * MaxTurn - 1
    BY <1>1, <1>5, <1>6
  <2>3. cleaned # "due"
    BY <1>1, <1>4, <1>5, <1>6, <1>7, <2>1, <2>2
  <2>4. ~enbl_data_clean => h = CleanHour
    BY <1>1, <1>4, <1>5, <1>6, <1>7, <2>1, <2>2
  <2>5. 0 - first < elapsed + 1 + b /\ 0 < elapsed + 1 + b
    BY <1>1, <1>5, <1>6
  <2>6. CASE hh = CleanHour
    <3>1. cleaned' = "due" /\ enbl_data_clean
      BY <1>8, <2>1, <2>4, <2>6
    <3> QED
      BY <1>1, <1>6, <1>9, <2>1, <2>5, <2>6, <3>1 DEF CleanInv
  <2>7. CASE hh # CleanHour
    <3>1. cleaned' = cleaned /\ cleaned # "due" /\ cleaned # "twice"
      BY <1>7, <1>8, <2>3, <2>7
    <3>2. ~enbl_data_clean => hh = NextHour(CleanHour)
      BY <2>1, <2>4
    <3> QED
      BY <1>1, <1>6, <1>9, <2>1, <2>5, <2>7, <3>1, <3>2 DEF CleanInv, NextHour
  <2> QED
    BY <2>6, <2>7
<1> QED
  BY <1>3, <1>a, <1>b

LEMMA HeadCleans ==
  ASSUME NEW first \in Nat, NEW last \in Nat, WideWindow(first, last),
         TypeOK, CleanInv(first), Cleanup
  PROVE  CleanInv(first)'
<1>1. /\ step = "head" /\ step' = "clock" /\ UNCHANGED <<clock, elapsed>>
  BY StepsAre DEF Cleanup, Turn
<1>2. /\ elapsed \in 0..MaxTurn /\ MaxTurn \in Nat
      /\ SinceHead = elapsed + MaxTurn /\ SinceHead' = elapsed
  BY <1>1, WindowTypes DEF TypeOK, SinceHead
<1>3. Minute(clock) \in Nat /\ Hour(clock)' = Hour(clock) /\ Minute(clock)' = Minute(clock)
  BY <1>1, ClockTypes DEF TypeOK, Hour, Minute
<1>4. CASE CleansNow
  <2>1. Hour(clock) = CleanHour /\ enbl_data_clean /\ ~enbl_data_clean'
    BY <1>4, Zenon DEF Cleanup, CleansNow
  <2>2. cleaned' = "done"
    <3>1. cleaned # "done"
      BY <2>1, Zenon DEF CleanInv
    <3> QED
      BY <1>4, <3>1 DEF Cleanup, NoteCleaning
  <2> QED
    BY <1>3, <2>1, <2>2 DEF CleanInv
<1>5. CASE ~CleansNow
  <2>1. cleaned' = cleaned /\ (enbl_data_clean' <=> Hour(clock) # CleanHour \/ enbl_data_clean)
    BY <1>5, Zenon DEF Cleanup
  <2>2. ASSUME cleaned = "due" PROVE Minute(clock) - first < elapsed
    <3>1. Hour(clock) = CleanHour /\ enbl_data_clean /\ Minute(clock) - first < elapsed + MaxTurn
      BY <1>2, <2>2 DEF CleanInv
    <3>2. Minute(clock) \notin first..last
      BY <1>5, <3>1 DEF CleansNow, WideWindow
    <3>3. elapsed + MaxTurn <= last - first + 1
      BY <1>2 DEF WideWindow
    <3>4. Minute(clock) < last + 1
      BY <1>2, <1>3, <3>1, <3>3
    <3> QED
      BY <1>2, <1>3, <3>2, <3>4
  <2>3. /\ cleaned = "due" => Hour(clock) = CleanHour /\ enbl_data_clean'
        /\ cleaned = "done" /\ Hour(clock) = CleanHour => ~enbl_data_clean'
        /\ cleaned # "twice"
        /\ ~enbl_data_clean' => Hour(clock) = CleanHour
    BY <2>1, Zenon DEF CleanInv
  <2> QED
    BY <1>2, <1>3, <2>1, <2>2, <2>3 DEF CleanInv
<1> QED
  BY <1>4, <1>5

LEMMA TurnCleans ==
  ASSUME NEW first \in Nat, TypeOK, CleanInv(first),
         ReadClock \/ Midnight \/ \E k \in Kinds : Loop(k)
  PROVE  CleanInv(first)'
<1>1. UNCHANGED <<clock, enbl_data_clean, cleaned>>
  BY LoopChanges DEF ReadClock, Midnight
<1>2. SinceHead \in Nat /\ SinceHead' \in Nat /\ SinceHead <= SinceHead'
  <2>0. elapsed \in 0..MaxTurn /\ MaxTurn \in Nat
    BY ConstantTypes DEF TypeOK
  <2>1. CASE ReadClock
    <3>1. step = "clock" /\ step' = "midnight" /\ elapsed' = 0
      BY <2>1, StepsAre DEF ReadClock, Turn
    <3> QED
      BY <2>0, <3>1 DEF SinceHead
  <2>2. CASE Midnight
    <3>1. step = "midnight" /\ step' = "inst" /\ elapsed' = elapsed
      BY <2>2, StepsAre DEF Midnight, Turn
    <3> QED
      BY <2>0, <3>1 DEF SinceHead
  <2>3. ASSUME NEW k \in Kinds, Loop(k)
        PROVE  SinceHead \in Nat /\ SinceHead' \in Nat /\ SinceHead <= SinceHead'
    <3>1. Turn(k) /\ elapsed' = elapsed
      BY <2>3, LoopChanges
    <3>2. step # "clock" /\ step' # "clock"
      BY <3>1, StepsAre DEF Turn, Kinds
    <3> QED
      BY <2>0, <3>1, <3>2 DEF SinceHead
  <2> QED
    BY <2>1, <2>2, <2>3
<1>3. Minute(clock) \in Nat /\ Hour(clock)' = Hour(clock) /\ Minute(clock)' = Minute(clock)
  BY <1>1, ClockTypes DEF TypeOK, Hour, Minute
<1> QED
  BY <1>1, <1>2, <1>3 DEF CleanInv

(* When the window of this port takes two of the longest turns, every      *)
(* clean hour that begins while the process runs sees data_cleanup() once. *)
THEOREM CleanupOnceADay ==
  ASSUME NEW first \in Nat, NEW last \in Nat, WideWindow(first, last)
  PROVE  Spec => []CleanedEveryDay
<1>1. Init => CleanInv(first)
  BY DEF Init, CleanInv
<1>2. TypeOK /\ TypeOK' /\ CleanInv(first) /\ [Next]_vars => CleanInv(first)'
  <2> SUFFICES ASSUME TypeOK, TypeOK', CleanInv(first), [Next]_vars PROVE CleanInv(first)'
    OBVIOUS
  <2>1. CASE UNCHANGED vars
    BY <2>1 DEF vars, CleanInv, SinceHead, Hour, Minute
  <2> QED
    BY <2>1, TickCleans, HeadCleans, TurnCleans DEF Next, Program, Loop
<1>3. TypeOK /\ CleanInv(first) => CleanedEveryDay
  <2> SUFFICES ASSUME TypeOK, CleanInv(first) PROVE CleanedEveryDay
    OBVIOUS
  <2>1. cleaned # "twice"
    BY DEF CleanInv
  <2>2. ASSUME cleaned = "due"
        PROVE  Hour(clock) = CleanHour /\ last \in CleanWindow /\ last >= Minute(clock)
    <3>1. /\ elapsed \in 0..MaxTurn /\ MaxTurn \in Nat /\ first <= last
          /\ 2 * MaxTurn <= last - first + 1 /\ Minute(clock) \in Nat
          /\ CleanWindow = first..last
      BY WindowTypes, ClockTypes DEF TypeOK, WideWindow
    <3>2. Hour(clock) = CleanHour /\ Minute(clock) - first < SinceHead
      BY <2>2 DEF CleanInv
    <3>3. SinceHead \in Nat /\ SinceHead <= 2 * MaxTurn
      BY <3>1 DEF SinceHead
    <3> QED
      BY <3>1, <3>2, <3>3
  <2> QED
    BY <2>1, <2>2 DEF CleanedEveryDay
<1> QED
  BY <1>1, <1>2, <1>3, ScheduleTypeCorrect, PTL DEF Spec
=============================================================================
