---------------------------- MODULE PeriodicPoll ----------------------------
(***************************************************************************)
(* When idle_poll_phase() of src/src/main.c polls one meter: the due tests *)
(* and poll flags of its five periodic loops, the midnight window and the  *)
(* daily data_cleanup().  The loops treat the meters alike and share only  *)
(* the reading of the clock, so the other meters are time that passes      *)
(* within a turn.  The unit of time is a minute.  An hour and a day are    *)
(* parameters, 60 minutes and 24 hours in the code, so that an instance    *)
(* has few states.  Which meter a poll addresses is PollSession's.         *)
(***************************************************************************)
EXTENDS Integers, Sequences

CONSTANTS MinPerHour, HourPerDay,
          Interface,    \* feature_cfg.meter_inf_type
          Enabled,      \* the data types k with poll_cfg.poll_k_data # 0
          Interval,     \* poll_cfg.k_poll_int, in minutes
          CleanHour,    \* data_clean_hour
          CleanWindow,  \* the minutes of that hour in which this port cleans
          MaxTurn       \* bound: minutes from one reading of the clock to the next

(* In the order of the loops. *)
Kinds == {"inst", "ls", "mn", "bill", "event"}

(* The interval is compared with the hour for these, else with the minute. *)
Hourly == {"mn", "bill"}

Unit(k) == IF k \in Hourly THEN MinPerHour ELSE 1

(* poll_k_interval_min or poll_k_interval_hrs, the divisor of the due test. *)
PollInterval(k) == Interval[k] \div Unit(k)

ASSUME PeriodicPollAssumption ==
  /\ {MinPerHour, HourPerDay, MaxTurn} \subseteq Nat \ {0}
  /\ Interface \in {"SERIAL", "PLCC"}
  /\ Enabled \subseteq Kinds
  /\ Interval \in [Kinds -> Nat]
  /\ \A k \in Enabled : PollInterval(k) > 0
  /\ CleanHour \in 0..HourPerDay - 1
  /\ CleanWindow \subseteq 0..MinPerHour - 1

VARIABLES clock,              \* the minute of the day
          curr_time,          \* the turn's reading of it
          elapsed,            \* minutes since that reading
          step,               \* the loop that comes next in the turn
          age,                \* minutes since last_k_ret, capped
          poll_flag,          \* inst_poll_flag, ls_poll_flag, ...
          last_inst_poll_min, \* -1 at first
          midnight_polled,
          enbl_data_clean,
          cleaned,            \* history: what this clean hour saw of data_cleanup()
          polled,             \* observation: polls tried in this turn
          unanswered          \* history: types not polled yet, or not wholly read when last tried

vars == <<clock, curr_time, elapsed, step, age, poll_flag, last_inst_poll_min,
          midnight_polled, enbl_data_clean, cleaned, polled, unanswered>>

Day == MinPerHour * HourPerDay

(* Ages beyond this are all the same to the due test. *)
MaxAge(k) == Interval[k] + 2 * MaxTurn + 1

Steps == <<"head", "clock", "midnight", "inst", "ls", "mn", "bill", "event">>

After(s) == LET i == CHOOSE j \in DOMAIN Steps : Steps[j] = s
            IN IF i = Len(Steps) THEN "head" ELSE Steps[i + 1]

(* The process starts at some minute; last_inst_ret is 0, the others now.  *)
Init ==
  /\ clock \in 0..Day - 1
  /\ curr_time = clock /\ elapsed = 0
  /\ step = "head"
  /\ age = [k \in Kinds |-> IF k = "inst" THEN MaxAge(k) ELSE 0]
  /\ poll_flag = [k \in Kinds |-> 1]
  /\ last_inst_poll_min = -1
  /\ midnight_polled = FALSE
  /\ enbl_data_clean = TRUE /\ cleaned = "started"
  /\ polled = {} /\ unanswered = Enabled \cap {"inst"}
-----------------------------------------------------------------------------
Turn(s) == step = s /\ step' = After(s)

Hour(t) == t \div MinPerHour
Minute(t) == t % MinPerHour

(* Time passes between and during polls, up to the longest turn. *)
Tick ==
  /\ elapsed < MaxTurn
  /\ clock' = (clock + 1) % Day
  /\ elapsed' = elapsed + 1
  /\ age' = [k \in Kinds |-> IF k \in Enabled /\ age[k] < MaxAge(k)
                             THEN age[k] + 1 ELSE age[k]]
  /\ cleaned' = IF Hour(clock) # CleanHour /\ Hour(clock') = CleanHour
                  THEN "due" ELSE cleaned
  /\ UNCHANGED <<curr_time, step, poll_flag, last_inst_poll_min, midnight_polled,
                 enbl_data_clean, polled, unanswered>>

(* The head of the loop has a reading of the clock of its own. *)
CleansNow == Hour(clock) = CleanHour /\ enbl_data_clean /\ Minute(clock) \in CleanWindow

NoteCleaning == cleaned' = IF cleaned = "done" THEN "twice" ELSE "done"

(* Mutant: the flag is not cleared. *)
CleanupAlways ==
  /\ Turn("head")
  /\ enbl_data_clean' = TRUE
  /\ IF CleansNow THEN NoteCleaning ELSE UNCHANGED cleaned
  /\ UNCHANGED <<clock, curr_time, elapsed, age, poll_flag, last_inst_poll_min,
                 midnight_polled, polled, unanswered>>

Cleanup ==
  /\ Turn("head")
  /\ enbl_data_clean' = (Hour(clock) # CleanHour \/ (enbl_data_clean /\ ~CleansNow))
  /\ IF CleansNow THEN NoteCleaning ELSE UNCHANGED cleaned
  /\ UNCHANGED <<clock, curr_time, elapsed, age, poll_flag, last_inst_poll_min,
                 midnight_polled, polled, unanswered>>

(* The due tests of this turn will all use this reading. *)
ReadClock ==
  /\ Turn("clock")
  /\ curr_time' = clock /\ elapsed' = 0
  /\ polled' = {}
  /\ UNCHANGED <<clock, age, poll_flag, last_inst_poll_min, midnight_polled,
                 enbl_data_clean, cleaned, unanswered>>

(* In the first hour of the day, once: midnight_polled is set when the     *)
(* meter could be connected, and nothing clears it.                        *)
Midnight ==
  /\ Turn("midnight")
  /\ midnight_polled' \in {midnight_polled, midnight_polled \/ Hour(curr_time) = 0}
  /\ UNCHANGED <<clock, curr_time, elapsed, age, poll_flag, last_inst_poll_min,
                 enbl_data_clean, cleaned, polled, unanswered>>
-----------------------------------------------------------------------------
(* The periodic loops. *)

Reading(k) == IF k \in Hourly THEN Hour(curr_time) ELSE Minute(curr_time)

Due(k) ==
  /\ k \in Enabled
  /\ \/ age[k] - elapsed >= Interval[k]
     \/ Reading(k) % PollInterval(k) = 0

(* The instantaneous poll is armed again in every other minute. *)
Rearmed(k) == k = "inst" /\ last_inst_poll_min # Minute(curr_time)

Armed(k) == poll_flag[k] = 1 \/ Rearmed(k)

NoteMinute(k) ==
  last_inst_poll_min' = IF Rearmed(k) THEN Minute(curr_time) ELSE last_inst_poll_min

SetFlag(k, f) == poll_flag' = [poll_flag EXCEPT ![k] = f]

(* Mutant: the else branch clears the flag instead. *)
NotDueDisarms(k) ==
  /\ Turn(k) /\ ~Due(k)
  /\ SetFlag(k, 0)
  /\ UNCHANGED <<clock, curr_time, elapsed, age, last_inst_poll_min,
                 midnight_polled, enbl_data_clean, cleaned, polled, unanswered>>

(* Mutant: poll_flag++. *)
NotDueCounts(k) ==
  /\ Turn(k) /\ ~Due(k)
  /\ SetFlag(k, poll_flag[k] + 1)
  /\ UNCHANGED <<clock, curr_time, elapsed, age, last_inst_poll_min,
                 midnight_polled, enbl_data_clean, cleaned, polled, unanswered>>

(* Not due: the poll is armed for the next time. *)
NotDue(k) ==
  /\ Turn(k) /\ ~Due(k)
  /\ SetFlag(k, 1)
  /\ UNCHANGED <<clock, curr_time, elapsed, age, last_inst_poll_min,
                 midnight_polled, enbl_data_clean, cleaned, polled, unanswered>>

AlreadyPolled(k) ==
  /\ Turn(k) /\ Due(k) /\ ~Armed(k)
  /\ UNCHANGED <<clock, curr_time, elapsed, age, poll_flag, last_inst_poll_min,
                 midnight_polled, enbl_data_clean, cleaned, polled, unanswered>>

(* init_dlms fails, or the PLCC node is down: tried again on the next turn. *)
NoConnection(k) ==
  /\ Turn(k) /\ Due(k) /\ Armed(k)
  /\ SetFlag(k, 1) /\ NoteMinute(k)
  /\ polled' = polled \cup {k}
  /\ unanswered' = unanswered \cup {k}
  /\ UNCHANGED <<clock, curr_time, elapsed, age, midnight_polled, enbl_data_clean, cleaned>>

(* After the data of another type, on a serial port, the instantaneous     *)
(* values are read too if last_inst_ret is an interval ago.                *)
WithInst(k) == Interface # "PLCC" /\ k # "inst" /\ age["inst"] >= Interval["inst"]

(* What is unanswered after a poll that leaves u: the loop does not look   *)
(* at what the extra get_inst_data() returns.                              *)
WithExtra(k, u) ==
  IF WithInst(k) /\ "inst" \in Enabled THEN {u \ {"inst"}, u \cup {"inst"}} ELSE {u}

(* One category of events that is read makes the poll a success. *)
Missed(k) == IF k = "event" THEN {{}, {k}} ELSE {{}}

(* last_k_ret = time(NULL), and last_inst_ret whether or not the extra     *)
(* read succeeded.                                                         *)
Stamp(k) ==
  age' = [i \in Kinds |-> IF i = k \/ (i = "inst" /\ WithInst(k)) THEN 0 ELSE age[i]]

(* Mutant: last_k_ret is not written when the read succeeds. *)
ReadOkUnstamped(k) ==
  /\ Turn(k) /\ Due(k) /\ Armed(k)
  /\ SetFlag(k, 0) /\ NoteMinute(k)
  /\ polled' = polled \cup {k}
  /\ unanswered' = unanswered \ {k}
  /\ UNCHANGED <<clock, curr_time, elapsed, age, midnight_polled, enbl_data_clean, cleaned>>

ReadOk(k) ==
  /\ Turn(k) /\ Due(k) /\ Armed(k)
  /\ SetFlag(k, 0) /\ NoteMinute(k)
  /\ Stamp(k)
  /\ polled' = polled \cup {k}
  /\ \E missed \in Missed(k) :
       unanswered' \in WithExtra(k, (unanswered \ {k}) \cup missed)
  /\ UNCHANGED <<clock, curr_time, elapsed, midnight_polled, enbl_data_clean, cleaned>>

(* The read fails.  Midnight data counts as polled all the same; billing   *)
(* and events stay armed but are stamped; the others are left as they were. *)
ReadFails(k) ==
  /\ Turn(k) /\ Due(k) /\ Armed(k)
  /\ SetFlag(k, IF k = "mn" THEN 0 ELSE 1) /\ NoteMinute(k)
  /\ polled' = polled \cup {k}
  /\ IF k \in {"mn", "bill", "event"}
       THEN Stamp(k) /\ unanswered' \in WithExtra(k, unanswered \cup {k})
       ELSE unanswered' = unanswered \cup {k} /\ UNCHANGED age
  /\ UNCHANGED <<clock, curr_time, elapsed, midnight_polled, enbl_data_clean, cleaned>>

Program ==
  \/ Cleanup \/ ReadClock \/ Midnight
  \/ \E k \in Kinds : NotDue(k) \/ AlreadyPolled(k) \/ NoConnection(k) \/ ReadOk(k) \/ ReadFails(k)

Next == Program \/ Tick

(* The loop goes on for ever and the clock does not stop. *)
Spec == Init /\ [][Next]_vars /\ WF_vars(Program) /\ WF_vars(Tick)
-----------------------------------------------------------------------------
(* Properties *)

TypeOK ==
  /\ clock \in 0..Day - 1 /\ curr_time \in 0..Day - 1
  /\ elapsed \in 0..MaxTurn
  /\ step \in {Steps[i] : i \in DOMAIN Steps}
  /\ \A k \in Kinds : age[k] \in 0..MaxAge(k)
  /\ poll_flag \in [Kinds -> {0, 1}]
  /\ last_inst_poll_min \in -1..MinPerHour - 1
  /\ {midnight_polled, enbl_data_clean} \subseteq BOOLEAN
  /\ cleaned \in {"started", "due", "done", "twice"}
  /\ polled \subseteq Enabled /\ unanswered \subseteq Enabled

(* Every enabled data type is polled again and again.                      *)
PolledAgain == \A k \in Enabled : []<>(k \in polled)

(* Data whose last read succeeded, the extra reads included whose result   *)
(* the loops ignore, is younger than its interval and the two turns around *)
(* its due time: it may just not be due at one turn, and the next turn may *)
(* take its time before it comes to this data.  A read that failed is      *)
(* outside of it although the loops may have stamped it as data.           *)
FreshData == \A k \in Enabled \ unanswered : age[k] < Interval[k] + 2 * MaxTurn

(* In every clean hour that begins while the process runs, data_cleanup()  *)
(* is called before the window of this port has passed, and it is never    *)
(* called twice in an hour, although turns start at any minute and both    *)
(* the call and the flag's return wait for the head of a turn.             *)
CleanedEveryDay ==
  /\ cleaned = "due" => Hour(clock) = CleanHour /\ \E m \in CleanWindow : m >= Minute(clock)
  /\ cleaned # "twice"
=============================================================================
