------------------------------- MODULE DayWalks -------------------------------
(***************************************************************************)
(* The walks over past days that fetch load-survey data: get_old_data(),   *)
(* backwards over num_old_days days when the process has started; the      *)
(* search of idle_poll_phase() for days still missing, backwards, one      *)
(* meter a turn, again and again; and the OD_LS_DATA command, forwards     *)
(* from its start date.  Each asks for a date string; here it is the date. *)
(* The clock passes midnight while they run.  Whether a day has to be      *)
(* fetched, and the fetch, are left out: checked records the visit.        *)
(***************************************************************************)
EXTENDS Calendar

CONSTANTS NumMeters,    \* no_of_meter
          Enabled,      \* the meters with enable_meter = 1
          NumOldDays,   \* poll_cfg.num_old_days
          Starts,       \* dates on which the process may start
          OdStarts,     \* start dates of OD_LS_DATA commands
          OdDays,       \* bound on num_days of a command
          MaxOd,        \* bound on the number of commands
          MaxMidnights  \* bound on the midnights that pass

ASSUME DayWalksAssumption ==
  /\ NumMeters \in Nat /\ Enabled \subseteq 0..NumMeters - 1
  /\ NumOldDays \in 0..255
  /\ \A d \in Starts : RealDate(d) /\ d.year >= 1970   \* time_t counts from 1970
  /\ \A d \in OdStarts : RealDate(d)
  /\ OdDays \in Nat /\ MaxOd \in Nat /\ MaxMidnights \in Nat

VARIABLES today,                  \* the date localtime() gives
          phase,                  \* "old" get_old_data, "idle" idle_poll_phase
          idx,                    \* day index of get_old_data
          local_copy,             \* the struct tm of the running backward walk
          first_day, old_poll_day, missing_old_data_midx,   \* idle_poll_phase
          chk,                    \* poll_cfg/missing_old_data_chk_serial in Redis
          od,                     \* the OD_LS_DATA command that runs
          midnights, ods,         \* what MaxMidnights and MaxOd bound
          origin,                 \* history: the date local_copy was set from
          checked                 \* history: <<meter, date>> visited in this walk

idle  == <<first_day, old_poll_day, missing_old_data_midx>>
env   == <<today, chk, midnights>>
odcmd == <<od, ods>>
vars  == <<env, phase, idx, local_copy, idle, odcmd, origin, checked>>

NoOd == [running |-> FALSE]

(* localtime(), tm_mday--, mktime(): mktime normalises, so this one step   *)
(* back follows the calendar.                                              *)
Yesterday == CHOOSE t \in [day : 1..31, month : 0..11, year : {today.year - 1900,
                                                            today.year - 1901}] :
               RealDate(DateOf(t)) /\ NextDay(DateOf(t)) = today

Init ==
  /\ today \in Starts
  /\ phase = "old" /\ idx = 0 /\ local_copy = Yesterday
  /\ first_day = TRUE /\ old_poll_day = 0 /\ missing_old_data_midx = 0
  /\ chk \in BOOLEAN
  /\ od = NoOd
  /\ midnights = 0 /\ ods = 0
  /\ origin = today /\ checked = {}

Visit(m, t) == checked' = checked \cup {<<m, Ordinal(DateOf(t))>>}

(* get_old_data(): one iteration of its loop over days. *)
OldDay ==
  /\ phase = "old" /\ ~od.running /\ idx < NumOldDays
  /\ checked' = checked \cup (Enabled \X {Ordinal(DateOf(local_copy))})
  /\ idx' = idx + 1 /\ local_copy' = StepBack(local_copy)
  /\ UNCHANGED <<env, phase, idle, odcmd, origin>>

(* get_old_data() returns, idle_poll_phase() is entered.  Its local_copy   *)
(* is a variable of its own, written before it is read.                    *)
OldDone ==
  /\ phase = "old" /\ ~od.running /\ idx = NumOldDays
  /\ phase' = "idle" /\ checked' = {} /\ idx' = 0
  /\ local_copy' = Yesterday /\ origin' = today
  /\ UNCHANGED <<env, idle, odcmd>>

(* Mutant: the bound is num_old_days, not num_old_days - 1, as it was.     *)
NextOldDayPastLast(start) ==
  \/ /\ old_poll_day < NumOldDays
     /\ first_day' = FALSE /\ old_poll_day' = old_poll_day + 1
     /\ missing_old_data_midx' = 0
     /\ local_copy' = StepBack(start) /\ UNCHANGED checked
  \/ /\ old_poll_day >= NumOldDays
     /\ first_day' = TRUE /\ old_poll_day' = 0 /\ missing_old_data_midx' = 0
     /\ local_copy' = start /\ checked' = {}

(* Mutant: the first day's flag is left set. *)
NextOldDayFirst(start) ==
  \/ /\ old_poll_day < NumOldDays - 1
     /\ old_poll_day' = old_poll_day + 1 /\ missing_old_data_midx' = 0
     /\ local_copy' = StepBack(start) /\ UNCHANGED <<first_day, checked>>
  \/ /\ old_poll_day >= NumOldDays - 1
     /\ first_day' = TRUE /\ old_poll_day' = 0 /\ missing_old_data_midx' = 0
     /\ local_copy' = start /\ checked' = {}

(* All meters were looked at on one day: one day further back, or, after   *)
(* the last day, from the start again.                                     *)
NextOldDay(start) ==
  \/ /\ old_poll_day < NumOldDays - 1
     /\ first_day' = FALSE /\ old_poll_day' = old_poll_day + 1
     /\ missing_old_data_midx' = 0
     /\ local_copy' = StepBack(start) /\ UNCHANGED checked
  \/ /\ old_poll_day >= NumOldDays - 1
     /\ first_day' = TRUE /\ old_poll_day' = 0 /\ missing_old_data_midx' = 0
     /\ local_copy' = start /\ checked' = {}

(* idle_poll_phase(), a turn of the search for missing days: the walk is   *)
(* put back to yesterday as long as it is on its first day, then one meter *)
(* is looked at, or all were.                                              *)
IdleTurn ==
  /\ phase = "idle" /\ ~od.running /\ chk
  /\ origin' = IF first_day THEN today ELSE origin
  /\ LET start == IF first_day THEN Yesterday ELSE local_copy IN
     \/ /\ missing_old_data_midx < NumMeters /\ missing_old_data_midx \in Enabled
        /\ IF old_poll_day < NumOldDays
           THEN /\ Visit(missing_old_data_midx, start)
                /\ missing_old_data_midx' = missing_old_data_midx + 1
           ELSE UNCHANGED <<missing_old_data_midx, checked>>
        /\ local_copy' = start /\ UNCHANGED <<first_day, old_poll_day>>
     \/ /\ missing_old_data_midx < NumMeters /\ missing_old_data_midx \notin Enabled
        /\ missing_old_data_midx' = missing_old_data_midx + 1
        /\ local_copy' = start /\ UNCHANGED <<first_day, old_poll_day, checked>>
     \/ missing_old_data_midx >= NumMeters /\ NextOldDay(start)
  /\ UNCHANGED <<env, phase, idx, odcmd>>

(* process_od_cmd() takes an OD_LS_DATA command: between the meters of     *)
(* get_old_data(), or between two loops of an idle turn.                   *)
OdStart ==
  /\ ~od.running /\ ods < MaxOd
  /\ \E d \in OdStarts, n \in 1..OdDays :
       od' = [running |-> TRUE, start |-> d, curr_date |-> d, i |-> 0, ndays |-> n]
  /\ ods' = ods + 1
  /\ UNCHANGED <<env, phase, idx, local_copy, idle, origin, checked>>

(* One day of the command; with the last one the command ends. *)
OdDay ==
  /\ od.running
  /\ od' = IF od.i + 1 < od.ndays
           THEN [od EXCEPT !.curr_date = AddOneDay(@), !.i = @ + 1]
           ELSE NoOd
  /\ UNCHANGED <<env, phase, idx, local_copy, idle, ods, origin, checked>>

(* The clock passes midnight. *)
Midnight ==
  /\ midnights < MaxMidnights
  /\ midnights' = midnights + 1 /\ today' = NextDay(today)
  /\ UNCHANGED <<chk, phase, idx, local_copy, idle, odcmd, origin, checked>>

(* The user switches the search on or off in Redis. *)
SetChk ==
  /\ chk' = ~chk
  /\ UNCHANGED <<today, midnights, phase, idx, local_copy, idle, odcmd, origin, checked>>

Program == OldDay \/ OldDone \/ IdleTurn \/ OdDay

Next == Program \/ OdStart \/ Midnight \/ SetChk

(* The polling process keeps running, and its loop reaches the search      *)
(* every turn.  The clock, the user and the commands need not move.        *)
Spec == Init /\ [][Next]_vars /\ WF_vars(Program)
-----------------------------------------------------------------------------
(* Types: every date a walk stands at is a day of the calendar, and the    *)
(* counters of get_old_data() and idle_poll_phase() stay in their loops.   *)
TypeOK ==
  /\ RealDate(today) /\ RealDate(origin) /\ RealDate(DateOf(local_copy))
  /\ phase \in {"old", "idle"} /\ idx \in 0..NumOldDays
  /\ first_day \in BOOLEAN /\ chk \in BOOLEAN
  /\ old_poll_day \in 0..NumOldDays
  /\ missing_old_data_midx \in 0..NumMeters
  /\ od # NoOd => /\ RealDate(od.curr_date) /\ od.running
                  /\ od.ndays \in 1..OdDays /\ od.i \in 0..od.ndays - 1
  /\ midnights \in 0..MaxMidnights /\ ods \in 0..MaxOd

(* No walk leaves a day out or takes one twice: the k-th day of            *)
(* get_old_data() and of the idle search is k days before the day the walk *)
(* was started from, and the k-th day of an OD_LS_DATA command is k days   *)
(* after its start date.                                                   *)
WalksKeepCount ==
  /\ phase = "old" => Ordinal(DateOf(local_copy)) = Ordinal(origin) - 1 - idx
  /\ phase = "idle" /\ ~first_day =>
       Ordinal(DateOf(local_copy)) = Ordinal(origin) - 1 - old_poll_day
  /\ od.running => Ordinal(od.curr_date) = Ordinal(od.start) + od.i

AtEnd == /\ phase = "idle" /\ missing_old_data_midx = NumMeters
         /\ old_poll_day = NumOldDays - 1

(* When the idle search has gone through all its days, every enabled meter *)
(* was looked at for all of them, whatever midnights, commands and pauses  *)
(* came in between; only the first day may have changed under the walk.    *)
OldDaysSearched ==
  AtEnd => \A m \in Enabled, k \in 2..NumOldDays : <<m, Ordinal(origin) - k>> \in checked

(* As long as the search stays switched on, every enabled meter is looked  *)
(* at again for every one of the past days (retries of failed days depend  *)
(* on it: a failed day is not queued anywhere).                            *)
SearchedAgain ==
  <>[]chk => \A m \in Enabled, k \in 0..NumOldDays - 1 :
    []<>(phase = "idle" /\ missing_old_data_midx = m /\ old_poll_day = k)
=============================================================================
