----------------------------- MODULE MCDayWalks -----------------------------
(* DayWalks over the turn of every month of a common year.                 *)
EXTENDS DayWalks

Date(d, m, y) == [day |-> d, month |-> m, year |-> y]

MCEnabled == {0, 2}

(* The process starts on the 2nd of a month of 2025: the walks go over the *)
(* turn of the month on their second day.                                  *)
MCStarts == {Date(2, m, 2025) : m \in 1..12}

(* Commands ask for days from the last day but one of each month of 2025. *)
MCOdStarts == {Date(MonthLength(m, 2025) - 1, m, 2025) : m \in 1..12}
=============================================================================
