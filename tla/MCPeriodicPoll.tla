--------------------------- MODULE MCPeriodicPoll ---------------------------
(* Hours of four minutes; all intervals divide the day of two or four hours. *)
EXTENDS PeriodicPoll

MCInterval == [inst |-> 2, ls |-> 4, mn |-> 8, bill |-> 8, event |-> 4]

(* Midnight data every hour, the unit of its due test. *)
MCHourly == [MCInterval EXCEPT !["mn"] = 4]
=============================================================================
