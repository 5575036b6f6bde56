----------------------------- MODULE OdService -----------------------------
(***************************************************************************)
(* What the list web_od_command and one process that drains it promise to  *)
(* those who push on-demand commands: a command that the process may run   *)
(* is taken once and then finished or, if the process fails, forgotten.    *)
(* No order is promised.  What is no promise but happens: a command for no *)
(* meter may run without being taken, and then runs again; and once a      *)
(* command was handled and an equal one waits, any waiting command may be  *)
(* thrown away, because delete_processed_cmd() finds the copy at one index *)
(* of the list and pops another.                                           *)
(***************************************************************************)
EXTENDS Integers

CONSTANTS Cmds, NoCmd,
          Own,          \* the commands the process may run: JSON with its port
          NoMeter,      \* those that name no meter
          Key           \* what delete_processed_cmd() compares

VARIABLES waiting,      \* how often each command waits
          holding,      \* the command that was taken and is not finished
          handled,      \* how often each command was executed or answered
          reran,        \* how often each was executed though it still waits
          lost          \* how often each was forgotten or thrown away

vars == <<waiting, holding, handled, reran, lost>>

Init ==
  /\ waiting = [c \in Cmds |-> 0]
  /\ holding = NoCmd
  /\ handled = [c \in Cmds |-> 0]
  /\ reran = [c \in Cmds |-> 0]
  /\ lost = [c \in Cmds |-> 0]

More(f, c) == [f EXCEPT ![c] = @ + 1]
Less(f, c) == [f EXCEPT ![c] = @ - 1]

Submit(c) ==
  /\ waiting' = More(waiting, c)
  /\ UNCHANGED <<holding, handled, reran, lost>>

Take(c) ==
  /\ c \in Own /\ waiting[c] > 0 /\ holding = NoCmd
  /\ waiting' = Less(waiting, c)
  /\ holding' = c
  /\ UNCHANGED <<handled, reran, lost>>

Finish ==
  /\ holding # NoCmd
  /\ handled' = More(handled, holding)
  /\ holding' = NoCmd
  /\ UNCHANGED <<waiting, reran, lost>>

(* The process fails. *)
Forget ==
  /\ holding # NoCmd
  /\ lost' = More(lost, holding)
  /\ holding' = NoCmd
  /\ UNCHANGED <<waiting, handled, reran>>

(* The process loses the list before it has taken the command, and runs    *)
(* it, as it does only if it need not ask which meter it is for.           *)
RunUntaken(c) ==
  /\ c \in Own \cap NoMeter /\ waiting[c] > 0 /\ holding = NoCmd
  /\ reran' = More(reran, c)
  /\ UNCHANGED <<waiting, holding, handled, lost>>

(* A handled command has a copy that waits. *)
CopyWaits == \E c, d \in Cmds : handled[c] > 0 /\ waiting[d] > 0 /\ Key[c] = Key[d]

Discard(c) ==
  /\ waiting[c] > 0 /\ holding = NoCmd /\ CopyWaits
  /\ waiting' = Less(waiting, c)
  /\ lost' = More(lost, c)
  /\ UNCHANGED <<holding, handled, reran>>

Next ==
  \/ \E c \in Cmds : Submit(c) \/ Take(c) \/ RunUntaken(c) \/ Discard(c)
  \/ Finish \/ Forget

Spec == Init /\ [][Next]_vars
=============================================================================
