--------------------------- MODULE OdQueueService ---------------------------
(***************************************************************************)
(* OdQueue with a single process implements OdService: between two of its  *)
(* Redis commands the process may be anywhere in its pass, but the command *)
(* LREM takes off the list is the one whose port it tested.                *)
(***************************************************************************)
EXTENDS OdQueue

LonePort == CHOOSE p \in Ports : TRUE

(* A command is held from LREM to the end of its execution. *)
Service == INSTANCE OdService WITH
  Own     <- {c \in Cmds \ Unparsable : Port[c] = LonePort},
  waiting <- [c \in Cmds |-> Count(queue, c)],
  holding <- IF pc[LonePort] = "execute" THEN od_cmd[LonePort] ELSE NoCmd,
  handled <- handled[LonePort],
  reran   <- ran_listed[LonePort],
  lost    <- [c \in Cmds |-> abandoned[c] + dropped[c]]

(* Every Redis command of process_od_cmd() and delete_processed_cmd(),     *)
(* every fault and every push is one step of the service or none: nothing  *)
(* of another port is taken, nothing is run twice for one push but a       *)
(* command for no meter whose LREM failed, and a command is lost only in   *)
(* the hands of a failing process or when a copy of a handled one waits.   *)
ServiceImplemented == Service!Spec
=============================================================================
