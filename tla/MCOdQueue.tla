------------------------------ MODULE MCOdQueue ------------------------------
(***************************************************************************)
(* Small instances of OdQueue.  Commands "a" and "b" go to port 0, "c" to  *)
(* port 1; "junk" is not JSON and is skipped by every process.             *)
(***************************************************************************)
EXTENDS OdQueueService

MCPort == [x \in Cmds |-> IF x = "c" THEN 1 ELSE 0]
(* "b" has the sequence number, meter and message type of "a". *)
MCKey == [x \in Cmds |-> IF x = "b" THEN "a" ELSE x]
=============================================================================
