------------------------------ MODULE OdQueue ------------------------------
(***************************************************************************)
(* The on-demand command list web_od_command and the processes that drain  *)
(* it: process_od_cmd(), check_meter_port_id() and delete_processed_cmd()  *)
(* of src/src/redis.c.  One data-acquisition process runs per serial port; *)
(* all of them read the same Redis list.  Redis runs each list command     *)
(* atomically, so one action is one Redis command and everything the       *)
(* process does up to the next one; between two of them any other process  *)
(* may run.  What a command does to the meter is left out.                 *)
(***************************************************************************)
EXTENDS Integers, Sequences, SequencesExt

CONSTANTS Ports,        \* the port indices g_pidx that have a running process
          Cmds,         \* the JSON texts a producer may push
          NoCmd,        \* od_cmd after its memset
          Port,         \* Port[c]: the data.port_id field of c
          Key,          \* Key[c]: the fields seq_no, data.meter and msgType of c
          Unparsable,   \* the texts that are not JSON
          NoMeter,      \* the texts whose data.meter is "-"
          Interface,    \* feature_cfg.meter_inf_type
          MaxSubmits,   \* bound: pushes of one text
          MaxFaults     \* bound: lost connections and restarts

ASSUME OdQueueAssumption ==
  /\ NoCmd \notin Cmds
  /\ DOMAIN Port = Cmds
  /\ Unparsable \subseteq Cmds /\ NoMeter \subseteq Cmds
  /\ Interface \in {"SERIAL", "PLCC"}
  /\ MaxSubmits \in Nat
  /\ MaxFaults \in Nat

VARIABLES queue,        \* the Redis list web_od_command
          pc,           \* the Redis command the process issues next
          num_cmd,      \* loop index of process_od_cmd
          empty_check,  \* the LLEN its loop runs up to
          od_cmd,       \* the command in hand
          del_cmd,      \* loop index of delete_processed_cmd
          del_len,      \* the LLEN of that loop
          conn,         \* redis->err is not set
          submitted,    \* history: pushes of each text
          handled,      \* history: commands a process executed or answered
          ran_listed,   \* history: ... whose LREM had failed
          abandoned,    \* history: commands in hand when a process failed
          dropped,      \* history: commands LPOP threw away
          faults        \* history: faults so far

locals  == <<num_cmd, empty_check, od_cmd, del_cmd, del_len>>
history == <<submitted, handled, ran_listed, abandoned, dropped, faults>>
vars    == <<queue, pc, locals, conn, history>>

PCs == {"idle", "lindex", "lrange", "lrem", "execute", "llen2", "lindex2", "lpop"}

Init ==
  /\ queue = <<>>
  /\ pc = [p \in Ports |-> "idle"]
  /\ num_cmd = [p \in Ports |-> 0]
  /\ empty_check = [p \in Ports |-> 0]
  /\ od_cmd = [p \in Ports |-> NoCmd]
  /\ del_cmd = [p \in Ports |-> 0]
  /\ del_len = [p \in Ports |-> 0]
  /\ conn = [p \in Ports |-> TRUE]
  /\ submitted = [c \in Cmds |-> 0]
  /\ handled = [p \in Ports |-> [c \in Cmds |-> 0]]
  /\ ran_listed = [p \in Ports |-> [c \in Cmds |-> 0]]
  /\ abandoned = [c \in Cmds |-> 0]
  /\ dropped = [c \in Cmds |-> 0]
  /\ faults = 0
-----------------------------------------------------------------------------
Bump(f, c) == [f EXCEPT ![c] = @ + 1]

Goto(p, label) == pc' = [pc EXCEPT ![p] = label]

(* LINDEX list i and LRANGE list i i find an element, counting from 0. *)
InList(i) == i < Len(queue)
At(i) == queue[i + 1]

(* for (num_cmd = 0; num_cmd < empty_check; num_cmd++): the loop increment. *)
NextCmd(p) ==
  /\ num_cmd' = [num_cmd EXCEPT ![p] = @ + 1]
  /\ Goto(p, IF num_cmd[p] + 1 < empty_check[p] THEN "lindex" ELSE "idle")

(* The end of the loop body after delete_processed_cmd: memset(&od_cmd). *)
DoneCmd(p) == NextCmd(p) /\ od_cmd' = [od_cmd EXCEPT ![p] = NoCmd]

(* The web interface or the MQTT client pushes a command at the tail. *)
Submit(c) ==
  /\ submitted[c] < MaxSubmits
  /\ submitted' = Bump(submitted, c)
  /\ queue' = Append(queue, c)
  /\ UNCHANGED <<pc, locals, conn, handled, ran_listed, abandoned, dropped, faults>>

(* Mutant: the pass starts at the second element. *)
StartPassSkipsHead(p) ==
  /\ pc[p] = "idle" /\ conn[p]
  /\ empty_check' = [empty_check EXCEPT ![p] = Len(queue)]
  /\ num_cmd' = [num_cmd EXCEPT ![p] = 1]
  /\ Goto(p, IF Len(queue) < 2 THEN "idle" ELSE "lindex")
  /\ UNCHANGED <<queue, od_cmd, del_cmd, del_len, conn, history>>

(* process_od_cmd is entered: LLEN gives the bound of the whole pass. *)
StartPass(p) ==
  /\ pc[p] = "idle" /\ conn[p]
  /\ empty_check' = [empty_check EXCEPT ![p] = Len(queue)]
  /\ num_cmd' = [num_cmd EXCEPT ![p] = 0]
  /\ Goto(p, IF queue = <<>> THEN "idle" ELSE "lindex")
  /\ UNCHANGED <<queue, od_cmd, del_cmd, del_len, conn, history>>

(* Mutant: the port_id field is parsed but not compared. *)
IsOwnUnchecked(p) ==
  /\ Interface # "PLCC"
  /\ InList(num_cmd[p])
  /\ At(num_cmd[p]) \notin Unparsable

(* check_meter_port_id(num_cmd): LINDEX, and the port of the element.      *)
(* With the PLCC interface the test is never made and ret_redis_idx stays  *)
(* -1, which skips the element.                                            *)
IsOwn(p) ==
  /\ Interface # "PLCC"
  /\ InList(num_cmd[p])
  /\ At(num_cmd[p]) \notin Unparsable
  /\ Port[At(num_cmd[p])] = p

CheckPort(p) ==
  /\ pc[p] = "lindex" /\ conn[p]
  /\ \/ IsOwn(p) /\ Goto(p, "lrange") /\ UNCHANGED num_cmd
     \/ ~IsOwn(p) /\ NextCmd(p)
  /\ UNCHANGED <<queue, empty_check, od_cmd, del_cmd, del_len, conn, history>>

(* Mutant: the head is fetched, whatever index the port check was about. *)
FetchHead(p) ==
  /\ pc[p] = "lrange" /\ conn[p] /\ queue # <<>>
  /\ od_cmd' = [od_cmd EXCEPT ![p] = Head(queue)]
  /\ Goto(p, "lrem")
  /\ UNCHANGED <<queue, num_cmd, empty_check, del_cmd, del_len, conn, history>>

(* LRANGE num_cmd num_cmd: whatever is at that index by now. *)
Fetch(p) ==
  /\ pc[p] = "lrange" /\ conn[p]
  /\ \/ /\ InList(num_cmd[p])
        /\ od_cmd' = [od_cmd EXCEPT ![p] = At(num_cmd[p])]
        /\ Goto(p, "lrem") /\ UNCHANGED num_cmd
     \/ ~InList(num_cmd[p]) /\ NextCmd(p) /\ UNCHANGED od_cmd
  /\ UNCHANGED <<queue, empty_check, del_cmd, del_len, conn, history>>

(* Mutant: LREM with count 0, which removes every equal element. *)
Remove1All(p) ==
  /\ pc[p] = "lrem" /\ conn[p]
  /\ queue' = SelectSeq(queue, LAMBDA c : c # od_cmd[p])
  /\ Goto(p, "execute")
  /\ UNCHANGED <<locals, conn, history>>

(* Mutant: LPOP, as before the code was changed to LRANGE and LREM. *)
Remove1Head(p) ==
  /\ pc[p] = "lrem" /\ conn[p]
  /\ queue' = IF queue = <<>> THEN queue ELSE Tail(queue)
  /\ Goto(p, "execute")
  /\ UNCHANGED <<locals, conn, history>>

(* LREM web_od_command 1 text: the first equal element; its reply, which   *)
(* would tell that there was none, is freed unread.                        *)
Remove1(p) ==
  /\ pc[p] = "lrem" /\ conn[p]
  /\ queue' = RemoveFirst(queue, od_cmd[p])
  /\ Goto(p, "execute")
  /\ UNCHANGED <<locals, conn, history>>

(* The command is parsed and dispatched.  A text that is not JSON is       *)
(* reported and forgotten.  An unknown meter or a missing parameter is     *)
(* answered and ends the whole pass (return -1); anything else is run.     *)
Execute(p) ==
  /\ pc[p] = "execute" /\ conn[p]
  /\ \/ /\ od_cmd[p] \in Unparsable
        /\ NextCmd(p)
        /\ abandoned' = Bump(abandoned, od_cmd[p])
        /\ UNCHANGED handled
     \/ /\ od_cmd[p] \notin Unparsable
        /\ handled' = [handled EXCEPT ![p] = Bump(@, od_cmd[p])]
        /\ Goto(p, "idle") \/ Goto(p, "llen2")
        /\ UNCHANGED <<num_cmd, abandoned>>
  /\ UNCHANGED <<queue, empty_check, od_cmd, del_cmd, del_len, conn,
                 submitted, ran_listed, dropped, faults>>

(* delete_processed_cmd: LLEN bounds its scan for copies of the command. *)
DeleteStart(p) ==
  /\ pc[p] = "llen2" /\ conn[p]
  /\ del_len' = [del_len EXCEPT ![p] = Len(queue)]
  /\ del_cmd' = [del_cmd EXCEPT ![p] = 0]
  /\ IF queue = <<>> THEN DoneCmd(p)
       ELSE Goto(p, "lindex2") /\ UNCHANGED <<num_cmd, od_cmd>>
  /\ UNCHANGED <<queue, empty_check, conn, history>>

(* Mutant: the three fields are parsed but not compared. *)
MatchesAny(p, c) == c \notin Unparsable

(* seq_no, data.meter and msgType of the element are those of the command. *)
Matches(p, c) == c \notin Unparsable /\ Key[c] = Key[od_cmd[p]]

(* LINDEX in the scan: past the end it returns -1, which the caller        *)
(* ignores; on a match the next command is LPOP.                           *)
DeleteScan(p) ==
  /\ pc[p] = "lindex2" /\ conn[p]
  /\ \/ /\ InList(del_cmd[p])
        /\ Matches(p, At(del_cmd[p]))
        /\ Goto(p, "lpop")
        /\ UNCHANGED <<num_cmd, od_cmd, del_cmd>>
     \/ /\ InList(del_cmd[p])
        /\ ~Matches(p, At(del_cmd[p]))
        /\ del_cmd' = [del_cmd EXCEPT ![p] = @ + 1]
        /\ IF del_cmd[p] + 1 < del_len[p]
             THEN Goto(p, "lindex2") /\ UNCHANGED <<num_cmd, od_cmd>>
             ELSE DoneCmd(p)
     \/ ~InList(del_cmd[p]) /\ DoneCmd(p) /\ UNCHANGED del_cmd
  /\ UNCHANGED <<queue, empty_check, del_len, conn, history>>

(* Mutant: num_cmd-- without the loop increment that undoes it. *)
DeletePopStepsBack(p) ==
  /\ pc[p] = "lpop" /\ conn[p]
  /\ IF queue = <<>> THEN UNCHANGED <<queue, dropped>>
       ELSE queue' = Tail(queue) /\ dropped' = Bump(dropped, Head(queue))
  /\ del_cmd' = [del_cmd EXCEPT ![p] = @ - 1]
  /\ Goto(p, "lindex2")
  /\ UNCHANGED <<num_cmd, empty_check, od_cmd, del_len, conn, submitted, handled, ran_listed, abandoned, faults>>

(* LPOP removes the head of the list; num_cmd-- makes the scan read the    *)
(* same index again.                                                       *)
DeletePop(p) ==
  /\ pc[p] = "lpop" /\ conn[p]
  /\ IF queue = <<>> THEN UNCHANGED <<queue, dropped>>
       ELSE queue' = Tail(queue) /\ dropped' = Bump(dropped, Head(queue))
  /\ Goto(p, "lindex2")
  /\ UNCHANGED <<locals, conn, submitted, handled, ran_listed, abandoned, faults>>

(* The pass is over, whatever it was at. *)
Stop(p) ==
  /\ od_cmd' = [od_cmd EXCEPT ![p] = NoCmd]
  /\ Goto(p, "idle")
  /\ UNCHANGED <<queue, num_cmd, empty_check, del_cmd, del_len, submitted, dropped>>

(* The command the process had already taken off the list is forgotten. *)
Abandon(p) ==
  /\ abandoned' = IF pc[p] = "execute" THEN Bump(abandoned, od_cmd[p]) ELSE abandoned
  /\ Stop(p) /\ UNCHANGED <<handled, ran_listed>>

(* A command for no meter runs without a connection: nothing is looked up  *)
(* for it, and the reply of LREM, which failed if that is where the        *)
(* connection broke, is not looked at.                                     *)
RunsBlind(p) == pc[p] \in {"lrem", "execute"} /\ od_cmd[p] \in NoMeter \ Unparsable

RunBlind(p) ==
  /\ RunsBlind(p)
  /\ IF pc[p] = "lrem"
       THEN /\ ran_listed' = [ran_listed EXCEPT ![p] = Bump(@, od_cmd[p])]
            /\ UNCHANGED handled
       ELSE /\ handled' = [handled EXCEPT ![p] = Bump(@, od_cmd[p])]
            /\ UNCHANGED ran_listed
  /\ Stop(p) /\ UNCHANGED abandoned

(* The Redis connection breaks: hiredis latches redis->err and main()      *)
(* connects only once, so every later pass returns -1 at its first line.   *)
(* A pass under way removes nothing more, and a command for a meter is not *)
(* run, because the lookup of the meter fails.                             *)
LoseRedis(p) ==
  /\ conn[p] /\ faults < MaxFaults
  /\ faults' = faults + 1
  /\ conn' = [conn EXCEPT ![p] = FALSE]
  /\ RunBlind(p) \/ (~RunsBlind(p) /\ Abandon(p))

(* The process dies, at any step, and its supervisor starts it again. *)
Crash(p) ==
  /\ conn[p] /\ faults < MaxFaults
  /\ faults' = faults + 1
  /\ Abandon(p) /\ UNCHANGED conn

(* The supervisor restarts a process whose hanging-check stamp is stale,   *)
(* as it is once hc_update() has no connection.                            *)
Restart(p) ==
  /\ ~conn[p]
  /\ conn' = [conn EXCEPT ![p] = TRUE]
  /\ Abandon(p) /\ UNCHANGED faults

ProcessOdCmd(p) ==
  \/ StartPass(p) \/ CheckPort(p) \/ Fetch(p) \/ Remove1(p) \/ Execute(p)
  \/ DeleteStart(p) \/ DeleteScan(p) \/ DeletePop(p)

Next ==
  \/ \E c \in Cmds : Submit(c)
  \/ \E p \in Ports : ProcessOdCmd(p) \/ LoseRedis(p) \/ Crash(p) \/ Restart(p)

Spec == Init /\ [][Next]_vars

(* idle_poll_phase loops forever and calls process_od_cmd on every turn;   *)
(* the supervisor eventually restarts a process that stopped stamping.     *)
Fairness == \A p \in Ports : WF_vars(ProcessOdCmd(p)) /\ WF_vars(Restart(p))

FairSpec == Spec /\ Fairness
-----------------------------------------------------------------------------
(* Properties *)

(* Every variable keeps its type, and the loop indices stay natural.       *)
TypeOK ==
  /\ queue \in Seq(Cmds)
  /\ pc \in [Ports -> PCs]
  /\ num_cmd \in [Ports -> Nat]
  /\ empty_check \in [Ports -> Nat]
  /\ od_cmd \in [Ports -> Cmds \cup {NoCmd}]
  /\ \A p \in Ports : pc[p] \notin {"idle", "lindex", "lrange"} => od_cmd[p] \in Cmds
  /\ del_cmd \in [Ports -> Nat]
  /\ del_len \in [Ports -> Nat]
  /\ conn \in [Ports -> BOOLEAN]
  /\ submitted \in [Cmds -> Nat]
  /\ handled \in [Ports -> [Cmds -> Nat]]
  /\ ran_listed \in [Ports -> [Cmds -> Nat]]
  /\ abandoned \in [Cmds -> Nat]
  /\ dropped \in [Cmds -> Nat]
  /\ faults \in Nat

(* process_od_cmd has taken c off the list and not yet run it. *)
InHand(c) == \E p \in Ports : pc[p] = "execute" /\ od_cmd[p] = c

Handled(c) == \E p \in Ports : handled[p][c] > 0

(* Two pushes that delete_processed_cmd() takes for copies of each other. *)
CopiesPushed ==
  \E c, d \in Cmds :
    Key[c] = Key[d] /\ submitted[c] > 0 /\ submitted[d] > (IF c = d THEN 1 ELSE 0)

(* A pushed command never vanishes: it is on the list, in the hands of a   *)
(* process, was handled, or was in the hands of a process that failed.     *)
(* The one thing that throws away a command nobody looked at is the LPOP   *)
(* of delete_processed_cmd(), and only once copies were pushed; all else   *)
(* the processes' LINDEX, LRANGE and LREM interleave to loses nothing.     *)
NoSilentLoss ==
  \A c \in Cmds :
    submitted[c] > 0 =>
      \/ Contains(queue, c) \/ InHand(c) \/ Handled(c) \/ abandoned[c] > 0
      \/ dropped[c] > 0 /\ CopiesPushed

(* With one process every push has exactly one fate: still on the list, in *)
(* hand, handled, lost to a fault, or dropped by delete_processed_cmd().   *)
(* No command is run twice for one push, restarts and copies of the same   *)
(* text included, because LREM removes the element LRANGE returned; only a *)
(* command for no meter is, if the connection breaks at its LREM.          *)
Count(s, c) == Cardinality({i \in 1..Len(s) : s[i] = c})

Held(p, c) == IF pc[p] = "execute" /\ od_cmd[p] = c THEN 1 ELSE 0

Accounted ==
  \A p \in Ports, c \in Cmds :
    /\ submitted[c] = Count(queue, c) + Held(p, c) + handled[p][c] + abandoned[c] + dropped[c]
    /\ ran_listed[p][c] <= (IF c \in NoMeter THEN faults ELSE 0)

(* A process handles only the commands that carry its own port: the port   *)
(* check_meter_port_id() tested is the port of the command that runs.      *)
OwnCommandsOnly ==
  \A p \in Ports, c \in Cmds : handled[p][c] + ran_listed[p][c] > 0 => Port[c] = p

(* What a lone process knows between two of its Redis commands: the        *)
(* element whose port it tested is still at its index at LRANGE, the one   *)
(* it fetched is still on the list at LREM.  Only its own commands shorten *)
(* the list, and producers push at the tail.                               *)
Unshifted ==
  \A p \in Ports :
    /\ pc[p] = "lrange" => IsOwn(p)
    /\ pc[p] = "lrem" => Contains(queue, od_cmd[p])
    /\ pc[p] \in {"lrem", "execute"} =>
         od_cmd[p] \notin Unparsable /\ Port[od_cmd[p]] = p

(* Every well-formed command of a live port eventually leaves the list, also *)
(* when it is skipped because an earlier element was removed in the same   *)
(* pass, or when the process loses Redis and is restarted.                 *)
EventuallyTaken ==
  \A c \in {d \in Cmds \ Unparsable : Port[d] \in Ports} :
    Contains(queue, c) ~> ~Contains(queue, c)
=============================================================================
