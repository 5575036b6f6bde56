---------------------------- MODULE PollSession ----------------------------
(***************************************************************************)
(* The DLMS session of one data-acquisition process: the phases of         *)
(* init_dlms_proc() of src/src/main.c, which meter the shared connection   *)
(* `con' addresses while each of them polls, and the on-demand commands    *)
(* process_od_cmd() runs between two polls over the same connection.       *)
(* The process is sequential: what varies is which meters answer, which    *)
(* commands wait, and what is due.  Meters stands for the enabled meters   *)
(* of the port; every loop of the code skips the others.  A periodic poll  *)
(* may be due at any turn.                                                 *)
(***************************************************************************)
EXTENDS Integers, Sequences

CONSTANTS NumMeters,    \* no_of_meter
          Interfaces,   \* the values of feature_cfg.meter_inf_type
          InitialPoll,  \* strategy_cfg.initial_poll_starts, for each of them
          StorePoll,    \* strategy_cfg.store_poll_starts, for each of them
          OldDays,      \* poll_cfg.num_old_days, 0 if stored data is not polled
          Events,       \* the event categories
          IdleEvents    \* those the idle phase polls: one on a TCS_DCU, else all

Fns == {"get_nameplate", "inst_data", "ls_day", "ls_block", "mn_data", "bill_data",
        "install_data"}

ASSUME PollSessionAssumption ==
  /\ NumMeters \in Nat \ {0}
  /\ Interfaces # {} /\ Interfaces \subseteq {"SERIAL", "PLCC"}
  /\ \A i \in Interfaces :
       {InitialPoll[i], StorePoll[i]} \subseteq Seq(Fns \cup Events) \ {<<>>}
  /\ OldDays \in Nat
  /\ IdleEvents \subseteq Events
  /\ Events \cap Fns = {}

VARIABLES meter_inf_type,     \* read from the configuration at start
          phase,              \* the function of init_dlms_proc that runs
          day, fn, midx,      \* its loop indices: day, poll function, meter
          step,               \* the call of the loop body that comes next
          inst,               \* meter index of get_all_meter_inst_data
          curr_nc_idx,        \* the meter communication events are booked on
          target,             \* the meter con.settings addresses
          connected,          \* the addressed meter holds an association
          event_group_active, \* get_old_data is past the first of several events
          np_polled_comp,     \* the meters whose name plate was read
          init_polled_comp,   \* init_mn_, init_billing_, init_event_polled_comp
          exchange,           \* observation: the last request on the bus
          got_all             \* history: first-time data that was read

loops   == <<phase, day, fn, midx, step, inst>>
session == <<curr_nc_idx, target, connected>>
flags   == <<np_polled_comp, init_polled_comp>>
vars    == <<meter_inf_type, loops, session, event_group_active, flags, exchange, got_all>>

Meters == 0..NumMeters - 1

Plcc == meter_inf_type = "PLCC"

InitFns == InitialPoll[meter_inf_type]
OldFns  == StorePoll[meter_inf_type]

(* Polls whose first run fetches everything and is made up for later. *)
Retried == {"mn_data", "bill_data"} \cup Events

(* The loops of one turn of idle_poll_phase, in their order. *)
IdleFns == <<"present_day", "old_day", "midnight", "inst_data", "ls_block",
             "mn_data", "bill_data", "event">>

Init ==
  /\ meter_inf_type \in Interfaces
  /\ phase = "nameplate" /\ day = 0 /\ fn = 0 /\ midx = 0 /\ step = "turn"
  /\ inst = 0
  /\ curr_nc_idx = 0 /\ target = 0 /\ connected = FALSE
  /\ event_group_active = FALSE
  /\ np_polled_comp = {} /\ init_polled_comp = {}
  /\ exchange = [asked |-> 0, addressed |-> 0, booked |-> 0]
  /\ got_all = {}
-----------------------------------------------------------------------------
(* The loops. *)

Enter(ph, d, f, m, s) ==
  phase' = ph /\ day' = d /\ fn' = f /\ midx' = m /\ step' = s /\ UNCHANGED inst

Goto(s) == Enter(phase, day, fn, midx, s)

LastMeter == midx = NumMeters - 1

EnterOldData == IF OldDays = 0 THEN Enter("idle", 0, 1, 0, "turn")
                               ELSE Enter("old", 1, 1, 0, "pass")

(* The next iteration of the running phase's loops, or the next phase. *)
NextTurn ==
  \/ phase = "nameplate" /\ ~LastMeter /\ Enter(phase, 0, 0, midx + 1, "turn")
  \/ phase = "nameplate" /\ LastMeter  /\ Enter("init", 0, 1, 0, "turn")
  \/ phase = "init" /\ ~LastMeter /\ Enter(phase, 0, fn, midx + 1, "turn")
  \/ phase = "init" /\ LastMeter /\ fn < Len(InitFns) /\ Enter(phase, 0, fn + 1, 0, "turn")
  \/ phase = "init" /\ LastMeter /\ fn = Len(InitFns) /\ Enter("catchup", 0, 0, 0, "turn")
  \/ phase = "catchup" /\ ~LastMeter /\ Enter(phase, 0, 0, midx + 1, "turn")
  \/ phase = "catchup" /\ LastMeter /\ EnterOldData
  \/ phase = "old" /\ fn < Len(OldFns) /\ Enter(phase, day, fn + 1, midx, "turn")
  \/ phase = "old" /\ fn = Len(OldFns) /\ ~LastMeter /\ Enter(phase, day, 1, midx + 1, "pass")
  \/ phase = "old" /\ fn = Len(OldFns) /\ LastMeter /\ day < OldDays
       /\ Enter(phase, day + 1, 1, 0, "pass")
  \/ phase = "old" /\ fn = Len(OldFns) /\ LastMeter /\ day = OldDays
       /\ Enter("idle", 0, 1, 0, "turn")
  \/ phase = "idle" /\ ~LastMeter /\ Enter(phase, 0, fn, midx + 1, "turn")
  \/ phase = "idle" /\ LastMeter /\ fn < Len(IdleFns)
       /\ Enter(phase, 0, fn + 1, 0, IF fn = 2 THEN "pass" ELSE "turn")
  \/ phase = "idle" /\ LastMeter /\ fn = Len(IdleFns) /\ Enter(phase, 0, 1, 0, "turn")
-----------------------------------------------------------------------------
(* The calls of a loop body. *)

(* A request on behalf of meter m goes to meter a and its outcome, a       *)
(* "communicating" or "not communicating", is booked on meter b.           *)
Request(m, a, b) == exchange' = [asked |-> m, addressed |-> a, booked |-> b]

(* process_od_cmd() and check_od_command_resp(), seen from the session.    *)
(* Either no command touches it, or the last one that does is for meter m: *)
(* rejected for a missing parameter after curr_nc_idx was set, or run with *)
(* its own init_dlms(m) and no dis_connect().  With the PLCC interface no  *)
(* command is ever run (see OdQueue).  The caller has set or sets          *)
(* curr_nc_idx to i; keep tells that a command's own index survives.       *)
ProcessOdCmd(i, keep) ==
  \/ /\ curr_nc_idx' = i
     /\ UNCHANGED <<target, connected, exchange>>
  \/ /\ ~Plcc
     /\ \E m \in Meters :
          /\ curr_nc_idx' = IF keep THEN m ELSE i
          /\ \/ UNCHANGED <<target, connected, exchange>>
             \/ /\ target' = m /\ connected' \in BOOLEAN
                /\ Request(m, m, m)

(* Mutant: nodes are numbered from 1, as an earlier version of the code did. *)
InitDlmsFromOne(m, ok) ==
  /\ target' = m /\ connected' = ok
  /\ curr_nc_idx' = IF Plcc /\ m > 0 THEN m - 1 ELSE curr_nc_idx
  /\ Request(m, m, curr_nc_idx')

(* init_dlms(m): DISC, SNRM and AARQ to meter m. *)
InitDlms(m, ok) ==
  /\ target' = m /\ connected' = ok
  /\ curr_nc_idx' = IF Plcc THEN m ELSE curr_nc_idx
  /\ Request(m, m, curr_nc_idx')

(* get_all_meter_inst_data() starts. *)
EnterInstData == inst' = 0 /\ step' = "inst_od" /\ UNCHANGED <<phase, day, fn, midx>>

(* A plcc_meter_map entry with rs_status 0 ends the turn: no request is    *)
(* made, and nothing is noted as missing.                                  *)
NodeDown == Plcc /\ NextTurn

(* The idle loop that runs. *)
IdlePoll == IF phase = "idle" THEN IdleFns[fn] ELSE "none"

(* A turn that runs no on-demand command first: the name plates, the       *)
(* present day's load survey before get_old_data, and the checks of the    *)
(* present day and of the old days at the head of idle_poll_phase.         *)
PlainTurn ==
  /\ step = "turn"
  /\ \/ phase \in {"nameplate", "catchup"}
     \/ IdlePoll \in {"present_day", "old_day"}
  /\ curr_nc_idx' = midx
  /\ \/ Goto("connect")
     \/ phase = "nameplate" /\ NodeDown
  /\ UNCHANGED <<target, connected, event_group_active, flags, exchange, got_all>>

(* Mutant: event_group_active is not local to the meter's turn. *)
OdPassKeepsGroup ==
  /\ step = "pass"
  /\ ProcessOdCmd(curr_nc_idx, TRUE)
  /\ UNCHANGED event_group_active
  /\ Goto("turn")
  /\ UNCHANGED <<flags, got_all>>

(* The pass of get_old_data before a meter's functions, and the one at the *)
(* head of idle_poll_phase's loop: curr_nc_idx is not set afterwards.      *)
OdPass ==
  /\ step = "pass"
  /\ ProcessOdCmd(curr_nc_idx, TRUE)
  /\ event_group_active' = (event_group_active /\ phase # "old")
  /\ Goto("turn")
  /\ UNCHANGED <<flags, got_all>>

(* A turn of the initial poll: the name plate is not read twice. *)
InitTurn ==
  /\ phase = "init" /\ step = "turn"
  /\ ProcessOdCmd(midx, FALSE)
  /\ \/ NodeDown
     \/ IF InitFns[fn] = "get_nameplate" /\ midx \in np_polled_comp
          THEN NextTurn
          ELSE Goto("connect")
  /\ UNCHANGED <<event_group_active, flags, got_all>>

(* Mutant: the blocks after a load survey day do not connect either, as in *)
(* the branch of the code that is commented out.                           *)
OldTurnSkipsBlock ==
  /\ phase = "old" /\ step = "turn"
  /\ ProcessOdCmd(midx, FALSE)
  /\ \/ NodeDown /\ UNCHANGED event_group_active
     \/ /\ event_group_active' = (OldFns[fn] \in Events)
        /\ IF fn > 1 /\ OldFns[fn] = "ls_block" /\ OldFns[fn - 1] = "ls_day"
             THEN Goto("read")
             ELSE Goto("connect")
  /\ UNCHANGED <<flags, got_all>>

(* A turn of get_old_data: of several event categories the first connects, *)
(* the others and install_data do not.                                     *)
OldTurn ==
  /\ phase = "old" /\ step = "turn"
  /\ ProcessOdCmd(midx, FALSE)
  /\ \/ NodeDown /\ UNCHANGED event_group_active
     \/ /\ event_group_active' = (OldFns[fn] \in Events)
        /\ IF OldFns[fn] \in IF event_group_active THEN Events \cup {"install_data"} ELSE {"install_data"}
             THEN Goto("read")
             ELSE Goto("connect")
  /\ UNCHANGED <<flags, got_all>>

(* A turn of a periodic loop of idle_poll_phase: the poll is due, or not.  *)
IdleTurn ==
  /\ phase = "idle" /\ step = "turn" /\ IdlePoll \notin {"present_day", "old_day"}
  /\ ProcessOdCmd(midx, FALSE)
  /\ Goto("connect") \/ NodeDown
  /\ UNCHANGED <<event_group_active, flags, got_all>>

(* The condition of the poll, or that of the idle turn's check, is false. *)
NotDue ==
  /\ phase = "idle" /\ step = "turn"
  /\ NextTurn
  /\ UNCHANGED <<session, event_group_active, flags, exchange, got_all>>

(* init_dlms(midx) succeeds.  get_old_data and the load survey loop then   *)
(* read a name plate that Redis does not hold.                             *)
Connect ==
  /\ step = "connect"
  /\ InitDlms(midx, TRUE)
  /\ Goto("read")
  /\ np_polled_comp' \in {np_polled_comp,
       np_polled_comp \cup
         (IF phase = "old" \/ IdlePoll = "ls_block" THEN {midx} ELSE {})}
  /\ UNCHANGED <<event_group_active, init_polled_comp, got_all>>

(* Mutant: only a failed read is noted, not a meter that did not answer. *)
ConnectFailsUnnoted ==
  /\ step = "connect"
  /\ InitDlms(midx, FALSE)
  /\ event_group_active' = (event_group_active /\ phase # "old")
  /\ IF phase = "old" /\ ~Plcc THEN EnterInstData ELSE NextTurn
  /\ UNCHANGED <<flags, got_all>>

(* init_dlms(midx) fails: the turn ends.  The initial poll notes what is   *)
(* missing; get_old_data lets the next event category connect again and,   *)
(* on a serial port, polls the other meters' instantaneous data first.     *)
ConnectFails ==
  /\ step = "connect"
  /\ InitDlms(midx, FALSE)
  /\ event_group_active' = (event_group_active /\ phase # "old")
  /\ init_polled_comp' = init_polled_comp \cup
       (IF phase = "init" /\ InitFns[fn] \in Retried THEN {<<InitFns[fn], midx>>} ELSE {})
  /\ IF phase = "old" /\ ~Plcc THEN EnterInstData ELSE NextTurn
  /\ UNCHANGED <<np_polled_comp, got_all>>

(* get_name_plate() of the first pass; a failure leaves the session open. *)
ReadNamePlate ==
  /\ phase = "nameplate" /\ step = "read"
  /\ Request(midx, target, curr_nc_idx)
  /\ \/ /\ connected
        /\ np_polled_comp' = np_polled_comp \cup {midx}
        /\ Goto("disconnect")
     \/ NextTurn /\ UNCHANGED np_polled_comp
  /\ UNCHANGED <<session, event_group_active, init_polled_comp, got_all>>

(* execute_poll_functions(.., "INIT_POLL", ..): what fails is noted.  The   *)
(* function table of this phase does not know install_data.                *)
ReadInit ==
  /\ phase = "init" /\ step = "read"
  /\ IF InitFns[fn] = "install_data" THEN UNCHANGED exchange
                                     ELSE Request(midx, target, curr_nc_idx)
  /\ \/ /\ connected \/ InitFns[fn] = "install_data"
        /\ got_all' = got_all \cup
             (IF InitFns[fn] \in Retried THEN {<<InitFns[fn], midx>>} ELSE {})
        /\ np_polled_comp' = np_polled_comp \cup
             (IF InitFns[fn] = "get_nameplate" THEN {midx} ELSE {})
        /\ UNCHANGED init_polled_comp
     \/ /\ InitFns[fn] # "install_data"
        /\ init_polled_comp' = init_polled_comp \cup
             (IF InitFns[fn] \in Retried THEN {<<InitFns[fn], midx>>} ELSE {})
        /\ UNCHANGED <<np_polled_comp, got_all>>
  /\ IF ~Plcc /\ InitFns[fn] # "inst_data"
       THEN EnterInstData
       ELSE Goto("disconnect")
  /\ UNCHANGED <<session, event_group_active>>

(* get_inst_data() and get_ls_data_block() before get_old_data. *)
ReadCatchup ==
  /\ phase = "catchup" /\ step = "read"
  /\ Request(midx, target, curr_nc_idx)
  /\ Goto("disconnect")
  /\ UNCHANGED <<session, event_group_active, flags, got_all>>

(* The type of the next function is compared with s; past the last one the *)
(* code compares whatever lies behind the table.                           *)
NextIs(S) == fn < Len(OldFns) /\ OldFns[fn + 1] \in S

(* The session is kept from one event category to the next, and after a    *)
(* load survey day that is the first function or precedes the blocks.      *)
KeepsSession ==
  \/ OldFns[fn] \in Events /\ NextIs(Events)
  \/ OldFns[fn] = "ls_day" /\ (fn \in {1, Len(OldFns)} \/ NextIs({"ls_block"}))

EndsSession ==
  \/ OldFns[fn] \in Events /\ ~NextIs(Events)
  \/ OldFns[fn] = "ls_day" /\ fn # 1 /\ ~NextIs({"ls_block"})
  \/ OldFns[fn] \notin Events \cup {"ls_day"}

(* execute_poll_functions(.., "OLD_LS_DATA", ..). *)
ReadOld ==
  /\ phase = "old" /\ step = "read" /\ OldFns[fn] # "install_data"
  /\ Request(midx, target, curr_nc_idx)
  /\ np_polled_comp' \in {np_polled_comp, np_polled_comp \cup
       (IF OldFns[fn] = "get_nameplate" /\ connected THEN {midx} ELSE {})}
  /\ \/ KeepsSession /\ NextTurn
     \/ EndsSession /\ Goto("disconnect")
  /\ UNCHANGED <<session, event_group_active, init_polled_comp, got_all>>

(* install_data is get_all_meter_inst_data(). *)
InstallData ==
  /\ phase = "old" /\ step = "read" /\ OldFns[fn] = "install_data"
  /\ EnterInstData
  /\ UNCHANGED <<session, event_group_active, flags, exchange, got_all>>

(* What a periodic poll of midx makes up for, once it is connected. *)
MadeUp ==
  CASE IdlePoll = "event" -> {<<e, midx>> : e \in IdleEvents}
    [] IdlePoll \in Retried -> {<<IdlePoll, midx>>}
    [] OTHER -> {}

(* A periodic read, and after it the first-time data still missing: some   *)
(* of it may fail again.  An instantaneous or block read that fails ends   *)
(* the turn without dis_connect().                                         *)
ReadIdle ==
  /\ phase = "idle" /\ step = "read"
  /\ Request(midx, target, curr_nc_idx)
  /\ \E done \in SUBSET (init_polled_comp \cap MadeUp) :
       /\ done # {} => connected
       /\ init_polled_comp' = init_polled_comp \ done
       /\ got_all' = got_all \cup done
  /\ \/ Goto("disconnect")
     \/ IdlePoll \in {"inst_data", "ls_block"} /\ NextTurn
  /\ UNCHANGED <<session, event_group_active, np_polled_comp>>

(* dis_connect(). *)
DisConnect ==
  /\ step = "disconnect"
  /\ connected' = FALSE
  /\ Request(target, target, curr_nc_idx)
  /\ NextTurn
  /\ UNCHANGED <<curr_nc_idx, target, event_group_active, flags, got_all>>
-----------------------------------------------------------------------------
(* get_all_meter_inst_data(), called from init_data_collection after every *)
(* poll but the instantaneous one, and from get_old_data.                  *)

(* Mutant: the loop bound is off by one. *)
NextInstPastEnd ==
  IF inst < NumMeters
    THEN /\ inst' = inst + 1 /\ step' = "inst_od"
         /\ UNCHANGED <<phase, day, fn, midx>>
    ELSE NextTurn

(* The next meter, or back to the caller. *)
NextInst ==
  IF inst < NumMeters - 1
    THEN /\ inst' = inst + 1 /\ step' = "inst_od"
         /\ UNCHANGED <<phase, day, fn, midx>>
    ELSE IF phase = "init"
      THEN Goto("disconnect")
      ELSE NextTurn

(* curr_nc_idx is set before the on-demand commands run. *)
InstOdPass ==
  /\ step = "inst_od"
  /\ ProcessOdCmd(inst, TRUE)
  /\ \/ step' = "inst_poll" /\ UNCHANGED <<phase, day, fn, midx, inst>>
     \/ Plcc /\ NextInst
  /\ UNCHANGED <<event_group_active, flags, got_all>>

(* Mutant: a meter that does not answer is tried again. *)
InstPollRetries ==
  /\ step = "inst_poll"
  /\ InitDlms(inst, FALSE)
  /\ \/ NextInst
     \/ step' = "inst_od" /\ UNCHANGED <<phase, day, fn, midx, inst>>
  /\ UNCHANGED <<event_group_active, flags, got_all>>

(* init_dlms(inst), get_inst_data(inst) and dis_connect(), or only the     *)
(* first of them when it fails.                                            *)
InstPoll ==
  /\ step = "inst_poll"
  /\ InitDlms(inst, FALSE)
  /\ NextInst
  /\ UNCHANGED <<event_group_active, flags, got_all>>
-----------------------------------------------------------------------------
Steps ==
  \/ OdPass \/ PlainTurn \/ InitTurn \/ OldTurn \/ IdleTurn \/ NotDue
  \/ Connect \/ ConnectFails
  \/ ReadNamePlate \/ ReadInit \/ ReadCatchup \/ ReadOld \/ InstallData \/ ReadIdle
  \/ DisConnect
  \/ InstOdPass \/ InstPoll

Next == Steps /\ UNCHANGED meter_inf_type

(* The process is one thread that never waits for good: every call on the  *)
(* port and on Redis returns, if only with a timeout.                      *)
Spec == Init /\ [][Next]_vars /\ WF_vars(Next)
-----------------------------------------------------------------------------
(* Properties *)

(* Every variable keeps its type and every loop index its range. *)
TypeOK ==
  /\ meter_inf_type \in Interfaces
  /\ phase \in {"nameplate", "init", "catchup", "old", "idle"}
  /\ step \in {"pass", "turn", "connect", "read", "disconnect", "inst_od", "inst_poll"}
  /\ day \in 0..OldDays
  /\ fn \in Nat
  /\ phase = "init" => fn \in 1..Len(InitFns)
  /\ phase = "old" => fn \in 1..Len(OldFns)
  /\ phase = "idle" => fn \in 1..Len(IdleFns)
  /\ {midx, inst, curr_nc_idx, target} \subseteq Meters
  /\ {connected, event_group_active} \subseteq BOOLEAN
  /\ np_polled_comp \subseteq Meters
  /\ init_polled_comp \subseteq Retried \X Meters
  /\ got_all \subseteq Retried \X Meters
  /\ exchange \in [asked : Meters, addressed : Meters, booked : Meters]

(* The data a poll function stores for a meter is read from that meter:    *)
(* whatever on-demand commands and nested polls ran since, the connection  *)
(* addresses the meter the function was called for.                        *)
RightMeter == exchange.asked = exchange.addressed

(* "Communicating" and "not communicating" are booked on the meter that    *)
(* was addressed: curr_nc_idx follows con.settings.  On the serial port it *)
(* does not, after a command for another meter in get_all_meter_inst_data. *)
RightStatus == Plcc => exchange.addressed = exchange.booked

(* The turn of init_data_collection for function i and meter m is over. *)
TurnOver(i, m) ==
  \/ phase \in {"catchup", "old", "idle"}
  \/ phase = "init" /\ (i < fn \/ (i = fn /\ m < midx))

(* First-time data is never forgotten: from the meter's turn on, either it *)
(* was read or a flag makes the idle phase fetch it, whether the meter did *)
(* not answer, answered and failed, or fails again later.  A PLCC node     *)
(* that is down is skipped without a note.                                 *)
InitDataAccounted ==
  ~Plcc =>
  \A i \in 1..Len(InitFns), m \in Meters :
    InitFns[i] \in Retried /\ TurnOver(i, m) =>
      <<InitFns[i], m>> \in got_all \cup init_polled_comp

(* However many meters do not answer, the process gets to the periodic     *)
(* polling.                                                                *)
ReachesIdle == <>(phase = "idle")
=============================================================================
