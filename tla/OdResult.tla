------------------------------ MODULE OdResult ------------------------------
(***************************************************************************)
(* What becomes of an on-demand command once OdQueue has taken it: the     *)
(* branches of process_od_cmd() of src/src/redis.c, the statuses they send *)
(* with update_cmd_status(), the on-demand tables the data is stored in    *)
(* (sqlitedb_rel.c), and the exchange with the FTP process: a response per *)
(* SUCCESS on ftp_od_cmd_resp, an acknowledgement per upload on            *)
(* ftp_od_resp_sts, and check_od_command_resp(), which drops the table of  *)
(* an acknowledged upload.  The commands are those of one port; its list   *)
(* of acknowledgements is shared with the other ports.  ftp_enable is set. *)
(***************************************************************************)
EXTENDS Integers, Sequences, SequencesExt, FiniteSetsExt

CONSTANTS Cmds, NoCmd,
          Kind,        \* the shape of each command's branch
          Source,      \* init_source
          Table,       \* the on-demand table its data goes to, or NoTable
          NoTable,
          Parts,       \* num_days of a load survey, MAX_EVENTS of all events
          Param,       \* commn_msg, or start_date of a load survey
          MaxResp,     \* MAX_DIAG_MESSAGE_LIMIT
          MaxTaken,    \* bound: commands in one behaviour
          MaxOther,    \* bound: acknowledgements of no use on the list
          MaxFaults    \* bound: failed statements and lookups, and restarts

(* read: OD_INST, OD_MN, OD_BILL and one category of OD_EVENT_DATA.  ls:   *)
(* OD_LS_DATA.  events: OD_EVENT_DATA with event_type "all".  set: the     *)
(* parameter commands; two of them take none, as if it was given.  dated:  *)
(* LAST_TKN_RECH_TIME and CURR_BAL_TIME.  switch: LOAD_CONN_DISCONN.       *)
(* timesync: OD_TIMESYNC_MESSAGE.  direct: LOAD_CONN, LOAD_DISCONN and the *)
(* commands for the network coordinator.  unknown: any other msgType.      *)
Kinds == {"read", "ls", "events", "set", "dated", "switch", "timesync", "direct", "unknown"}

(* Those that check for a missing parameter after OD_CMD_RECEIVED is set.  *)
FlagFirst == {"set", "dated", "switch"}

(* Those that do not set it. *)
Unflagged == {"direct", "unknown"}

Tables == {Table[c] : c \in Cmds} \ {NoTable}

ASSUME OdResultAssumption ==
  /\ NoCmd \notin Cmds
  /\ \A c \in Cmds :
       /\ Kind[c] \in Kinds /\ Source[c] \in {"web", "mqtt"}
       /\ Param[c] \in {"missing", "malformed", "given"} /\ Parts[c] \in Nat \ {0}
  /\ MaxResp \in Nat \ {0}
  /\ {MaxTaken, MaxOther, MaxFaults} \subseteq Nat

VARIABLES pc,
          cmd,              \* od_cmd
          part,             \* i or cnt, the day or category that is read
          OD_CMD_RECEIVED,
          od_table,         \* the rows of each on-demand table
          ftp_od_cmd_resp,  \* Redis list to the FTP process, newest first
          ftp_od_resp_sts,  \* Redis list from it, see Acks
          i, list_len, item, \* locals of check_od_command_resp
          waiting,          \* commands not taken yet
          last,             \* the newest answer to cmd on its response list
          failed,           \* history: one of cmd's calls failed
          vague,            \* history: ... with a text of neither outcome
          uploaded,         \* history: rows of each table that were uploaded
          overlapped,       \* history: ... stored while an upload was pending
          flag_set_by,      \* history: the command that set OD_CMD_RECEIVED
          faults            \* history: faults so far

locals  == <<cmd, part, OD_CMD_RECEIVED>>
check   == <<i, list_len, item>>
lists   == <<ftp_od_cmd_resp, ftp_od_resp_sts>>
answers == <<last, failed, vague>>
rows    == <<uploaded, overlapped>>
vars    == <<pc, locals, od_table, lists, check, waiting, answers, rows, flag_set_by, faults>>

Init ==
  /\ pc = "take" /\ cmd = NoCmd /\ part = 0 /\ OD_CMD_RECEIVED = 0
  /\ od_table = [t \in Tables |-> {}]
  /\ ftp_od_cmd_resp = <<>> /\ ftp_od_resp_sts = <<>>
  /\ i = 0 /\ list_len = 0 /\ item = NoTable
  /\ waiting \in kSubset(MaxTaken, Cmds)
  /\ last = "none" /\ failed = FALSE /\ vague = FALSE
  /\ uploaded = [t \in Tables |-> {}] /\ overlapped = [t \in Tables |-> {}]
  /\ flag_set_by = NoCmd
  /\ faults = 0
-----------------------------------------------------------------------------
Fault == faults < MaxFaults /\ faults' = faults + 1

(* Statuses, as update_cmd_status() tells them apart: the texts that hold  *)
(* "SUCCESS", those that hold "Failed", and others, final or not.          *)
Success == {"success", "day success"}
Failure == {"failed", "day failed"}

(* The response to the FTP process names the command's table and, for a    *)
(* load survey of several days, the day.                                   *)
Announced(c, tables) ==
  IF Table[c] = NoTable THEN {}
    ELSE {r \in tables[Table[c]] : r[1] = c /\ (Kind[c] = "ls" => r[2] = part)}

(* Mutant: the LTRIM keeps one entry more, as without its "- 1". *)
RespondTrimsLess(c, tables) ==
  ftp_od_cmd_resp' =
    SubSeq(<<[table |-> Table[c], rows |-> Announced(c, tables)]>> \o ftp_od_cmd_resp, 1,
           IF Len(ftp_od_cmd_resp) <= MaxResp THEN Len(ftp_od_cmd_resp) + 1 ELSE MaxResp + 1)

(* update_od_sts_ftp(): LPUSH, then LTRIM to the newest. *)
Respond(c, tables) ==
  ftp_od_cmd_resp' =
    SubSeq(<<[table |-> Table[c], rows |-> Announced(c, tables)]>> \o ftp_od_cmd_resp, 1,
           IF Len(ftp_od_cmd_resp) < MaxResp THEN Len(ftp_od_cmd_resp) + 1 ELSE MaxResp)

(* update_cmd_status(c, s), when the tables hold these rows. *)
Update(c, s, tables) ==
  /\ IF s \in Success THEN Respond(c, tables) ELSE UNCHANGED ftp_od_cmd_resp
  /\ last' = IF Source[c] = "web" \/ s \in Success \cup Failure THEN s ELSE last
-----------------------------------------------------------------------------
(* process_od_cmd(), after the command was taken off the list. *)

(* The command is answered with a text like "Set period is not available"  *)
(* and ends the pass.                                                      *)
Refuse(c) ==
  /\ pc = "take" /\ c \in waiting
  /\ waiting' = waiting \ {c}
  /\ pc' = "llen"
  /\ UNCHANGED <<cmd, part, od_table, lists, check, answers, rows, faults>>

(* The serial number is unknown, or no date was given for the clock. *)
NotFound(c) ==
  /\ Refuse(c)
  /\ UNCHANGED <<OD_CMD_RECEIVED, flag_set_by>>

(* A parameter is missing: by then OD_CMD_RECEIVED is set. *)
NoParameter(c) ==
  /\ Kind[c] \in FlagFirst /\ Param[c] = "missing"
  /\ Refuse(c)
  /\ OD_CMD_RECEIVED' = 1 /\ flag_set_by' = c

(* No branch is for it: it goes to delete_processed_cmd() without a word.  *)
Unrecognised(c) ==
  /\ pc = "take" /\ c \in waiting
  /\ Kind[c] = "unknown"
  /\ waiting' = waiting \ {c}
  /\ cmd' = c /\ part' = 1 /\ pc' = "end"
  /\ UNCHANGED <<OD_CMD_RECEIVED, od_table, lists, check, answers, rows, flag_set_by, faults>>

(* "In Progress - Command sent to meter", or "to NC". *)
Begin(c) ==
  /\ pc = "take" /\ c \in waiting
  /\ Kind[c] # "unknown"
  /\ Kind[c] \in FlagFirst => Param[c] # "missing"
  /\ Kind[c] = "timesync" => Param[c] = "given"
  /\ waiting' = waiting \ {c}
  /\ cmd' = c /\ part' = 1
  /\ pc' = IF Kind[c] \in {"direct", "switch"} THEN "act" ELSE "init"
  /\ IF Kind[c] \in Unflagged THEN UNCHANGED <<OD_CMD_RECEIVED, flag_set_by>>
                              ELSE OD_CMD_RECEIVED' = 1 /\ flag_set_by' = c
  /\ Update(c, "progress", od_table)
  /\ UNCHANGED <<od_table, ftp_od_resp_sts, check, failed, vague, rows, faults>>

(* init_dlms(midx) before the first read.  A start_date that is no date    *)
(* ends a load survey without another word.                                *)
InitDlms ==
  /\ pc = "init"
  /\ \/ /\ Update(cmd, "failed", od_table) /\ failed' = TRUE
        /\ pc' = "end"
     \/ /\ Update(cmd, "progress", od_table) /\ UNCHANGED failed
        /\ pc' = CASE Kind[cmd] \in {"set", "dated", "timesync"} -> "act"
                   [] Kind[cmd] = "ls" /\ Param[cmd] # "given" -> "end"
                   [] OTHER -> "read"
  /\ UNCHANGED <<locals, od_table, ftp_od_resp_sts, check, waiting, vague, rows,
                 flag_set_by, faults>>

BadDate == Kind[cmd] = "dated" /\ Param[cmd] = "malformed"

(* "Invalid date format": the pass ends with OD_CMD_RECEIVED still set.    *)
InvalidDate ==
  /\ pc = "act" /\ BadDate
  /\ pc' = "llen" /\ cmd' = NoCmd /\ part' = 0
  /\ last' = "none" /\ failed' = FALSE /\ vague' = FALSE
  /\ UNCHANGED <<OD_CMD_RECEIVED, od_table, lists, check, waiting, rows, flag_set_by, faults>>

(* A parameter is written, a load switched, the coordinator called. *)
Act ==
  /\ pc = "act" /\ ~BadDate
  /\ \/ Update(cmd, "success", od_table) /\ UNCHANGED <<failed, vague>>
     \/ Update(cmd, "failed", od_table) /\ failed' = TRUE /\ UNCHANGED vague
     \/ /\ Update(cmd, "other", od_table)
        /\ failed' = TRUE /\ vague' = TRUE
  /\ pc' = "end"
  /\ UNCHANGED <<locals, od_table, ftp_od_resp_sts, check, waiting, rows, flag_set_by, faults>>
-----------------------------------------------------------------------------
(* A read and createDataTable() with insertValues() after it.              *)

(* An upload of t that is announced or acknowledged. *)
Pending(t) ==
  \/ \E k \in DOMAIN ftp_od_cmd_resp : ftp_od_cmd_resp[k].table = t
  \/ t \in Range(ftp_od_resp_sts)

NoteRow(t, r) ==
  /\ uploaded' = [uploaded EXCEPT ![t] = @ \ {r}]
  /\ overlapped' = IF Pending(t) THEN [overlapped EXCEPT ![t] = @ \cup {r}] ELSE overlapped

(* drop_table() succeeds. *)
Drop(t) ==
  /\ od_table' = [od_table EXCEPT ![t] = {}]
  /\ uploaded' = [uploaded EXCEPT ![t] = {}]
  /\ overlapped' = [overlapped EXCEPT ![t] = {}]

(* The row of this part goes to the on-demand table. *)
Store ==
  /\ Table[cmd] # NoTable
  /\ od_table' = [od_table EXCEPT ![Table[cmd]] = @ \cup {<<cmd, part>>}]
  /\ NoteRow(Table[cmd], <<cmd, part>>)
  /\ UNCHANGED faults

(* There was nothing to store: no entries, the type's polling is disabled, *)
(* or a failed insert was logged and forgotten.                            *)
StoreNothing == UNCHANGED <<od_table, rows, faults>>

(* The INSERT cannot be prepared: insertValues() drops the table. *)
StoreFails ==
  /\ Table[cmd] # NoTable
  /\ Fault
  /\ Drop(Table[cmd])

(* The outcome of get_inst_data(), get_ls_data_day(), ...: "ok" is 0; the  *)
(* texts of -5, -6 and of most positive codes hold no "Failed".            *)
Read(outcome) ==
  \/ /\ outcome = "ok" /\ (Store \/ StoreNothing \/ StoreFails)
     /\ UNCHANGED <<failed, vague>>
  \/ /\ outcome = "failed" /\ StoreNothing
     /\ failed' = TRUE /\ UNCHANGED vague
  \/ /\ outcome = "other" /\ StoreNothing
     /\ failed' = TRUE /\ vague' = TRUE

(* One read, one final status. *)
ReadOnce ==
  /\ pc = "read" /\ Kind[cmd] = "read"
  /\ \E outcome \in {"ok", "failed", "other"} :
       /\ Read(outcome)
       /\ Update(cmd, IF outcome = "ok" THEN "success" ELSE outcome, od_table')
  /\ pc' = "end"
  /\ UNCHANGED <<locals, ftp_od_resp_sts, check, waiting, flag_set_by>>

(* Mutant: the days are read without a status of their own. *)
ReadDaySilent ==
  /\ pc = "read" /\ Kind[cmd] = "ls"
  /\ \E outcome \in {"ok", "failed", "other"} : Read(outcome)
  /\ pc' = "reinit"
  /\ UNCHANGED <<locals, lists, check, waiting, last, flag_set_by>>

(* A day of a load survey: "In Progress - <outcome> for <day>". *)
ReadDay ==
  /\ pc = "read" /\ Kind[cmd] = "ls"
  /\ \E outcome \in {"ok", "failed", "other"} :
       /\ Read(outcome)
       /\ Update(cmd, CASE outcome = "ok" -> "day success"
                        [] outcome = "failed" -> "day failed"
                        [] OTHER -> "progress", od_table')
  /\ pc' = "reinit"
  /\ UNCHANGED <<locals, ftp_od_resp_sts, check, waiting, flag_set_by>>

(* A category of all events: only an error is reported at once. *)
ReadCategory ==
  /\ pc = "read" /\ Kind[cmd] = "events"
  /\ \/ Read("ok") /\ Update(cmd, "progress", od_table')
     \/ Read("failed") /\ Update(cmd, "failed", od_table')
     \/ Read("other") /\ (Update(cmd, "progress", od_table') \/ Update(cmd, "other", od_table'))
  /\ pc' = "reinit"
  /\ UNCHANGED <<locals, ftp_od_resp_sts, check, waiting, flag_set_by>>

LastPart == part = Parts[cmd]

(* Mutant: the last status of all events is commented out, as it is for a  *)
(* load survey.                                                            *)
ReinitSilent ==
  /\ pc = "reinit"
  /\ \/ Update(cmd, "failed", od_table) /\ failed' = TRUE
     \/ UNCHANGED <<ftp_od_cmd_resp, last, failed>>
  /\ IF LastPart THEN pc' = "end" /\ UNCHANGED part
                 ELSE pc' = "read" /\ part' = part + 1
  /\ UNCHANGED <<cmd, OD_CMD_RECEIVED, od_table, ftp_od_resp_sts, check, waiting, vague,
                 rows, flag_set_by, faults>>

(* init_dlms(midx) after each day or category.  All events end with the    *)
(* outcome of the last of these as their status, a load survey with none.  *)
Reinit ==
  /\ pc = "reinit"
  /\ \/ /\ Update(cmd, "failed", od_table) /\ failed' = TRUE
     \/ /\ IF Kind[cmd] = "events" /\ LastPart
             THEN Update(cmd, "success", od_table)
             ELSE UNCHANGED <<ftp_od_cmd_resp, last>>
        /\ UNCHANGED failed
  /\ IF LastPart THEN pc' = "end" /\ UNCHANGED part
                 ELSE pc' = "read" /\ part' = part + 1
  /\ UNCHANGED <<cmd, OD_CMD_RECEIVED, od_table, ftp_od_resp_sts, check, waiting, vague,
                 rows, flag_set_by, faults>>

(* Mutant: the load survey branch does not clear OD_CMD_RECEIVED. *)
EndKeepsFlag ==
  /\ pc = "end"
  /\ cmd' = NoCmd /\ part' = 0
  /\ last' = "none" /\ failed' = FALSE /\ vague' = FALSE
  /\ IF Kind[cmd] \in Unflagged \cup {"ls"} THEN UNCHANGED <<OD_CMD_RECEIVED, flag_set_by>>
                                      ELSE OD_CMD_RECEIVED' = 0 /\ flag_set_by' = NoCmd
  /\ pc' \in {"take", "llen"}
  /\ UNCHANGED <<od_table, lists, check, waiting, rows, faults>>

(* The end of the branch; the pass goes on with another command or ends.   *)
End ==
  /\ pc = "end"
  /\ cmd' = NoCmd /\ part' = 0
  /\ last' = "none" /\ failed' = FALSE /\ vague' = FALSE
  /\ IF Kind[cmd] \in Unflagged THEN UNCHANGED <<OD_CMD_RECEIVED, flag_set_by>>
                                ELSE OD_CMD_RECEIVED' = 0 /\ flag_set_by' = NoCmd
  /\ pc' \in {"take", "llen"}
  /\ UNCHANGED <<od_table, lists, check, waiting, rows, faults>>

(* No command of the port is left in this pass. *)
PassEnds ==
  /\ pc = "take" /\ pc' = "llen"
  /\ UNCHANGED <<locals, od_table, lists, check, waiting, answers, rows, flag_set_by, faults>>
-----------------------------------------------------------------------------
(* check_od_command_resp().                                                *)

(* An acknowledgement names an uploaded table of this port, or is of no    *)
(* use to it: another port's, no JSON, or without the names it needs.      *)
Acks == Tables \cup {NoTable}

CheckStart ==
  /\ pc = "llen"
  /\ list_len' = Len(ftp_od_resp_sts) /\ i' = 0 /\ UNCHANGED item
  /\ pc' = IF ftp_od_resp_sts = <<>> THEN "poll" ELSE "lindex"
  /\ UNCHANGED <<locals, od_table, lists, waiting, answers, rows, flag_set_by, faults>>

(* LLEN fails. *)
CheckFails ==
  /\ pc = "llen" /\ pc' = "poll"
  /\ Fault
  /\ UNCHANGED <<locals, od_table, lists, check, waiting, answers, rows, flag_set_by>>

NextAck ==
  /\ item' = NoTable
  /\ IF i + 1 < list_len THEN pc' = "lindex" /\ i' = i + 1 /\ UNCHANGED list_len
                         ELSE pc' = "poll" /\ i' = 0 /\ list_len' = 0

(* The element at i, which is not the one LLEN counted if the list has     *)
(* become shorter in between.                                              *)
Looked == ftp_od_resp_sts[i + 1]

(* Mutant: every on-demand table of the meter is dropped. *)
DropTables ==
  /\ pc = "lindex" /\ i < Len(ftp_od_resp_sts) /\ Looked # NoTable
  /\ item' = Looked
  /\ od_table' = [t \in Tables |-> {}]
  /\ pc' = "lrem"
  /\ UNCHANGED <<locals, lists, i, list_len, waiting, answers, rows, flag_set_by, faults>>

(* LINDEX, and drop_table(), whose result is ignored. *)
DropTable ==
  /\ pc = "lindex" /\ i < Len(ftp_od_resp_sts) /\ Looked # NoTable
  /\ item' = Looked
  /\ \/ Drop(item') /\ UNCHANGED faults
     \/ Fault /\ UNCHANGED <<od_table, rows>>
  /\ pc' = "lrem"
  /\ UNCHANGED <<locals, lists, i, list_len, waiting, answers, flag_set_by>>

(* `continue`, with the acknowledgement still on the list: it is of no use *)
(* to this port, or LINDEX or get_manufacturer() fails.                    *)
SkipAck ==
  /\ pc = "lindex" /\ i < Len(ftp_od_resp_sts)
  /\ (Looked = NoTable /\ UNCHANGED faults) \/ Fault
  /\ NextAck
  /\ UNCHANGED <<locals, od_table, lists, waiting, answers, rows, flag_set_by>>

(* LINDEX past the end: the list is shorter than it was. *)
NoAck ==
  /\ pc = "lindex" /\ i >= Len(ftp_od_resp_sts)
  /\ NextAck
  /\ UNCHANGED <<locals, od_table, lists, waiting, answers, rows, flag_set_by, faults>>

(* Mutant: LREM on the other list. *)
RemoveAckOtherList ==
  /\ pc = "lrem"
  /\ NextAck
  /\ UNCHANGED <<locals, od_table, lists, waiting, answers, rows, flag_set_by, faults>>

(* LREM ftp_od_resp_sts 1 of the text that was read; a failed one goes     *)
(* unnoticed.                                                              *)
RemoveAck ==
  /\ pc = "lrem"
  /\ \/ ftp_od_resp_sts' = RemoveFirst(ftp_od_resp_sts, item) /\ UNCHANGED faults
     \/ Fault /\ UNCHANGED ftp_od_resp_sts
  /\ NextAck
  /\ UNCHANGED <<locals, od_table, ftp_od_cmd_resp, waiting, answers, rows, flag_set_by>>
-----------------------------------------------------------------------------
(* A row of the periodic poll between two passes: createDataTable() takes  *)
(* the on-demand table if OD_CMD_RECEIVED is set.  Only those are followed. *)
PollRow == <<NoCmd, 0>>

Poll ==
  /\ pc = "poll" /\ pc' = "take"
  /\ \/ UNCHANGED <<od_table, rows>>
     \/ /\ OD_CMD_RECEIVED = 1
        /\ \E t \in Tables :
             /\ od_table' = [od_table EXCEPT ![t] = @ \cup {PollRow}]
             /\ NoteRow(t, PollRow)
  /\ UNCHANGED <<locals, lists, check, waiting, answers, flag_set_by, faults>>

(* The FTP process takes the oldest response, uploads the table it names   *)
(* and acknowledges.                                                       *)
Upload ==
  /\ ftp_od_cmd_resp # <<>>
  /\ ftp_od_cmd_resp' = Front(ftp_od_cmd_resp)
  /\ LET t == Last(ftp_od_cmd_resp).table
     IN IF t = NoTable THEN UNCHANGED <<uploaded, ftp_od_resp_sts>>
          ELSE /\ uploaded' = [uploaded EXCEPT ![t] = od_table[t]]
               /\ ftp_od_resp_sts' = Append(ftp_od_resp_sts, t)
  /\ UNCHANGED <<pc, locals, od_table, check, waiting, answers, overlapped, flag_set_by, faults>>

(* The FTP process acknowledges an upload of another port. *)
OtherAck ==
  /\ Cardinality({k \in DOMAIN ftp_od_resp_sts : ftp_od_resp_sts[k] = NoTable}) < MaxOther
  /\ ftp_od_resp_sts' = Append(ftp_od_resp_sts, NoTable)
  /\ UNCHANGED <<pc, locals, od_table, ftp_od_cmd_resp, check, waiting, answers, rows,
                 flag_set_by, faults>>

(* The process of that port removes it: what is behind it moves up. *)
OtherRemoves ==
  /\ \E k \in DOMAIN ftp_od_resp_sts :
       /\ ftp_od_resp_sts[k] = NoTable
       /\ ftp_od_resp_sts' = RemoveAt(ftp_od_resp_sts, k)
  /\ UNCHANGED <<pc, locals, od_table, ftp_od_cmd_resp, check, waiting, answers, rows,
                 flag_set_by, faults>>

(* The process dies and is started again; tables and lists stay. *)
Crash ==
  /\ Fault
  /\ pc' = "poll" /\ cmd' = NoCmd /\ part' = 0
  /\ OD_CMD_RECEIVED' = 0 /\ flag_set_by' = NoCmd
  /\ i' = 0 /\ list_len' = 0 /\ item' = NoTable
  /\ last' = "none" /\ failed' = FALSE /\ vague' = FALSE
  /\ UNCHANGED <<od_table, lists, waiting, rows>>

Program ==
  \/ \E c \in Cmds : NotFound(c) \/ NoParameter(c) \/ Unrecognised(c) \/ Begin(c)
  \/ InitDlms \/ InvalidDate \/ Act \/ ReadOnce \/ ReadDay \/ ReadCategory \/ Reinit \/ End \/ PassEnds
  \/ CheckStart \/ CheckFails \/ DropTable \/ SkipAck \/ NoAck \/ RemoveAck
  \/ Poll

Next == Program \/ Upload \/ OtherAck \/ OtherRemoves \/ Crash

Spec == Init /\ [][Next]_vars /\ WF_vars(Program)
-----------------------------------------------------------------------------
(* Properties *)

(* A row of a table by where it comes from; a response by what it names. *)
Rows == (Cmds \cup {NoCmd}) \X Nat
Responses == [table : Tables \cup {NoTable}, rows : SUBSET Rows]

PCs == {"take", "init", "act", "read", "reinit", "end", "llen", "lindex", "lrem", "poll"}

(* The places within a command's branch of process_od_cmd(). *)
Busy == {"init", "act", "read", "reinit", "end"}

TypeOK ==
  /\ pc \in PCs
  /\ cmd \in Cmds \cup {NoCmd}
  /\ pc \in Busy => cmd \in Cmds /\ part \in 1..Parts[cmd]
  /\ part \in Nat /\ i \in Nat /\ list_len \in Nat
  /\ OD_CMD_RECEIVED \in {0, 1}
  /\ item \in Tables \cup {NoTable}
  /\ ftp_od_cmd_resp \in Seq(Responses) /\ Len(ftp_od_cmd_resp) <= MaxResp
  /\ ftp_od_resp_sts \in Seq(Acks)
  /\ od_table \in [Tables -> SUBSET Rows]
  /\ uploaded \in [Tables -> SUBSET Rows] /\ overlapped \in [Tables -> SUBSET Rows]
  /\ waiting \subseteq Cmds
  /\ last \in Success \cup Failure \cup {"other", "progress", "none"}
  /\ {failed, vague} \subseteq BOOLEAN
  /\ flag_set_by \in Cmds \cup {NoCmd}
  /\ faults \in Nat

(* A command from the web page ends with a final status, whichever of its  *)
(* calls failed: it is not left "In Progress".  A load survey is: the last *)
(* update_cmd_status() of its branch is commented out.  A command that is  *)
(* not recognised is told nothing.                                         *)
WebAnswered ==
  pc = "end" /\ Source[cmd] = "web" /\ Kind[cmd] \notin {"ls", "unknown"} =>
    last \in {"success", "failed", "other"}

(* An MQTT client, which is sent only texts with "SUCCESS" or "Failed",    *)
(* gets an answer to every recognised command that has its parameter and   *)
(* ends in one of the two: a load survey by the statuses of its days.      *)
MqttAnswered ==
  pc = "end" /\ Source[cmd] = "mqtt" /\ Kind[cmd] # "unknown" /\ Param[cmd] = "given" /\ ~vague =>
    last # "none"

(* "SUCCESS" is the last word on a command only if none of its calls failed. *)
SuccessEarned == pc = "end" /\ last = "success" => ~failed

(* check_od_command_resp() discards only rows that were uploaded, except   *)
(* rows stored while an earlier upload of the same table was under way:    *)
(* the table's acknowledgement does not tell them apart.                   *)
LostOnlyOverlapped ==
  [][pc = "lindex" =>
       \A t \in Tables : od_table[t] \ od_table'[t] \subseteq uploaded[t] \cup overlapped[t]]_vars

(* What a response announces to the FTP process is in the table until the  *)
(* response is taken.                                                      *)
AnnouncedRowsStored ==
  \A k \in DOMAIN ftp_od_cmd_resp :
    LET resp == ftp_od_cmd_resp[k]
    IN resp.table # NoTable => resp.rows \subseteq od_table[resp.table]

(* A periodic row goes to an on-demand table only when the last command    *)
(* that set OD_CMD_RECEIVED returned before it could clear the flag: it    *)
(* lacked its parameter, or had a date that is none.                       *)
PeriodicRowsPlaced ==
  [][\A t \in Tables : PollRow \in od_table'[t] \ od_table[t] =>
       /\ flag_set_by # NoCmd
       /\ \/ Kind[flag_set_by] \in FlagFirst /\ Param[flag_set_by] = "missing"
          \/ Kind[flag_set_by] = "dated" /\ Param[flag_set_by] = "malformed"]_vars

(* Every acknowledgement of this port is consumed, although the walk skips *)
(* elements because it and the other ports shorten the list it indexes,    *)
(* and although a lookup or a removal may fail and leave it there.         *)
AcksConsumed ==
  \A t \in Tables : t \in Range(ftp_od_resp_sts) ~> t \notin Range(ftp_od_resp_sts)
=============================================================================
