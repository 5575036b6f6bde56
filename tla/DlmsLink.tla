------------------------------ MODULE DlmsLink ------------------------------
(***************************************************************************)
(* One serial port or PLCC modem between the data-acquisition process and  *)
(* its meters: readDLMSPacket(), com_readDataBlock(), com_disconnect() and *)
(* com_initializeConnection() of src/src/communication.c, init_dlms() and  *)
(* dis_connect() of src/src/dlms_rel.c, and meter_commn_status() of        *)
(* src/src/redis.c.  A request is sent, waited for and sent again; meters  *)
(* answer, answer late, or do not.  An answer that comes late stays in the *)
(* port's input queue, and what it means to the next request is left to    *)
(* the DLMS library (cl_getData2), which is not part of the repository.    *)
(***************************************************************************)
EXTENDS Naturals, Sequences

CONSTANTS Meters,       \* the meter indices of the port
          Interfaces,   \* the values of feature_cfg.meter_inf_type
          MaxFrames     \* bound: answers due or queued; others are lost

ASSUME DlmsLinkAssumption ==
  /\ Interfaces \subseteq {"SERIAL", "PLCC"}
  /\ MaxFrames \in Nat

VARIABLES inf_type,           \* feature_cfg.meter_inf_type
          stage,              \* the call under way, or the state it left
          pc,                 \* "free", or the packet is to be sent, or waited for
          curr_nc_idx,        \* the meter the connection addresses
          pos,                \* resends of this packet
          more,               \* the packet asks for the rest of an answer
          owed,               \* the answers meters will give, in order
          input,              \* the port's input queue
          g_met_status_flag,  \* the last event: TRUE after "communicating"
          np_polled_comp,     \* meters whose name plate was read
          commn_status,       \* the Redis hash meter_commn_status
          sent,               \* history: transmissions of this packet
          booked              \* history: meters that answered since their name plate,
                              \* but for those whose last status Redis did not take

link   == <<stage, pc, curr_nc_idx, pos, more>>
wire   == <<owed, input>>
status == <<g_met_status_flag, np_polled_comp, commn_status, booked>>
vars   == <<inf_type, link, wire, status, sent>>

(* The calls in the order init_dlms(), polls and dis_connect() make them.  *)
(* The four in the second line read the invocation counter of some PLCC    *)
(* meters, com_updateInvocationCounter(), in an association of their own.  *)
Stages == {"idle", "init_disc", "snrm", "aarq", "open", "disc",
           "ic_snrm", "ic_aarq", "ic_read", "ic_disc"}

(* disc_ret = 1. *)
Disconnecting == stage \in {"init_disc", "ic_disc", "disc"}

(* What is sent is answered by a UA frame. *)
AwaitsUA == Disconnecting \/ stage \in {"snrm", "ic_snrm"}

(* What com_read() asks for may come in several parts. *)
Reading == stage \in {"open", "ic_read"}

(* An answer: its meter, whether it is a UA frame, and whether it answers  *)
(* the packet that is waited for.                                          *)
Frames == [meter : Meters, ua : BOOLEAN, fresh : BOOLEAN]

(* What the hash holds for a meter. *)
Statuses == {"none", "Communicating", "Not Communicating"}

(* init_dlms_proc() takes every meter for communicating.  Redis holds what *)
(* an earlier process wrote.                                               *)
Init ==
  /\ inf_type \in Interfaces
  /\ stage = "idle" /\ pc = "free" /\ pos = 0 /\ more = FALSE /\ sent = 0
  /\ curr_nc_idx \in Meters
  /\ g_met_status_flag = [m \in Meters |-> TRUE]
  /\ np_polled_comp = {} /\ booked = {}
  /\ owed = <<>> /\ input = <<>>
  /\ commn_status \in [Meters -> Statuses]
-----------------------------------------------------------------------------
(* Booking an outcome. *)

(* meter_commn_status(m, s) writes only if the name plate was read.  It    *)
(* returns -1, and taken is FALSE, when the connection is in error, the    *)
(* serial number cannot be looked up, or HSET fails; no caller looks at    *)
(* what it returns.                                                        *)
MeterCommnStatus(m, s, taken) ==
  IF m \in np_polled_comp /\ taken
    THEN commn_status' = [commn_status EXCEPT ![m] = s]
    ELSE UNCHANGED commn_status

Lost(m, taken) == IF taken THEN {} ELSE {m}

AnswerBooked(taken) ==
  booked' = (booked \cup ({curr_nc_idx} \cap np_polled_comp)) \ Lost(curr_nc_idx, taken)

(* Mutant: the status is written only along with the event. *)
BookAnswerOnChange ==
  /\ \E taken \in BOOLEAN :
       IF g_met_status_flag[curr_nc_idx]
         THEN UNCHANGED commn_status /\ AnswerBooked(TRUE)
         ELSE MeterCommnStatus(curr_nc_idx, "Communicating", taken) /\ AnswerBooked(taken)
  /\ g_met_status_flag' = [g_met_status_flag EXCEPT ![curr_nc_idx] = TRUE]

(* The first packet of a message was answered: the status is written every *)
(* time.                                                                   *)
BookAnswer ==
  /\ \E taken \in BOOLEAN :
       MeterCommnStatus(curr_nc_idx, "Communicating", taken) /\ AnswerBooked(taken)
  /\ g_met_status_flag' = [g_met_status_flag EXCEPT ![curr_nc_idx] = TRUE]

(* The status without a meter's answer. *)
BookSilence(m) ==
  \E taken \in BOOLEAN :
    /\ MeterCommnStatus(m, "Not Communicating", taken)
    /\ booked' = booked \ Lost(m, taken)

(* The last resend was not answered: the status is written along with the  *)
(* event, once.                                                            *)
BookNoAnswer ==
  /\ IF g_met_status_flag[curr_nc_idx]
       THEN BookSilence(curr_nc_idx)
       ELSE UNCHANGED <<commn_status, booked>>
  /\ g_met_status_flag' = [g_met_status_flag EXCEPT ![curr_nc_idx] = FALSE]
  /\ UNCHANGED np_polled_comp
-----------------------------------------------------------------------------
(* The calls. *)

Call(st, p) == stage' = st /\ pc' = p /\ pos' = 0 /\ sent' = 0 /\ more' = FALSE

(* com_readDataBlock returns.  init_dlms goes on after its DISCs whatever  *)
(* came of them; an SNRM or AARQ answer that does not parse, or a counter  *)
(* that is not read, ends it.                                              *)
Failed ==
  \/ stage = "init_disc" /\ Call("snrm", "send")
  \/ stage = "init_disc" /\ inf_type = "PLCC" /\ Call("ic_snrm", "send")
  \/ stage = "ic_disc" /\ Call("snrm", "send")
  \/ stage = "open" /\ Call("open", "free")
  \/ stage \notin {"init_disc", "ic_disc", "open"} /\ Call("idle", "free")

Answered ==
  \/ stage = "ic_snrm" /\ Call("ic_aarq", "send")
  \/ stage = "ic_aarq" /\ Call("ic_read", "send")
  \/ stage = "ic_read" /\ Call("ic_disc", "send")
  \/ stage = "snrm" /\ Call("aarq", "send")
  \/ stage = "aarq" /\ Call("open", "free")
  \/ Failed

(* init_dlms(m), at the start of every poll, whatever became of the        *)
(* session before.  With PLCC the manufacturer's name decides: some meters *)
(* are not sent the DISC, and of a name it does not know init_dlms says 0  *)
(* without an exchange.                                                    *)
InitDlms(m) ==
  /\ pc = "free"
  /\ curr_nc_idx' = m
  /\ \/ Call("init_disc", "send")
     \/ inf_type = "PLCC" /\ (Call("snrm", "send") \/ Call("open", "free"))
  /\ UNCHANGED <<inf_type, wire, status>>

(* A poll function reads an attribute. *)
Read ==
  /\ pc = "free" /\ stage = "open"
  /\ Call("open", "send")
  /\ UNCHANGED <<inf_type, curr_nc_idx, wire, status>>

(* get_name_plate() returns RET_OK.  It tests its reads for a negative     *)
(* return only, which a receive failure is not.                            *)
NamePlateRead ==
  /\ pc = "free" /\ stage = "open"
  /\ np_polled_comp' = np_polled_comp \cup {curr_nc_idx}
  /\ UNCHANGED <<inf_type, link, wire, g_met_status_flag, commn_status, booked, sent>>

(* dis_connect().  Its tcflush is given a pointer for the descriptor and   *)
(* flushes nothing.                                                        *)
DisConnect ==
  /\ pc = "free" /\ stage = "open"
  /\ Call("disc", "send")
  /\ UNCHANGED <<inf_type, curr_nc_idx, wire, status>>

(* A poll of a PLCC node whose rs_status is 0: the status without event.   *)
NodeDown(m) ==
  /\ pc = "free" /\ inf_type = "PLCC"
  /\ curr_nc_idx' = m
  /\ BookSilence(m)
  /\ UNCHANGED <<inf_type, stage, pc, pos, more, wire, g_met_status_flag,
                 np_polled_comp, sent>>
-----------------------------------------------------------------------------
(* readDLMSPacket. *)

Stale(s) == [i \in DOMAIN s |-> [s[i] EXCEPT !.fresh = FALSE]]

(* The packet goes out over a bus whose older answers are o; the meter     *)
(* will answer it, or not.                                                 *)
Transmit(o) ==
  /\ sent' = sent + 1
  /\ owed' \in {o} \cup
       (IF Len(o) + Len(input) < MaxFrames
          THEN {Append(o, [meter |-> curr_nc_idx, fresh |-> TRUE,
                           ua |-> AwaitsUA])}
          ELSE {})

(* The first sendData.  Whatever is still due or queued by now answers an  *)
(* earlier packet; the queue is not emptied.                               *)
Send ==
  /\ pc = "send"
  /\ Transmit(Stale(owed))
  /\ input' = Stale(input)
  /\ pc' = "wait"
  /\ UNCHANGED <<inf_type, stage, curr_nc_idx, pos, more, status>>

(* The port does not take all of the bytes. *)
SendFails ==
  /\ pc = "send"
  /\ Failed
  /\ UNCHANGED <<inf_type, curr_nc_idx, wire, status>>

(* The library takes a frame for the answer: it is, or it is a UA of the   *)
(* same meter, which does not tell what it acknowledges.                   *)
Accepted(f) == f.fresh \/ (f.ua /\ f.meter = curr_nc_idx /\ AwaitsUA)

(* The reply is complete.  An answer to a read may have a further part,    *)
(* which is asked for; only the first part is booked.                      *)
Complete ==
  /\ Accepted(Head(input))
  /\ IF more THEN UNCHANGED <<g_met_status_flag, commn_status, booked>> ELSE BookAnswer
  /\ \/ Answered
     \/ /\ Reading /\ pc' = "send"
        /\ more' = TRUE /\ pos' = 0 /\ sent' = 0 /\ UNCHANGED stage

(* A frame completes the reply, or is passed over, or is an error that     *)
(* ends the request without being booked.                                  *)
Receive ==
  /\ pc = "wait" /\ input # <<>>
  /\ input' = Tail(input)
  /\ \/ Complete
     \/ UNCHANGED <<stage, pc, pos, more, sent, g_met_status_flag, commn_status, booked>>
     \/ Failed /\ UNCHANGED <<g_met_status_flag, commn_status, booked>>
  /\ UNCHANGED <<inf_type, curr_nc_idx, np_polled_comp, owed>>

(* Mutant: a DISC is sent again and booked like any other packet. *)
TimeoutBooksDisc ==
  /\ pc = "wait" /\ input = <<>>
  /\ IF pos = 3
       THEN BookNoAnswer /\ Failed /\ UNCHANGED owed
       ELSE /\ pos' = pos + 1 /\ Transmit(owed)
            /\ UNCHANGED <<stage, pc, more, status>>
  /\ UNCHANGED <<inf_type, curr_nc_idx, input>>

(* Mutant: pos wraps instead of ending the retries. *)
TimeoutForever ==
  /\ pc = "wait" /\ input = <<>>
  /\ IF Disconnecting
       THEN Failed
       ELSE pos' = (pos + 1) % 4 /\ sent' = pos' + 1 /\ UNCHANGED <<stage, pc, more>>
  /\ UNCHANGED <<inf_type, curr_nc_idx, wire, status>>

(* Mutant: the retries end when pos has passed 3. *)
TimeoutOneMore ==
  /\ pc = "wait" /\ input = <<>>
  /\ IF Disconnecting \/ pos > 3
       THEN Failed /\ UNCHANGED owed
       ELSE pos' = pos + 1 /\ Transmit(owed) /\ UNCHANGED <<stage, pc, more>>
  /\ UNCHANGED <<inf_type, curr_nc_idx, input, status>>

(* Nothing came within waitTime.  A DISC is given up at once; others are   *)
(* sent again three times.  With PLCC the frame is in plcc_data, but it is *)
(* send_data, of size 0, that is sent again.                               *)
Timeout ==
  /\ pc = "wait" /\ input = <<>>
  /\ \/ Disconnecting /\ Failed /\ UNCHANGED <<owed, status>>
     \/ ~Disconnecting /\ pos = 3 /\ BookNoAnswer /\ Failed /\ UNCHANGED owed
     \/ /\ ~Disconnecting /\ pos < 3
        /\ pos' = pos + 1
        /\ IF inf_type = "PLCC" THEN UNCHANGED <<owed, sent>> ELSE Transmit(owed)
        /\ UNCHANGED <<stage, pc, more, status>>
     \/ ~Disconnecting /\ pos < 3 /\ Failed /\ UNCHANGED <<owed, status>>
  /\ UNCHANGED <<inf_type, curr_nc_idx, input>>

(* read() fails for another reason than an empty queue. *)
PortError ==
  /\ pc = "wait"
  /\ IF pos = 3 THEN BookNoAnswer ELSE UNCHANGED status
  /\ Failed
  /\ UNCHANGED <<inf_type, curr_nc_idx, wire>>
-----------------------------------------------------------------------------
(* A meter's answer arrives, or is lost on the way. *)
Answer ==
  /\ owed # <<>>
  /\ owed' = Tail(owed)
  /\ input' \in {Append(input, Head(owed)), input}
  /\ UNCHANGED <<inf_type, link, status, sent>>

(* The process is restarted; Redis keeps what it wrote. *)
Restart ==
  /\ Call("idle", "free")
  /\ g_met_status_flag' = [m \in Meters |-> TRUE]
  /\ np_polled_comp' = {} /\ booked' = {}
  /\ input' \in {input, <<>>}
  /\ UNCHANGED <<inf_type, curr_nc_idx, owed, commn_status>>

Process == Send \/ Receive \/ Timeout

Next ==
  \/ \E m \in Meters : InitDlms(m) \/ NodeDown(m)
  \/ Read \/ NamePlateRead \/ DisConnect
  \/ Process \/ SendFails \/ PortError
  \/ Answer \/ Restart

(* One thread, whose calls on the port return.  The port need not fail,    *)
(* and meters need not answer.                                             *)
Spec == Init /\ [][Next]_vars /\ WF_vars(Process)
-----------------------------------------------------------------------------
(* Properties *)

(* Every variable keeps its type; a packet is sent at most four times and  *)
(* the receive queue stays bounded.                                        *)
TypeOK ==
  /\ inf_type \in Interfaces
  /\ stage \in Stages /\ pc \in {"free", "send", "wait"}
  /\ curr_nc_idx \in Meters
  /\ pos \in 0..3 /\ sent \in 0..4 /\ more \in BOOLEAN
  /\ owed \in Seq(Frames) /\ input \in Seq(Frames)
  /\ g_met_status_flag \in [Meters -> BOOLEAN]
  /\ np_polled_comp \subseteq Meters /\ booked \subseteq Meters
  /\ commn_status \in [Meters -> Statuses]

(* Redis agrees with the events, from a meter's first answer after its     *)
(* name plate was read, unless Redis did not take the meter's last status. *)
(* A lost "Communicating" is thus made up for by any later answer, since   *)
(* every answer writes it; a lost "Not Communicating" stays lost until the *)
(* meter answers, since silence writes along with the event, once.  Redis  *)
(* may hold any status an earlier process left there.  A PLCC node that is *)
(* down has the status alone, without an event.                            *)
StatusFollowsEvents ==
  \A m \in booked :
    /\ ~g_met_status_flag[m] => commn_status[m] = "Not Communicating"
    /\ inf_type = "SERIAL" /\ g_met_status_flag[m] => commn_status[m] = "Communicating"

(* "Meter is not communicating" is logged only for the addressed meter,    *)
(* never because of a DISC, and on a serial port only after the packet has *)
(* been on the wire four times: one lost answer does not raise it.         *)
NotCommunicatingEarned ==
  [][\A m \in Meters :
       g_met_status_flag[m] /\ ~g_met_status_flag'[m] =>
         /\ m = curr_nc_idx /\ ~Disconnecting
         /\ inf_type = "SERIAL" => sent = 4]_<<link, status>>

(* Every call returns: late answers to earlier packets and resends do not  *)
(* keep readDLMSPacket, and init_dlms around it, in their loops.  Only a   *)
(* meter that announces more data after every part keeps a read going.     *)
CallsReturn == pc # "free" ~> pc = "free" \/ more
=============================================================================
