--------------------------- MODULE DlmsLinkProofs ---------------------------
(***************************************************************************)
(* Proofs about DlmsLink, for any meters, either interface and any number  *)
(* of answers under way.                                                   *)
(***************************************************************************)
EXTENDS DlmsLink, SequenceTheorems, TLAPS

(* What the resend loop of readDLMSPacket() keeps: pos counts the resends  *)
(* of the packet that is waited for, a DISC is not sent again, and on a    *)
(* serial port every resend is a transmission.                             *)
ResendsCounted ==
  /\ pc = "send" => pos = 0 /\ sent = 0
  /\ pc = "wait" => /\ Disconnecting => pos = 0
                    /\ inf_type = "SERIAL" => sent = pos + 1
                    /\ inf_type = "PLCC" => sent = 1

(* A meter's status is booked only from its name plate on. *)
BookedAfterNamePlate == booked \subseteq np_polled_comp

LinkInv == TypeOK /\ ResendsCounted /\ BookedAfterNamePlate

(* The rest of a sequence of frames, a longer one, and one whose frames no *)
(* longer answer the packet, are sequences of frames.                      *)
LEMMA FrameQueues ==
  ASSUME NEW s \in Seq(Frames)
  PROVE  /\ Stale(s) \in Seq(Frames)
         /\ \A f \in Frames : Append(s, f) \in Seq(Frames)
         /\ s # <<>> => Head(s) \in Frames /\ Tail(s) \in Seq(Frames)
<1>1. s \in [1..Len(s) -> Frames] /\ Len(s) \in Nat
  BY LenProperties
<1>2. Stale(s) \in [1..Len(s) -> Frames]
  BY <1>1 DEF Stale, Frames
<1>3. Stale(s) \in Seq(Frames)
  BY <1>1, <1>2, IsASeq
<1> QED
  BY <1>3, AppendProperties, HeadTailProperties

(* Booking an outcome keeps the types. *)
LEMMA BookingTypes ==
  ASSUME TypeOK, BookAnswer \/ (BookNoAnswer /\ UNCHANGED curr_nc_idx)
  PROVE  /\ g_met_status_flag' \in [Meters -> BOOLEAN]
         /\ commn_status' \in [Meters -> Statuses]
         /\ booked' \subseteq Meters
BY DEF TypeOK, BookAnswer, BookNoAnswer, BookSilence, MeterCommnStatus, AnswerBooked, Lost,
       Statuses

(* Every call ends in a state of the call that follows it. *)
LEMMA CallTypes ==
  ASSUME TypeOK, Failed \/ Answered
  PROVE  stage' \in Stages /\ pc' \in {"free", "send"} /\ pos' = 0 /\ sent' = 0
BY DEF Failed, Answered, Call, Stages

(* Only a call and a partial answer write more. *)
LEMMA MoreType ==
  ASSUME TypeOK, [Next]_vars
  PROVE  more' \in BOOLEAN
<1>0. more \in BOOLEAN
  BY DEF TypeOK
<1>1. ASSUME Failed \/ Answered PROVE more' \in BOOLEAN
  BY <1>1, Zenon DEF Failed, Answered, Call
<1>2. CASE \/ \E m \in Meters : InitDlms(m)
           \/ Read \/ DisConnect \/ Restart
  BY <1>2, Zenon DEF InitDlms, Read, DisConnect, Restart, Call
<1>3. CASE \/ \E m \in Meters : NodeDown(m)
           \/ NamePlateRead \/ Send \/ Answer \/ UNCHANGED vars
  BY <1>0, <1>3, Zenon DEF NodeDown, NamePlateRead, Send, Answer, vars, link
<1>4. CASE Receive
  BY <1>0, <1>1, <1>4, Zenon DEF Receive, Complete
<1>5. CASE Timeout
  BY <1>0, <1>1, <1>5, Zenon DEF Timeout
<1>6. CASE SendFails \/ PortError
  BY <1>1, <1>6, Zenon DEF SendFails, PortError
<1> QED
  BY <1>2, <1>3, <1>4, <1>5, <1>6 DEF Next, Process

LEMMA TransmitTypes ==
  ASSUME TypeOK, NEW o \in Seq(Frames), Transmit(o)
  PROVE  owed' \in Seq(Frames) /\ sent' = sent + 1
<1>1. [meter |-> curr_nc_idx, fresh |-> TRUE, ua |-> AwaitsUA] \in Frames
  BY DEF TypeOK, Frames, AwaitsUA, Disconnecting
<1>2. Append(o, [meter |-> curr_nc_idx, fresh |-> TRUE,
                 ua |-> AwaitsUA]) \in Seq(Frames)
  BY <1>1, FrameQueues
<1> QED
  BY <1>2 DEF Transmit
-----------------------------------------------------------------------------
(* Calls and frames keep every type, and the counters of a packet say how  *)
(* often it was sent.                                                      *)
LEMMA LinkInvInductive == LinkInv /\ [Next]_vars => LinkInv'
<1> SUFFICES ASSUME LinkInv, [Next]_vars PROVE LinkInv'
  OBVIOUS
<1> USE DEF LinkInv
<1>0. owed \in Seq(Frames) /\ input \in Seq(Frames)
  BY DEF TypeOK
<1>m. more' \in BOOLEAN
  BY MoreType
<1>t. ASSUME NEW m \in Meters, InitDlms(m) PROVE LinkInv'
  BY <1>m, <1>t DEF InitDlms, Call, wire, status, TypeOK, ResendsCounted, BookedAfterNamePlate,
              Stages
<1>1. ASSUME NEW m \in Meters, NodeDown(m) PROVE LinkInv'
  BY <1>m, <1>1 DEF NodeDown, BookSilence, Lost, MeterCommnStatus, Statuses, wire, TypeOK, ResendsCounted,
              BookedAfterNamePlate
<1>2. CASE Read \/ DisConnect
  BY <1>m, <1>2 DEF Read, DisConnect, Call, wire, status, TypeOK, ResendsCounted,
              BookedAfterNamePlate, Stages
<1>3. CASE NamePlateRead
  BY <1>m, <1>3 DEF NamePlateRead, link, wire, TypeOK, ResendsCounted, BookedAfterNamePlate,
              Disconnecting
<1>4. CASE Send
  <2>1. Stale(owed) \in Seq(Frames) /\ Stale(input) \in Seq(Frames)
    BY <1>0, FrameQueues
  <2>2. owed' \in Seq(Frames) /\ sent' = sent + 1
    BY <1>4, <2>1, TransmitTypes DEF Send
  <2>3. TypeOK'
    BY <1>m, <1>4, <2>1, <2>2 DEF Send, TypeOK, ResendsCounted, status
  <2> QED
    BY <1>4, <2>2, <2>3 DEF Send, ResendsCounted, BookedAfterNamePlate, status
<1>5. CASE SendFails
  <2>1. /\ stage' \in Stages /\ pc' \in {"free", "send"}
        /\ pos' = 0 /\ sent' = 0
    BY <1>5, CallTypes DEF SendFails
  <2> QED
    BY <1>m, <1>5, <2>1 DEF SendFails, wire, status, TypeOK, ResendsCounted,
                      BookedAfterNamePlate
<1>6. CASE Receive
  <2>1. input' \in Seq(Frames) /\ UNCHANGED <<inf_type, curr_nc_idx, np_polled_comp, owed>>
    BY <1>0, <1>6, FrameQueues DEF Receive
  <2>2. /\ g_met_status_flag' \in [Meters -> BOOLEAN]
        /\ commn_status' \in [Meters -> Statuses]
        /\ booked' \subseteq Meters /\ booked' \subseteq np_polled_comp
    <3>1. CASE BookAnswer
      BY <3>1, BookingTypes DEF BookAnswer, AnswerBooked, BookedAfterNamePlate
    <3>2. CASE UNCHANGED <<g_met_status_flag, commn_status, booked>>
      BY <1>m, <3>2 DEF TypeOK, BookedAfterNamePlate
    <3> QED
      BY <1>6, <3>1, <3>2 DEF Receive, Complete
  <2>3. \/ /\ stage' \in Stages /\ pc' \in {"free", "send"}
           /\ pos' = 0 /\ sent' = 0
        \/ UNCHANGED <<stage, pc, pos, sent>>
    BY <1>6, CallTypes DEF Receive, Complete, TypeOK
  <2>4. TypeOK'
    BY <1>m, <2>1, <2>2, <2>3 DEF TypeOK
  <2>5. ResendsCounted'
    BY <2>1, <2>3 DEF ResendsCounted, Disconnecting
  <2> QED
    BY <2>1, <2>2, <2>4, <2>5 DEF BookedAfterNamePlate
<1>7. CASE Timeout
  <2>0. pc = "wait" /\ UNCHANGED <<inf_type, curr_nc_idx, input>>
    BY <1>7 DEF Timeout
  <2>1. CASE Failed /\ UNCHANGED <<owed, status>>
    <3>1. /\ stage' \in Stages /\ pc' \in {"free", "send"}
          /\ pos' = 0 /\ sent' = 0
      BY <2>1, CallTypes
    <3> QED
      BY <1>m, <2>0, <2>1, <3>1 DEF status, TypeOK, ResendsCounted, BookedAfterNamePlate
  <2>2. CASE BookNoAnswer /\ Failed /\ UNCHANGED owed
    <3>1. /\ stage' \in Stages /\ pc' \in {"free", "send"}
          /\ pos' = 0 /\ sent' = 0
      BY <2>2, CallTypes
    <3>2. /\ g_met_status_flag' \in [Meters -> BOOLEAN]
          /\ commn_status' \in [Meters -> Statuses]
          /\ UNCHANGED np_polled_comp /\ booked' \subseteq booked
      BY <2>0, <2>2, BookingTypes DEF BookNoAnswer, BookSilence
    <3> QED
      BY <1>m, <2>0, <2>2, <3>1, <3>2 DEF TypeOK, ResendsCounted, BookedAfterNamePlate
  <2>3. CASE /\ ~Disconnecting /\ pos < 3
             /\ pos' = pos + 1
             /\ IF inf_type = "PLCC" THEN UNCHANGED <<owed, sent>> ELSE Transmit(owed)
             /\ UNCHANGED <<stage, pc, more, status>>
    <3>1. owed' \in Seq(Frames)
      BY <1>0, <2>3, TransmitTypes
    <3>2. IF inf_type = "PLCC" THEN sent' = sent ELSE sent' = sent + 1
      BY <2>3 DEF Transmit
    <3>3. inf_type \in {"SERIAL", "PLCC"} /\ pos \in 0..3
      BY DlmsLinkAssumption DEF TypeOK
    <3>4. sent' \in 0..4 /\ pos' \in 0..3
      BY <2>0, <2>3, <3>2, <3>3 DEF ResendsCounted
    <3>5. ResendsCounted'
      BY <2>0, <2>3, <3>2, <3>3 DEF ResendsCounted, Disconnecting
    <3> QED
      BY <1>m, <2>0, <2>3, <3>1, <3>4, <3>5 DEF status, TypeOK, BookedAfterNamePlate
  <2> QED
    BY <1>7, <2>1, <2>2, <2>3 DEF Timeout
<1>8. CASE PortError
  <2>1. /\ stage' \in Stages /\ pc' \in {"free", "send"}
        /\ pos' = 0 /\ sent' = 0
        /\ UNCHANGED <<inf_type, curr_nc_idx, wire>>
    BY <1>8, CallTypes DEF PortError
  <2>2. /\ g_met_status_flag' \in [Meters -> BOOLEAN]
        /\ commn_status' \in [Meters -> Statuses]
        /\ UNCHANGED np_polled_comp /\ booked' \subseteq booked
    <3>1. CASE BookNoAnswer
      BY <2>1, <3>1, BookingTypes DEF BookNoAnswer, BookSilence
    <3>2. CASE UNCHANGED status
      BY <3>2 DEF status, TypeOK
    <3> QED
      BY <1>8, <3>1, <3>2 DEF PortError
  <2> QED
    BY <1>m, <2>1, <2>2 DEF wire, TypeOK, ResendsCounted, BookedAfterNamePlate
<1>9. CASE Answer
  <2>1. owed' \in Seq(Frames) /\ input' \in Seq(Frames)
    BY <1>0, <1>9, FrameQueues DEF Answer
  <2> QED
    BY <1>m, <1>9, <2>1 DEF Answer, link, status, TypeOK, ResendsCounted,
                      BookedAfterNamePlate, Disconnecting
<1>10. CASE Restart
  <2>1. input' \in Seq(Frames)
    BY <1>0, <1>10, EmptySeq DEF Restart
  <2>2. g_met_status_flag' \in [Meters -> BOOLEAN]
    BY <1>10, Zenon DEF Restart
  <2>3. /\ stage' \in Stages /\ pc' \in {"free", "send"} /\ pos' = 0 /\ sent' = 0
        /\ np_polled_comp' = {} /\ booked' = {}
        /\ UNCHANGED <<inf_type, curr_nc_idx, owed, commn_status>>
    BY <1>10 DEF Restart, Call, Stages
  <2> QED
    BY <1>m, <1>10, <2>1, <2>2, <2>3 DEF Restart, Call, TypeOK, ResendsCounted,
                                         BookedAfterNamePlate
<1>11. CASE UNCHANGED vars
  BY <1>m, <1>11 DEF vars, link, wire, status, TypeOK, ResendsCounted, BookedAfterNamePlate,
               Disconnecting
<1> QED
  BY <1>t, <1>1, <1>2, <1>3, <1>4, <1>5, <1>6, <1>7, <1>8, <1>9, <1>10, <1>11
  DEF Next, Process

LEMMA LinkInvInvariant == Spec => []LinkInv
<1>1. Init => LinkInv
  <2> SUFFICES ASSUME Init PROVE LinkInv
    OBVIOUS
  <2>1. more \in BOOLEAN /\ g_met_status_flag \in [Meters -> BOOLEAN]
    BY Zenon DEF Init
  <2>2. owed \in Seq(Frames) /\ input \in Seq(Frames)
    BY EmptySeq DEF Init
  <2>3. /\ stage \in Stages /\ pc = "free" /\ pos = 0 /\ sent = 0
        /\ np_polled_comp = {} /\ booked = {}
        /\ inf_type \in Interfaces /\ curr_nc_idx \in Meters
        /\ commn_status \in [Meters -> Statuses]
    BY DEF Init, Stages
  <2> QED
    BY <2>1, <2>2, <2>3 DEF LinkInv, TypeOK, ResendsCounted, BookedAfterNamePlate
<1> QED
  BY <1>1, LinkInvInductive, PTL DEF Spec

(* The state of the link keeps its types: in particular no packet of       *)
(* readDLMSPacket() goes out more than four times.                         *)
THEOREM LinkTypeCorrect == Spec => []TypeOK
BY LinkInvInvariant, PTL DEF LinkInv

(* Redis and the last event of a meter disagree at most while the last     *)
(* status due to it was one that Redis did not take: not for any answers   *)
(* that come late, are lost or belong to another packet, not for a status  *)
(* lost before that one, and not for what an earlier process left in Redis. *)
THEOREM StatusAgrees == Spec => []StatusFollowsEvents
<1>1. Init => StatusFollowsEvents
  BY DEF Init, StatusFollowsEvents
<1>2. LinkInv /\ StatusFollowsEvents /\ [Next]_vars => StatusFollowsEvents'
  <2> SUFFICES ASSUME LinkInv, StatusFollowsEvents, [Next]_vars
               PROVE  StatusFollowsEvents'
    OBVIOUS
  <2>t. /\ g_met_status_flag \in [Meters -> BOOLEAN]
        /\ commn_status \in [Meters -> Statuses]
        /\ booked \subseteq np_polled_comp /\ np_polled_comp \subseteq Meters
        /\ curr_nc_idx \in Meters
    BY DEF LinkInv, TypeOK, BookedAfterNamePlate
  <2>1. ASSUME UNCHANGED <<inf_type, g_met_status_flag, commn_status, booked>>
        PROVE  StatusFollowsEvents'
    BY <2>1 DEF StatusFollowsEvents
  <2>2. ASSUME BookAnswer, UNCHANGED inf_type PROVE StatusFollowsEvents'
    <3>1. PICK taken \in BOOLEAN :
            MeterCommnStatus(curr_nc_idx, "Communicating", taken) /\ AnswerBooked(taken)
      BY <2>2 DEF BookAnswer
    <3>2. g_met_status_flag' = [g_met_status_flag EXCEPT ![curr_nc_idx] = TRUE]
      BY <2>2 DEF BookAnswer
    <3> QED
      BY <2>t, <2>2, <3>1, <3>2
      DEF StatusFollowsEvents, MeterCommnStatus, AnswerBooked, Lost
  <2>3. ASSUME BookNoAnswer, UNCHANGED inf_type PROVE StatusFollowsEvents'
    <3>0. g_met_status_flag' = [g_met_status_flag EXCEPT ![curr_nc_idx] = FALSE]
      BY <2>3 DEF BookNoAnswer
    <3>1. CASE g_met_status_flag[curr_nc_idx]
      <4>1. PICK taken \in BOOLEAN :
              /\ MeterCommnStatus(curr_nc_idx, "Not Communicating", taken)
              /\ booked' = booked \ Lost(curr_nc_idx, taken)
        BY <2>3, <3>1 DEF BookNoAnswer, BookSilence
      <4> QED
        BY <2>t, <2>3, <3>0, <4>1 DEF StatusFollowsEvents, MeterCommnStatus, Lost
    <3>2. CASE ~g_met_status_flag[curr_nc_idx]
      <4>1. UNCHANGED <<commn_status, booked>>
        BY <2>3, <3>2 DEF BookNoAnswer
      <4>2. \A m \in Meters : g_met_status_flag'[m] = g_met_status_flag[m]
        BY <2>t, <3>0, <3>2
      <4> QED
        BY <2>t, <2>3, <4>1, <4>2 DEF StatusFollowsEvents
    <3> QED
      BY <3>1, <3>2
  <2>4. ASSUME NEW m \in Meters, NodeDown(m) PROVE StatusFollowsEvents'
    <3>1. PICK taken \in BOOLEAN :
            /\ MeterCommnStatus(m, "Not Communicating", taken)
            /\ booked' = booked \ Lost(m, taken)
      BY <2>4 DEF NodeDown, BookSilence
    <3>2. inf_type = "PLCC" /\ UNCHANGED <<inf_type, g_met_status_flag>>
      BY <2>4 DEF NodeDown
    <3> QED
      BY <2>t, <3>1, <3>2 DEF StatusFollowsEvents, MeterCommnStatus, Lost
  <2>5. CASE Restart
    BY <2>5 DEF Restart, StatusFollowsEvents
  <2>6. CASE Receive
    BY <2>1, <2>2, <2>6 DEF Receive, Complete
  <2>7. CASE Timeout
    BY <2>1, <2>3, <2>7 DEF Timeout, status
  <2>8. CASE PortError
    BY <2>1, <2>3, <2>8 DEF PortError, status
  <2>9. CASE \/ \E m \in Meters : InitDlms(m)
             \/ Read \/ NamePlateRead \/ DisConnect \/ Send \/ SendFails \/ Answer
             \/ UNCHANGED vars
    BY <2>1, <2>9 DEF InitDlms, Read, NamePlateRead, DisConnect, Send, SendFails, Answer,
                      vars, status
  <2> QED
    BY <2>4, <2>5, <2>6, <2>7, <2>8, <2>9 DEF Next, Process
<1> QED
  BY <1>1, <1>2, LinkInvInvariant, PTL DEF Spec

(* No meter is reported silent for an unanswered DISC, or on a serial port *)
(* before its packet was on the wire four times.                           *)
THEOREM SilenceEarned == Spec => NotCommunicatingEarned
<1> DEFINE Earned ==
      \A m \in Meters :
        g_met_status_flag[m] /\ ~g_met_status_flag'[m] =>
          /\ m = curr_nc_idx /\ ~Disconnecting
          /\ inf_type = "SERIAL" => sent = 4
<1>1. LinkInv /\ [Next]_vars => Earned
  <2> SUFFICES ASSUME LinkInv, [Next]_vars PROVE Earned
    OBVIOUS
  <2>t. /\ g_met_status_flag \in [Meters -> BOOLEAN]
        /\ pc = "wait" => /\ Disconnecting => pos = 0
                          /\ inf_type = "SERIAL" => sent = pos + 1
    BY DEF LinkInv, TypeOK, ResendsCounted
  <2>1. ASSUME UNCHANGED g_met_status_flag PROVE Earned
    BY <2>1
  <2>2. ASSUME BookAnswer PROVE Earned
    BY <2>t, <2>2 DEF BookAnswer
  <2>3. ASSUME BookNoAnswer, pc = "wait", pos = 3 PROVE Earned
    <3>1. ~Disconnecting /\ (inf_type = "SERIAL" => sent = 4)
      BY <2>t, <2>3
    <3>2. g_met_status_flag' = [g_met_status_flag EXCEPT ![curr_nc_idx] = FALSE]
      BY <2>3 DEF BookNoAnswer
    <3>3. \A m \in Meters : m # curr_nc_idx => g_met_status_flag'[m] = g_met_status_flag[m]
      BY <2>t, <3>2
    <3> QED
      BY <3>1, <3>3, Zenon
  <2>4. CASE Restart
    BY <2>4 DEF Restart
  <2>5. CASE Receive
    BY <2>1, <2>2, <2>5 DEF Receive, Complete
  <2>6. CASE Timeout
    BY <2>1, <2>3, <2>6 DEF Timeout, status
  <2>7. CASE PortError
    BY <2>1, <2>3, <2>7 DEF PortError, status
  <2>8. CASE \/ \E m \in Meters : InitDlms(m) \/ NodeDown(m)
             \/ Read \/ NamePlateRead \/ DisConnect \/ Send \/ SendFails \/ Answer
             \/ UNCHANGED vars
    BY <2>1, <2>8 DEF InitDlms, NodeDown, Read, NamePlateRead, DisConnect, Send, SendFails,
                      Answer, vars, status
  <2> QED
    BY <2>4, <2>5, <2>6, <2>7, <2>8 DEF Next, Process
<1>2. LinkInv /\ [Next]_vars => [Earned]_<<link, status>>
  BY <1>1
<1> QED
  BY <1>2, LinkInvInvariant, PTL DEF Spec, NotCommunicatingEarned
=============================================================================
