------------------------- MODULE PollSessionProofs -------------------------
(***************************************************************************)
(* Proofs about PollSession, for any number of meters, both interfaces and *)
(* any tables of poll functions.                                           *)
(***************************************************************************)
EXTENDS PollSession, SequenceTheorems, TLAPS

(* The types, in the groups the actions change together. *)
Phases == {"nameplate", "init", "catchup", "old", "idle"}
StepNames == {"pass", "turn", "connect", "read", "disconnect", "inst_od", "inst_poll"}

LoopsTyped ==
  /\ meter_inf_type \in Interfaces
  /\ phase \in Phases /\ step \in StepNames
  /\ day \in 0..OldDays
  /\ fn \in Nat
  /\ phase = "init" => fn \in 1..Len(InitFns)
  /\ phase = "old" => fn \in 1..Len(OldFns)
  /\ phase = "idle" => fn \in 1..Len(IdleFns)
  /\ midx \in Meters /\ inst \in Meters

SessionTyped ==
  /\ curr_nc_idx \in Meters /\ target \in Meters
  /\ exchange \in [asked : Meters, addressed : Meters, booked : Meters]

FlagsTyped ==
  /\ np_polled_comp \subseteq Meters
  /\ init_polled_comp \subseteq Retried \X Meters
  /\ got_all \subseteq Retried \X Meters

BooleansTyped == connected \in BOOLEAN /\ event_group_active \in BOOLEAN

LEMMA TypeGroups ==
  TypeOK <=> LoopsTyped /\ SessionTyped /\ FlagsTyped /\ BooleansTyped
<1>1. {midx, inst, curr_nc_idx, target} \subseteq Meters <=>
        midx \in Meters /\ inst \in Meters /\ curr_nc_idx \in Meters /\ target \in Meters
  OBVIOUS
<1>2. {connected, event_group_active} \subseteq BOOLEAN <=>
        connected \in BOOLEAN /\ event_group_active \in BOOLEAN
  OBVIOUS
<1> QED
  BY <1>1, <1>2, Zenon DEF TypeOK, LoopsTyped, SessionTyped, FlagsTyped, BooleansTyped,
     Phases, StepNames

(* The constants, and what depends on the interface, which never changes. *)
LEMMA TablesFacts ==
  ASSUME meter_inf_type \in Interfaces
  PROVE  /\ NumMeters \in Nat /\ NumMeters > 0 /\ OldDays \in Nat
         /\ Meters = 0..NumMeters - 1 /\ 0 \in Meters
         /\ InitFns \in Seq(Fns \cup Events) /\ Len(InitFns) \in Nat /\ Len(InitFns) > 0
         /\ OldFns \in Seq(Fns \cup Events) /\ Len(OldFns) \in Nat /\ Len(OldFns) > 0
         /\ Len(IdleFns) = 8
<1>1. /\ InitFns \in Seq(Fns \cup Events) /\ InitFns # <<>>
      /\ OldFns \in Seq(Fns \cup Events) /\ OldFns # <<>>
  BY PollSessionAssumption DEF InitFns, OldFns
<1>2. Len(InitFns) \in Nat /\ Len(InitFns) > 0 /\ Len(OldFns) \in Nat /\ Len(OldFns) > 0
  BY <1>1, LenProperties, EmptySeq
<1>3. NumMeters \in Nat /\ NumMeters > 0 /\ OldDays \in Nat
  BY PollSessionAssumption
<1>4. Len(IdleFns) = 8
  BY DEF IdleFns
<1>5. 0 \in Meters
  BY <1>3 DEF Meters
<1> QED
  BY <1>1, <1>2, <1>3, <1>4, <1>5 DEF Meters

LEMMA SameTables ==
  ASSUME UNCHANGED meter_inf_type
  PROVE  InitFns' = InitFns /\ OldFns' = OldFns /\ (Plcc' <=> Plcc)
BY DEF InitFns, OldFns, Plcc

(* The loops stay within their bounds. *)
LEMMA NextTurnTyped ==
  ASSUME LoopsTyped, NextTurn, UNCHANGED meter_inf_type
  PROVE  LoopsTyped'
<1>1. LoopsTyped' <=>
        /\ phase' \in Phases /\ step' \in StepNames
        /\ day' \in 0..OldDays /\ fn' \in Nat
        /\ phase' = "init" => fn' \in 1..Len(InitFns)
        /\ phase' = "old" => fn' \in 1..Len(OldFns)
        /\ phase' = "idle" => fn' \in 1..Len(IdleFns)
        /\ midx' \in Meters /\ inst' \in Meters
  BY SameTables DEF LoopsTyped
<1>2. /\ NumMeters \in Nat /\ NumMeters > 0 /\ OldDays \in Nat
      /\ Meters = 0..NumMeters - 1
      /\ Len(InitFns) \in Nat /\ Len(InitFns) > 0 /\ Len(OldFns) \in Nat /\ Len(OldFns) > 0
      /\ Len(IdleFns) = 8
  BY TablesFacts DEF LoopsTyped
<1>3. midx \in Meters /\ inst \in Meters /\ day \in 0..OldDays /\ fn \in Nat
  BY DEF LoopsTyped
<1>4. CASE phase = "nameplate"
  BY <1>1, <1>2, <1>3, <1>4 DEF NextTurn, Enter, LastMeter, Phases, StepNames
<1>5. CASE phase = "init"
  BY <1>1, <1>2, <1>3, <1>5 DEF NextTurn, Enter, LastMeter, Phases, StepNames, LoopsTyped
<1>6. CASE phase = "catchup"
  BY <1>1, <1>2, <1>3, <1>6 DEF NextTurn, EnterOldData, Enter, LastMeter, Phases, StepNames
<1>7. CASE phase = "old"
  BY <1>1, <1>2, <1>3, <1>7 DEF NextTurn, Enter, LastMeter, Phases, StepNames, LoopsTyped
<1>8. CASE phase = "idle"
  BY <1>1, <1>2, <1>3, <1>8 DEF NextTurn, Enter, LastMeter, Phases, StepNames, LoopsTyped
<1> QED
  BY <1>4, <1>5, <1>6, <1>7, <1>8 DEF LoopsTyped, Phases

LEMMA GotoTyped ==
  ASSUME LoopsTyped, NEW s \in StepNames, Goto(s), UNCHANGED meter_inf_type
  PROVE  LoopsTyped'
BY SameTables DEF LoopsTyped, Goto, Enter

LEMMA InstTyped ==
  ASSUME LoopsTyped, UNCHANGED meter_inf_type,
         EnterInstData \/ NextInst \/ (step' = "inst_poll" /\ UNCHANGED <<phase, day, fn, midx, inst>>)
  PROVE  LoopsTyped'
<1>1. CASE EnterInstData
  BY <1>1, SameTables, TablesFacts DEF EnterInstData, LoopsTyped, StepNames
<1>2. CASE NextInst
  <2>1. CASE inst < NumMeters - 1
    <3>1. inst + 1 \in Meters
      BY <2>1, TablesFacts DEF LoopsTyped
    <3> QED
      BY <1>2, <2>1, <3>1, SameTables DEF NextInst, LoopsTyped, StepNames
  <2>2. CASE ~(inst < NumMeters - 1)
    <3>1. Goto("disconnect") \/ NextTurn
      BY <1>2, <2>2 DEF NextInst
    <3> QED
      BY <3>1, NextTurnTyped, GotoTyped DEF StepNames
  <2> QED
    BY <2>1, <2>2
<1>3. CASE step' = "inst_poll" /\ UNCHANGED <<phase, day, fn, midx, inst>>
  BY <1>3, SameTables DEF LoopsTyped, StepNames
<1> QED
  BY <1>1, <1>2, <1>3

(* What every step does to the loops: the walk goes on, the next call of   *)
(* the turn comes, or get_all_meter_inst_data() does.                      *)
LoopMoves ==
  \/ NextTurn \/ (\E s \in StepNames : Goto(s))
  \/ EnterInstData \/ NextInst
  \/ step' = "inst_poll" /\ UNCHANGED <<phase, day, fn, midx, inst>>

LEMMA StepsMove == Steps => LoopMoves
<1>1. {"turn", "connect", "read", "disconnect"} \subseteq StepNames
  BY DEF StepNames
<1> USE <1>1 DEF LoopMoves
<1>2. OdPass \/ PlainTurn \/ InitTurn \/ OldTurn \/ IdleTurn \/ NotDue => LoopMoves
  BY Zenon DEF OdPass, PlainTurn, InitTurn, OldTurn, IdleTurn, NotDue, NodeDown
<1>3. Connect \/ ConnectFails \/ DisConnect \/ InstallData \/ InstOdPass \/ InstPoll => LoopMoves
  BY Zenon DEF Connect, ConnectFails, DisConnect, InstallData, InstOdPass, InstPoll
<1>4. ReadNamePlate \/ ReadInit \/ ReadCatchup \/ ReadOld \/ ReadIdle => LoopMoves
  BY Zenon DEF ReadNamePlate, ReadInit, ReadCatchup, ReadOld, ReadIdle
<1> QED
  BY <1>2, <1>3, <1>4, Zenon DEF Steps

LEMMA LoopsKept ==
  ASSUME LoopsTyped, [Next]_vars
  PROVE  LoopsTyped'
<1>1. CASE Next
  <2>1. LoopMoves /\ UNCHANGED meter_inf_type
    BY <1>1, StepsMove DEF Next
  <2> QED
    BY <2>1, NextTurnTyped, GotoTyped, InstTyped DEF LoopMoves
<1>2. CASE UNCHANGED vars
  <2>1. UNCHANGED <<meter_inf_type, phase, day, fn, midx, step, inst>>
    BY <1>2 DEF vars, loops
  <2> QED
    BY <2>1, SameTables DEF LoopsTyped
<1> QED
  BY <1>1, <1>2

(* What process_od_cmd() leaves of the session. *)
LEMMA OdCmdTyped ==
  ASSUME SessionTyped, NEW i \in Meters, NEW keep, ProcessOdCmd(i, keep)
  PROVE  SessionTyped'
BY DEF SessionTyped, ProcessOdCmd, Request

LEMMA SessionKept ==
  ASSUME LoopsTyped, SessionTyped, [Next]_vars
  PROVE  SessionTyped'
<1>t. /\ midx \in Meters /\ inst \in Meters /\ curr_nc_idx \in Meters /\ target \in Meters
      /\ exchange \in [asked : Meters, addressed : Meters, booked : Meters]
  BY DEF LoopsTyped, SessionTyped
<1>0. ASSUME UNCHANGED <<session, exchange>> PROVE SessionTyped'
  BY <1>0 DEF session, SessionTyped
<1>1. CASE OdPass \/ InitTurn \/ OldTurn \/ IdleTurn \/ InstOdPass
  <2>1. \E i \in Meters, keep \in BOOLEAN : ProcessOdCmd(i, keep)
    BY <1>t, <1>1 DEF OdPass, InitTurn, OldTurn, IdleTurn, InstOdPass
  <2> QED
    BY <2>1, OdCmdTyped
<1>2. CASE PlainTurn
  BY <1>t, <1>2 DEF PlainTurn, SessionTyped
<1>3. CASE Connect \/ ConnectFails \/ InstPoll
  <2>1. \E m \in Meters, ok \in BOOLEAN : InitDlms(m, ok)
    BY <1>t, <1>3 DEF Connect, ConnectFails, InstPoll
  <2> QED
    BY <1>t, <2>1 DEF InitDlms, Request, SessionTyped
<1>4. CASE ReadNamePlate \/ ReadInit \/ ReadCatchup \/ ReadOld \/ ReadIdle
  <2>1. UNCHANGED session /\ (Request(midx, target, curr_nc_idx) \/ UNCHANGED exchange)
    BY <1>4, Zenon DEF ReadNamePlate, ReadInit, ReadCatchup, ReadOld, ReadIdle
  <2> QED
    BY <1>t, <2>1 DEF session, Request, SessionTyped
<1>5. CASE DisConnect
  BY <1>t, <1>5 DEF DisConnect, Request, SessionTyped
<1>6. CASE NotDue \/ InstallData \/ UNCHANGED vars
  BY <1>0, <1>6, Zenon DEF NotDue, InstallData, vars
<1> QED
  BY <1>1, <1>2, <1>3, <1>4, <1>5, <1>6, Zenon DEF Next, Steps

LEMMA FlagsKept ==
  ASSUME LoopsTyped, FlagsTyped, [Next]_vars
  PROVE  FlagsTyped'
<1>t. midx \in Meters
  BY DEF LoopsTyped
<1>0. ASSUME UNCHANGED <<flags, got_all>> PROVE FlagsTyped'
  BY <1>0 DEF flags, FlagsTyped
<1>1. CASE OdPass \/ PlainTurn \/ InitTurn \/ OldTurn \/ IdleTurn \/ NotDue
  BY <1>0, <1>1, Zenon DEF OdPass, PlainTurn, InitTurn, OldTurn, IdleTurn, NotDue
<1>2. CASE ReadCatchup \/ InstallData \/ DisConnect \/ InstOdPass \/ InstPoll
  BY <1>0, <1>2, Zenon DEF ReadCatchup, InstallData, DisConnect, InstOdPass, InstPoll
<1>3. CASE Connect
  BY <1>t, <1>3 DEF Connect, FlagsTyped
<1>4. CASE ConnectFails
  BY <1>t, <1>4 DEF ConnectFails, FlagsTyped
<1>5. CASE ReadNamePlate
  BY <1>t, <1>5 DEF ReadNamePlate, FlagsTyped
<1>6. CASE ReadInit
  <2>1. /\ np_polled_comp' = np_polled_comp \/ np_polled_comp' = np_polled_comp \cup {midx}
        /\ \/ init_polled_comp' = init_polled_comp
           \/ init_polled_comp' = init_polled_comp \cup {<<InitFns[fn], midx>>}
              /\ InitFns[fn] \in Retried
        /\ \/ got_all' = got_all
           \/ got_all' = got_all \cup {<<InitFns[fn], midx>>} /\ InitFns[fn] \in Retried
    BY <1>6 DEF ReadInit
  <2> QED
    BY <1>t, <2>1 DEF FlagsTyped
<1>7. CASE ReadOld
  BY <1>t, <1>7 DEF ReadOld, FlagsTyped
<1>8. CASE ReadIdle
  BY <1>t, <1>8 DEF ReadIdle, FlagsTyped
<1>9. CASE UNCHANGED vars
  BY <1>0, <1>9 DEF vars
<1> QED
  BY <1>1, <1>2, <1>3, <1>4, <1>5, <1>6, <1>7, <1>8, <1>9, Zenon DEF Next, Steps

LEMMA BooleansKept ==
  ASSUME BooleansTyped, [Next]_vars
  PROVE  BooleansTyped'
<1> USE DEF BooleansTyped
<1>o. ASSUME NEW i, NEW keep, ProcessOdCmd(i, keep) PROVE connected' \in BOOLEAN
  BY <1>o, Zenon DEF ProcessOdCmd
<1>d. ASSUME NEW m, NEW ok \in BOOLEAN, InitDlms(m, ok) PROVE connected' \in BOOLEAN
  BY <1>d, Zenon DEF InitDlms
<1>1. CASE OdPass
  BY <1>o, <1>1, Zenon DEF OdPass
<1>2. CASE InitTurn \/ IdleTurn \/ InstOdPass
  BY <1>o, <1>2, Zenon DEF InitTurn, IdleTurn, InstOdPass
<1>3. CASE OldTurn
  <2>1. connected' \in BOOLEAN
    BY <1>o, <1>3, Zenon DEF OldTurn
  <2>2. (OldFns[fn] \in Events) \in BOOLEAN
    OBVIOUS
  <2>3. event_group_active' = event_group_active \/ event_group_active' = (OldFns[fn] \in Events)
    BY <1>3, Zenon DEF OldTurn
  <2> QED
    BY <2>1, <2>2, <2>3, Zenon
<1>4. CASE Connect \/ InstPoll
  <2>1. TRUE \in BOOLEAN /\ FALSE \in BOOLEAN
    OBVIOUS
  <2> QED
    BY <1>d, <1>4, <2>1, Zenon DEF Connect, InstPoll
<1>5. CASE ConnectFails
  <2>1. FALSE \in BOOLEAN
    OBVIOUS
  <2> QED
    BY <1>d, <1>5, <2>1, Zenon DEF ConnectFails
<1>6. CASE DisConnect
  BY <1>6, Zenon DEF DisConnect
<1>7. CASE \/ PlainTurn \/ NotDue \/ InstallData
           \/ ReadNamePlate \/ ReadInit \/ ReadCatchup \/ ReadOld \/ ReadIdle
  BY <1>7, Zenon DEF PlainTurn, NotDue, InstallData, ReadNamePlate, ReadInit, ReadCatchup,
     ReadOld, ReadIdle, session
<1>8. CASE UNCHANGED vars
  BY <1>8, Zenon DEF vars, session
<1> QED
  BY <1>1, <1>2, <1>3, <1>4, <1>5, <1>6, <1>7, <1>8, Zenon DEF Next, Steps

LEMMA InitTypes == Init => TypeOK
<1> SUFFICES ASSUME Init PROVE TypeOK
  OBVIOUS
<1>0. meter_inf_type \in Interfaces
  BY DEF Init
<1>1. LoopsTyped
  BY <1>0, TablesFacts DEF Init, LoopsTyped, Phases, StepNames
<1>2. SessionTyped
  BY <1>0, TablesFacts DEF Init, SessionTyped
<1>3. FlagsTyped
  BY DEF Init, FlagsTyped
<1>4. BooleansTyped
  BY Zenon DEF Init, BooleansTyped
<1> QED
  BY <1>1, <1>2, <1>3, <1>4, TypeGroups

LEMMA TypesKept == TypeOK /\ [Next]_vars => TypeOK'
<1> SUFFICES ASSUME TypeOK, [Next]_vars PROVE TypeOK'
  OBVIOUS
<1>1. LoopsTyped /\ SessionTyped /\ FlagsTyped /\ BooleansTyped
  BY TypeGroups
<1>2. LoopsTyped' /\ SessionTyped' /\ FlagsTyped' /\ BooleansTyped'
  BY <1>1, LoopsKept, SessionKept, FlagsKept, BooleansKept
<1>3. TypeOK' <=> LoopsTyped' /\ SessionTyped' /\ FlagsTyped' /\ BooleansTyped'
  BY TypeGroups, PTL
<1> QED
  BY <1>2, <1>3

(* The loops of init_dlms_proc() never index past the meters or the tables *)
(* of poll functions, and every other variable of the session keeps its    *)
(* type, whichever meters answer and whatever commands run in between.     *)
THEOREM SessionTypeCorrect == Spec => []TypeOK
<1> QED
  BY InitTypes, TypesKept, PTL DEF Spec

(***************************************************************************)
(* Whom the session addresses.                                             *)
(***************************************************************************)

(* No event category follows another in the store poll of a serial port:   *)
(* there the second one does not connect, and an on-demand command may     *)
(* have moved the connection in between.                                   *)
SeparateEvents ==
  "SERIAL" \in Interfaces =>
    \A k \in 1..Len(StorePoll["SERIAL"]) - 1 :
      ~(StorePoll["SERIAL"][k] \in Events /\ StorePoll["SERIAL"][k + 1] \in Events)

(* A poll function of midx is about to read. *)
Reads == step = "read" /\ ~(phase = "old" /\ OldFns[fn] = "install_data")

(* get_old_data may keep the session of an event category for the next. *)
Grouped == phase = "old" /\ event_group_active

GroupInv ==
  Grouped => /\ step \in {"connect", "read", "disconnect"} => OldFns[fn] \in Events
             /\ step \notin {"inst_od", "inst_poll"}

AddressInv ==
  /\ (Plcc \/ SeparateEvents) /\ Reads => target = midx
  /\ Plcc /\ Grouped /\ step \in {"turn", "disconnect"} => target = midx
  /\ ~Plcc /\ SeparateEvents /\ Grouped /\ step = "turn" => OldFns[fn] \notin Events

BookedInv ==
  Plcc => /\ Reads => curr_nc_idx = midx
          /\ step = "disconnect" => curr_nc_idx = target
          /\ phase = "init" => step \notin {"inst_od", "inst_poll"}

SessionInv == GroupInv /\ AddressInv /\ BookedInv

(* Where a turn that is over leads. *)
LEMMA NextTurnLeads ==
  ASSUME LoopsTyped, NextTurn
  PROVE  /\ step' \in {"turn", "pass"}
         /\ phase' = "old" /\ step' = "turn" =>
              phase = "old" /\ fn < Len(OldFns) /\ fn' = fn + 1 /\ midx' = midx
<1>1. CASE phase = "nameplate" \/ phase = "init" \/ phase = "catchup"
  BY <1>1 DEF NextTurn, Enter, EnterOldData
<1>2. CASE phase = "old" \/ phase = "idle"
  BY <1>2 DEF NextTurn, Enter
<1> QED
  BY <1>1, <1>2 DEF LoopsTyped, Phases

(* The events of a serial port are apart, under SeparateEvents. *)
LEMMA EventsApart ==
  ASSUME LoopsTyped, ~Plcc, SeparateEvents, phase = "old", fn < Len(OldFns), OldFns[fn] \in Events
  PROVE  OldFns[fn + 1] \notin Events
<1>1. meter_inf_type = "SERIAL" /\ "SERIAL" \in Interfaces
  BY PollSessionAssumption DEF LoopsTyped, Plcc
<1>2. OldFns = StorePoll["SERIAL"]
  BY <1>1 DEF OldFns
<1>3. fn \in 1..Len(OldFns) - 1
  BY TablesFacts DEF LoopsTyped
<1> QED
  BY <1>1, <1>2, <1>3 DEF SeparateEvents

LEMMA AfterTurn ==
  ASSUME LoopsTyped, NextTurn, UNCHANGED meter_inf_type,
         phase = "old" /\ fn < Len(OldFns) /\ event_group_active' =>
           /\ Plcc => target' = midx
           /\ ~Plcc /\ SeparateEvents => OldFns[fn + 1] \notin Events
  PROVE  SessionInv'
<1>1. step' \in {"turn", "pass"}
  BY NextTurnLeads
<1>2. ~Reads' /\ GroupInv' /\ BookedInv'
  BY <1>1 DEF Reads, GroupInv, BookedInv
<1>3. AddressInv'
  <2>1. CASE Grouped' /\ step' = "turn"
    <3>1. phase = "old" /\ fn < Len(OldFns) /\ fn' = fn + 1 /\ midx' = midx /\ event_group_active'
      BY <2>1, NextTurnLeads DEF Grouped
    <3> QED
      BY <1>2, <2>1, <3>1, SameTables DEF AddressInv
  <2>2. CASE ~(Grouped' /\ step' = "turn")
    BY <1>1, <1>2, <2>2 DEF AddressInv
  <2> QED
    BY <2>1, <2>2
<1> QED
  BY <1>2, <1>3 DEF SessionInv

(* A turn that goes on with a call that does not read. *)
LEMMA AfterGoto ==
  ASSUME LoopsTyped, UNCHANGED meter_inf_type,
         step' \in {"turn", "connect", "inst_od", "inst_poll"},
         step' # "connect" => ~Grouped',
         step' = "connect" /\ Grouped' => OldFns'[fn'] \in Events,
         phase' = "init" /\ step' \in {"inst_od", "inst_poll"} => ~Plcc
  PROVE  SessionInv'
BY SameTables DEF SessionInv, GroupInv, AddressInv, BookedInv, Reads

LEMMA AfterRead ==
  ASSUME SessionInv, Reads, Goto("disconnect"), UNCHANGED <<meter_inf_type, session, event_group_active>>
  PROVE  SessionInv'
<1>1. /\ phase' = phase /\ fn' = fn /\ midx' = midx /\ step' = "disconnect"
      /\ UNCHANGED <<curr_nc_idx, target>>
  BY DEF Goto, Enter, session
<1>2. ~Reads' /\ step = "read"
  BY <1>1 DEF Reads
<1>3. GroupInv'
  BY <1>1, <1>2, SameTables DEF SessionInv, GroupInv, Grouped
<1>4. AddressInv' /\ BookedInv'
  BY <1>1, <1>2, SameTables DEF SessionInv, AddressInv, BookedInv
<1> QED
  BY <1>3, <1>4 DEF SessionInv

LEMMA AfterNextInst ==
  ASSUME LoopsTyped, SessionInv, step \in {"inst_od", "inst_poll"}, NextInst,
         UNCHANGED <<meter_inf_type, event_group_active>>
  PROVE  SessionInv'
<1>1. ~Grouped /\ (phase = "init" => ~Plcc)
  BY DEF SessionInv, GroupInv, BookedInv
<1>2. CASE inst < NumMeters - 1
  <2>1. step' = "inst_od" /\ phase' = phase
    BY <1>2 DEF NextInst
  <2>2. ~Grouped'
    BY <1>1, <2>1 DEF Grouped
  <2> QED
    BY <1>1, <2>1, <2>2, AfterGoto
<1>3. CASE ~(inst < NumMeters - 1) /\ phase = "init"
  <2>1. step' = "disconnect" /\ phase' = "init"
    BY <1>3 DEF NextInst, Goto, Enter
  <2> QED
    BY <1>1, <1>3, <2>1, SameTables DEF SessionInv, GroupInv, AddressInv, BookedInv, Grouped, Reads
<1>4. CASE ~(inst < NumMeters - 1) /\ phase # "init"
  <2>1. NextTurn
    BY <1>4 DEF NextInst
  <2> QED
    BY <1>1, <2>1, AfterTurn DEF Grouped
<1> QED
  BY <1>2, <1>3, <1>4

LEMMA InstallIsNoEvent == "install_data" \notin Events
BY PollSessionAssumption DEF Fns

LEMMA SessionInvKept == LoopsTyped /\ SessionInv /\ [Next]_vars => SessionInv'
<1> SUFFICES ASSUME LoopsTyped, SessionInv, [Next]_vars PROVE SessionInv'
  OBVIOUS
<1>m. UNCHANGED meter_inf_type
  BY DEF Next, vars
<1>t. ASSUME NextTurn, phase # "old" PROVE SessionInv'
  BY <1>m, <1>t, AfterTurn
<1>c. ASSUME Goto("connect"), phase # "old" PROVE SessionInv'
  <2>1. step' = "connect" /\ phase' = phase
    BY <1>c DEF Goto, Enter
  <2> QED
    BY <1>c, <1>m, <2>1, AfterGoto DEF Grouped
<1>1. CASE OdPass
  <2>1. step' = "turn" /\ phase' = phase
    BY <1>1 DEF OdPass, Goto, Enter
  <2>2. phase = "old" => ~event_group_active'
    BY <1>1, Zenon DEF OdPass
  <2>3. ~Grouped'
    BY <2>1, <2>2 DEF Grouped
  <2> QED
    BY <1>m, <2>1, <2>3, AfterGoto
<1>2. CASE PlainTurn
  <2>1. phase # "old" /\ (Goto("connect") \/ NextTurn)
    BY <1>2 DEF PlainTurn, NodeDown, IdlePoll
  <2> QED
    BY <1>c, <1>t, <2>1
<1>3. CASE InitTurn \/ IdleTurn \/ NotDue
  <2>1. phase # "old" /\ (Goto("connect") \/ NextTurn)
    BY <1>3 DEF InitTurn, IdleTurn, NotDue, NodeDown
  <2> QED
    BY <1>c, <1>t, <2>1
<1>4. CASE OldTurn
  <2>1. phase = "old" /\ step = "turn" /\ curr_nc_idx' = midx /\ (Plcc => target' = target)
    BY <1>4 DEF OldTurn, ProcessOdCmd
  <2>2. CASE NodeDown /\ UNCHANGED event_group_active
    <3>1. Plcc /\ NextTurn
      BY <2>2 DEF NodeDown
    <3>2. Grouped => target' = midx
      BY <2>1, <3>1 DEF SessionInv, AddressInv
    <3> QED
      BY <1>m, <2>1, <2>2, <3>1, <3>2, AfterTurn DEF Grouped
  <2>3. CASE Goto("connect") /\ event_group_active' = (OldFns[fn] \in Events)
    <3>1. step' = "connect" /\ phase' = phase /\ fn' = fn
      BY <2>3 DEF Goto, Enter
    <3>2. Grouped' => OldFns[fn] \in Events
      BY <2>3 DEF Grouped
    <3> QED
      BY <1>m, <3>1, <3>2, AfterGoto, SameTables
  <2>4. CASE /\ Goto("read") /\ event_group_active' = (OldFns[fn] \in Events)
             /\ OldFns[fn] = "install_data" \/ (event_group_active /\ OldFns[fn] \in Events)
    <3>1. /\ step' = "read" /\ phase' = "old" /\ fn' = fn /\ midx' = midx
          /\ OldFns' = OldFns /\ (Plcc' <=> Plcc)
      BY <1>m, <2>1, <2>4, SameTables DEF Goto, Enter
    <3>2. Grouped' => OldFns[fn] \in Events
      BY <2>4 DEF Grouped
    <3>3. CASE OldFns[fn] = "install_data"
      <4>1. ~Reads' /\ ~Grouped'
        BY <3>1, <3>2, <3>3, InstallIsNoEvent DEF Reads
      <4> QED
        BY <3>1, <4>1 DEF SessionInv, GroupInv, AddressInv, BookedInv
    <3>4. CASE event_group_active /\ OldFns[fn] \in Events
      <4>1. Grouped
        BY <2>1, <3>4 DEF Grouped
      <4>2. (Plcc => target = midx) /\ ~(~Plcc /\ SeparateEvents)
        BY <2>1, <3>4, <4>1 DEF SessionInv, AddressInv
      <4> QED
        BY <2>1, <3>1, <3>4, <4>2 DEF SessionInv, GroupInv, AddressInv, BookedInv
    <3> QED
      BY <2>4, <3>3, <3>4
  <2>5. \/ NodeDown /\ UNCHANGED event_group_active
        \/ Goto("connect") /\ event_group_active' = (OldFns[fn] \in Events)
        \/ /\ Goto("read") /\ event_group_active' = (OldFns[fn] \in Events)
           /\ OldFns[fn] = "install_data" \/ (event_group_active /\ OldFns[fn] \in Events)
    BY <1>4 DEF OldTurn
  <2> QED
    BY <2>2, <2>3, <2>4, <2>5
<1>5. CASE Connect
  <2>1. /\ step = "connect" /\ step' = "read" /\ UNCHANGED <<phase, fn, midx, event_group_active>>
        /\ target' = midx /\ (Plcc => curr_nc_idx' = midx)
        /\ OldFns' = OldFns /\ (Plcc' <=> Plcc)
    BY <1>m, <1>5, SameTables DEF Connect, InitDlms, Goto, Enter
  <2> QED
    BY <2>1 DEF SessionInv, GroupInv, AddressInv, BookedInv, Grouped
<1>6. CASE ConnectFails
  <2>1. phase = "old" => ~event_group_active'
    BY <1>6, Zenon DEF ConnectFails
  <2>2. CASE EnterInstData /\ phase = "old" /\ ~Plcc
    <3>1. step' = "inst_od" /\ ~Grouped'
      BY <2>1, <2>2 DEF EnterInstData, Grouped
    <3> QED
      BY <1>m, <2>2, <3>1, AfterGoto
  <2>3. CASE NextTurn
    BY <1>m, <2>1, <2>3, AfterTurn
  <2> QED
    BY <1>6, <2>2, <2>3 DEF ConnectFails
<1>7. CASE ReadNamePlate \/ ReadInit \/ ReadCatchup \/ ReadIdle
  <2>1. /\ phase # "old" /\ step = "read" /\ UNCHANGED <<session, event_group_active>>
        /\ Goto("disconnect") \/ NextTurn \/ (EnterInstData /\ ~Plcc)
    BY <1>7 DEF ReadNamePlate, ReadInit, ReadCatchup, ReadIdle
  <2>2. Reads
    BY <2>1 DEF Reads
  <2>3. CASE EnterInstData /\ ~Plcc
    <3>1. step' = "inst_od" /\ ~Grouped'
      BY <2>1, <2>3 DEF EnterInstData, Grouped
    <3> QED
      BY <1>m, <2>3, <3>1, AfterGoto
  <2> QED
    BY <1>m, <1>t, <2>1, <2>2, <2>3, AfterRead
<1>8. CASE ReadOld
  <2>1. /\ phase = "old" /\ step = "read" /\ Reads /\ UNCHANGED <<session, event_group_active>>
        /\ Goto("disconnect") \/ NextTurn
    BY <1>8 DEF ReadOld, Reads
  <2>2. CASE NextTurn
    <3>1. Plcc => target' = midx
      BY <2>1 DEF SessionInv, AddressInv, session
    <3>2. Grouped => OldFns[fn] \in Events
      BY <2>1 DEF SessionInv, GroupInv
    <3>3. ~Plcc /\ SeparateEvents /\ Grouped /\ fn < Len(OldFns) => OldFns[fn + 1] \notin Events
      BY <2>1, <3>2, EventsApart
    <3> QED
      BY <1>m, <2>1, <2>2, <3>1, <3>3, AfterTurn DEF Grouped
  <2> QED
    BY <1>m, <2>1, <2>2, AfterRead
<1>9. CASE InstallData
  <2>1. /\ phase = "old" /\ step = "read" /\ OldFns[fn] = "install_data"
        /\ step' = "inst_od" /\ phase' = phase /\ UNCHANGED event_group_active
    BY <1>9 DEF InstallData, EnterInstData
  <2>2. ~Grouped
    BY <2>1, InstallIsNoEvent DEF SessionInv, GroupInv
  <2>3. ~Grouped'
    BY <2>1, <2>2 DEF Grouped
  <2> QED
    BY <1>m, <2>1, <2>3, AfterGoto
<1>10. CASE DisConnect
  <2>1. step = "disconnect" /\ NextTurn /\ UNCHANGED <<target, event_group_active>>
    BY <1>10 DEF DisConnect
  <2>2. Grouped /\ Plcc => target' = midx
    BY <2>1 DEF SessionInv, AddressInv
  <2>3. Grouped => OldFns[fn] \in Events
    BY <2>1 DEF SessionInv, GroupInv
  <2>4. ~Plcc /\ SeparateEvents /\ Grouped /\ fn < Len(OldFns) => OldFns[fn + 1] \notin Events
    BY <2>3, EventsApart DEF Grouped
  <2> QED
    BY <1>m, <2>1, <2>2, <2>4, AfterTurn DEF Grouped
<1>11. CASE InstOdPass \/ InstPoll
  <2>1. step \in {"inst_od", "inst_poll"} /\ UNCHANGED event_group_active
    BY <1>11 DEF InstOdPass, InstPoll
  <2>2. CASE NextInst
    BY <1>m, <2>1, <2>2, AfterNextInst
  <2>3. CASE step' = "inst_poll" /\ UNCHANGED <<phase, day, fn, midx, inst>>
    <3>1. ~Grouped /\ (phase = "init" => ~Plcc)
      BY <2>1 DEF SessionInv, GroupInv, BookedInv
    <3>2. ~Grouped'
      BY <2>1, <2>3, <3>1 DEF Grouped
    <3> QED
      BY <1>m, <2>3, <3>1, <3>2, AfterGoto
  <2> QED
    BY <1>11, <2>2, <2>3 DEF InstOdPass, InstPoll
<1>12. CASE UNCHANGED vars
  BY <1>12, SameTables
  DEF vars, loops, session, SessionInv, GroupInv, AddressInv, BookedInv, Grouped, Reads
<1> QED
  BY <1>1, <1>2, <1>3, <1>4, <1>5, <1>6, <1>7, <1>8, <1>9, <1>10, <1>11, <1>12, Zenon
  DEF Next, Steps

(* The last request, under that invariant. *)
ExchangeInv ==
  /\ Plcc \/ SeparateEvents => RightMeter
  /\ RightStatus

LEMMA ExchangeKept == TypeOK /\ SessionInv /\ ExchangeInv /\ [Next]_vars => ExchangeInv'
<1> SUFFICES ASSUME TypeOK, SessionInv, ExchangeInv, [Next]_vars PROVE ExchangeInv'
  OBVIOUS
<1>m. Plcc' <=> Plcc
  BY SameTables DEF Next, vars
<1>0. ASSUME UNCHANGED exchange PROVE ExchangeInv'
  BY <1>0, <1>m DEF ExchangeInv, RightMeter, RightStatus
<1>q. ASSUME NEW m, NEW b, Request(m, m, b), Plcc => b = m PROVE ExchangeInv'
  BY <1>m, <1>q DEF Request, ExchangeInv, RightMeter, RightStatus
<1>1. CASE OdPass \/ InitTurn \/ OldTurn \/ IdleTurn \/ InstOdPass
  <2>1. \E i \in Meters, keep \in BOOLEAN : ProcessOdCmd(i, keep)
    BY <1>1 DEF OdPass, InitTurn, OldTurn, IdleTurn, InstOdPass, TypeOK
  <2>2. UNCHANGED exchange \/ (~Plcc /\ \E m \in Meters : Request(m, m, m))
    BY <2>1 DEF ProcessOdCmd
  <2> QED
    BY <1>0, <1>q, <2>2
<1>2. CASE Connect \/ ConnectFails \/ InstPoll
  <2>1. \E m, b : Request(m, m, b) /\ (Plcc => b = m)
    BY <1>2 DEF Connect, ConnectFails, InstPoll, InitDlms
  <2> QED
    BY <1>q, <2>1
<1>3. CASE ReadNamePlate \/ ReadInit \/ ReadCatchup \/ ReadOld \/ ReadIdle
  <2>1. Reads /\ (Request(midx, target, curr_nc_idx) \/ UNCHANGED exchange)
    BY <1>3 DEF ReadNamePlate, ReadInit, ReadCatchup, ReadOld, ReadIdle, Reads
  <2>2. /\ Plcc \/ SeparateEvents => target = midx
        /\ Plcc => curr_nc_idx = midx
    BY <2>1 DEF SessionInv, AddressInv, BookedInv
  <2>3. CASE Request(midx, target, curr_nc_idx)
    BY <1>m, <2>2, <2>3 DEF Request, ExchangeInv, RightMeter, RightStatus
  <2> QED
    BY <1>0, <2>1, <2>3
<1>4. CASE DisConnect
  <2>1. step = "disconnect" /\ Request(target, target, curr_nc_idx)
    BY <1>4 DEF DisConnect
  <2>2. Plcc => curr_nc_idx = target
    BY <2>1 DEF SessionInv, BookedInv
  <2> QED
    BY <1>q, <2>1, <2>2
<1>5. CASE PlainTurn \/ NotDue \/ InstallData \/ UNCHANGED vars
  BY <1>0, <1>5 DEF PlainTurn, NotDue, InstallData, vars
<1> QED
  BY <1>1, <1>2, <1>3, <1>4, <1>5, Zenon DEF Next, Steps

LEMMA SessionInvariant == Spec => [](TypeOK /\ SessionInv /\ ExchangeInv)
<1>1. Init => TypeOK /\ SessionInv /\ ExchangeInv
  BY InitTypes DEF Init, SessionInv, GroupInv, AddressInv, BookedInv, Grouped, Reads,
     ExchangeInv, RightMeter, RightStatus
<1>2. (TypeOK /\ SessionInv /\ ExchangeInv) /\ [Next]_vars
        => (TypeOK /\ SessionInv /\ ExchangeInv)'
  BY TypeGroups, TypesKept, SessionInvKept, ExchangeKept
<1> QED
  BY <1>1, <1>2, PTL DEF Spec

(* Every poll reads the meter it was called for, whatever on-demand        *)
(* commands and nested polls ran since it connected, if no event category  *)
(* follows another in the store poll of a serial port.                     *)
THEOREM SeparateEventsReadRightMeter ==
  ASSUME SeparateEvents
  PROVE  Spec => []RightMeter
<1>1. ExchangeInv => RightMeter
  BY DEF ExchangeInv
<1> QED
  BY <1>1, SessionInvariant, PTL

(* Behind a PLCC modem the outcome of every request is booked on the node  *)
(* that was addressed.                                                     *)
THEOREM NodeStatusRight == Spec => []RightStatus
<1>1. ExchangeInv => RightStatus
  BY DEF ExchangeInv
<1> QED
  BY <1>1, SessionInvariant, PTL

(***************************************************************************)
(* First-time data.  A turn of the initial poll on a serial port is over   *)
(* only when what it was to fetch is in got_all or in init_polled_comp,    *)
(* also while the instantaneous data of all meters is read in between.     *)
(***************************************************************************)
Noted(f, m) == f \in Retried => <<f, m>> \in got_all \cup init_polled_comp

(* Noted, after the step, for what f and m are before it. *)
NotedNext(f, m) == f \in Retried => <<f, m>> \in got_all' \cup init_polled_comp'

AccountInv ==
  /\ InitDataAccounted
  /\ ~Plcc /\ phase = "init" /\ step \in {"disconnect", "inst_od", "inst_poll"} =>
       Noted(InitFns[fn], midx)

(* Periodic polling moves a note to got_all, and nothing else removes one. *)
LEMMA NotesKept ==
  ASSUME [Next]_vars
  PROVE  got_all \cup init_polled_comp \subseteq got_all' \cup init_polled_comp'
<1>0. ASSUME UNCHANGED <<flags, got_all>>
      PROVE  got_all \cup init_polled_comp \subseteq got_all' \cup init_polled_comp'
  BY <1>0 DEF flags
<1>1. CASE OdPass \/ PlainTurn \/ InitTurn \/ OldTurn \/ IdleTurn \/ NotDue
  BY <1>0, <1>1, Zenon DEF OdPass, PlainTurn, InitTurn, OldTurn, IdleTurn, NotDue
<1>2. CASE ReadCatchup \/ InstallData \/ DisConnect \/ InstOdPass \/ InstPoll
  BY <1>0, <1>2, Zenon DEF ReadCatchup, InstallData, DisConnect, InstOdPass, InstPoll
<1>3. CASE Connect \/ ReadNamePlate \/ ReadOld
  BY <1>3 DEF Connect, ReadNamePlate, ReadOld
<1>4. CASE ConnectFails
  BY <1>4 DEF ConnectFails
<1>5. CASE ReadInit
  BY <1>5 DEF ReadInit
<1>6. CASE ReadIdle
  BY <1>6 DEF ReadIdle
<1>7. CASE UNCHANGED vars
  BY <1>0, <1>7 DEF vars
<1> QED
  BY <1>1, <1>2, <1>3, <1>4, <1>5, <1>6, <1>7, Zenon DEF Next, Steps

LEMMA TurnsOver ==
  ASSUME LoopsTyped, NextTurn, NEW i \in 1..Len(InitFns), NEW m \in Meters, TurnOver(i, m)'
  PROVE  TurnOver(i, m) \/ (phase = "init" /\ i = fn /\ m = midx)
<1>1. /\ NumMeters \in Nat /\ NumMeters > 0 /\ Meters = 0..NumMeters - 1
      /\ Len(InitFns) \in Nat
  BY TablesFacts DEF LoopsTyped
<1>2. CASE phase = "nameplate"
  BY <1>1, <1>2 DEF NextTurn, Enter, TurnOver
<1>3. CASE phase = "init"
  <2>1. fn \in 1..Len(InitFns) /\ midx \in Meters
    BY <1>3 DEF LoopsTyped
  <2> QED
    BY <1>1, <1>3, <2>1 DEF NextTurn, Enter, LastMeter, TurnOver
<1>4. CASE phase \in {"catchup", "old", "idle"}
  BY <1>4 DEF TurnOver
<1> QED
  BY <1>2, <1>3, <1>4 DEF LoopsTyped, Phases

LEMMA AccountKept == LoopsTyped /\ AccountInv /\ [Next]_vars => AccountInv'
<1> SUFFICES ASSUME LoopsTyped, AccountInv, [Next]_vars PROVE AccountInv'
  OBVIOUS
<1>p. Plcc' <=> Plcc
  BY SameTables DEF Next, vars
<1> SUFFICES ASSUME ~Plcc PROVE AccountInv'
  BY <1>p DEF AccountInv, InitDataAccounted
<1>m. UNCHANGED meter_inf_type /\ InitFns' = InitFns
  BY SameTables DEF Next, vars
<1>k. \A f, m : Noted(f, m) => NotedNext(f, m)
  BY NotesKept DEF Noted, NotedNext
<1>i. \A i \in 1..Len(InitFns), m \in Meters : TurnOver(i, m) => Noted(InitFns[i], m)
  BY DEF AccountInv, InitDataAccounted, Noted
<1>d. ASSUME \A i \in 1..Len(InitFns), m \in Meters : TurnOver(i, m)' => NotedNext(InitFns[i], m)
      PROVE  InitDataAccounted'
  BY <1>d, <1>m DEF InitDataAccounted, NotedNext
<1>n. ASSUME NextTurn, phase = "init" => NotedNext(InitFns[fn], midx) PROVE AccountInv'
  <2>1. InitDataAccounted'
    BY <1>d, <1>i, <1>k, <1>n, TurnsOver
  <2>2. step' \in {"turn", "pass"}
    BY <1>n, NextTurnLeads
  <2> QED
    BY <2>1, <2>2 DEF AccountInv
<1>s. ASSUME UNCHANGED <<phase, fn, midx>>,
             phase = "init" /\ step' \in {"disconnect", "inst_od", "inst_poll"} =>
               NotedNext(InitFns[fn], midx)
      PROVE  AccountInv'
  <2>1. \A i \in 1..Len(InitFns), m \in Meters : TurnOver(i, m)' => TurnOver(i, m)
    BY <1>s DEF TurnOver
  <2>2. InitDataAccounted'
    BY <1>d, <1>i, <1>k, <2>1
  <2> QED
    BY <1>m, <1>s, <2>2 DEF AccountInv, Noted, NotedNext
<1>g. ASSUME NEW s, Goto(s), phase # "init" \/ s \in {"turn", "connect", "read"} PROVE AccountInv'
  BY <1>g, <1>s DEF Goto, Enter
<1>e. ASSUME EnterInstData, phase # "init" PROVE AccountInv'
  BY <1>e, <1>s DEF EnterInstData
<1>1. CASE OdPass
  BY <1>1, <1>g DEF OdPass
<1>2. CASE PlainTurn
  <2>1. phase # "init" /\ (Goto("connect") \/ NextTurn)
    BY <1>2 DEF PlainTurn, NodeDown, IdlePoll
  <2> QED
    BY <1>g, <1>n, <2>1
<1>3. CASE InitTurn
  <2>1. Goto("connect") \/ (NextTurn /\ InitFns[fn] = "get_nameplate")
    BY <1>3 DEF InitTurn, NodeDown
  <2>2. "get_nameplate" \notin Retried
    BY PollSessionAssumption DEF Retried, Fns
  <2> QED
    BY <1>g, <1>n, <2>1, <2>2 DEF NotedNext
<1>4. CASE OldTurn \/ IdleTurn \/ NotDue
  <2>1. phase # "init" /\ (Goto("connect") \/ Goto("read") \/ NextTurn)
    BY <1>4 DEF OldTurn, IdleTurn, NotDue, NodeDown
  <2> QED
    BY <1>g, <1>n, <2>1
<1>5. CASE Connect
  BY <1>5, <1>g DEF Connect
<1>6. CASE ConnectFails
  <2>1. phase = "init" => NotedNext(InitFns[fn], midx)
    BY <1>6 DEF ConnectFails, NotedNext
  <2>2. NextTurn \/ (EnterInstData /\ phase # "init")
    BY <1>6 DEF ConnectFails
  <2> QED
    BY <1>e, <1>n, <2>1, <2>2
<1>7. CASE ReadInit
  <2>1. NotedNext(InitFns[fn], midx)
    BY <1>7 DEF ReadInit, NotedNext
  <2>2. UNCHANGED <<phase, fn, midx>>
    BY <1>7 DEF ReadInit, EnterInstData, Goto, Enter
  <2> QED
    BY <1>s, <2>1, <2>2
<1>8. CASE ReadNamePlate \/ ReadCatchup \/ ReadOld \/ InstallData \/ ReadIdle
  <2>1. phase # "init" /\ (Goto("disconnect") \/ NextTurn \/ EnterInstData)
    BY <1>8 DEF ReadNamePlate, ReadCatchup, ReadOld, InstallData, ReadIdle
  <2> QED
    BY <1>e, <1>g, <1>n, <2>1
<1>9. CASE DisConnect
  <2>1. phase = "init" => Noted(InitFns[fn], midx)
    BY <1>9 DEF DisConnect, AccountInv
  <2>2. NextTurn
    BY <1>9 DEF DisConnect
  <2> QED
    BY <1>k, <1>n, <2>1, <2>2
<1>10. CASE InstOdPass \/ InstPoll
  <2>1. phase = "init" => NotedNext(InitFns[fn], midx)
    BY <1>10, <1>k DEF InstOdPass, InstPoll, AccountInv
  <2>2. NextTurn \/ UNCHANGED <<phase, fn, midx>>
    BY <1>10 DEF InstOdPass, InstPoll, NextInst, Goto, Enter
  <2> QED
    BY <1>n, <1>s, <2>1, <2>2
<1>11. CASE UNCHANGED vars
  <2>1. UNCHANGED <<phase, fn, midx, step>>
    BY <1>11 DEF vars, loops
  <2>2. phase = "init" /\ step \in {"disconnect", "inst_od", "inst_poll"} =>
          Noted(InitFns[fn], midx)
    BY DEF AccountInv
  <2> QED
    BY <1>k, <1>s, <2>1, <2>2
<1> QED
  BY <1>1, <1>2, <1>3, <1>4, <1>5, <1>6, <1>7, <1>8, <1>9, <1>10, <1>11, Zenon DEF Next, Steps

(* On a serial port what the initial poll was to fetch from a meter is     *)
(* read or flagged for the idle phase, for ever after the meter's turn,    *)
(* whatever fails and in whatever order the functions stand.               *)
THEOREM InitialDataAccounted == Spec => []InitDataAccounted
<1>1. Init => TypeOK /\ AccountInv
  BY InitTypes DEF Init, AccountInv, InitDataAccounted, TurnOver
<1>2. (TypeOK /\ AccountInv) /\ [Next]_vars => (TypeOK /\ AccountInv)'
  BY TypeGroups, TypesKept, AccountKept
<1>3. AccountInv => InitDataAccounted
  BY DEF AccountInv
<1> QED
  BY <1>1, <1>2, <1>3, PTL DEF Spec
=============================================================================
