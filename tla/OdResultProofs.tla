--------------------------- MODULE OdResultProofs ---------------------------
(***************************************************************************)
(* Proofs about OdResult, for any commands and tables, any number of days  *)
(* and categories, and any number of failed statements and restarts.       *)
(***************************************************************************)
EXTENDS OdResult, ListLemmas

Statuses == Success \cup Failure \cup {"other", "progress", "none"}

LEMMA StatusesAre ==
  Statuses = {"success", "day success", "failed", "day failed", "other", "progress", "none"}
BY DEF Statuses, Success, Failure

(* A command leaves the list. *)
Takes(c) == NotFound(c) \/ NoParameter(c) \/ Unrecognised(c) \/ Begin(c)

LEMMA CommandTypes ==
  /\ NoCmd \notin Cmds /\ NoTable \notin Tables
  /\ \A c \in Cmds : Parts[c] \in Nat \ {0} /\ (Table[c] # NoTable => Table[c] \in Tables)
BY OdResultAssumption DEF Tables

(* The statuses: an LPUSH and LTRIM keep the list of responses short.      *)
LEMMA RespondTypes ==
  ASSUME TypeOK, NEW c \in Cmds, NEW tables \in [Tables -> SUBSET Rows], Respond(c, tables)
  PROVE  ftp_od_cmd_resp' \in Seq(Responses) /\ Len(ftp_od_cmd_resp') <= MaxResp
<1> DEFINE r == [table |-> Table[c], rows |-> Announced(c, tables)]
           s == <<r>> \o ftp_od_cmd_resp
           n == IF Len(ftp_od_cmd_resp) < MaxResp THEN Len(ftp_od_cmd_resp) + 1 ELSE MaxResp
<1>1. r \in Responses
  <2>1. Table[c] \in Tables \cup {NoTable}
    BY CommandTypes
  <2>2. Announced(c, tables) \in SUBSET Rows
    <3>1. CASE Table[c] = NoTable
      BY <3>1 DEF Announced
    <3>2. CASE Table[c] # NoTable
      <4>1. tables[Table[c]] \subseteq Rows
        BY <3>2, CommandTypes
      <4>2. Announced(c, tables) \subseteq tables[Table[c]]
        BY <3>2 DEF Announced
      <4> QED
        BY <4>1, <4>2
    <3> QED
      BY <3>1, <3>2
  <2> QED
    BY <2>1, <2>2 DEF Responses
<1>2. ftp_od_cmd_resp \in Seq(Responses) /\ Len(ftp_od_cmd_resp) \in Nat /\ MaxResp \in Nat
  BY LenProperties, OdResultAssumption DEF TypeOK
<1> HIDE DEF r
<1>3. <<r>> \in Seq(Responses) /\ Len(<<r>>) = 1
  BY <1>1
<1>4. s \in Seq(Responses) /\ Len(s) = Len(ftp_od_cmd_resp) + 1
  BY <1>2, <1>3, ConcatProperties
<1>5. n \in Nat /\ n <= Len(s) /\ n <= MaxResp
  BY <1>2, <1>4
<1>6. ftp_od_cmd_resp' = SubSeq(s, 1, n)
  BY DEF Respond, r
<1> HIDE DEF s, n
<1>7. \A k \in 1..n : s[k] \in Responses
  BY <1>4, <1>5, ElementOfSeq
<1>8. SubSeq(s, 1, n) \in Seq(Responses) /\ Len(SubSeq(s, 1, n)) = n
  BY <1>5, <1>7, SubSeqProperties
<1> QED
  BY <1>5, <1>6, <1>8

LEMMA UpdateTypes ==
  ASSUME TypeOK, NEW c \in Cmds, NEW s \in Statuses,
         NEW tables \in [Tables -> SUBSET Rows], Update(c, s, tables)
  PROVE  /\ ftp_od_cmd_resp' \in Seq(Responses) /\ Len(ftp_od_cmd_resp') <= MaxResp
         /\ last' \in Statuses
<1>1. last' \in Statuses
  BY DEF Update, TypeOK, Statuses
<1>2. CASE s \in Success
  BY <1>1, <1>2, RespondTypes DEF Update
<1>3. CASE s \notin Success
  BY <1>1, <1>3 DEF Update, TypeOK
<1> QED
  BY <1>2, <1>3

(* The tables: a row that is stored, a table that is dropped. *)
TablesTyped ==
  /\ od_table \in [Tables -> SUBSET Rows]
  /\ uploaded \in [Tables -> SUBSET Rows]
  /\ overlapped \in [Tables -> SUBSET Rows]

LEMMA PlaceTypes ==
  ASSUME TypeOK, NEW t \in Tables, NEW r \in Rows,
         od_table' = [od_table EXCEPT ![t] = @ \cup {r}], NoteRow(t, r)
  PROVE  TablesTyped'
BY DEF TypeOK, TablesTyped, NoteRow

LEMMA DropTypes ==
  ASSUME TypeOK, NEW t \in Tables, Drop(t)
  PROVE  TablesTyped'
BY DEF TypeOK, TablesTyped, Drop

LEMMA ReadTypes ==
  ASSUME TypeOK, pc \in Busy, NEW outcome, Read(outcome)
  PROVE  TablesTyped' /\ faults' \in Nat
<1>1. /\ cmd \in Cmds /\ <<cmd, part>> \in Rows /\ faults \in Nat
      /\ Table[cmd] # NoTable => Table[cmd] \in Tables
  BY CommandTypes DEF TypeOK, Rows
<1>2. CASE Store
  BY <1>1, <1>2, PlaceTypes DEF Store
<1>3. CASE StoreNothing
  BY <1>1, <1>3 DEF StoreNothing, TypeOK, TablesTyped, rows
<1>4. CASE StoreFails
  <2>1. TablesTyped'
    BY <1>1, <1>4, DropTypes DEF StoreFails
  <2> QED
    BY <1>1, <1>4, <2>1 DEF StoreFails, Fault
<1> QED
  BY <1>2, <1>3, <1>4 DEF Read

(* check_od_command_resp(), and what other processes do to its list. *)
Checks == CheckStart \/ CheckFails \/ DropTable \/ SkipAck \/ NoAck \/ RemoveAck
Others == Upload \/ OtherAck \/ OtherRemoves

LEMMA FaultTypes ==
  ASSUME TypeOK, Fault \/ UNCHANGED faults
  PROVE  faults' \in Nat
BY DEF TypeOK, Fault

(* The element that LINDEX finds is on the list. *)
LEMMA AckLookedUp ==
  ASSUME TypeOK, DropTable
  PROVE  item' \in Range(ftp_od_resp_sts) /\ item' \in Tables
<1>1. /\ i \in Nat /\ i < Len(ftp_od_resp_sts) /\ ftp_od_resp_sts \in Seq(Acks)
      /\ item' = ftp_od_resp_sts[i + 1] /\ item' # NoTable
  BY DEF DropTable, Looked, TypeOK
<1>2. Len(ftp_od_resp_sts) \in Nat /\ i + 1 \in DOMAIN ftp_od_resp_sts
  BY <1>1, LenProperties
<1>3. item' \in Acks
  BY <1>1, <1>2, ElementOfSeq
<1> QED
  BY <1>1, <1>2, <1>3 DEF Range, Acks

(* The list of acknowledgements keeps its type and gains only those of     *)
(* uploads.                                                                *)
LEMMA AckListKept ==
  ASSUME TypeOK, RemoveAck \/ OtherAck \/ OtherRemoves
  PROVE  /\ ftp_od_resp_sts' \in Seq(Acks)
         /\ Range(ftp_od_resp_sts') \subseteq Range(ftp_od_resp_sts) \cup {NoTable}
<1> DEFINE s == ftp_od_resp_sts
<1>1. s \in Seq(Acks) /\ NoTable \in Acks
  BY DEF TypeOK, Acks
<1>2. CASE RemoveAck
  <2>1. ftp_od_resp_sts' = s \/ ftp_od_resp_sts' = RemoveFirst(s, item)
    BY <1>2 DEF RemoveAck
  <2> HIDE DEF s
  <2> QED
    BY <1>1, <2>1, ShorterLists, ShorterRange DEF s
<1>3. CASE OtherAck
  <2>1. ftp_od_resp_sts' = Append(s, NoTable)
    BY <1>3 DEF OtherAck
  <2> HIDE DEF s
  <2>2. Append(s, NoTable) \in Seq(Acks) /\ Range(Append(s, NoTable)) = Range(s) \cup {NoTable}
    BY <1>1, AppendProperties, RangeOfAppend
  <2> QED
    BY <2>1, <2>2 DEF s
<1>4. CASE OtherRemoves
  <2>1. PICK k \in DOMAIN s : ftp_od_resp_sts' = RemoveAt(s, k)
    BY <1>4 DEF OtherRemoves
  <2>2. k \in 1..Len(s) /\ Len(s) \in Nat
    BY <1>1, <2>1, LenProperties
  <2> HIDE DEF s
  <2>3. /\ RemoveAt(s, k) \in Seq(Acks) /\ Len(RemoveAt(s, k)) = Len(s) - 1
        /\ \A j \in 1..(Len(s) - 1) :
             RemoveAt(s, k)[j] = IF j < k THEN s[j] ELSE s[j + 1]
    BY <1>1, <2>2, RemoveAtProperties
  <2>4. Range(RemoveAt(s, k)) \subseteq Range(s)
    <3> SUFFICES ASSUME NEW x \in Range(RemoveAt(s, k)) PROVE x \in Range(s)
      OBVIOUS
    <3>1. PICK j \in DOMAIN RemoveAt(s, k) : x = RemoveAt(s, k)[j]
      BY DEF Range
    <3>2. j \in 1..(Len(s) - 1)
      BY <2>3, <3>1, LenProperties
    <3>3. x \in {s[j], s[j + 1]} /\ j \in 1..Len(s) /\ j + 1 \in 1..Len(s)
      BY <2>2, <2>3, <3>1, <3>2
    <3>4. DOMAIN s = 1..Len(s)
      BY <1>1, LenProperties
    <3> QED
      BY <3>3, <3>4 DEF Range
  <2> QED
    BY <2>1, <2>3, <2>4 DEF s
<1> QED
  BY <1>2, <1>3, <1>4

(* The Boolean histories. *)
BooleansTyped == {failed, vague} \subseteq BOOLEAN

LEMMA BooleansKept ==
  ASSUME TypeOK, [Next]_vars
  PROVE  BooleansTyped'
<1>t. failed \in BOOLEAN /\ vague \in BOOLEAN
  BY Zenon DEF TypeOK
<1>1. ASSUME NEW c \in Cmds, Takes(c) PROVE BooleansTyped'
  BY <1>1, <1>t, Zenon DEF Takes, NotFound, NoParameter, Unrecognised, Refuse, Begin, answers, BooleansTyped
<1>2. ASSUME InitDlms \/ InvalidDate \/ Act \/ Reinit PROVE BooleansTyped'
  BY <1>2, <1>t, Zenon DEF InitDlms, InvalidDate, Act, Reinit, BooleansTyped
<1>3. ASSUME NEW outcome, Read(outcome) PROVE BooleansTyped'
  BY <1>3, <1>t, Zenon DEF Read, BooleansTyped
<1>4. ASSUME ReadOnce \/ ReadDay \/ ReadCategory PROVE BooleansTyped'
  BY <1>3, <1>4, Zenon DEF ReadOnce, ReadDay, ReadCategory
<1>5. ASSUME End PROVE BooleansTyped'
  BY <1>5, <1>t, Zenon DEF End, BooleansTyped
<1>6. ASSUME UNCHANGED answers PROVE BooleansTyped'
  BY <1>6, <1>t, Zenon DEF answers, BooleansTyped
<1>7. ASSUME PassEnds \/ Checks \/ Poll \/ Others PROVE BooleansTyped'
  BY <1>6, <1>7, Zenon DEF PassEnds, Poll, Checks, CheckStart, CheckFails, DropTable, SkipAck,
                            NoAck, RemoveAck, Others, Upload, OtherAck, OtherRemoves
<1>8. ASSUME Crash PROVE BooleansTyped'
  BY <1>8, <1>t, Zenon DEF Crash, BooleansTyped
<1>9. CASE UNCHANGED vars
  BY <1>6, <1>9, Zenon DEF vars
<1> QED
  BY <1>1, <1>2, <1>4, <1>5, <1>7, <1>8, <1>9, Zenon DEF Next, Program, Takes, Checks, Others

(***************************************************************************)
(* Type correctness, one conjunct of TypeOK's groups after the other.      *)
(***************************************************************************)
ControlTyped ==
  /\ pc \in PCs
  /\ cmd \in Cmds \cup {NoCmd}
  /\ pc \in Busy => cmd \in Cmds /\ part \in 1..Parts[cmd]
  /\ part \in Nat /\ i \in Nat /\ list_len \in Nat
  /\ OD_CMD_RECEIVED \in {0, 1}
  /\ item \in Tables \cup {NoTable}
  /\ flag_set_by \in Cmds \cup {NoCmd}
  /\ waiting \subseteq Cmds
  /\ faults \in Nat

ListsTyped ==
  /\ ftp_od_cmd_resp \in Seq(Responses) /\ Len(ftp_od_cmd_resp) <= MaxResp
  /\ ftp_od_resp_sts \in Seq(Acks)
  /\ last \in Statuses

LEMMA TypeGroups ==
  TypeOK <=> ControlTyped /\ ListsTyped /\ TablesTyped /\ BooleansTyped
BY Zenon DEF TypeOK, ControlTyped, ListsTyped, TablesTyped, BooleansTyped, Statuses

LEMMA InitTypes == Init => TypeOK
<1> SUFFICES ASSUME Init PROVE TypeOK
  OBVIOUS
<1>1. waiting \subseteq Cmds
  BY DEF Init, kSubset
<1>2. ControlTyped
  BY <1>1 DEF Init, ControlTyped, PCs, Busy
<1>3. ListsTyped
  <2>1. <<>> \in Seq(Responses) /\ <<>> \in Seq(Acks) /\ Len(<<>>) = 0
    OBVIOUS
  <2> QED
    BY <2>1, OdResultAssumption DEF Init, ListsTyped, Statuses
<1>4. TablesTyped
  BY DEF Init, TablesTyped
<1>5. BooleansTyped
  BY Zenon DEF Init, BooleansTyped
<1> QED
  BY <1>2, <1>3, <1>4, <1>5, TypeGroups

(* The control of the branches of process_od_cmd() and of the check. *)
LEMMA ControlKept ==
  ASSUME TypeOK, [Next]_vars
  PROVE  ControlTyped'
<1>t. ControlTyped
  BY TypeGroups
<1>p. \A c \in Cmds : Parts[c] \in Nat \ {0}
  BY CommandTypes
<1>1. ASSUME NEW c \in Cmds, Takes(c) PROVE ControlTyped'
  <2>1. CASE NotFound(c) \/ NoParameter(c)
    BY <1>t, <2>1 DEF NotFound, NoParameter, Refuse, check, ControlTyped, PCs, Busy
  <2>2. CASE Unrecognised(c)
    BY <1>t, <1>p, <2>2 DEF Unrecognised, check, ControlTyped, PCs, Busy
  <2>3. CASE Begin(c)
    BY <1>t, <1>p, <2>3 DEF Begin, check, ControlTyped, PCs, Busy
  <2> QED
    BY <1>1, <2>1, <2>2, <2>3 DEF Takes
<1>2. CASE InitDlms \/ InvalidDate \/ Act
  BY <1>t, <1>2 DEF InitDlms, InvalidDate, Act, locals, check, ControlTyped, PCs, Busy
<1>3. CASE ReadOnce \/ ReadDay \/ ReadCategory
  <2>1. /\ pc \in Busy /\ pc' \in {"reinit", "end"}
        /\ UNCHANGED <<locals, check, waiting, flag_set_by>>
    BY <1>3 DEF ReadOnce, ReadDay, ReadCategory, Busy
  <2>2. \E outcome : Read(outcome)
    BY <1>3 DEF ReadOnce, ReadDay, ReadCategory
  <2>3. faults' \in Nat
    BY <2>1, <2>2, ReadTypes
  <2> QED
    BY <1>t, <2>1, <2>3 DEF locals, check, ControlTyped, PCs, Busy
<1>4. CASE Reinit
  <2>1. cmd \in Cmds /\ part \in 1..Parts[cmd] /\ Parts[cmd] \in Nat /\ part \in Nat
    BY <1>t, <1>p, <1>4 DEF Reinit, ControlTyped, Busy
  <2>2. UNCHANGED <<cmd, OD_CMD_RECEIVED, i, list_len, item, waiting, flag_set_by, faults>>
    BY <1>4 DEF Reinit, check
  <2>3. \/ pc' = "end" /\ part' = part
        \/ pc' = "read" /\ part' = part + 1 /\ part # Parts[cmd]
    BY <1>4 DEF Reinit, LastPart
  <2> QED
    BY <1>t, <2>1, <2>2, <2>3 DEF ControlTyped, PCs, Busy
<1>5. CASE End \/ PassEnds \/ Poll
  BY <1>t, <1>5 DEF End, PassEnds, Poll, locals, check, ControlTyped, PCs, Busy
<1>6. CASE CheckStart \/ CheckFails
  <2>1. Len(ftp_od_resp_sts) \in Nat
    BY LenProperties DEF TypeOK
  <2>2. faults' \in Nat
    BY <1>6, FaultTypes DEF CheckStart, CheckFails
  <2> QED
    BY <1>t, <1>6, <2>1, <2>2 DEF CheckStart, CheckFails, locals, check, ControlTyped, PCs, Busy
<1>7. CASE DropTable
  <2>1. item' \in Tables
    BY <1>7, AckLookedUp
  <2>2. faults' \in Nat
    BY <1>7, FaultTypes DEF DropTable
  <2> QED
    BY <1>t, <1>7, <2>1, <2>2 DEF DropTable, locals, ControlTyped, PCs, Busy
<1>8. CASE RemoveAck \/ SkipAck \/ NoAck
  <2>1. faults' \in Nat
    BY <1>8, FaultTypes DEF RemoveAck, SkipAck, NoAck
  <2> QED
    BY <1>t, <1>8, <2>1 DEF RemoveAck, SkipAck, NoAck, NextAck, locals, ControlTyped, PCs, Busy
<1>9. CASE Others
  BY <1>t, <1>9 DEF Others, Upload, OtherAck, OtherRemoves, locals, check, ControlTyped
<1>10. CASE Crash
  <2>1. faults' \in Nat
    BY <1>10, FaultTypes DEF Crash
  <2> QED
    BY <1>t, <1>10, <2>1 DEF Crash, ControlTyped, PCs, Busy
<1>11. CASE UNCHANGED vars
  BY <1>t, <1>11 DEF vars, locals, check, ControlTyped
<1> QED
  BY <1>1, <1>2, <1>3, <1>4, <1>5, <1>6, <1>7, <1>8, <1>9, <1>10, <1>11, Zenon DEF Next, Program, Takes, Checks, Others

(* The tables. *)
LEMMA TablesKept ==
  ASSUME TypeOK, [Next]_vars
  PROVE  TablesTyped'
<1>t. TablesTyped
  BY TypeGroups
<1>1. ASSUME UNCHANGED <<od_table, rows>> PROVE TablesTyped'
  BY <1>t, <1>1 DEF rows, TablesTyped
<1>2. ASSUME NEW c \in Cmds, Takes(c) PROVE TablesTyped'
  BY <1>1, <1>2, Zenon DEF Takes, NotFound, NoParameter, Unrecognised, Refuse, Begin
<1>3. CASE \/ InitDlms \/ InvalidDate \/ Act \/ Reinit \/ End \/ PassEnds
           \/ CheckStart \/ CheckFails \/ SkipAck \/ NoAck \/ RemoveAck \/ OtherAck \/ OtherRemoves
  BY <1>1, <1>3, Zenon DEF InitDlms, InvalidDate, Act, Reinit, End, PassEnds, CheckStart,
       CheckFails, SkipAck, NoAck, RemoveAck, OtherAck, OtherRemoves
<1>4. CASE ReadOnce \/ ReadDay \/ ReadCategory
  <2>1. pc \in Busy
    BY <1>4 DEF ReadOnce, ReadDay, ReadCategory, Busy
  <2>2. \E outcome : Read(outcome)
    BY <1>4 DEF ReadOnce, ReadDay, ReadCategory
  <2> QED
    BY <2>1, <2>2, ReadTypes
<1>5. CASE DropTable
  <2>1. item' \in Tables
    BY <1>5, AckLookedUp
  <2>2. Drop(item') \/ UNCHANGED <<od_table, rows>>
    BY <1>5 DEF DropTable
  <2>3. ASSUME NEW t \in Tables, Drop(t) PROVE TablesTyped'
    BY <2>3, DropTypes
  <2> QED
    BY <1>1, <2>1, <2>2, <2>3
<1>6. CASE Poll
  <2>1. PollRow \in Rows
    BY DEF PollRow, Rows
  <2> QED
    BY <1>1, <1>6, <2>1, PlaceTypes DEF Poll
<1>7. CASE Upload
  BY <1>t, <1>7 DEF Upload, TablesTyped
<1>8. CASE Crash \/ UNCHANGED vars
  BY <1>1, <1>8 DEF Crash, vars
<1> QED
  BY <1>2, <1>3, <1>4, <1>5, <1>6, <1>7, <1>8, Zenon DEF Next, Program, Takes, Checks, Others

(* The Redis lists and the newest answer. *)
LEMMA ListsKept ==
  ASSUME TypeOK, [Next]_vars
  PROVE  ListsTyped'
<1>t. ListsTyped /\ od_table \in [Tables -> SUBSET Rows]
  BY TypeGroups DEF TypeOK
<1>u. ASSUME NEW c \in Cmds, NEW s \in Statuses, NEW tables \in [Tables -> SUBSET Rows],
             Update(c, s, tables), UNCHANGED ftp_od_resp_sts
      PROVE  ListsTyped'
  BY <1>t, <1>u, UpdateTypes DEF ListsTyped
<1>0. ASSUME UNCHANGED <<lists, last>> PROVE ListsTyped'
  BY <1>0, <1>t DEF lists, ListsTyped
<1>a. /\ {"progress", "failed", "success", "other", "day failed", "day success"} \subseteq Statuses
      /\ "none" \in Statuses
  BY StatusesAre
<1>b. pc \in Busy => cmd \in Cmds
  BY DEF TypeOK
<1>1. ASSUME NEW c \in Cmds, Takes(c) PROVE ListsTyped'
  <2>1. CASE NotFound(c) \/ NoParameter(c) \/ Unrecognised(c)
    BY <1>0, <2>1 DEF NotFound, NoParameter, Unrecognised, Refuse, answers
  <2>2. CASE Begin(c)
    BY <1>t, <1>a, <1>u, <2>2 DEF Begin
  <2> QED
    BY <1>1, <2>1, <2>2 DEF Takes
<1>2. CASE InitDlms \/ Act
  <2>1. cmd \in Cmds /\ UNCHANGED ftp_od_resp_sts
    BY <1>2, <1>b DEF InitDlms, Act, Busy
  <2>2. \E s \in Statuses : Update(cmd, s, od_table)
    BY <1>2, <1>a DEF InitDlms, Act
  <2> QED
    BY <1>t, <1>u, <2>1, <2>2
<1>3. CASE ReadOnce \/ ReadDay \/ ReadCategory
  <2>1. pc \in Busy /\ cmd \in Cmds /\ UNCHANGED ftp_od_resp_sts
    BY <1>3, <1>b DEF ReadOnce, ReadDay, ReadCategory, Busy
  <2>2. \E outcome : Read(outcome)
    BY <1>3 DEF ReadOnce, ReadDay, ReadCategory
  <2>3. od_table' \in [Tables -> SUBSET Rows]
    BY <2>1, <2>2, ReadTypes DEF TablesTyped
  <2>4. \E s \in Statuses : Update(cmd, s, od_table')
    <3>1. CASE ReadOnce
      BY <1>a, <3>1 DEF ReadOnce
    <3>2. CASE ReadDay
      BY <1>a, <3>2 DEF ReadDay
    <3>3. CASE ReadCategory
      BY <1>a, <3>3 DEF ReadCategory
    <3> QED
      BY <1>3, <3>1, <3>2, <3>3
  <2> QED
    BY <1>u, <2>1, <2>3, <2>4
<1>4. CASE Reinit
  <2>1. cmd \in Cmds /\ UNCHANGED ftp_od_resp_sts
    BY <1>4, <1>b DEF Reinit, Busy
  <2>2. (\E s \in Statuses : Update(cmd, s, od_table)) \/ UNCHANGED <<lists, last>>
    BY <1>4, <1>a DEF Reinit, lists
  <2> QED
    BY <1>0, <1>t, <1>u, <2>1, <2>2
<1>5. CASE InvalidDate \/ End \/ Crash
  BY <1>a, <1>t, <1>5 DEF InvalidDate, End, Crash, lists, ListsTyped
<1>6. CASE PassEnds \/ CheckStart \/ CheckFails \/ DropTable \/ SkipAck \/ NoAck \/ Poll
  BY <1>0, <1>6 DEF PassEnds, CheckStart, CheckFails, DropTable, SkipAck, NoAck, Poll, answers
<1>7. CASE RemoveAck \/ OtherAck \/ OtherRemoves
  <2>1. ftp_od_resp_sts' \in Seq(Acks)
    BY <1>7, AckListKept
  <2>2. UNCHANGED <<ftp_od_cmd_resp, last>>
    BY <1>7 DEF RemoveAck, OtherAck, OtherRemoves, answers
  <2> QED
    BY <1>t, <2>1, <2>2 DEF ListsTyped
<1>8. CASE Upload
  <2> DEFINE s == ftp_od_cmd_resp
  <2>1. s \in Seq(Responses) /\ s # <<>> /\ Len(s) \in Nat /\ Len(s) <= MaxResp
        /\ MaxResp \in Nat /\ Len(s) # 0
    BY <1>t, <1>8, LenProperties, EmptySeq, OdResultAssumption DEF Upload, ListsTyped
  <2>3. Front(s) \in Seq(Responses) /\ Len(Front(s)) = Len(s) - 1 /\ Last(s) \in Responses
    BY <2>1, FrontProperties
  <2>5. Last(s).table \in Tables \cup {NoTable}
    BY <2>3 DEF Responses
  <2>6. ftp_od_resp_sts' \in Seq(Acks)
    <3>1. CASE Last(s).table = NoTable
      BY <1>t, <1>8, <3>1 DEF Upload, ListsTyped
    <3>2. CASE Last(s).table # NoTable
      <4>1. ftp_od_resp_sts' = Append(ftp_od_resp_sts, Last(s).table)
        BY <1>8, <3>2 DEF Upload
      <4>2. ftp_od_resp_sts \in Seq(Acks) /\ Last(s).table \in Acks
        BY <1>t, <2>5, <3>2 DEF ListsTyped, Acks
      <4> HIDE DEF s
      <4> QED
        BY <4>1, <4>2, AppendProperties
    <3> QED
      BY <3>1, <3>2
  <2>7. ftp_od_cmd_resp' = Front(s) /\ last' = last
    BY <1>8 DEF Upload, answers
  <2> HIDE DEF s
  <2> QED
    BY <1>t, <2>1, <2>3, <2>6, <2>7 DEF ListsTyped
<1>9. CASE UNCHANGED vars
  BY <1>0, <1>9 DEF vars, answers
<1> QED
  BY <1>1, <1>2, <1>3, <1>4, <1>5, <1>6, <1>7, <1>8, <1>9, Zenon DEF Next, Program, Takes, Checks, Others

LEMMA TypesKept == TypeOK /\ [Next]_vars => TypeOK'
<1> SUFFICES ASSUME TypeOK, [Next]_vars PROVE TypeOK'
  OBVIOUS
<1>1. ControlTyped' /\ TablesTyped' /\ ListsTyped' /\ BooleansTyped'
  BY ControlKept, TablesKept, ListsKept, BooleansKept
<1> QED
  BY <1>1, Zenon DEF TypeOK, ControlTyped, ListsTyped, TablesTyped, BooleansTyped, Statuses

(* Every variable of process_od_cmd(), of the exchange with the FTP        *)
(* process and of check_od_command_resp() keeps its type: the list of      *)
(* responses stays within the limit of its LTRIM, the day or category that *)
(* is read is one the command covers, and the acknowledgement that is      *)
(* looked up names a table.                                                *)
THEOREM ResultTypeCorrect == Spec => []TypeOK
<1>1. Init => TypeOK
  BY InitTypes
<1>2. TypeOK /\ [Next]_vars => TypeOK'
  BY TypesKept
<1> QED
  BY <1>1, <1>2, PTL DEF Spec

(***************************************************************************)
(* The answers.  Only a load survey or all events go through Reinit, and a *)
(* load survey that came by MQTT has by then reported a day, unless the    *)
(* outcome of a call has a text of neither kind.                           *)
(***************************************************************************)
PartsReported ==
  pc = "reinit" =>
    /\ Kind[cmd] \in {"ls", "events"}
    /\ Kind[cmd] = "ls" /\ Source[cmd] = "mqtt" /\ ~vague => last # "none"

AnswerInv == PartsReported /\ WebAnswered /\ MqttAnswered

LEMMA AnswersKept == TypeOK /\ AnswerInv /\ [Next]_vars => AnswerInv'
<1> SUFFICES ASSUME TypeOK, AnswerInv, [Next]_vars PROVE AnswerInv'
  OBVIOUS
<1> USE DEF AnswerInv
<1>s. \A c \in Cmds : Source[c] = "web" <=> Source[c] # "mqtt"
  BY OdResultAssumption
<1>b. pc \in {"init", "act", "read", "reinit", "end"} => cmd \in Cmds
  BY DEF TypeOK, Busy
<1>0. ASSUME pc' \notin {"reinit", "end"} PROVE AnswerInv'
  BY <1>0 DEF PartsReported, WebAnswered, MqttAnswered
<1>1. ASSUME NEW c \in Cmds, Takes(c) PROVE AnswerInv'
  <2>1. CASE Unrecognised(c)
    <3>1. pc' = "end" /\ cmd' = c /\ Kind[c] = "unknown"
      BY <2>1 DEF Unrecognised
    <3> QED
      BY <3>1 DEF PartsReported, WebAnswered, MqttAnswered
  <2>2. CASE ~Unrecognised(c)
    <3>1. pc' \in {"llen", "act", "init"}
      BY <1>1, <2>2 DEF Takes, NotFound, NoParameter, Refuse, Begin
    <3> QED
      BY <1>0, <3>1
  <2> QED
    BY <2>1, <2>2
<1>2. CASE InitDlms
  <2>1. CASE pc' = "end"
    <3>1. cmd \in Cmds /\ cmd' = cmd
      BY <1>b, <1>2 DEF InitDlms, locals
    <3>2. last' = "failed" \/ (Kind[cmd] = "ls" /\ Param[cmd] # "given")
      BY <1>2, <2>1 DEF InitDlms, Update, Failure
    <3> QED
      BY <1>s, <2>1, <3>1, <3>2 DEF PartsReported, WebAnswered, MqttAnswered
  <2>2. CASE pc' # "end"
    <3>1. pc' # "reinit"
      BY <1>2 DEF InitDlms
    <3> QED
      BY <1>0, <2>2, <3>1
  <2> QED
    BY <2>1, <2>2
<1>3. CASE Act \/ ReadOnce
  <2>1. cmd \in Cmds /\ cmd' = cmd /\ pc' = "end"
    BY <1>b, <1>3 DEF Act, ReadOnce, locals
  <2>2. \/ last' \in {"success", "failed"}
        \/ vague' /\ (Source[cmd] = "web" => last' = "other")
    BY <1>3 DEF Act, ReadOnce, Read, Update, Success, Failure
  <2> QED
    BY <1>s, <2>1, <2>2 DEF PartsReported, WebAnswered, MqttAnswered
<1>4. CASE ReadDay \/ ReadCategory
  <2>1. cmd \in Cmds /\ cmd' = cmd /\ pc' = "reinit"
    BY <1>b, <1>4 DEF ReadDay, ReadCategory, locals
  <2>2. CASE ReadDay
    <3>1. Kind[cmd] = "ls" /\ (last' \in {"day success", "day failed"} \/ vague')
      BY <2>2 DEF ReadDay, Read, Update, Success, Failure
    <3> QED
      BY <2>1, <3>1 DEF PartsReported, WebAnswered, MqttAnswered
  <2>3. CASE ReadCategory
    <3>1. Kind[cmd] = "events"
      BY <2>3 DEF ReadCategory
    <3> QED
      BY <2>1, <3>1 DEF PartsReported, WebAnswered, MqttAnswered
  <2> QED
    BY <1>4, <2>2, <2>3
<1>5. CASE Reinit
  <2>1. cmd \in Cmds /\ cmd' = cmd /\ vague' = vague /\ Kind[cmd] \in {"ls", "events"}
    BY <1>b, <1>5 DEF Reinit, PartsReported
  <2>2. CASE pc' = "end"
    <3>1. last' \in {"success", "failed"} \/ (Kind[cmd] = "ls" /\ last' = last)
      BY <1>5, <2>1, <2>2 DEF Reinit, Update, Success, Failure
    <3>2. Kind[cmd] = "ls" /\ Source[cmd] = "mqtt" /\ ~vague => last # "none"
      BY <1>5 DEF Reinit, PartsReported
    <3> QED
      BY <1>s, <2>1, <2>2, <3>1, <3>2 DEF PartsReported, WebAnswered, MqttAnswered
  <2>3. CASE pc' # "end"
    <3>1. pc' # "reinit"
      BY <1>5, <2>3 DEF Reinit
    <3> QED
      BY <1>0, <2>3, <3>1
  <2> QED
    BY <2>2, <2>3
<1>6. CASE InvalidDate \/ End \/ PassEnds \/ Checks \/ Poll \/ Crash
  <2>1. pc' \notin {"reinit", "end"}
    BY <1>6 DEF InvalidDate, End, PassEnds, Checks, CheckStart, CheckFails, DropTable, SkipAck,
                NoAck, RemoveAck, NextAck, Poll, Crash
  <2> QED
    BY <1>0, <2>1
<1>7. CASE Others \/ UNCHANGED vars
  <2>1. UNCHANGED <<pc, cmd, last, vague>>
    BY <1>7 DEF Others, Upload, OtherAck, OtherRemoves, vars, locals, answers
  <2> QED
    BY <2>1 DEF PartsReported, WebAnswered, MqttAnswered
<1> QED
  BY <1>1, <1>2, <1>3, <1>4, <1>5, <1>6, <1>7, Zenon DEF Next, Program, Takes, Checks, Others

LEMMA AnswersInvariant == Spec => [](TypeOK /\ AnswerInv)
<1>1. Init => TypeOK /\ AnswerInv
  BY InitTypes DEF Init, AnswerInv, PartsReported, WebAnswered, MqttAnswered
<1>2. (TypeOK /\ AnswerInv) /\ [Next]_vars => (TypeOK /\ AnswerInv)'
  BY TypesKept, AnswersKept
<1> QED
  BY <1>1, <1>2, PTL DEF Spec

(* No command from the web page other than a load survey is left "In       *)
(* Progress" at the end of its branch of process_od_cmd(), whichever of    *)
(* init_dlms() and the reads fail.                                         *)
THEOREM WebCommandsAnswered == Spec => []WebAnswered
<1>1. AnswerInv => WebAnswered
  BY DEF AnswerInv
<1> QED
  BY <1>1, AnswersInvariant, PTL

(* Every MQTT command with its parameter is answered by the end of its     *)
(* branch, if its outcomes read as success or failure.                     *)
THEOREM MqttCommandsAnswered == Spec => []MqttAnswered
<1>1. AnswerInv => MqttAnswered
  BY DEF AnswerInv
<1> QED
  BY <1>1, AnswersInvariant, PTL

(***************************************************************************)
(* The rows that the check for acknowledgements discards.  A table whose   *)
(* acknowledgement waits holds only rows that were in it at the upload and *)
(* rows that were stored since.                                            *)
(***************************************************************************)
AcksCover ==
  \A t \in Range(ftp_od_resp_sts) \cap Tables : od_table[t] \subseteq uploaded[t] \cup overlapped[t]

LEMMA CoverPlaced ==
  ASSUME TypeOK, AcksCover, NEW t \in Tables, NEW r, UNCHANGED ftp_od_resp_sts,
         od_table' = [od_table EXCEPT ![t] = @ \cup {r}], NoteRow(t, r)
  PROVE  AcksCover'
<1> SUFFICES ASSUME NEW u \in Range(ftp_od_resp_sts) \cap Tables
             PROVE  od_table'[u] \subseteq uploaded'[u] \cup overlapped'[u]
  BY DEF AcksCover
<1>2. u \in Tables
  OBVIOUS
<1>3. od_table[u] \subseteq uploaded[u] \cup overlapped[u]
  BY DEF AcksCover
<1>4. uploaded' = [uploaded EXCEPT ![t] = @ \ {r}]
  BY DEF NoteRow
<1>5. u = t => overlapped' = [overlapped EXCEPT ![t] = @ \cup {r}]
  BY DEF NoteRow, Pending
<1>6. u # t => overlapped'[u] = overlapped[u]
  BY <1>2 DEF NoteRow, TypeOK
<1> QED
  BY <1>2, <1>3, <1>4, <1>5, <1>6 DEF TypeOK

LEMMA CoverDropped ==
  ASSUME TypeOK, AcksCover, NEW t \in Tables, UNCHANGED ftp_od_resp_sts, Drop(t)
  PROVE  AcksCover'
<1> SUFFICES ASSUME NEW u \in Range(ftp_od_resp_sts) \cap Tables
             PROVE  od_table'[u] \subseteq uploaded'[u] \cup overlapped'[u]
  BY DEF AcksCover
<1> QED
  BY DEF AcksCover, Drop, TypeOK

LEMMA CoverRead ==
  ASSUME TypeOK, AcksCover, pc \in Busy, NEW outcome, Read(outcome), UNCHANGED ftp_od_resp_sts
  PROVE  AcksCover'
<1>1. Table[cmd] # NoTable => Table[cmd] \in Tables
  BY CommandTypes DEF TypeOK
<1>2. CASE Store
  BY <1>1, <1>2, CoverPlaced DEF Store
<1>3. CASE StoreNothing
  BY <1>3 DEF StoreNothing, rows, AcksCover
<1>4. CASE StoreFails
  BY <1>1, <1>4, CoverDropped DEF StoreFails
<1> QED
  BY <1>2, <1>3, <1>4 DEF Read

LEMMA CoverKept == TypeOK /\ AcksCover /\ [Next]_vars => AcksCover'
<1> SUFFICES ASSUME TypeOK, AcksCover, [Next]_vars PROVE AcksCover'
  OBVIOUS
<1>t. ftp_od_resp_sts \in Seq(Acks)
  BY DEF TypeOK
<1>0. ASSUME UNCHANGED <<od_table, rows, ftp_od_resp_sts>> PROVE AcksCover'
  BY <1>0 DEF rows, AcksCover
<1>1. ASSUME NEW c \in Cmds, Takes(c) PROVE AcksCover'
  BY <1>0, <1>1 DEF Takes, NotFound, NoParameter, Unrecognised, Refuse, Begin, lists
<1>2. CASE \/ InitDlms \/ InvalidDate \/ Act \/ Reinit \/ End \/ PassEnds
           \/ CheckStart \/ CheckFails \/ SkipAck \/ NoAck \/ Crash
  BY <1>0, <1>2 DEF InitDlms, InvalidDate, Act, Reinit, End, PassEnds, CheckStart, CheckFails,
                    SkipAck, NoAck, Crash, lists
<1>3. CASE ReadOnce \/ ReadDay \/ ReadCategory
  <2>1. pc \in Busy /\ UNCHANGED ftp_od_resp_sts
    BY <1>3 DEF ReadOnce, ReadDay, ReadCategory, Busy
  <2>2. \E outcome : Read(outcome)
    BY <1>3 DEF ReadOnce, ReadDay, ReadCategory
  <2> QED
    BY <2>1, <2>2, CoverRead
<1>4. CASE DropTable
  <2>1. UNCHANGED ftp_od_resp_sts /\ (Drop(item') \/ UNCHANGED <<od_table, rows>>)
    BY <1>4 DEF DropTable, lists
  <2>2. ASSUME NEW t \in Tables, Drop(t) PROVE AcksCover'
    BY <2>1, <2>2, CoverDropped
  <2> QED
    BY <1>0, <1>4, <2>1, <2>2, AckLookedUp
<1>5. CASE RemoveAck \/ OtherAck \/ OtherRemoves
  <2>1. Range(ftp_od_resp_sts') \subseteq Range(ftp_od_resp_sts) \cup {NoTable}
    BY <1>5, AckListKept
  <2>2. UNCHANGED <<od_table, rows>>
    BY <1>5 DEF RemoveAck, OtherAck, OtherRemoves
  <2>3. NoTable \notin Tables
    BY CommandTypes
  <2> QED
    BY <2>1, <2>2, <2>3 DEF rows, AcksCover
<1>6. CASE Poll
  <2>1. UNCHANGED ftp_od_resp_sts
    BY <1>6 DEF Poll, lists
  <2> QED
    BY <1>0, <1>6, <2>1, CoverPlaced DEF Poll
<1>7. CASE Upload
  <2> DEFINE t == Last(ftp_od_cmd_resp).table
  <2>1. CASE t = NoTable
    BY <1>0, <1>7, <2>1 DEF Upload, rows
  <2>2. CASE t # NoTable
    <3>1. /\ uploaded' = [uploaded EXCEPT ![t] = od_table[t]]
          /\ ftp_od_resp_sts' = Append(ftp_od_resp_sts, t)
          /\ UNCHANGED <<od_table, overlapped>>
      BY <1>7, <2>2 DEF Upload
    <3>2. t \in Tables
      <4>1. ftp_od_cmd_resp \in Seq(Responses) /\ ftp_od_cmd_resp # <<>>
        BY <1>7 DEF Upload, TypeOK
      <4>2. Last(ftp_od_cmd_resp) \in Responses
        BY <4>1, FrontProperties
      <4> QED
        BY <2>2, <4>2 DEF Responses
    <3> HIDE DEF t
    <3>3. Range(ftp_od_resp_sts') = Range(ftp_od_resp_sts) \cup {t}
      BY <1>t, <3>1, <3>2, RangeOfAppend DEF Acks
    <3>5. ASSUME NEW u \in Range(ftp_od_resp_sts') \cap Tables
          PROVE  od_table'[u] \subseteq uploaded'[u] \cup overlapped'[u]
      <4>1. u \in Tables
        OBVIOUS
      <4>2. CASE u = t
        BY <3>1, <4>1, <4>2 DEF TypeOK
      <4>3. CASE u # t
        <5>1. u \in Range(ftp_od_resp_sts)
          BY <3>3, <4>3
        <5>2. od_table[u] \subseteq uploaded[u] \cup overlapped[u]
          BY <5>1 DEF AcksCover
        <5> QED
          BY <3>1, <4>1, <4>3, <5>2 DEF TypeOK
      <4> QED
        BY <4>2, <4>3
    <3> QED
      BY <3>5 DEF AcksCover
  <2> QED
    BY <2>1, <2>2
<1>8. CASE UNCHANGED vars
  BY <1>0, <1>8 DEF vars, lists
<1> QED
  BY <1>1, <1>2, <1>3, <1>4, <1>5, <1>6, <1>7, <1>8, Zenon DEF Next, Program, Takes, Checks, Others

(* check_od_command_resp() discards only rows that were uploaded, or that  *)
(* were stored while an upload of their table was under way.               *)
THEOREM OnlyOverlappedLost == Spec => LostOnlyOverlapped
<1> DEFINE Kept == pc = "lindex" =>
             \A t \in Tables : od_table[t] \ od_table'[t] \subseteq uploaded[t] \cup overlapped[t]
<1>1. Init => TypeOK /\ AcksCover
  <2>1. Range(<<>>) = {}
    BY DEF Range
  <2> QED
    BY <2>1, InitTypes DEF Init, AcksCover
<1>2. (TypeOK /\ AcksCover) /\ [Next]_vars => (TypeOK /\ AcksCover)'
  BY TypesKept, CoverKept
<1>3. TypeOK /\ AcksCover /\ [Next]_vars => [Kept]_vars
  <2> SUFFICES ASSUME TypeOK, AcksCover, Next, pc = "lindex", NEW t \in Tables
               PROVE  od_table[t] \ od_table'[t] \subseteq uploaded[t] \cup overlapped[t]
    OBVIOUS
  <2>1. CASE DropTable
    <3>1. item' \in Range(ftp_od_resp_sts) /\ item' \in Tables
      BY <2>1, AckLookedUp
    <3>2. od_table[item'] \subseteq uploaded[item'] \cup overlapped[item']
      BY <3>1 DEF AcksCover
    <3>3. od_table' = od_table \/ od_table' = [od_table EXCEPT ![item'] = {}]
      BY <2>1 DEF DropTable, Drop
    <3>4. t = item' \/ od_table'[t] = od_table[t]
      BY <3>3 DEF TypeOK
    <3> QED
      BY <3>2, <3>4
  <2>2. CASE SkipAck \/ NoAck \/ Others \/ Crash
    BY <2>2 DEF SkipAck, NoAck, Others, Upload, OtherAck, OtherRemoves, Crash
  <2>3. DropTable \/ SkipAck \/ NoAck \/ Others \/ Crash
    BY DEF Next, Program, NotFound, NoParameter, Unrecognised, Refuse, Begin, InitDlms, InvalidDate,
           Act, ReadOnce, ReadDay, ReadCategory, Reinit, End, PassEnds, CheckStart, CheckFails,
           RemoveAck, Poll, Others
  <2> QED
    BY <2>1, <2>2, <2>3
<1> QED
  BY <1>1, <1>2, <1>3, PTL DEF Spec, LostOnlyOverlapped

(***************************************************************************)
(* Where the rows of the periodic poll go.  Outside the branches that set  *)
(* OD_CMD_RECEIVED themselves, it is set only if the command that set it   *)
(* last returned before it could clear it.                                 *)
(***************************************************************************)
Returned(c) ==
  /\ c # NoCmd
  /\ \/ Kind[c] \in FlagFirst /\ Param[c] = "missing"
     \/ Kind[c] = "dated" /\ Param[c] = "malformed"

FlagExplained ==
  /\ pc \in Busy /\ Kind[cmd] \notin Unflagged => flag_set_by = cmd
  /\ pc \notin Busy \/ Kind[cmd] \in Unflagged
       => (OD_CMD_RECEIVED = 1 => Returned(flag_set_by))

LEMMA FlagKept == TypeOK /\ FlagExplained /\ [Next]_vars => FlagExplained'
<1> SUFFICES ASSUME TypeOK, FlagExplained, [Next]_vars PROVE FlagExplained'
  OBVIOUS
<1>b. pc \in Busy => cmd \in Cmds
  BY DEF TypeOK
<1>n. NoCmd \notin Cmds
  BY CommandTypes
<1>0. ASSUME UNCHANGED <<OD_CMD_RECEIVED, flag_set_by>>, pc \in Busy => Kind[cmd] \in Unflagged,
             pc' \notin Busy
      PROVE  FlagExplained'
  BY <1>0 DEF FlagExplained, Returned
<1>1. ASSUME UNCHANGED <<cmd, OD_CMD_RECEIVED, flag_set_by>>, pc \in Busy, pc' \in Busy
      PROVE  FlagExplained'
  BY <1>1 DEF FlagExplained, Returned
<1>2. ASSUME NEW c \in Cmds, Takes(c) PROVE FlagExplained'
  <2>1. pc \notin Busy
    BY <1>2 DEF Takes, NotFound, NoParameter, Unrecognised, Refuse, Begin, Busy
  <2>2. CASE NotFound(c)
    <3>1. pc' \notin Busy
      BY <2>2 DEF NotFound, Refuse, Busy
    <3> QED
      BY <1>0, <2>1, <2>2, <3>1 DEF NotFound
  <2>3. CASE NoParameter(c)
    <3>1. pc' \notin Busy /\ flag_set_by' = c /\ Returned(c)
      BY <1>n, <2>3 DEF NoParameter, Refuse, Returned, Busy
    <3> QED
      BY <3>1 DEF FlagExplained, Returned
  <2>4. CASE Begin(c) /\ Kind[c] \notin Unflagged
    <3>1. pc' \in Busy /\ cmd' = c /\ flag_set_by' = c
      BY <2>4 DEF Begin, Busy
    <3> QED
      BY <2>4, <3>1 DEF FlagExplained
  <2>5. CASE Unrecognised(c) \/ (Begin(c) /\ Kind[c] \in Unflagged)
    <3>1. cmd' = c /\ Kind[c] \in Unflagged /\ UNCHANGED <<OD_CMD_RECEIVED, flag_set_by>>
      BY <2>5 DEF Unrecognised, Begin, Unflagged
    <3> QED
      BY <2>1, <3>1 DEF FlagExplained, Returned
  <2> QED
    BY <1>2, <2>2, <2>3, <2>4, <2>5 DEF Takes
<1>3. CASE InitDlms \/ Act \/ ReadOnce \/ ReadDay \/ ReadCategory
  <2>1. pc \in Busy /\ pc' \in Busy /\ UNCHANGED <<locals, flag_set_by>>
    BY <1>3 DEF InitDlms, Act, ReadOnce, ReadDay, ReadCategory, Busy
  <2> QED
    BY <1>1, <2>1 DEF locals
<1>4. CASE Reinit
  <2>1. pc \in Busy /\ pc' \in Busy /\ UNCHANGED <<cmd, OD_CMD_RECEIVED, flag_set_by>>
    BY <1>4 DEF Reinit, Busy
  <2> QED
    BY <1>1, <2>1
<1>5. CASE End
  <2>1. pc' \notin Busy
    BY <1>5 DEF End, Busy
  <2>2. CASE Kind[cmd] \in Unflagged
    BY <1>0, <1>5, <2>1, <2>2 DEF End
  <2>3. CASE Kind[cmd] \notin Unflagged
    <3>1. OD_CMD_RECEIVED' = 0
      BY <1>5, <2>3 DEF End
    <3> QED
      BY <2>1, <3>1 DEF FlagExplained
  <2> QED
    BY <2>2, <2>3
<1>6. CASE InvalidDate
  <2>1. /\ pc \in Busy /\ pc' \notin Busy /\ Kind[cmd] = "dated" /\ Param[cmd] = "malformed"
        /\ UNCHANGED <<OD_CMD_RECEIVED, flag_set_by>>
    BY <1>6 DEF InvalidDate, BadDate, Busy
  <2>2. flag_set_by = cmd
    BY <2>1 DEF FlagExplained, Unflagged
  <2>3. Returned(cmd)
    BY <1>b, <1>n, <2>1 DEF Returned
  <2> QED
    BY <2>1, <2>2, <2>3 DEF FlagExplained, Returned
<1>7. CASE PassEnds \/ Checks \/ Poll
  <2>1. pc \notin Busy /\ pc' \notin Busy /\ UNCHANGED <<OD_CMD_RECEIVED, flag_set_by>>
    BY <1>7 DEF PassEnds, Poll, Checks, CheckStart, CheckFails, DropTable, SkipAck, NoAck,
                RemoveAck, NextAck, locals, Busy
  <2> QED
    BY <1>0, <2>1
<1>8. CASE Crash
  <2>1. OD_CMD_RECEIVED' = 0 /\ pc' \notin Busy
    BY <1>8 DEF Crash, Busy
  <2> QED
    BY <2>1 DEF FlagExplained
<1>9. CASE Others \/ UNCHANGED vars
  <2>1. UNCHANGED <<pc, cmd, OD_CMD_RECEIVED, flag_set_by>>
    BY <1>9 DEF Others, Upload, OtherAck, OtherRemoves, vars, locals
  <2> QED
    BY <2>1 DEF FlagExplained, Returned
<1> QED
  BY <1>2, <1>3, <1>4, <1>5, <1>6, <1>7, <1>8, <1>9, Zenon DEF Next, Program, Takes, Checks, Others

(* Nothing but the poll brings one of its rows to an on-demand table. *)
LEMMA PollRowsOnlyPolled ==
  ASSUME TypeOK, Next, NEW t \in Tables, PollRow \in od_table'[t] \ od_table[t]
  PROVE  Poll /\ OD_CMD_RECEIVED = 1
<1>0. od_table' # od_table /\ PollRow \in od_table'[t]
  OBVIOUS
<1>1. ASSUME NEW u, Drop(u) PROVE FALSE
  <2>1. od_table'[t] = {} \/ od_table'[t] = od_table[t]
    BY <1>1 DEF Drop, TypeOK
  <2> QED
    BY <2>1
<1>2. ASSUME pc \in Busy, NEW outcome, Read(outcome) PROVE FALSE
  <2>1. CASE Store
    <3>1. cmd \in Cmds /\ od_table' = [od_table EXCEPT ![Table[cmd]] = @ \cup {<<cmd, part>>}]
      BY <1>2, <2>1 DEF Store, TypeOK
    <3>2. PollRow # <<cmd, part>>
      BY <3>1, CommandTypes DEF PollRow
    <3>3. od_table'[t] \subseteq od_table[t] \cup {<<cmd, part>>}
      BY <3>1 DEF TypeOK
    <3> QED
      BY <3>2, <3>3
  <2>2. CASE StoreNothing
    BY <1>0, <2>2 DEF StoreNothing
  <2>3. CASE StoreFails
    BY <1>1, <2>3 DEF StoreFails
  <2> QED
    BY <1>2, <2>1, <2>2, <2>3 DEF Read
<1>3. ~(ReadOnce \/ ReadDay \/ ReadCategory)
  BY <1>2 DEF ReadOnce, ReadDay, ReadCategory, Busy
<1>4. ~DropTable
  <2> SUFFICES ASSUME DropTable PROVE FALSE
    OBVIOUS
  <2>1. (\E u : Drop(u)) \/ od_table' = od_table
    BY DEF DropTable
  <2> QED
    BY <1>0, <1>1, <2>1
<1>5. \A c \in Cmds : ~Takes(c)
  BY <1>0 DEF Takes, NotFound, NoParameter, Unrecognised, Refuse, Begin
<1>6. ~(InitDlms \/ InvalidDate \/ Act \/ Reinit \/ End \/ PassEnds \/ CheckStart \/ CheckFails
          \/ SkipAck \/ NoAck \/ RemoveAck \/ Others \/ Crash)
  BY <1>0 DEF InitDlms, InvalidDate, Act, Reinit, End, PassEnds, CheckStart, CheckFails, SkipAck,
              NoAck, RemoveAck, Others, Upload, OtherAck, OtherRemoves, Crash
<1>7. Poll
  BY <1>3, <1>4, <1>5, <1>6, Zenon DEF Next, Program, Takes, Checks, Others
<1> QED
  BY <1>0, <1>7 DEF Poll

(* A periodic row goes to an on-demand table only after a command that set *)
(* OD_CMD_RECEIVED and then returned for want of its parameter or of a     *)
(* date: every other branch of process_od_cmd() clears the flag before     *)
(* periodic polling goes on.                                               *)
THEOREM PeriodicRowsKeepPlace == Spec => PeriodicRowsPlaced
<1> DEFINE Placed == \A t \in Tables : PollRow \in od_table'[t] \ od_table[t] => Returned(flag_set_by)
<1>1. Init => TypeOK /\ FlagExplained
  BY InitTypes DEF Init, FlagExplained, Busy
<1>2. (TypeOK /\ FlagExplained) /\ [Next]_vars => (TypeOK /\ FlagExplained)'
  BY TypesKept, FlagKept
<1>3. TypeOK /\ FlagExplained /\ [Next]_vars => [Placed]_vars
  <2> SUFFICES ASSUME TypeOK, FlagExplained, Next, NEW t \in Tables,
                      PollRow \in od_table'[t] \ od_table[t]
               PROVE  Returned(flag_set_by)
    OBVIOUS
  <2>1. Poll /\ OD_CMD_RECEIVED = 1
    BY PollRowsOnlyPolled
  <2>2. pc \notin Busy
    BY <2>1 DEF Poll, Busy
  <2> QED
    BY <2>1, <2>2 DEF FlagExplained
<1> QED
  BY <1>1, <1>2, <1>3, PTL DEF Spec, PeriodicRowsPlaced, Returned
=============================================================================
