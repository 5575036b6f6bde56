------------------------ MODULE OdQueueServiceProofs ------------------------
(***************************************************************************)
(* OdQueue with one process implements OdService, for any commands, pushes *)
(* and faults: each step of the process is a step of the service or none.  *)
(***************************************************************************)
EXTENDS OdQueueService, OdQueueProofs

(* What delete_processed_cmd() of the lone process acts upon: its command  *)
(* was handled, and before LPOP the list still holds the copy it found.    *)
Deleting ==
  \A p \in Ports :
    /\ pc[p] \in {"llen2", "lindex2", "lpop"} => handled[p][od_cmd[p]] > 0
    /\ pc[p] = "lpop" =>
         \E d \in Cmds : Contains(queue, d) /\ Key[d] = Key[od_cmd[p]]

LEMMA LonePortDeleting ==
  ASSUME SinglePort
  PROVE  Spec => []Deleting
<1>1. Init => Deleting
  BY DEF Init, Deleting
<1>2. TypeOK /\ Unshifted /\ Deleting /\ [Next]_vars => Deleting'
  <2> SUFFICES ASSUME TypeOK, Unshifted, Deleting, [Next]_vars PROVE Deleting'
    OBVIOUS
  <2> DEFINE D(p) ==
        /\ pc[p] \in {"llen2", "lindex2", "lpop"} => handled[p][od_cmd[p]] > 0
        /\ pc[p] = "lpop" =>
             \E d \in Cmds : Contains(queue, d) /\ Key[d] = Key[od_cmd[p]]
  <2>0. ASSUME NEW p \in Ports, D(p)' PROVE Deleting'
    BY <2>0, SinglePort DEF SinglePort, Deleting
  <2>d. \A p \in Ports : D(p)
    BY DEF Deleting
  <2>t. /\ pc \in [Ports -> PCs]
        /\ del_cmd \in [Ports -> Nat]
        /\ handled \in [Ports -> [Cmds -> Nat]]
        /\ \A p \in Ports : pc[p] \notin {"idle", "lindex", "lrange"} => od_cmd[p] \in Cmds
    BY DEF TypeOK
  <2>o. ASSUME NEW p \in Ports, NEW l \in PCs, Goto(p, l) PROVE pc'[p] = l
    BY <2>t, <2>o DEF Goto
  <2>1. ASSUME NEW c \in Cmds, Submit(c) PROVE Deleting'
    <3>1. queue' = Append(queue, c) /\ UNCHANGED <<pc, od_cmd, handled>>
      BY <2>1 DEF Submit, locals
    <3>2. \A d : Contains(queue, d) => Contains(queue', d)
      BY <3>1, AppendKeeps
    <3> QED
      BY <3>1, <3>2 DEF Deleting
  <2>2. ASSUME NEW p \in Ports,
               \/ StartPass(p) \/ CheckPort(p) \/ Fetch(p) \/ Remove1(p)
               \/ LoseRedis(p) \/ Crash(p) \/ Restart(p)
        PROVE  Deleting'
    <3>1. PICK l \in {"idle", "lindex", "lrange", "lrem", "execute"} : Goto(p, l)
      BY <2>2, FaultEnds DEF StartPass, CheckPort, Fetch, Remove1, NextCmd, Stop
    <3>2. pc'[p] = l
      BY <2>o, <3>1 DEF PCs
    <3> QED
      BY <2>0, <3>2
  <2>3. ASSUME NEW p \in Ports, Execute(p) PROVE Deleting'
    <3>1. /\ pc[p] = "execute" /\ UNCHANGED od_cmd
          /\ handled' = [handled EXCEPT ![p] = Bump(@, od_cmd[p])]
          /\ Goto(p, "idle") \/ Goto(p, "llen2")
      BY <2>3 DEF Execute, Unshifted
    <3>2. pc'[p] \in {"idle", "llen2"}
      BY <2>o, <3>1 DEF PCs
    <3>3. handled'[p][od_cmd[p]] > 0
      BY <2>t, <3>1 DEF Bump
    <3> QED
      BY <2>0, <3>1, <3>2, <3>3
  <2>4. ASSUME NEW p \in Ports, DeleteStart(p) \/ DeletePop(p) PROVE Deleting'
    <3>1. pc[p] \in {"llen2", "lpop"} /\ UNCHANGED handled
      BY <2>4 DEF DeleteStart, DeletePop, history
    <3>2. PICK l \in {"idle", "lindex", "lindex2"} :
            Goto(p, l) /\ (l = "lindex2" => UNCHANGED od_cmd)
      BY <2>4 DEF DeleteStart, DeletePop, DoneCmd, NextCmd, locals
    <3>3. pc'[p] = l
      BY <2>o, <3>2 DEF PCs
    <3> QED
      BY <2>0, <2>d, <3>1, <3>2, <3>3
  <2>5. ASSUME NEW p \in Ports, DeleteScan(p) PROVE Deleting'
    <3>1. pc[p] = "lindex2" /\ UNCHANGED <<queue, handled>>
      BY <2>5 DEF DeleteScan, history
    <3>2. CASE /\ InList(del_cmd[p]) /\ Matches(p, At(del_cmd[p]))
               /\ Goto(p, "lpop") /\ UNCHANGED od_cmd
      <4>1. /\ At(del_cmd[p]) \in Cmds /\ Contains(queue, At(del_cmd[p]))
            /\ Key[At(del_cmd[p])] = Key[od_cmd[p]]
        BY <2>t, <3>2, AtType, FetchedContained DEF Matches
      <4>2. pc'[p] = "lpop"
        BY <2>o, <3>2 DEF PCs
      <4> HIDE DEF D
      <4>3. D(p)'
        BY <2>d, <3>1, <3>2, <4>1, <4>2 DEF D
      <4> QED
        BY <2>0, <4>3
    <3>3. CASE \E l \in {"idle", "lindex", "lindex2"} :
                 Goto(p, l) /\ (l = "lindex2" => UNCHANGED od_cmd)
      <4>1. PICK l \in {"idle", "lindex", "lindex2"} :
              Goto(p, l) /\ (l = "lindex2" => UNCHANGED od_cmd)
        BY <3>3
      <4>2. pc'[p] = l
        BY <2>o, <4>1 DEF PCs
      <4> QED
        BY <2>0, <2>d, <3>1, <4>1, <4>2
    <3> QED
      BY <2>5, <3>2, <3>3 DEF DeleteScan, DoneCmd, NextCmd
  <2>6. CASE UNCHANGED vars
    BY <2>6 DEF Deleting, vars, locals, history
  <2> QED
    BY <2>1, <2>2, <2>3, <2>4, <2>5, <2>6 DEF Next, ProcessOdCmd
<1> QED
  BY <1>1, <1>2, TypeCorrect, LonePortUnshifted, PTL DEF Spec
-----------------------------------------------------------------------------
(* The variables of the service, as this process implements them. *)
Waiting == [c \in Cmds |-> Count(queue, c)]
Holding == IF pc[LonePort] = "execute" THEN od_cmd[LonePort] ELSE NoCmd
Lost    == [c \in Cmds |-> abandoned[c] + dropped[c]]

LEMMA CountsAreFunctions ==
  ASSUME TypeOK
  PROVE  /\ Waiting \in [Cmds -> Nat] /\ \A c \in Cmds : Waiting[c] = Count(queue, c)
         /\ Lost \in [Cmds -> Nat] /\ \A c \in Cmds : Lost[c] = abandoned[c] + dropped[c]
<1>1. \A c : Count(queue, c) \in Nat
  BY CountType DEF TypeOK
<1>2. \A c \in Cmds : abandoned[c] + dropped[c] \in Nat
  BY DEF TypeOK
<1> QED
  BY <1>1, <1>2 DEF Waiting, Lost

(* One more, or one less, of one command. *)
LEMMA OneMore ==
  ASSUME NEW S, NEW f \in [S -> Nat], NEW g \in [S -> Nat], NEW c \in S,
         \A d \in S : g[d] = f[d] + (IF c = d THEN 1 ELSE 0)
  PROVE  g = [f EXCEPT ![c] = @ + 1]
<1>1. \A d \in S : f[d] \in Nat
  OBVIOUS
<1>2. \A d \in S : g[d] = [f EXCEPT ![c] = @ + 1][d]
  BY <1>1
<1> QED
  BY <1>2

LEMMA OneLess ==
  ASSUME NEW S, NEW f \in [S -> Nat], NEW g \in [S -> Nat], NEW c \in S,
         \A d \in S : f[d] = g[d] + (IF c = d THEN 1 ELSE 0)
  PROVE  f[c] > 0 /\ g = [f EXCEPT ![c] = @ - 1]
<1>1. \A d \in S : f[d] \in Nat /\ g[d] \in Nat
  OBVIOUS
<1>2. \A d \in S : g[d] = [f EXCEPT ![c] = @ - 1][d]
  BY <1>1
<1>3. [f EXCEPT ![c] = @ - 1] = [d \in S |-> [f EXCEPT ![c] = @ - 1][d]]
  OBVIOUS
<1> QED
  BY <1>1, <1>2, <1>3

(* Every Redis command, push and fault of a system with one process is one *)
(* step of the service or none.                                            *)
THEOREM ServiceStep ==
  ASSUME SinglePort, LonePort \in Ports,
         TypeOK, TypeOK', Unshifted, Deleting, [Next]_vars
  PROVE  [Service!Next]_(Service!vars)
<1> DEFINE p == LonePort
<1>t. /\ queue \in Seq(Cmds)
      /\ pc \in [Ports -> PCs]
      /\ od_cmd \in [Ports -> Cmds \cup {NoCmd}]
      /\ handled \in [Ports -> [Cmds -> Nat]]
      /\ ran_listed \in [Ports -> [Cmds -> Nat]]
      /\ abandoned \in [Cmds -> Nat] /\ dropped \in [Cmds -> Nat]
      /\ \A q \in Ports : pc[q] \notin {"idle", "lindex", "lrange"} => od_cmd[q] \in Cmds
  BY DEF TypeOK
<1>n. /\ Waiting \in [Cmds -> Nat] /\ \A c \in Cmds : Waiting[c] = Count(queue, c)
      /\ Lost \in [Cmds -> Nat] /\ \A c \in Cmds : Lost[c] = abandoned[c] + dropped[c]
  BY CountsAreFunctions
<1>m. /\ Waiting' \in [Cmds -> Nat] /\ \A c \in Cmds : Waiting'[c] = Count(queue', c)
      /\ Lost' \in [Cmds -> Nat] /\ \A c \in Cmds : Lost'[c] = abandoned'[c] + dropped'[c]
  <2>1. \A c : Count(queue', c) \in Nat
    BY CountType DEF TypeOK
  <2>2. abandoned' \in [Cmds -> Nat] /\ dropped' \in [Cmds -> Nat]
    BY DEF TypeOK
  <2>3. \A c \in Cmds : abandoned'[c] + dropped'[c] \in Nat
    BY <2>2
  <2> QED
    BY <2>1, <2>3 DEF Waiting, Lost
<1>p. \A q \in Ports : q = LonePort
  BY DEF SinglePort
<1>0. ASSUME UNCHANGED <<Waiting, Holding, handled[LonePort], ran_listed[LonePort], Lost>>
      PROVE  UNCHANGED Service!vars
  BY <1>0 DEF Service!vars, Waiting, Holding, Lost
<1>1. ASSUME NEW c \in Cmds, Submit(c) PROVE Service!Submit(c)
  <2>1. queue' = Append(queue, c) /\ UNCHANGED <<pc, od_cmd, handled, ran_listed, abandoned, dropped>>
    BY <1>1 DEF Submit, locals
  <2>2. \A d \in Cmds : Count(queue', d) = Count(queue, d) + (IF c = d THEN 1 ELSE 0)
    BY <1>t, <2>1, CountAppend
  <2>3. Waiting' = [Waiting EXCEPT ![c] = @ + 1]
    BY <1>n, <1>m, <2>2, OneMore
  <2> QED
    BY <2>1, <2>3 DEF Service!Submit, Service!More, Waiting
<1>2. ASSUME StartPass(p) \/ CheckPort(p) \/ Fetch(p) \/ DeleteStart(p) \/ DeleteScan(p)
      PROVE  UNCHANGED Service!vars
  <2>1. pc[p] # "execute" /\ UNCHANGED <<queue, history>>
    BY <1>2 DEF StartPass, CheckPort, Fetch, DeleteStart, DeleteScan
  <2>2. PICK l \in PCs \ {"execute"} : Goto(p, l)
    BY <1>2 DEF StartPass, CheckPort, Fetch, DeleteStart, DeleteScan, DoneCmd, NextCmd, PCs
  <2>3. pc'[p] # "execute"
    BY <1>t, <2>2 DEF Goto
  <2> QED
    BY <1>0, <2>1, <2>3 DEF Waiting, Holding, Lost, history
<1>3. ASSUME Remove1(p) PROVE Service!Take(od_cmd[p])
  <2>1. /\ pc[p] = "lrem" /\ pc'[p] = "execute"
        /\ UNCHANGED <<od_cmd, history>>
        /\ queue' = RemoveFirst(queue, od_cmd[p])
    BY <1>3, <1>t DEF Remove1, Goto, locals
  <2>2. /\ Contains(queue, od_cmd[p]) /\ od_cmd[p] \in Cmds \ Unparsable
        /\ Port[od_cmd[p]] = LonePort
    BY <1>t, <2>1 DEF Unshifted
  <2>3. \A c \in Cmds : Count(queue, c) = Count(queue', c) + (IF od_cmd[p] = c THEN 1 ELSE 0)
    BY <1>t, <2>1, <2>2, CountRemoveFirst
  <2>4. Waiting[od_cmd[p]] > 0 /\ Waiting' = [Waiting EXCEPT ![od_cmd[p]] = @ - 1]
    BY <1>n, <1>m, <2>2, <2>3, OneLess
  <2>5. Holding = NoCmd /\ Holding' = od_cmd[p]
    BY <2>1 DEF Holding
  <2>6. UNCHANGED <<handled[LonePort], ran_listed[LonePort], Lost>>
    BY <2>1 DEF history, Lost
  <2> QED
    BY <2>2, <2>4, <2>5, <2>6 DEF Service!Take, Service!Less, Waiting, Holding, Lost
<1>4. ASSUME Execute(p) PROVE Service!Finish
  <2>1. /\ pc[p] = "execute"
        /\ UNCHANGED <<queue, ran_listed, abandoned, dropped, od_cmd>>
        /\ handled' = [handled EXCEPT ![p] = Bump(@, od_cmd[p])]
        /\ Goto(p, "idle") \/ Goto(p, "llen2")
    BY <1>4 DEF Execute, Unshifted
  <2>2. pc'[p] # "execute"
    BY <1>t, <2>1 DEF Goto
  <2>3. Holding = od_cmd[p] /\ Holding' = NoCmd /\ od_cmd[p] # NoCmd
    BY <1>t, <2>1, <2>2, OdQueueAssumption DEF Holding
  <2>4. handled'[p] = [handled[p] EXCEPT ![od_cmd[p]] = @ + 1]
    BY <1>t, <2>1 DEF Bump
  <2>5. UNCHANGED <<Waiting, Lost>>
    BY <2>1 DEF Waiting, Lost
  <2>6. UNCHANGED ran_listed[LonePort]
    BY <2>1
  <2> QED
    BY <2>3, <2>4, <2>5, <2>6 DEF Service!Finish, Service!More, Waiting, Holding, Lost
<1>5. ASSUME DeletePop(p), queue # <<>>, NEW h \in Cmds, h = Head(queue)
      PROVE  Service!Discard(h)
  <2>1. /\ pc[p] = "lpop" /\ pc'[p] # "execute"
        /\ UNCHANGED <<handled, ran_listed, abandoned>>
        /\ queue' = Tail(queue) /\ dropped' = Bump(dropped, h)
    BY <1>5, <1>t DEF DeletePop, Goto
  <2>2. h \in Cmds
    BY <1>5
  <2>3. \A c \in Cmds : Count(queue, c) = Count(queue', c) + (IF h = c THEN 1 ELSE 0)
    BY <1>5, <1>t, <2>1, CountTail
  <2>4. Waiting[h] > 0 /\ Waiting' = [Waiting EXCEPT ![h] = @ - 1]
    BY <1>n, <1>m, <2>2, <2>3, OneLess
  <2>5. Lost' = [Lost EXCEPT ![h] = @ + 1]
    <3>1. \A c \in Cmds : dropped'[c] = dropped[c] + (IF h = c THEN 1 ELSE 0)
      BY <1>t, <2>1, <2>2 DEF Bump
    <3>2. \A c \in Cmds : abandoned[c] \in Nat /\ dropped[c] \in Nat
      BY <1>t
    <3>3. ASSUME NEW c \in Cmds
          PROVE  Lost'[c] = Lost[c] + (IF h = c THEN 1 ELSE 0)
      <4>1. Lost[c] = abandoned[c] + dropped[c] /\ Lost'[c] = abandoned[c] + dropped'[c]
        BY <1>n, <1>m, <2>1
      <4> QED
        BY <3>1, <3>2, <4>1
    <3> QED
      BY <1>n, <1>m, <2>2, <3>3, OneMore
  <2>6. Holding = NoCmd /\ Holding' = NoCmd
    BY <2>1 DEF Holding
  <2>7. Service!CopyWaits
    <3>1. od_cmd[p] \in Cmds /\ handled[LonePort][od_cmd[p]] > 0
      BY <1>t, <2>1 DEF Deleting
    <3>2. PICK d \in Cmds : Contains(queue, d) /\ Key[d] = Key[od_cmd[p]]
      BY <2>1 DEF Deleting
    <3>3. Waiting[d] > 0
      BY <1>t, <3>2, ContainsCounts DEF Waiting
    <3> QED
      BY <3>1, <3>2, <3>3 DEF Service!CopyWaits, Waiting
  <2> QED
    BY <2>1, <2>4, <2>5, <2>6, <2>7
    DEF Service!Discard, Service!More, Service!Less, Waiting, Holding, Lost
<1>6. ASSUME DeletePop(p), queue = <<>> PROVE UNCHANGED Service!vars
  <2>1. /\ pc[p] # "execute" /\ pc'[p] # "execute"
        /\ UNCHANGED <<queue, handled, ran_listed, abandoned, dropped>>
    BY <1>6, <1>t DEF DeletePop, Goto
  <2> QED
    BY <1>0, <2>1 DEF Waiting, Holding, Lost
<1>7. ASSUME Abandon(p)
      PROVE  Service!Forget \/ UNCHANGED Service!vars
  <2>1. Abandon(p)
    BY <1>7
  <2>2. /\ pc'[p] = "idle" /\ UNCHANGED <<queue, handled, ran_listed, dropped>>
    BY <1>t, <2>1 DEF Abandon, Stop, Goto
  <2>3. CASE pc[p] = "execute"
    <3>1. od_cmd[p] \in Cmds /\ abandoned' = Bump(abandoned, od_cmd[p])
      BY <1>t, <2>1, <2>3 DEF Abandon
    <3>2. Lost' = [Lost EXCEPT ![od_cmd[p]] = @ + 1]
      <4>1. \A c \in Cmds : abandoned'[c] = abandoned[c] + (IF od_cmd[p] = c THEN 1 ELSE 0)
        BY <1>t, <3>1 DEF Bump
      <4>2. \A c \in Cmds : abandoned[c] \in Nat /\ dropped[c] \in Nat
        BY <1>t
      <4>3. ASSUME NEW c \in Cmds
            PROVE  Lost'[c] = Lost[c] + (IF od_cmd[p] = c THEN 1 ELSE 0)
        <5>1. Lost[c] = abandoned[c] + dropped[c] /\ Lost'[c] = abandoned'[c] + dropped[c]
          BY <1>n, <1>m, <2>2
        <5> QED
          BY <4>1, <4>2, <5>1
      <4> QED
        BY <1>n, <1>m, <3>1, <4>3, OneMore
    <3>3. Holding = od_cmd[p] /\ Holding' = NoCmd /\ od_cmd[p] # NoCmd
      BY <2>2, <2>3, <3>1, OdQueueAssumption DEF Holding
    <3>4. UNCHANGED <<Waiting, handled[LonePort], ran_listed[LonePort]>>
      BY <2>2 DEF Waiting
    <3> QED
      BY <3>2, <3>3, <3>4 DEF Service!Forget, Service!More, Waiting, Holding, Lost
  <2>4. CASE pc[p] # "execute"
    BY <1>0, <2>1, <2>2, <2>4 DEF Abandon, Waiting, Holding, Lost
  <2> QED
    BY <2>3, <2>4
<1>b. ASSUME RunBlind(p)
      PROVE  Service!Finish \/ Service!RunUntaken(od_cmd[p])
  <2>1. /\ pc[p] \in {"lrem", "execute"} /\ od_cmd[p] \in NoMeter /\ od_cmd[p] \in Cmds
        /\ UNCHANGED <<queue, abandoned, dropped>> /\ pc'[p] = "idle"
    BY <1>t, <1>b, OdQueueAssumption DEF RunBlind, RunsBlind, Stop, Goto
  <2>2. UNCHANGED <<Waiting, Lost>>
    BY <2>1 DEF Waiting, Lost
  <2>3. CASE pc[p] = "lrem"
    <3>1. /\ ran_listed' = [ran_listed EXCEPT ![p] = Bump(@, od_cmd[p])]
          /\ UNCHANGED handled
      BY <1>b, <2>3 DEF RunBlind
    <3>2. ran_listed'[p] = [ran_listed[p] EXCEPT ![od_cmd[p]] = @ + 1]
      BY <1>t, <3>1 DEF Bump
    <3>3. /\ Contains(queue, od_cmd[p]) /\ od_cmd[p] \in Cmds \ Unparsable
          /\ Port[od_cmd[p]] = LonePort
      BY <1>t, <2>1, <2>3 DEF Unshifted
    <3>4. Waiting[od_cmd[p]] > 0
      BY <1>n, <1>t, <2>1, <3>3, ContainsCounts
    <3>5. Holding = NoCmd /\ Holding' = NoCmd
      BY <2>1, <2>3 DEF Holding
    <3> QED
      BY <2>1, <2>2, <3>1, <3>2, <3>3, <3>4, <3>5
      DEF Service!RunUntaken, Service!More, Waiting, Holding, Lost
  <2>4. CASE pc[p] = "execute"
    <3>1. /\ handled' = [handled EXCEPT ![p] = Bump(@, od_cmd[p])]
          /\ UNCHANGED ran_listed
      BY <1>b, <2>4 DEF RunBlind
    <3>2. handled'[p] = [handled[p] EXCEPT ![od_cmd[p]] = @ + 1]
      BY <1>t, <3>1 DEF Bump
    <3>3. Holding = od_cmd[p] /\ Holding' = NoCmd /\ od_cmd[p] # NoCmd
      BY <2>1, <2>4, OdQueueAssumption DEF Holding
    <3> QED
      BY <2>2, <3>1, <3>2, <3>3 DEF Service!Finish, Service!More, Waiting, Holding, Lost
  <2> QED
    BY <2>1, <2>3, <2>4
<1>8. CASE UNCHANGED vars
  BY <1>0, <1>8 DEF Waiting, Holding, Lost, vars, locals, history
<1>9. ASSUME NEW q \in Ports, ProcessOdCmd(q) \/ LoseRedis(q) \/ Crash(q) \/ Restart(q)
      PROVE  [Service!Next]_(Service!vars)
  <2>1. q = p
    BY <1>p
  <2>2. CASE Remove1(p)
    <3>1. od_cmd[p] \in Cmds
      BY <1>t, <2>2 DEF Remove1
    <3> QED
      BY <1>3, <2>2, <3>1 DEF Service!Next
  <2>3. CASE DeletePop(p) /\ queue # <<>>
    <3>1. Head(queue) \in Cmds
      BY <1>t, <2>3, ShorterLists
    <3>2. PICK h \in Cmds : h = Head(queue)
      BY <3>1
    <3>3. Service!Discard(h)
      BY <1>5, <2>3, <3>2
    <3> QED
      BY <3>3 DEF Service!Next
  <2>4. CASE Execute(p)
    BY <1>4, <2>4 DEF Service!Next
  <2>5. CASE LoseRedis(p) \/ Crash(p) \/ Restart(p)
    <3>1. CASE Abandon(p)
      BY <1>7, <3>1 DEF Service!Next
    <3>2. CASE RunBlind(p)
      <4>1. od_cmd[p] \in Cmds
        BY <3>2, OdQueueAssumption DEF RunBlind, RunsBlind
      <4> QED
        BY <1>b, <3>2, <4>1 DEF Service!Next
    <3> QED
      BY <2>5, <3>1, <3>2, FaultEnds
  <2> QED
    BY <1>2, <1>6, <1>9, <2>1, <2>2, <2>3, <2>4, <2>5 DEF ProcessOdCmd
<1> QED
  BY <1>1, <1>8, <1>9 DEF Next, Service!Next

(* What one process and the list promise to those who push commands is     *)
(* the service: see OdService.                                             *)
THEOREM LonePortServes ==
  ASSUME SinglePort, Ports # {}
  PROVE  Spec => ServiceImplemented
<1>0. LonePort \in Ports
  BY DEF LonePort
<1>1. Init => Service!Init
  <2>1. ASSUME NEW c PROVE Count(<<>>, c) = 0
    <3>1. {i \in 1..Len(<<>>) : <<>>[i] = c} = {}
      BY EmptySeq
    <3> QED
      BY <3>1, FS_EmptySet DEF Count
  <2> QED
    BY <1>0, <2>1 DEF Init, Service!Init
<1>2. TypeOK /\ TypeOK' /\ Unshifted /\ Deleting /\ [Next]_vars => [Service!Next]_(Service!vars)
  BY <1>0, ServiceStep
<1> QED
  BY <1>1, <1>2, TypeCorrect, LonePortUnshifted, LonePortDeleting, PTL
  DEF Spec, ServiceImplemented, Service!Spec
=============================================================================
