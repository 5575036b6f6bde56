--------------------------- MODULE OdQueueProofs ---------------------------
(***************************************************************************)
(* Proofs about OdQueue, for any number of ports, commands, pushes and     *)
(* faults.                                                                 *)
(***************************************************************************)
EXTENDS OdQueue, ListLemmas, FiniteSetTheorems

(* The index set that Count counts is finite. *)
LEMMA CountType ==
  ASSUME NEW S, NEW s \in Seq(S), NEW c
  PROVE  /\ IsFiniteSet({i \in 1..Len(s) : s[i] = c})
         /\ Count(s, c) \in Nat
<1>1. IsFiniteSet(1..Len(s))
  BY LenProperties, FS_Interval
<1>2. IsFiniteSet({i \in 1..Len(s) : s[i] = c})
  BY <1>1, FS_Subset
<1> QED
  BY <1>2, FS_CardinalityType DEF Count

(* RPUSH adds one occurrence of the pushed element. *)
LEMMA CountAppend ==
  ASSUME NEW S, NEW s \in Seq(S), NEW e \in S, NEW c
  PROVE  Count(Append(s, e), c) = Count(s, c) + (IF e = c THEN 1 ELSE 0)
<1> DEFINE t == Append(s, e)
           I == {i \in 1..Len(s) : s[i] = c}
           J == {i \in 1..Len(t) : t[i] = c}
           n == Len(s) + 1
<1>1. /\ Len(s) \in Nat
      /\ Len(t) = n /\ t[n] = e /\ \A i \in 1..Len(s) : t[i] = s[i]
  BY LenProperties, AppendProperties
<1>2. IsFiniteSet(I) /\ Cardinality(I) \in Nat
  BY CountType DEF Count
<1>3. n \notin I
  BY <1>1
<1>0. Count(t, c) = Cardinality(J) /\ Count(s, c) = Cardinality(I)
  BY DEF Count
<1> HIDE DEF t
<1>4. CASE e = c
  <2>1. J = I \cup {n}
    BY <1>1, <1>4
  <2>2. Cardinality(J) = Cardinality(I) + 1
    BY <1>2, <1>3, <2>1, FS_AddElement
  <2> QED
    BY <1>0, <1>4, <2>2 DEF t
<1>5. CASE e # c
  <2>1. J = I
    BY <1>1, <1>5
  <2>2. Cardinality(J) = Cardinality(I)
    BY <2>1
  <2> HIDE DEF I, J
  <2> QED
    BY <1>0, <1>2, <1>5, <2>2 DEF t
<1> QED
  BY <1>4, <1>5

(* Taking one position out removes one occurrence of its element. *)
LEMMA CountRemoveAt ==
  ASSUME NEW S, NEW s \in Seq(S), NEW k \in 1..Len(s), NEW c
  PROVE  Count(s, c) = Count(RemoveAt(s, k), c) + (IF s[k] = c THEN 1 ELSE 0)
<1> DEFINE t == RemoveAt(s, k)
           I == {i \in 1..Len(s) : s[i] = c}
           J == {i \in 1..Len(t) : t[i] = c}
           f == [i \in J |-> IF i < k THEN i ELSE i + 1]
<1>1. /\ Len(s) \in Nat
      /\ t \in Seq(S)
      /\ Len(t) = Len(s) - 1
      /\ \A i \in 1..(Len(s) - 1) : t[i] = IF i < k THEN s[i] ELSE s[i + 1]
  BY LenProperties, RemoveAtProperties
<1>2. /\ IsFiniteSet(I) /\ Cardinality(I) \in Nat
      /\ IsFiniteSet(J) /\ Cardinality(J) \in Nat
  BY <1>1, CountType DEF Count
<1> HIDE DEF t
<1>3. \A i \in J : f[i] \in I \ {k}
  BY <1>1
<1>4. \A i, j \in J : f[i] = f[j] => i = j
  BY <1>1
<1>5. \A m \in I \ {k} : \E i \in J : f[i] = m
  <2> SUFFICES ASSUME NEW m \in I \ {k} PROVE \E i \in J : f[i] = m
    OBVIOUS
  <2>1. CASE m < k
    <3>1. m \in J
      BY <1>1, <2>1
    <3> QED
      BY <2>1, <3>1
  <2>2. CASE m > k
    <3>1. m - 1 \in J
      BY <1>1, <2>2
    <3>2. f[m - 1] = m
      BY <2>2, <3>1
    <3> QED
      BY <3>1, <3>2
  <2> QED
    BY <2>1, <2>2
<1>6. f \in Bijection(J, I \ {k})
  BY <1>3, <1>4, <1>5 DEF Bijection, Injection, Surjection, IsInjective
<1>7. Cardinality(I \ {k}) = Cardinality(J)
  BY <1>2, <1>6, FS_Bijection DEF ExistsBijection
<1>8. Cardinality(I \ {k}) = IF k \in I THEN Cardinality(I) - 1 ELSE Cardinality(I)
  BY <1>2, FS_RemoveElement
<1>9. k \in I <=> s[k] = c
  BY <1>1
<1> QED
  BY <1>2, <1>7, <1>8, <1>9 DEF Count, t
-----------------------------------------------------------------------------
LEMMA AtType ==
  ASSUME TypeOK, NEW i \in Nat, InList(i)
  PROVE  At(i) \in Cmds
<1>1. i + 1 \in 1..Len(queue)
  BY LenProperties DEF TypeOK, InList
<1> QED
  BY <1>1, ElementOfSeq DEF TypeOK, At

LEMMA BumpType ==
  ASSUME NEW S, NEW f \in [S -> Nat], NEW c \in S
  PROVE  Bump(f, c) \in [S -> Nat]
BY DEF Bump

(* However a process ends, it drops what it is at or runs it blindly. *)
LEMMA FaultEnds ==
  ASSUME NEW p, LoseRedis(p) \/ Crash(p) \/ Restart(p)
  PROVE  (Abandon(p) \/ RunBlind(p)) /\ Stop(p)
BY DEF LoseRedis, Crash, Restart, Abandon, RunBlind

(* Every variable keeps its type through any interleaving of the ports'    *)
(* Redis commands, pushes and faults.                                      *)
THEOREM TypeCorrect == Spec => []TypeOK
<1>1. Init => TypeOK
  BY OdQueueAssumption DEF Init, TypeOK, PCs
<1>2. TypeOK /\ [Next]_vars => TypeOK'
  <2> SUFFICES ASSUME TypeOK, [Next]_vars PROVE TypeOK'
    OBVIOUS
  <2> USE OdQueueAssumption
  <2>0. Len(queue) \in Nat
    BY LenProperties DEF TypeOK
  <2>1. ASSUME NEW c \in Cmds, Submit(c) PROVE TypeOK'
    <3>1. Append(queue, c) \in Seq(Cmds)
      BY AppendProperties DEF TypeOK
    <3>2. submitted' \in [Cmds -> Nat]
      BY <2>1, BumpType DEF TypeOK, Submit
    <3> QED
      BY <2>1, <3>1, <3>2 DEF TypeOK, Submit, locals
  <2>2. ASSUME NEW p \in Ports, StartPass(p) PROVE TypeOK'
    BY <2>0, <2>2 DEF TypeOK, StartPass, Goto, PCs, history
  <2>3. ASSUME NEW p \in Ports, CheckPort(p) PROVE TypeOK'
    <3>1. UNCHANGED <<queue, empty_check, od_cmd, del_cmd, del_len, conn, history>>
      BY <2>3 DEF CheckPort
    <3>2. CASE Goto(p, "lrange") /\ UNCHANGED num_cmd
      BY <3>1, <3>2 DEF TypeOK, Goto, PCs, history
    <3>3. CASE NextCmd(p)
      BY <3>1, <3>3 DEF TypeOK, NextCmd, Goto, PCs, history
    <3> QED
      BY <2>3, <3>2, <3>3 DEF CheckPort
  <2>4. ASSUME NEW p \in Ports, Fetch(p) PROVE TypeOK'
    <3>1. UNCHANGED <<queue, empty_check, del_cmd, del_len, conn, history>>
      BY <2>4 DEF Fetch
    <3>2. CASE /\ InList(num_cmd[p])
               /\ od_cmd' = [od_cmd EXCEPT ![p] = At(num_cmd[p])]
               /\ Goto(p, "lrem") /\ UNCHANGED num_cmd
      <4>1. At(num_cmd[p]) \in Cmds
        BY <3>2, AtType DEF TypeOK
      <4> QED
        BY <3>1, <3>2, <4>1 DEF TypeOK, Goto, PCs, history
    <3>3. CASE NextCmd(p) /\ UNCHANGED od_cmd
      BY <3>1, <3>3 DEF TypeOK, NextCmd, Goto, PCs, history
    <3> QED
      BY <2>4, <3>2, <3>3 DEF Fetch
  <2>5. ASSUME NEW p \in Ports, Remove1(p) PROVE TypeOK'
    <3>1. queue' \in Seq(Cmds)
      BY <2>5, ShorterLists DEF TypeOK, Remove1
    <3> QED
      BY <2>5, <3>1 DEF TypeOK, Remove1, Goto, PCs, locals, history
  <2>6. ASSUME NEW p \in Ports, Execute(p) PROVE TypeOK'
    <3>1. /\ UNCHANGED <<queue, empty_check, od_cmd, del_cmd, del_len, conn>>
          /\ UNCHANGED <<submitted, ran_listed, dropped, faults>>
          /\ pc[p] = "execute"
      BY <2>6 DEF Execute
    <3>2. CASE /\ NextCmd(p)
               /\ abandoned' = Bump(abandoned, od_cmd[p])
               /\ UNCHANGED handled
      <4>1. abandoned \in [Cmds -> Nat] /\ od_cmd[p] \in Cmds
        BY <3>1 DEF TypeOK
      <4>2. abandoned' \in [Cmds -> Nat]
        BY <3>2, <4>1, BumpType
      <4> QED
        BY <3>1, <3>2, <4>2 DEF TypeOK, NextCmd, Goto, PCs
    <3>3. CASE /\ handled' = [handled EXCEPT ![p] = Bump(@, od_cmd[p])]
               /\ Goto(p, "idle") \/ Goto(p, "llen2")
               /\ UNCHANGED <<num_cmd, abandoned>>
      <4>1. handled \in [Ports -> [Cmds -> Nat]] /\ od_cmd[p] \in Cmds
        BY <3>1 DEF TypeOK
      <4>2. Bump(handled[p], od_cmd[p]) \in [Cmds -> Nat]
        BY <4>1, BumpType
      <4>3. handled' \in [Ports -> [Cmds -> Nat]]
        BY <3>3, <4>1, <4>2
      <4> QED
        BY <3>1, <3>3, <4>3 DEF TypeOK, Goto, PCs
    <3> QED
      BY <2>6, <3>2, <3>3 DEF Execute
  <2>7. ASSUME NEW p \in Ports, DeleteStart(p) PROVE TypeOK'
    <3>1. /\ UNCHANGED <<queue, empty_check, conn, history>>
          /\ pc[p] = "llen2"
          /\ del_len' = [del_len EXCEPT ![p] = Len(queue)]
          /\ del_cmd' = [del_cmd EXCEPT ![p] = 0]
      BY <2>7 DEF DeleteStart
    <3>2. CASE DoneCmd(p)
      BY <2>0, <3>1, <3>2 DEF TypeOK, DoneCmd, NextCmd, Goto, PCs, history
    <3>3. CASE Goto(p, "lindex2") /\ UNCHANGED <<num_cmd, od_cmd>>
      BY <2>0, <3>1, <3>3 DEF TypeOK, Goto, PCs, history
    <3> QED
      BY <2>7, <3>2, <3>3 DEF DeleteStart
  <2>8. ASSUME NEW p \in Ports, DeleteScan(p) PROVE TypeOK'
    <3>1. /\ UNCHANGED <<queue, empty_check, del_len, conn, history>>
          /\ pc[p] = "lindex2"
      BY <2>8 DEF DeleteScan
    <3>2. del_cmd' \in [Ports -> Nat]
      <4>1. del_cmd' = del_cmd \/ del_cmd' = [del_cmd EXCEPT ![p] = @ + 1]
        BY <2>8 DEF DeleteScan
      <4>2. del_cmd \in [Ports -> Nat]
        BY DEF TypeOK
      <4>3. [del_cmd EXCEPT ![p] = @ + 1] \in [Ports -> Nat]
        BY <4>2
      <4> QED
        BY <4>1, <4>2, <4>3
    <3>3. CASE Goto(p, "lpop") /\ UNCHANGED <<num_cmd, od_cmd>>
      BY <3>1, <3>2, <3>3 DEF TypeOK, Goto, PCs, history
    <3>4. CASE Goto(p, "lindex2") /\ UNCHANGED <<num_cmd, od_cmd>>
      BY <3>1, <3>2, <3>4 DEF TypeOK, Goto, PCs, history
    <3>5. CASE DoneCmd(p)
      BY <3>1, <3>2, <3>5 DEF TypeOK, DoneCmd, NextCmd, Goto, PCs, history
    <3> QED
      BY <2>8, <3>3, <3>4, <3>5 DEF DeleteScan
  <2>9. ASSUME NEW p \in Ports, DeletePop(p) PROVE TypeOK'
    <3>1. /\ UNCHANGED <<locals, conn, submitted, handled, ran_listed, abandoned, faults>>
          /\ pc[p] = "lpop" /\ Goto(p, "lindex2")
      BY <2>9 DEF DeletePop
    <3>2. queue # <<>> => Tail(queue) \in Seq(Cmds) /\ Head(queue) \in Cmds
      BY ShorterLists DEF TypeOK
    <3>3. queue' \in Seq(Cmds) /\ dropped' \in [Cmds -> Nat]
      <4>1. CASE UNCHANGED <<queue, dropped>>
        BY <4>1 DEF TypeOK
      <4>2. CASE /\ queue # <<>>
                 /\ queue' = Tail(queue) /\ dropped' = Bump(dropped, Head(queue))
        <5>1. dropped \in [Cmds -> Nat]
          BY DEF TypeOK
        <5>2. Bump(dropped, Head(queue)) \in [Cmds -> Nat]
          BY <3>2, <4>2, <5>1, BumpType
        <5> QED
          BY <3>2, <4>2, <5>2
      <4> QED
        BY <2>9, <4>1, <4>2 DEF DeletePop
    <3> QED
      BY <3>1, <3>3 DEF TypeOK, Goto, PCs, locals
  <2>10. ASSUME NEW p \in Ports, LoseRedis(p) \/ Crash(p) \/ Restart(p)
         PROVE  TypeOK'
    <3>1. Abandon(p) \/ RunBlind(p)
      BY <2>10, FaultEnds
    <3>2. faults' \in Nat /\ conn' \in [Ports -> BOOLEAN]
      <4>1. faults \in Nat /\ conn \in [Ports -> BOOLEAN]
        BY DEF TypeOK
      <4>2. faults' = faults \/ faults' = faults + 1
        BY <2>10 DEF LoseRedis, Crash, Restart
      <4>3. \/ conn' = conn
            \/ conn' = [conn EXCEPT ![p] = FALSE]
            \/ conn' = [conn EXCEPT ![p] = TRUE]
        BY <2>10 DEF LoseRedis, Crash, Restart
      <4>4. conn' \in [Ports -> BOOLEAN]
        BY <4>1, <4>3
      <4> QED
        BY <4>1, <4>2, <4>4
    <3>3. Stop(p)
      BY <3>1 DEF Abandon, RunBlind
    <3>4. CASE Abandon(p)
      <4>1. abandoned \in [Cmds -> Nat] /\ (pc[p] = "execute" => od_cmd[p] \in Cmds)
        BY DEF TypeOK
      <4>2. pc[p] = "execute" => Bump(abandoned, od_cmd[p]) \in [Cmds -> Nat]
        BY <4>1, BumpType
      <4>3. abandoned' \in [Cmds -> Nat] /\ UNCHANGED <<handled, ran_listed>>
        BY <3>4, <4>1, <4>2 DEF Abandon
      <4> QED
        BY <3>2, <3>3, <4>3 DEF TypeOK, Stop, Goto, PCs
    <3>5. CASE RunBlind(p)
      <4>1. /\ handled \in [Ports -> [Cmds -> Nat]] /\ ran_listed \in [Ports -> [Cmds -> Nat]]
            /\ od_cmd[p] \in Cmds
        BY <3>5 DEF TypeOK, RunBlind, RunsBlind
      <4>2. /\ Bump(handled[p], od_cmd[p]) \in [Cmds -> Nat]
            /\ Bump(ran_listed[p], od_cmd[p]) \in [Cmds -> Nat]
        BY <4>1, BumpType
      <4>3. /\ handled' = handled \/ handled' = [handled EXCEPT ![p] = Bump(@, od_cmd[p])]
            /\ \/ ran_listed' = ran_listed
               \/ ran_listed' = [ran_listed EXCEPT ![p] = Bump(@, od_cmd[p])]
            /\ UNCHANGED abandoned
        BY <3>5 DEF RunBlind
      <4>4. handled' \in [Ports -> [Cmds -> Nat]]
        BY <4>1, <4>2, <4>3
      <4>5. ran_listed' \in [Ports -> [Cmds -> Nat]]
        BY <4>1, <4>2, <4>3
      <4> QED
        BY <3>2, <3>3, <4>3, <4>4, <4>5 DEF TypeOK, Stop, Goto, PCs
    <3> QED
      BY <3>1, <3>4, <3>5
  <2>11. CASE UNCHANGED vars
    BY <2>11 DEF TypeOK, vars, locals, history
  <2> QED
    BY <2>1, <2>2, <2>3, <2>4, <2>5, <2>6, <2>7, <2>8, <2>9, <2>10, <2>11
    DEF Next, ProcessOdCmd
<1> QED
  BY <1>1, <1>2, PTL DEF Spec
-----------------------------------------------------------------------------
(* From here on a single process drains the list. *)
SinglePort == \A p, q \in Ports : p = q

(* A push at the tail moves no element. *)
LEMMA AppendKeeps ==
  ASSUME TypeOK, NEW c \in Cmds, queue' = Append(queue, c)
  PROVE  /\ \A i \in Nat : InList(i) => InList(i)' /\ At(i)' = At(i)
         /\ \A d : Contains(queue, d) => Contains(queue, d)'
<1>1. /\ Len(queue) \in Nat
      /\ Len(queue') = Len(queue) + 1
      /\ \A i \in 1..Len(queue) : queue'[i] = queue[i]
  BY LenProperties, AppendProperties DEF TypeOK
<1>2. ASSUME NEW i \in Nat, InList(i)
      PROVE  InList(i)' /\ At(i)' = At(i)
  <2>1. i + 1 \in 1..Len(queue)
    BY <1>1, <1>2 DEF InList
  <2> QED
    BY <1>1, <1>2, <2>1 DEF InList, At
<1>3. ASSUME NEW d, Contains(queue, d) PROVE Contains(queue, d)'
  BY <1>1, <1>3 DEF Contains
<1> QED
  BY <1>2, <1>3

LEMMA FetchedContained ==
  ASSUME TypeOK, NEW i \in Nat, InList(i)
  PROVE  Contains(queue, At(i))
<1>1. i + 1 \in 1..Len(queue)
  BY LenProperties DEF TypeOK, InList
<1> QED
  BY <1>1 DEF At, Contains

(* The list does not shift under a lone process: what CheckPort, Fetch and *)
(* Remove1 each rely on still holds when the next of them runs.            *)
THEOREM LonePortUnshifted ==
  ASSUME SinglePort
  PROVE  Spec => []Unshifted
<1>1. Init => Unshifted
  BY DEF Init, Unshifted
<1>2. TypeOK /\ Unshifted /\ [Next]_vars => Unshifted'
  <2> SUFFICES ASSUME TypeOK, Unshifted, [Next]_vars PROVE Unshifted'
    OBVIOUS
  <2> DEFINE U(p) ==
        /\ pc[p] = "lrange" => IsOwn(p)
        /\ pc[p] = "lrem" => Contains(queue, od_cmd[p])
        /\ pc[p] \in {"lrem", "execute"} =>
             od_cmd[p] \notin Unparsable /\ Port[od_cmd[p]] = p
  <2>0. ASSUME NEW p \in Ports, U(p)' PROVE Unshifted'
    BY <2>0, SinglePort DEF SinglePort, Unshifted
  <2>t. pc \in [Ports -> PCs] /\ num_cmd \in [Ports -> Nat]
    BY DEF TypeOK
  <2>1. ASSUME NEW c \in Cmds, Submit(c) PROVE Unshifted'
    <3>1. queue' = Append(queue, c) /\ UNCHANGED <<pc, num_cmd, od_cmd>>
      BY <2>1 DEF Submit, locals
    <3> QED
      BY <2>t, <3>1, AppendKeeps DEF Unshifted, IsOwn
  <2>2. ASSUME NEW p \in Ports, StartPass(p) PROVE Unshifted'
    <3>1. pc'[p] \in {"idle", "lindex"}
      BY <2>2, <2>t DEF StartPass, Goto
    <3> QED
      BY <2>0, <3>1
  <2>3. ASSUME NEW p \in Ports, CheckPort(p) PROVE Unshifted'
    <3>1. UNCHANGED queue
      BY <2>3 DEF CheckPort
    <3>2. CASE IsOwn(p) /\ Goto(p, "lrange") /\ UNCHANGED num_cmd
      <4>1. pc'[p] = "lrange"
        BY <2>t, <3>2 DEF Goto
      <4>2. IsOwn(p)'
        BY <3>1, <3>2 DEF IsOwn, InList, At
      <4> QED
        BY <2>0, <4>1, <4>2
    <3>3. CASE NextCmd(p)
      <4>1. pc'[p] \in {"idle", "lindex"}
        BY <2>t, <3>3 DEF NextCmd, Goto
      <4> QED
        BY <2>0, <4>1
    <3> QED
      BY <2>3, <3>2, <3>3 DEF CheckPort
  <2>4. ASSUME NEW p \in Ports, Fetch(p) PROVE Unshifted'
    <3>1. IsOwn(p) /\ UNCHANGED queue
      BY <2>4 DEF Fetch, Unshifted
    <3>2. /\ od_cmd' = [od_cmd EXCEPT ![p] = At(num_cmd[p])]
          /\ Goto(p, "lrem")
      BY <2>4, <3>1 DEF Fetch, IsOwn
    <3>3. pc'[p] = "lrem" /\ od_cmd'[p] = At(num_cmd[p])
      BY <2>t, <3>2 DEF Goto, TypeOK
    <3>4. Contains(queue, At(num_cmd[p]))
      BY <2>t, <3>1, FetchedContained DEF IsOwn
    <3> QED
      BY <2>0, <3>1, <3>3, <3>4 DEF IsOwn
  <2>5. ASSUME NEW p \in Ports, Remove1(p) PROVE Unshifted'
    <3>1. pc[p] = "lrem" /\ pc'[p] = "execute" /\ UNCHANGED od_cmd
      BY <2>5, <2>t DEF Remove1, Goto, locals
    <3> QED
      BY <2>0, <3>1 DEF Unshifted
  <2>6. ASSUME NEW p \in Ports,
               \/ Execute(p) \/ DeleteStart(p) \/ DeleteScan(p) \/ DeletePop(p)
               \/ LoseRedis(p) \/ Crash(p) \/ Restart(p)
        PROVE  Unshifted'
    <3>1. \E l \in {"idle", "lindex", "llen2", "lindex2", "lpop"} : Goto(p, l)
      BY <2>6, FaultEnds DEF Execute, DeleteStart, DeleteScan, DeletePop, DoneCmd, NextCmd, Stop
    <3>2. pc'[p] \in {"idle", "lindex", "llen2", "lindex2", "lpop"}
      BY <2>t, <3>1 DEF Goto
    <3> QED
      BY <2>0, <3>2
  <2>7. CASE UNCHANGED vars
    BY <2>7 DEF Unshifted, IsOwn, InList, At, vars, locals
  <2> QED
    BY <2>1, <2>2, <2>3, <2>4, <2>5, <2>6, <2>7 DEF Next, ProcessOdCmd
<1> QED
  BY <1>1, <1>2, TypeCorrect, PTL DEF Spec

(* The meter bus of a port is reached only by commands addressed to that   *)
(* port: check_meter_port_id()'s verdict is never about another element.   *)
THEOREM LonePortOwnCommands ==
  ASSUME SinglePort
  PROVE  Spec => []OwnCommandsOnly
<1>1. Init => OwnCommandsOnly
  BY DEF Init, OwnCommandsOnly
<1>2. TypeOK /\ Unshifted /\ OwnCommandsOnly /\ [Next]_vars => OwnCommandsOnly'
  <2> SUFFICES ASSUME TypeOK, Unshifted, OwnCommandsOnly, [Next]_vars
               PROVE  OwnCommandsOnly'
    OBVIOUS
  <2>1. ASSUME UNCHANGED <<handled, ran_listed>> PROVE OwnCommandsOnly'
    BY <2>1 DEF OwnCommandsOnly
  <2>2. ASSUME NEW p \in Ports, pc[p] \in {"lrem", "execute"},
               \/ /\ handled' = [handled EXCEPT ![p] = Bump(@, od_cmd[p])]
                  /\ UNCHANGED ran_listed
               \/ /\ ran_listed' = [ran_listed EXCEPT ![p] = Bump(@, od_cmd[p])]
                  /\ UNCHANGED handled
        PROVE  OwnCommandsOnly'
    <3>1. Port[od_cmd[p]] = p
      BY <2>2 DEF Unshifted
    <3>2. handled \in [Ports -> [Cmds -> Nat]] /\ ran_listed \in [Ports -> [Cmds -> Nat]]
      BY DEF TypeOK
    <3>3. ASSUME NEW q \in Ports, NEW c \in Cmds, handled'[q][c] + ran_listed'[q][c] > 0
          PROVE  Port[c] = q
      <4>1. CASE q = p /\ c = od_cmd[p]
        BY <3>1, <4>1
      <4>2. CASE ~(q = p /\ c = od_cmd[p])
        <5>1. handled'[q][c] = handled[q][c] /\ ran_listed'[q][c] = ran_listed[q][c]
          BY <2>2, <3>2, <4>2 DEF Bump
        <5> QED
          BY <3>3, <5>1 DEF OwnCommandsOnly
      <4> QED
        BY <4>1, <4>2
    <3> QED
      BY <3>3 DEF OwnCommandsOnly
  <2>3. CASE \E c \in Cmds : Submit(c)
    BY <2>1, <2>3 DEF Submit
  <2>4. ASSUME NEW p \in Ports,
               \/ StartPass(p) \/ CheckPort(p) \/ Fetch(p) \/ Remove1(p)
               \/ DeleteStart(p) \/ DeleteScan(p) \/ DeletePop(p) \/ Execute(p)
        PROVE  OwnCommandsOnly'
    <3>1. CASE Execute(p)
      BY <2>1, <2>2, <3>1 DEF Execute
    <3>2. CASE ~Execute(p)
      BY <2>1, <2>4, <3>2 DEF StartPass, CheckPort, Fetch, Remove1, DeleteStart, DeleteScan,
                              DeletePop, history
    <3> QED
      BY <3>1, <3>2
  <2>6. ASSUME NEW p \in Ports, LoseRedis(p) \/ Crash(p) \/ Restart(p)
        PROVE  OwnCommandsOnly'
    BY <2>1, <2>2, <2>6, FaultEnds DEF Abandon, RunBlind, RunsBlind
  <2>5. CASE UNCHANGED vars
    BY <2>1, <2>5 DEF vars, history
  <2> QED
    BY <2>3, <2>4, <2>5, <2>6 DEF Next, ProcessOdCmd
<1> QED
  BY <1>1, <1>2, TypeCorrect, LonePortUnshifted, PTL DEF Spec

(* LREM takes exactly one occurrence, of the command in hand. *)
LEMMA CountRemoveFirst ==
  ASSUME NEW S, NEW s \in Seq(S), NEW e, Contains(s, e), NEW c
  PROVE  Count(s, c) = Count(RemoveFirst(s, e), c) + (IF e = c THEN 1 ELSE 0)
<1>1. PICK k \in 1..Len(s) : s[k] = e /\ RemoveFirst(s, e) = RemoveAt(s, k)
  BY RemoveFirstIsRemoveAt
<1> QED
  BY <1>1, CountRemoveAt

(* LPOP takes exactly one occurrence, of the head. *)
LEMMA CountTail ==
  ASSUME NEW S, NEW s \in Seq(S), s # <<>>, NEW c
  PROVE  Count(s, c) = Count(Tail(s), c) + (IF Head(s) = c THEN 1 ELSE 0)
<1>1. Len(s) \in Nat /\ Len(s) > 0
  BY LenProperties, EmptySeq
<1>2. RemoveAt(s, 1) = Tail(s)
  <2>1. /\ RemoveAt(s, 1) \in Seq(S)
        /\ Len(RemoveAt(s, 1)) = Len(s) - 1
        /\ \A i \in 1..(Len(s) - 1) : RemoveAt(s, 1)[i] = s[i + 1]
    BY <1>1, RemoveAtProperties
  <2>2. /\ Tail(s) \in Seq(S)
        /\ Len(Tail(s)) = Len(s) - 1
        /\ \A i \in 1..(Len(s) - 1) : Tail(s)[i] = s[i + 1]
    BY HeadTailProperties
  <2> QED
    BY <2>1, <2>2, SeqEqual
<1>3. Head(s) = s[1]
  BY <1>1
<1>4. Count(s, c) = Count(RemoveAt(s, 1), c) + (IF s[1] = c THEN 1 ELSE 0)
  <2>1. 1 \in 1..Len(s)
    BY <1>1
  <2> QED
    BY <2>1, CountRemoveAt
<1> QED
  BY <1>2, <1>3, <1>4

(* A command runs without being off the list only if it is for no meter,   *)
(* and only when a connection breaks.                                      *)
LEMMA RunsBlindRarely ==
  ASSUME TypeOK, [Next]_vars, NEW p \in Ports, NEW c \in Cmds,
         ran_listed[p][c] <= (IF c \in NoMeter THEN faults ELSE 0)
  PROVE  ran_listed'[p][c] <= (IF c \in NoMeter THEN faults' ELSE 0)
<1>t. /\ ran_listed \in [Ports -> [Cmds -> Nat]] /\ ran_listed[p][c] \in Nat
      /\ faults \in Nat
  BY DEF TypeOK
<1>1. ASSUME UNCHANGED ran_listed, faults' \in {faults, faults + 1}
      PROVE  ran_listed'[p][c] <= (IF c \in NoMeter THEN faults' ELSE 0)
  BY <1>t, <1>1
<1>2. CASE \E d \in Cmds : Submit(d)
  BY <1>1, <1>2 DEF Submit
<1>3. ASSUME NEW q \in Ports, ProcessOdCmd(q)
      PROVE  UNCHANGED <<ran_listed, faults>>
  BY <1>3 DEF ProcessOdCmd, StartPass, CheckPort, Fetch, Remove1, Execute, DeleteStart,
              DeleteScan, DeletePop, history
<1>4. ASSUME NEW q \in Ports, LoseRedis(q) \/ Crash(q) \/ Restart(q)
      PROVE  ran_listed'[p][c] <= (IF c \in NoMeter THEN faults' ELSE 0)
  <2>1. faults' \in {faults, faults + 1}
    BY <1>4 DEF LoseRedis, Crash, Restart
  <2>2. CASE UNCHANGED ran_listed
    BY <1>1, <2>1, <2>2
  <2>3. CASE RunBlind(q) /\ ran_listed' = [ran_listed EXCEPT ![q] = Bump(@, od_cmd[q])]
    <3>1. faults' = faults + 1
      <4>1. CASE LoseRedis(q) \/ Crash(q)
        BY <4>1 DEF LoseRedis, Crash
      <4>2. CASE Restart(q)
        <5>1. UNCHANGED ran_listed
          BY <4>2 DEF Restart, Abandon
        <5>2. od_cmd[q] \in Cmds
          BY <2>3, OdQueueAssumption DEF RunBlind, RunsBlind
        <5>3. ran_listed'[q][od_cmd[q]] = ran_listed[q][od_cmd[q]] + 1
          BY <1>t, <2>3, <5>2 DEF Bump
        <5>4. ran_listed[q][od_cmd[q]] \in Nat
          BY <1>t, <5>2
        <5> QED
          BY <5>1, <5>3, <5>4
      <4> QED
        BY <1>4, <4>1, <4>2
    <3>2. od_cmd[q] \in NoMeter
      BY <2>3 DEF RunBlind, RunsBlind
    <3>3. ran_listed'[p][c] = ran_listed[p][c] \/ (c \in NoMeter /\ ran_listed'[p][c] = ran_listed[p][c] + 1)
      BY <1>t, <2>3, <3>2 DEF Bump
    <3> QED
      BY <1>t, <3>1, <3>3
  <2> QED
    BY <1>4, <2>2, <2>3, FaultEnds DEF Abandon, RunBlind
<1>5. CASE UNCHANGED vars
  BY <1>1, <1>5 DEF vars, history
<1> QED
  BY <1>1, <1>2, <1>3, <1>4, <1>5 DEF Next

(* With one process, every push of a command has exactly one fate, so a    *)
(* command is run at most as often as it was pushed, and none disappears.  *)
THEOREM LonePortAccounted ==
  ASSUME SinglePort
  PROVE  Spec => []Accounted
<1> DEFINE A(p, c) ==
      submitted[c] = Count(queue, c) + Held(p, c) + handled[p][c] + abandoned[c] + dropped[c]
<1>1. Init => Accounted
  <2>1. ASSUME NEW c PROVE Count(<<>>, c) = 0
    <3>1. {i \in 1..Len(<<>>) : <<>>[i] = c} = {}
      BY EmptySeq
    <3> QED
      BY <3>1, FS_EmptySet DEF Count
  <2> QED
    BY <2>1 DEF Init, Accounted, Held
<1>2. TypeOK /\ TypeOK' /\ Unshifted /\ Accounted /\ [Next]_vars => Accounted'
  <2> SUFFICES ASSUME TypeOK, TypeOK', Unshifted, Accounted, [Next]_vars PROVE Accounted'
    OBVIOUS
  <2>t. /\ queue \in Seq(Cmds)
        /\ pc \in [Ports -> PCs]
        /\ od_cmd \in [Ports -> Cmds \cup {NoCmd}]
        /\ submitted \in [Cmds -> Nat]
        /\ handled \in [Ports -> [Cmds -> Nat]]
        /\ abandoned \in [Cmds -> Nat]
        /\ dropped \in [Cmds -> Nat]
    BY DEF TypeOK
  <2>u. handled' \in [Ports -> [Cmds -> Nat]] /\ abandoned' \in [Cmds -> Nat]
    BY DEF TypeOK
  <2>n. \A c : Count(queue, c) \in Nat
    BY <2>t, CountType
  <2>b. \A p \in Ports, c \in Cmds : ran_listed'[p][c] <= (IF c \in NoMeter THEN faults' ELSE 0)
    BY RunsBlindRarely DEF Accounted
  <2>0. ASSUME NEW p \in Ports, \A c \in Cmds : A(p, c)' PROVE Accounted'
    BY <2>0, <2>b, SinglePort DEF SinglePort, Accounted
  <2>a. \A p \in Ports, c \in Cmds : A(p, c)
    BY DEF Accounted
  <2>s. ASSUME NEW p \in Ports, UNCHANGED <<queue, history>>,
               \A c \in Cmds : Held(p, c)' = Held(p, c)
        PROVE  Accounted'
    BY <2>0, <2>a, <2>s DEF history
  <2>1. ASSUME NEW d \in Cmds, Submit(d) PROVE Accounted'
    <3> SUFFICES ASSUME NEW p \in Ports, NEW c \in Cmds PROVE A(p, c)'
      BY <2>b DEF Accounted
    <3>1. Count(queue', c) = Count(queue, c) + (IF d = c THEN 1 ELSE 0)
      BY <2>1, <2>t, CountAppend DEF Submit
    <3>2. submitted'[c] = submitted[c] + (IF d = c THEN 1 ELSE 0)
      BY <2>1, <2>t DEF Submit, Bump
    <3>3. UNCHANGED <<handled, abandoned, dropped>> /\ Held(p, c)' = Held(p, c)
      BY <2>1 DEF Submit, locals, Held
    <3>4. Held(p, c) \in Nat
      BY DEF Held
    <3> QED
      BY <2>a, <2>n, <2>t, <3>1, <3>2, <3>3, <3>4
  <2>2. ASSUME NEW p \in Ports,
               StartPass(p) \/ CheckPort(p) \/ Fetch(p) \/ DeleteStart(p) \/ DeleteScan(p)
        PROVE  Accounted'
    <3>1. pc[p] # "execute" /\ UNCHANGED <<queue, history>>
      BY <2>2 DEF StartPass, CheckPort, Fetch, DeleteStart, DeleteScan
    <3>2. \E l \in PCs \ {"execute"} : Goto(p, l)
      BY <2>2 DEF StartPass, CheckPort, Fetch, DeleteStart, DeleteScan, DoneCmd, NextCmd, PCs
    <3>3. pc'[p] # "execute"
      BY <2>t, <3>2 DEF Goto
    <3> QED
      BY <2>s, <3>1, <3>3 DEF Held
  <2>3. ASSUME NEW p \in Ports, Remove1(p) PROVE Accounted'
    <3> SUFFICES ASSUME NEW c \in Cmds PROVE A(p, c)'
      BY <2>0
    <3>1. /\ pc[p] = "lrem" /\ pc'[p] = "execute" /\ UNCHANGED <<od_cmd, history>>
          /\ queue' = RemoveFirst(queue, od_cmd[p])
      BY <2>3, <2>t DEF Remove1, Goto, locals
    <3>2. Contains(queue, od_cmd[p])
      BY <3>1 DEF Unshifted
    <3>3. Count(queue, c) = Count(queue', c) + (IF od_cmd[p] = c THEN 1 ELSE 0)
      BY <2>t, <3>1, <3>2, CountRemoveFirst
    <3>4. Held(p, c) = 0 /\ Held(p, c)' = (IF od_cmd[p] = c THEN 1 ELSE 0)
      BY <3>1 DEF Held
    <3>5. Count(queue', c) \in Nat
      BY <2>t, <3>1, ShorterLists, CountType
    <3> QED
      BY <2>a, <2>n, <2>t, <3>1, <3>3, <3>4, <3>5 DEF history
  <2>4. ASSUME NEW p \in Ports, Execute(p) PROVE Accounted'
    <3> SUFFICES ASSUME NEW c \in Cmds PROVE A(p, c)'
      BY <2>0
    <3>1. /\ pc[p] = "execute"
          /\ handled' = [handled EXCEPT ![p] = Bump(@, od_cmd[p])]
          /\ UNCHANGED <<queue, submitted, abandoned, dropped, od_cmd>>
          /\ Goto(p, "idle") \/ Goto(p, "llen2")
      BY <2>4 DEF Execute, Unshifted
    <3>2. pc'[p] # "execute"
      BY <2>t, <3>1 DEF Goto
    <3>3. Held(p, c) = (IF od_cmd[p] = c THEN 1 ELSE 0) /\ Held(p, c)' = 0
      BY <3>1, <3>2 DEF Held
    <3>4. handled'[p][c] = handled[p][c] + (IF od_cmd[p] = c THEN 1 ELSE 0)
      BY <2>t, <3>1 DEF Bump
    <3> QED
      BY <2>a, <2>n, <2>t, <3>1, <3>3, <3>4
  <2>5. ASSUME NEW p \in Ports, DeletePop(p) PROVE Accounted'
    <3> SUFFICES ASSUME NEW c \in Cmds PROVE A(p, c)'
      BY <2>0
    <3>1. /\ pc[p] = "lpop" /\ pc'[p] = "lindex2"
          /\ UNCHANGED <<submitted, handled, abandoned>>
      BY <2>5, <2>t DEF DeletePop, Goto
    <3>2. Held(p, c) = 0 /\ Held(p, c)' = 0
      BY <3>1 DEF Held
    <3>3. CASE UNCHANGED <<queue, dropped>>
      BY <2>a, <3>1, <3>2, <3>3
    <3>4. CASE /\ queue # <<>>
               /\ queue' = Tail(queue) /\ dropped' = Bump(dropped, Head(queue))
      <4>1. Count(queue, c) = Count(queue', c) + (IF Head(queue) = c THEN 1 ELSE 0)
        BY <2>t, <3>4, CountTail
      <4>2. dropped'[c] = dropped[c] + (IF Head(queue) = c THEN 1 ELSE 0)
        BY <2>t, <3>4 DEF Bump
      <4>3. Count(queue', c) \in Nat
        BY <2>t, <3>4, ShorterLists, CountType
      <4> QED
        BY <2>a, <2>n, <2>t, <3>1, <3>2, <4>1, <4>2, <4>3
    <3> QED
      BY <2>5, <3>3, <3>4 DEF DeletePop
  <2>6. ASSUME NEW p \in Ports, LoseRedis(p) \/ Crash(p) \/ Restart(p)
        PROVE  Accounted'
    <3> SUFFICES ASSUME NEW c \in Cmds PROVE A(p, c)'
      BY <2>0
    <3>1. (Abandon(p) \/ RunBlind(p)) /\ Stop(p)
      BY <2>6, FaultEnds
    <3>2. pc'[p] = "idle" /\ UNCHANGED <<queue, submitted, dropped>>
      BY <2>t, <3>1 DEF Stop, Goto
    <3>3. handled'[p][c] + abandoned'[c] = handled[p][c] + abandoned[c] + Held(p, c)
      <4>1. CASE Abandon(p)
        <5>1. handled' = handled /\ abandoned'[c] = abandoned[c] + Held(p, c)
          BY <2>t, <4>1 DEF Abandon, Bump, Held
        <5>2. handled[p][c] \in Nat /\ abandoned[c] \in Nat /\ Held(p, c) \in Nat
          BY <2>t DEF Held
        <5> QED
          BY <5>1, <5>2
      <4>2. CASE RunBlind(p)
        <5>1. od_cmd[p] \in Cmds /\ pc[p] \in {"lrem", "execute"} /\ UNCHANGED abandoned
          BY <4>2, OdQueueAssumption DEF RunBlind, RunsBlind
        <5>2. CASE pc[p] = "lrem"
          BY <2>t, <4>2, <5>1, <5>2 DEF RunBlind, Held
        <5>3. CASE pc[p] = "execute"
          BY <2>t, <4>2, <5>1, <5>3 DEF RunBlind, Bump, Held
        <5> QED
          BY <5>1, <5>2, <5>3
      <4> QED
        BY <3>1, <4>1, <4>2
    <3>4. Held(p, c) \in Nat /\ Held(p, c)' = 0
      BY <3>2 DEF Held
    <3>5. handled'[p][c] \in Nat /\ abandoned'[c] \in Nat
      BY <2>u
    <3>6. /\ A(p, c) /\ Count(queue, c) \in Nat
          /\ handled[p][c] \in Nat /\ abandoned[c] \in Nat /\ dropped[c] \in Nat
      BY <2>a, <2>n, <2>t
    <3>7. submitted[c] = Count(queue, c) + 0 + handled'[p][c] + abandoned'[c] + dropped[c]
      BY <3>3, <3>4, <3>5, <3>6
    <3> QED
      BY <3>2, <3>4, <3>7
  <2>7. CASE UNCHANGED vars
    BY <2>7 DEF Accounted, Held, vars, locals, history
  <2> QED
    BY <2>1, <2>2, <2>3, <2>4, <2>5, <2>6, <2>7 DEF Next, ProcessOdCmd
<1> QED
  BY <1>1, <1>2, TypeCorrect, LonePortUnshifted, PTL DEF Spec
-----------------------------------------------------------------------------
(* Any number of processes again. *)

(* LINDEX finds an element exactly when the list counts it. *)
LEMMA ContainsCounts ==
  ASSUME NEW S, NEW s \in Seq(S), NEW c
  PROVE  Contains(s, c) <=> Count(s, c) > 0
<1> DEFINE I == {i \in 1..Len(s) : s[i] = c}
<1>1. IsFiniteSet(I) /\ Cardinality(I) \in Nat /\ Count(s, c) = Cardinality(I)
  BY CountType DEF Count
<1>2. Contains(s, c) <=> I # {}
  BY DEF Contains
<1>3. Cardinality(I) = 0 <=> I = {}
  BY <1>1, FS_EmptySet
<1> QED
  BY <1>1, <1>2, <1>3

(* LREM list 1 text, whether or not the element is still there. *)
LEMMA CountLrem ==
  ASSUME NEW S, NEW s \in Seq(S), NEW e, NEW c
  PROVE  /\ RemoveFirst(s, e) \in Seq(S)
         /\ Count(RemoveFirst(s, e), c) <= Count(s, c)
         /\ c # e => Count(RemoveFirst(s, e), c) = Count(s, c)
         /\ c = e /\ Contains(s, e) => Count(RemoveFirst(s, e), c) < Count(s, c)
         /\ ~Contains(s, e) => RemoveFirst(s, e) = s
<1>1. RemoveFirst(s, e) \in Seq(S)
  BY ShorterLists
<1>2. Count(s, c) \in Nat /\ Count(RemoveFirst(s, e), c) \in Nat
  BY <1>1, CountType
<1>3. CASE Contains(s, e)
  BY <1>1, <1>2, <1>3, CountRemoveFirst
<1>4. CASE ~Contains(s, e)
  <2>1. RemoveFirst(s, e) = s
    BY <1>4 DEF RemoveFirst, Contains
  <2> QED
    BY <1>2, <1>4, <2>1
<1> QED
  BY <1>3, <1>4

(* What a process knows of the pushes of the command in its hands, however *)
(* the others change the list: it was pushed, since LREM once more often   *)
(* than it waits, and before LPOP an element was found that is its copy.   *)
PushedFor(p) ==
  /\ pc[p] = "lrem" => submitted[od_cmd[p]] > 0
  /\ pc[p] \in {"execute", "llen2", "lindex2", "lpop"} =>
       Count(queue, od_cmd[p]) < submitted[od_cmd[p]]
  /\ pc[p] = "lpop" => CopiesPushed

AllPushed ==
  /\ \A c \in Cmds : Count(queue, c) <= submitted[c]
  /\ \A p \in Ports : PushedFor(p)

(* No list command but RPUSH makes an element more frequent.               *)
LEMMA PushedKept ==
  ASSUME TypeOK, AllPushed, NEW p \in Ports,
         UNCHANGED submitted, queue' \in Seq(Cmds),
         \A c \in Cmds : Count(queue', c) <= Count(queue, c),
         \A q \in Ports \ {p} : pc'[q] = pc[q] /\ od_cmd'[q] = od_cmd[q],
         PushedFor(p)'
  PROVE  AllPushed'
<1>1. \A c \in Cmds : /\ Count(queue, c) \in Nat /\ Count(queue', c) \in Nat
                      /\ submitted[c] \in Nat
  BY CountType DEF TypeOK
<1>2. \A c \in Cmds : Count(queue', c) <= submitted'[c]
  BY <1>1 DEF AllPushed
<1>3. CopiesPushed' = CopiesPushed
  BY DEF CopiesPushed
<1>4. ASSUME NEW q \in Ports, q # p PROVE PushedFor(q)'
  <2>1. PushedFor(q) /\ pc'[q] = pc[q] /\ od_cmd'[q] = od_cmd[q]
    BY <1>4 DEF AllPushed
  <2>2. pc[q] \in {"lrem", "execute", "llen2", "lindex2", "lpop"} => od_cmd[q] \in Cmds
    BY DEF TypeOK
  <2> QED
    BY <1>1, <1>3, <2>1, <2>2 DEF PushedFor
<1> QED
  BY <1>2, <1>4 DEF AllPushed

LEMMA AllPushedInvariant == Spec => []AllPushed
<1>1. Init => AllPushed
  <2>1. ASSUME NEW c PROVE Count(<<>>, c) = 0
    <3>1. {i \in 1..Len(<<>>) : <<>>[i] = c} = {}
      BY EmptySeq
    <3> QED
      BY <3>1, FS_EmptySet DEF Count
  <2> QED
    BY <2>1 DEF Init, AllPushed, PushedFor
<1>2. TypeOK /\ AllPushed /\ [Next]_vars => AllPushed'
  <2> SUFFICES ASSUME TypeOK, AllPushed, [Next]_vars PROVE AllPushed'
    OBVIOUS
  <2>t. /\ queue \in Seq(Cmds)
        /\ pc \in [Ports -> PCs]
        /\ num_cmd \in [Ports -> Nat] /\ del_cmd \in [Ports -> Nat]
        /\ od_cmd \in [Ports -> Cmds \cup {NoCmd}]
        /\ submitted \in [Cmds -> Nat]
        /\ \A p \in Ports : pc[p] \notin {"idle", "lindex", "lrange"} => od_cmd[p] \in Cmds
    BY DEF TypeOK
  <2>n. \A c : Count(queue, c) \in Nat
    BY <2>t, CountType
  <2>0. ASSUME NEW p \in Ports, UNCHANGED <<queue, submitted>>,
               \A q \in Ports \ {p} : pc'[q] = pc[q] /\ od_cmd'[q] = od_cmd[q],
               PushedFor(p)'
        PROVE  AllPushed'
    BY <2>0, <2>n, <2>t, PushedKept
  <2>o. ASSUME NEW p \in Ports, NEW l \in PCs, Goto(p, l)
        PROVE  pc'[p] = l /\ \A q \in Ports \ {p} : pc'[q] = pc[q]
    BY <2>t, <2>o DEF Goto
  <2>1. ASSUME NEW d \in Cmds, Submit(d) PROVE AllPushed'
    <3>1. queue' = Append(queue, d) /\ UNCHANGED <<pc, od_cmd>>
      BY <2>1 DEF Submit, locals
    <3>2. \A c \in Cmds : Count(queue', c) = Count(queue, c) + (IF d = c THEN 1 ELSE 0)
      BY <2>t, <3>1, CountAppend
    <3>3. \A c \in Cmds : submitted'[c] = submitted[c] + (IF d = c THEN 1 ELSE 0)
      BY <2>1, <2>t DEF Submit, Bump
    <3>4. \A c \in Cmds : Count(queue', c) <= submitted'[c]
      BY <2>n, <2>t, <3>2, <3>3 DEF AllPushed
    <3>5. CopiesPushed => CopiesPushed'
      <4> SUFFICES ASSUME CopiesPushed PROVE CopiesPushed'
        OBVIOUS
      <4>1. PICK c \in Cmds, e \in Cmds :
              /\ Key[c] = Key[e] /\ submitted[c] > 0
              /\ submitted[e] > (IF c = e THEN 1 ELSE 0)
        BY DEF CopiesPushed
      <4>2. submitted[c] \in Nat /\ submitted[e] \in Nat
        BY <2>t
      <4>3. submitted'[c] > 0 /\ submitted'[e] > (IF c = e THEN 1 ELSE 0)
        BY <3>3, <4>1, <4>2
      <4> QED
        BY <4>1, <4>3 DEF CopiesPushed
    <3>6. ASSUME NEW p \in Ports PROVE PushedFor(p)'
      <4>1. PushedFor(p)
        BY DEF AllPushed
      <4>2. pc[p] \in {"lrem", "execute", "llen2", "lindex2", "lpop"} => od_cmd[p] \in Cmds
        BY <2>t
      <4>3. pc' = pc /\ od_cmd' = od_cmd
        BY <3>1
      <4>4. ASSUME od_cmd[p] \in Cmds
            PROVE  /\ submitted[od_cmd[p]] > 0 => submitted'[od_cmd[p]] > 0
                   /\ Count(queue, od_cmd[p]) < submitted[od_cmd[p]] =>
                        Count(queue', od_cmd[p]) < submitted'[od_cmd[p]]
        <5>1. submitted[od_cmd[p]] \in Nat /\ Count(queue, od_cmd[p]) \in Nat
          BY <2>n, <2>t, <4>4
        <5> QED
          BY <3>2, <3>3, <4>4, <5>1
      <4> QED
        BY <3>5, <4>1, <4>2, <4>3, <4>4 DEF PushedFor
    <3> QED
      BY <3>4, <3>6 DEF AllPushed
  <2>2. ASSUME NEW p \in Ports,
               \/ StartPass(p) \/ CheckPort(p)
               \/ Fetch(p) /\ ~InList(num_cmd[p])
        PROVE  AllPushed'
    <3>1. UNCHANGED <<queue, submitted, od_cmd>>
      BY <2>2 DEF StartPass, CheckPort, Fetch, history
    <3>2. PICK l \in {"idle", "lindex", "lrange"} : Goto(p, l)
      BY <2>2 DEF StartPass, CheckPort, Fetch, NextCmd
    <3>3. pc'[p] = l /\ \A q \in Ports \ {p} : pc'[q] = pc[q]
      BY <2>o, <3>2 DEF PCs
    <3> QED
      BY <2>0, <3>1, <3>3 DEF PushedFor
  <2>3. ASSUME NEW p \in Ports, Fetch(p), InList(num_cmd[p]) PROVE AllPushed'
    <3>1. /\ UNCHANGED <<queue, submitted>>
          /\ od_cmd' = [od_cmd EXCEPT ![p] = At(num_cmd[p])]
          /\ Goto(p, "lrem")
      BY <2>3 DEF Fetch, history
    <3>2. At(num_cmd[p]) \in Cmds /\ Contains(queue, At(num_cmd[p]))
      BY <2>3, <2>t, AtType, FetchedContained
    <3>3. submitted[At(num_cmd[p])] > 0
      BY <2>n, <2>t, <3>2, ContainsCounts DEF AllPushed
    <3>4. pc'[p] = "lrem" /\ \A q \in Ports \ {p} : pc'[q] = pc[q]
      BY <2>o, <3>1 DEF PCs
    <3>5. /\ od_cmd'[p] = At(num_cmd[p])
          /\ \A q \in Ports \ {p} : od_cmd'[q] = od_cmd[q]
      BY <2>t, <3>1
    <3> QED
      BY <2>0, <3>1, <3>3, <3>4, <3>5 DEF PushedFor
  <2>4. ASSUME NEW p \in Ports, Remove1(p) PROVE AllPushed'
    <3>1. /\ pc[p] = "lrem" /\ Goto(p, "execute")
          /\ UNCHANGED <<od_cmd, submitted>>
          /\ queue' = RemoveFirst(queue, od_cmd[p])
      BY <2>4 DEF Remove1, locals, history
    <3>2. od_cmd[p] \in Cmds /\ submitted[od_cmd[p]] > 0
      BY <2>t, <3>1 DEF AllPushed, PushedFor
    <3>3. pc'[p] = "execute" /\ \A q \in Ports \ {p} : pc'[q] = pc[q]
      BY <2>o, <3>1 DEF PCs
    <3>4. queue' \in Seq(Cmds) /\ \A c \in Cmds : Count(queue', c) <= Count(queue, c)
      BY <2>t, <3>1, CountLrem
    <3>5. Count(queue', od_cmd[p]) < submitted[od_cmd[p]]
      <4>1. Count(queue, od_cmd[p]) <= submitted[od_cmd[p]]
        BY <3>2 DEF AllPushed
      <4>2. CASE Contains(queue, od_cmd[p])
        <5>1. Count(queue', od_cmd[p]) < Count(queue, od_cmd[p])
          BY <2>t, <3>1, <4>2, CountLrem
        <5>2. Count(queue', od_cmd[p]) \in Nat /\ submitted[od_cmd[p]] \in Nat
          BY <2>t, <3>2, <3>4, CountType
        <5> QED
          BY <2>n, <4>1, <5>1, <5>2
      <4>3. CASE ~Contains(queue, od_cmd[p])
        <5>1. queue' = queue
          BY <2>t, <3>1, <4>3, CountLrem
        <5>2. Count(queue', od_cmd[p]) = 0
          BY <2>n, <2>t, <4>3, <5>1, ContainsCounts
        <5> QED
          BY <3>2, <5>2
      <4> QED
        BY <4>2, <4>3
    <3>6. PushedFor(p)'
      BY <3>1, <3>3, <3>5 DEF PushedFor
    <3> QED
      BY <3>1, <3>3, <3>4, <3>6, PushedKept
  <2>5. ASSUME NEW p \in Ports, Execute(p) \/ DeleteStart(p) PROVE AllPushed'
    <3>1. /\ pc[p] \in {"execute", "llen2"}
          /\ UNCHANGED <<queue, submitted>>
      BY <2>5 DEF Execute, DeleteStart, history
    <3>2. \A q \in Ports \ {p} : od_cmd'[q] = od_cmd[q]
      BY <2>5, <2>t DEF Execute, DeleteStart, DoneCmd
    <3>3. PICK l \in {"idle", "lindex", "llen2", "lindex2"} :
            Goto(p, l) /\ (l \in {"llen2", "lindex2"} => UNCHANGED od_cmd)
      BY <2>5 DEF Execute, DeleteStart, DoneCmd, NextCmd
    <3>4. pc'[p] = l /\ \A q \in Ports \ {p} : pc'[q] = pc[q]
      BY <2>o, <3>3 DEF PCs
    <3>5. PushedFor(p)'
      BY <3>1, <3>3, <3>4 DEF AllPushed, PushedFor
    <3> QED
      BY <2>0, <3>1, <3>2, <3>4, <3>5
  <2>6. ASSUME NEW p \in Ports, DeleteScan(p) PROVE AllPushed'
    <3>1. pc[p] = "lindex2" /\ UNCHANGED <<queue, submitted>>
      BY <2>6 DEF DeleteScan, history
    <3>2. \A q \in Ports \ {p} : od_cmd'[q] = od_cmd[q]
      BY <2>6, <2>t DEF DeleteScan, DoneCmd
    <3>3. CASE /\ InList(del_cmd[p]) /\ Matches(p, At(del_cmd[p]))
               /\ Goto(p, "lpop") /\ UNCHANGED od_cmd
      <4> DEFINE c == od_cmd[p]
                 d == At(del_cmd[p])
      <4>1. c \in Cmds /\ Count(queue, c) < submitted[c]
        BY <2>t, <3>1 DEF AllPushed, PushedFor
      <4>2. d \in Cmds /\ Contains(queue, d) /\ Key[d] = Key[c]
        BY <2>t, <3>3, AtType, FetchedContained DEF Matches
      <4>3. Count(queue, d) > 0 /\ Count(queue, d) <= submitted[d]
        BY <2>t, <4>2, ContainsCounts DEF AllPushed
      <4> HIDE DEF c, d
      <4>4. Count(queue, c) \in Nat /\ Count(queue, d) \in Nat
            /\ submitted[c] \in Nat /\ submitted[d] \in Nat
        BY <2>n, <2>t, <4>1, <4>2
      <4>5. submitted[d] > 0 /\ submitted[c] > (IF d = c THEN 1 ELSE 0)
        BY <4>1, <4>3, <4>4
      <4>6. CopiesPushed
        BY <4>1, <4>2, <4>5 DEF CopiesPushed
      <4>7. pc'[p] = "lpop" /\ \A q \in Ports \ {p} : pc'[q] = pc[q]
        BY <2>o, <3>3 DEF PCs
      <4>8. CopiesPushed'
        BY <3>1, <4>6 DEF CopiesPushed
      <4>9. PushedFor(p)'
        BY <3>1, <3>3, <4>1, <4>7, <4>8 DEF PushedFor, c
      <4> QED
        BY <2>0, <3>1, <3>2, <4>7, <4>9
    <3>4. CASE \E l \in {"idle", "lindex", "lindex2"} :
                 Goto(p, l) /\ (l = "lindex2" => UNCHANGED od_cmd)
      <4>1. PICK l \in {"idle", "lindex", "lindex2"} :
              Goto(p, l) /\ (l = "lindex2" => UNCHANGED od_cmd)
        BY <3>4
      <4>2. pc'[p] = l /\ \A q \in Ports \ {p} : pc'[q] = pc[q]
        BY <2>o, <4>1 DEF PCs
      <4>3. PushedFor(p)'
        BY <3>1, <4>1, <4>2 DEF AllPushed, PushedFor
      <4> QED
        BY <2>0, <3>1, <3>2, <4>2, <4>3
    <3> QED
      BY <2>6, <3>3, <3>4 DEF DeleteScan, DoneCmd, NextCmd
  <2>7. ASSUME NEW p \in Ports, DeletePop(p) PROVE AllPushed'
    <3>1. /\ pc[p] = "lpop" /\ Goto(p, "lindex2")
          /\ UNCHANGED <<od_cmd, submitted>>
          /\ queue' = queue \/ (queue # <<>> /\ queue' = Tail(queue))
      BY <2>7 DEF DeletePop, locals
    <3>2. queue' \in Seq(Cmds) /\ \A c \in Cmds : Count(queue', c) <= Count(queue, c)
      <4>1. CASE queue' = queue
        BY <2>n, <2>t, <4>1
      <4>2. CASE queue # <<>> /\ queue' = Tail(queue)
        <5>1. queue' \in Seq(Cmds)
          BY <2>t, <4>2, ShorterLists
        <5>2. \A c : Count(queue', c) \in Nat
          BY <5>1, CountType
        <5>3. \A c : Count(queue, c) = Count(queue', c) + (IF Head(queue) = c THEN 1 ELSE 0)
          BY <2>t, <4>2, CountTail
        <5> QED
          BY <5>1, <5>2, <5>3
      <4> QED
        BY <3>1, <4>1, <4>2
    <3>3. pc'[p] = "lindex2" /\ \A q \in Ports \ {p} : pc'[q] = pc[q]
      BY <2>o, <3>1 DEF PCs
    <3>4. PushedFor(p)'
      <4>1. od_cmd[p] \in Cmds /\ Count(queue, od_cmd[p]) < submitted[od_cmd[p]]
        BY <2>t, <3>1 DEF AllPushed, PushedFor
      <4>2. Count(queue', od_cmd[p]) \in Nat /\ submitted[od_cmd[p]] \in Nat
        BY <2>t, <3>2, <4>1, CountType
      <4>3. Count(queue', od_cmd[p]) < submitted[od_cmd[p]]
        BY <2>n, <3>2, <4>1, <4>2
      <4> QED
        BY <3>1, <3>3, <4>3 DEF PushedFor
    <3> QED
      BY <3>1, <3>2, <3>3, <3>4, PushedKept
  <2>8. ASSUME NEW p \in Ports, LoseRedis(p) \/ Crash(p) \/ Restart(p) PROVE AllPushed'
    <3>1. Stop(p)
      BY <2>8, FaultEnds
    <3>2. /\ UNCHANGED <<queue, submitted>>
          /\ \A q \in Ports \ {p} : od_cmd'[q] = od_cmd[q]
      BY <2>t, <3>1 DEF Stop
    <3>3. pc'[p] = "idle" /\ \A q \in Ports \ {p} : pc'[q] = pc[q]
      BY <2>o, <3>1 DEF Stop, PCs
    <3> QED
      BY <2>0, <3>2, <3>3 DEF PushedFor
  <2>9. CASE UNCHANGED vars
    BY <2>9 DEF AllPushed, PushedFor, CopiesPushed, vars, locals, history
  <2> QED
    BY <2>1, <2>2, <2>3, <2>4, <2>5, <2>6, <2>7, <2>8, <2>9
    DEF Next, ProcessOdCmd
<1> QED
  BY <1>1, <1>2, TypeCorrect, PTL DEF Spec
(* What may become of one command. *)
Fate(c) ==
  \/ Contains(queue, c) \/ InHand(c) \/ Handled(c) \/ abandoned[c] > 0
  \/ dropped[c] > 0 /\ CopiesPushed

(* No interleaving of any number of processes, pushes and faults makes a   *)
(* command vanish that nobody looked at, unless delete_processed_cmd()     *)
(* popped it after copies of some command were pushed.                     *)
THEOREM NothingLostSilently == Spec => []NoSilentLoss
<1>1. Init => NoSilentLoss
  BY DEF Init, NoSilentLoss
<1>2. TypeOK /\ AllPushed /\ NoSilentLoss /\ [Next]_vars => NoSilentLoss'
  <2> SUFFICES ASSUME TypeOK, AllPushed, NoSilentLoss, [Next]_vars,
                      NEW c \in Cmds, submitted'[c] > 0
               PROVE  Fate(c)'
    BY DEF NoSilentLoss, Fate
  <2>t. /\ queue \in Seq(Cmds)
        /\ pc \in [Ports -> PCs]
        /\ od_cmd \in [Ports -> Cmds \cup {NoCmd}]
        /\ submitted \in [Cmds -> Nat]
        /\ handled \in [Ports -> [Cmds -> Nat]]
        /\ abandoned \in [Cmds -> Nat]
        /\ dropped \in [Cmds -> Nat]
        /\ \A p \in Ports : pc[p] \notin {"idle", "lindex", "lrange"} => od_cmd[p] \in Cmds
    BY DEF TypeOK
  <2>f. submitted[c] > 0 => Fate(c)
    BY DEF NoSilentLoss, Fate
  <2>o. ASSUME NEW p \in Ports, NEW l \in PCs, Goto(p, l)
        PROVE  pc'[p] = l /\ \A q \in Ports \ {p} : pc'[q] = pc[q]
    BY <2>t, <2>o DEF Goto
  (* A step that takes nothing off the list and nothing out of a hand. *)
  <2>s. ASSUME UNCHANGED <<queue, submitted, handled, abandoned, dropped>>,
               InHand(c) => InHand(c)'
        PROVE  Fate(c)'
    BY <2>f, <2>s DEF Fate, Handled, CopiesPushed
  <2>1. ASSUME NEW d \in Cmds, Submit(d) PROVE Fate(c)'
    <3>1. /\ queue' = Append(queue, d) /\ submitted' = Bump(submitted, d)
          /\ UNCHANGED <<pc, od_cmd, handled, abandoned, dropped>>
      BY <2>1 DEF Submit, locals
    <3>2. \A e : Contains(queue, e) => Contains(queue', e)
      BY <3>1, AppendKeeps
    <3>3. CASE d = c
      <4>1. Count(queue', c) = Count(queue, c) + 1 /\ Count(queue, c) \in Nat
        BY <2>t, <3>1, <3>3, CountAppend, CountType
      <4>2. queue' \in Seq(Cmds)
        BY <2>t, <3>1, AppendProperties
      <4>3. Contains(queue', c)
        BY <4>1, <4>2, ContainsCounts
      <4> QED
        BY <4>3 DEF Fate
    <3>4. CASE d # c
      <4>1. submitted'[c] = submitted[c]
        BY <2>t, <3>1, <3>4 DEF Bump
      <4>2. CopiesPushed => CopiesPushed'
        <5> SUFFICES ASSUME CopiesPushed PROVE CopiesPushed'
          OBVIOUS
        <5>1. PICK e \in Cmds, g \in Cmds :
                /\ Key[e] = Key[g] /\ submitted[e] > 0
                /\ submitted[g] > (IF e = g THEN 1 ELSE 0)
          BY DEF CopiesPushed
        <5>2. submitted'[e] > 0 /\ submitted'[g] > (IF e = g THEN 1 ELSE 0)
          BY <2>t, <3>1, <5>1 DEF Bump
        <5> QED
          BY <5>1, <5>2 DEF CopiesPushed
      <4>3. (InHand(c) => InHand(c)') /\ (Handled(c) => Handled(c)')
        BY <3>1 DEF InHand, Handled
      <4> QED
        BY <2>f, <3>1, <3>2, <4>1, <4>2, <4>3 DEF Fate
    <3> QED
      BY <3>3, <3>4
  <2>2. ASSUME NEW p \in Ports,
               StartPass(p) \/ CheckPort(p) \/ Fetch(p) \/ DeleteStart(p) \/ DeleteScan(p)
        PROVE  Fate(c)'
    <3>1. /\ pc[p] # "execute"
          /\ UNCHANGED <<queue, submitted, handled, abandoned, dropped>>
      BY <2>2 DEF StartPass, CheckPort, Fetch, DeleteStart, DeleteScan, history
    <3>2. PICK l \in PCs : Goto(p, l)
      BY <2>2 DEF StartPass, CheckPort, Fetch, DeleteStart, DeleteScan, DoneCmd, NextCmd, PCs
    <3>3. \A q \in Ports \ {p} : pc'[q] = pc[q] /\ od_cmd'[q] = od_cmd[q]
      <4>1. \A q \in Ports \ {p} : pc'[q] = pc[q]
        BY <2>o, <3>2
      <4>2. \A q \in Ports \ {p} : od_cmd'[q] = od_cmd[q]
        BY <2>2, <2>t DEF StartPass, CheckPort, Fetch, DeleteStart, DeleteScan, DoneCmd
      <4> QED
        BY <4>1, <4>2
    <3> QED
      BY <2>s, <3>1, <3>3 DEF InHand
  <2>3. ASSUME NEW p \in Ports, Remove1(p) PROVE Fate(c)'
    <3>1. /\ pc[p] = "lrem" /\ Goto(p, "execute")
          /\ UNCHANGED <<od_cmd, submitted, handled, abandoned, dropped>>
          /\ queue' = RemoveFirst(queue, od_cmd[p])
      BY <2>3 DEF Remove1, locals, history
    <3>2. pc'[p] = "execute" /\ \A q \in Ports \ {p} : pc'[q] = pc[q]
      BY <2>o, <3>1 DEF PCs
    <3>3. CASE od_cmd[p] = c
      BY <3>1, <3>2, <3>3 DEF Fate, InHand
    <3>4. CASE od_cmd[p] # c
      <4>1. Contains(queue, c) => Contains(queue', c)
        <5>1. queue' \in Seq(Cmds) /\ Count(queue', c) = Count(queue, c)
          BY <2>t, <3>1, <3>4, CountLrem
        <5> QED
          BY <2>t, <5>1, ContainsCounts
      <4>2. InHand(c) => InHand(c)'
        BY <3>1, <3>2 DEF InHand
      <4> QED
        BY <2>f, <3>1, <4>1, <4>2 DEF Fate, Handled, CopiesPushed
    <3> QED
      BY <3>3, <3>4
  <2>4. ASSUME NEW p \in Ports, Execute(p) PROVE Fate(c)'
    <3>1. /\ pc[p] = "execute" /\ od_cmd[p] \in Cmds
          /\ UNCHANGED <<queue, submitted, dropped, od_cmd>>
      BY <2>4, <2>t DEF Execute
    <3>2. PICK l \in PCs : Goto(p, l)
      BY <2>4 DEF Execute, NextCmd, PCs
    <3>3. \A q \in Ports \ {p} : pc'[q] = pc[q]
      BY <2>o, <3>2
    <3>4. \A q \in Ports : handled[q][c] > 0 => handled'[q][c] > 0
      <4>1. handled' = handled \/ handled' = [handled EXCEPT ![p] = Bump(@, od_cmd[p])]
        BY <2>4 DEF Execute
      <4>2. \A q \in Ports : handled[q] \in [Cmds -> Nat] /\ handled[q][c] \in Nat
        BY <2>t
      <4>3. CASE handled' = handled
        BY <4>2, <4>3
      <4>4. CASE handled' = [handled EXCEPT ![p] = Bump(@, od_cmd[p])]
        BY <2>t, <4>2, <4>4 DEF Bump
      <4> QED
        BY <4>1, <4>3, <4>4
    <3>5. CASE od_cmd[p] = c
      <4>1. CASE abandoned' = Bump(abandoned, od_cmd[p])
        <5>1. abandoned'[c] > 0
          BY <2>t, <3>5, <4>1 DEF Bump
        <5> QED
          BY <5>1 DEF Fate
      <4>2. CASE handled' = [handled EXCEPT ![p] = Bump(@, od_cmd[p])]
        <5>1. handled'[p][c] > 0
          BY <2>t, <3>5, <4>2 DEF Bump
        <5> QED
          BY <5>1 DEF Fate, Handled
      <4> QED
        BY <2>4, <4>1, <4>2 DEF Execute
    <3>6. CASE od_cmd[p] # c
      <4>1. InHand(c) => InHand(c)'
        BY <3>1, <3>3, <3>6 DEF InHand
      <4>2. Handled(c) => Handled(c)'
        BY <3>4 DEF Handled
      <4>3. abandoned[c] > 0 => abandoned'[c] > 0
        <5>1. abandoned' = abandoned \/ abandoned' = Bump(abandoned, od_cmd[p])
          BY <2>4 DEF Execute
        <5> QED
          BY <2>t, <3>6, <5>1 DEF Bump
      <4> QED
        BY <2>f, <3>1, <4>1, <4>2, <4>3 DEF Fate, CopiesPushed
    <3> QED
      BY <3>5, <3>6
  <2>5. ASSUME NEW p \in Ports, DeletePop(p) PROVE Fate(c)'
    <3>1. /\ pc[p] = "lpop" /\ Goto(p, "lindex2")
          /\ UNCHANGED <<od_cmd, submitted, handled, abandoned>>
      BY <2>5 DEF DeletePop, locals
    <3>2. CopiesPushed /\ CopiesPushed'
      BY <3>1 DEF AllPushed, PushedFor, CopiesPushed
    <3>3. \A q \in Ports \ {p} : pc'[q] = pc[q]
      BY <2>o, <3>1 DEF PCs
    <3>4. (InHand(c) => InHand(c)') /\ (Handled(c) => Handled(c)')
      BY <3>1, <3>3 DEF InHand, Handled
    <3>5. CASE UNCHANGED <<queue, dropped>>
      BY <2>f, <3>1, <3>2, <3>4, <3>5 DEF Fate
    <3>6. CASE /\ queue # <<>>
               /\ queue' = Tail(queue) /\ dropped' = Bump(dropped, Head(queue))
      <4>1. CASE Head(queue) = c
        <5>1. dropped'[c] > 0
          BY <2>t, <3>6, <4>1 DEF Bump
        <5> QED
          BY <3>2, <5>1 DEF Fate
      <4>2. CASE Head(queue) # c
        <5>1. queue' \in Seq(Cmds)
          BY <2>t, <3>6, ShorterLists
        <5>2. Count(queue, c) = Count(queue', c)
          <6>1. Count(queue, c) = Count(queue', c) + 0
            BY <2>t, <3>6, <4>2, CountTail
          <6>2. Count(queue', c) \in Nat
            BY <5>1, CountType
          <6> QED
            BY <6>1, <6>2
        <5>3. Contains(queue, c) => Contains(queue', c)
          BY <2>t, <5>1, <5>2, ContainsCounts
        <5>4. dropped'[c] = dropped[c]
          BY <2>t, <3>6, <4>2 DEF Bump
        <5> QED
          BY <2>f, <3>1, <3>2, <3>4, <5>3, <5>4 DEF Fate
      <4> QED
        BY <4>1, <4>2
    <3> QED
      BY <2>5, <3>5, <3>6 DEF DeletePop
  <2>6. ASSUME NEW p \in Ports, LoseRedis(p) \/ Crash(p) \/ Restart(p) PROVE Fate(c)'
    <3>1. (Abandon(p) \/ RunBlind(p)) /\ Stop(p)
      BY <2>6, FaultEnds
    <3>2. UNCHANGED <<queue, submitted, dropped>>
      BY <3>1 DEF Stop
    <3>3. \A q \in Ports \ {p} : pc'[q] = pc[q] /\ od_cmd'[q] = od_cmd[q]
      BY <2>o, <2>t, <3>1 DEF Stop, PCs
    <3>4. CASE pc[p] = "execute" /\ od_cmd[p] = c
      <4>1. abandoned'[c] > 0 \/ handled'[p][c] > 0
        <5>1. CASE Abandon(p)
          BY <2>t, <3>4, <5>1 DEF Abandon, Bump
        <5>2. CASE RunBlind(p)
          BY <2>t, <3>4, <5>2 DEF RunBlind, Bump
        <5> QED
          BY <3>1, <5>1, <5>2
      <4> QED
        BY <4>1 DEF Fate, Handled
    <3>5. CASE ~(pc[p] = "execute" /\ od_cmd[p] = c)
      <4>1. InHand(c) => InHand(c)'
        BY <3>3, <3>5 DEF InHand
      <4>2. abandoned'[c] = abandoned[c]
        BY <2>t, <3>1, <3>5 DEF Abandon, RunBlind, Bump
      <4>3. \A q \in Ports : handled'[q][c] = handled[q][c]
        <5>1. CASE UNCHANGED handled
          BY <5>1
        <5>2. CASE pc[p] = "execute" /\ handled' = [handled EXCEPT ![p] = Bump(@, od_cmd[p])]
          BY <2>t, <3>5, <5>2 DEF Bump
        <5> QED
          BY <3>1, <5>1, <5>2 DEF Abandon, RunBlind, RunsBlind
      <4> QED
        BY <2>f, <3>2, <4>1, <4>2, <4>3 DEF Fate, Handled, CopiesPushed
    <3> QED
      BY <3>4, <3>5
  <2>7. CASE UNCHANGED vars
    BY <2>7, <2>s DEF InHand, vars, locals, history
  <2> QED
    BY <2>1, <2>2, <2>3, <2>4, <2>5, <2>6, <2>7 DEF Next, ProcessOdCmd
<1> QED
  BY <1>1, <1>2, TypeCorrect, AllPushedInvariant, PTL DEF Spec
=============================================================================
