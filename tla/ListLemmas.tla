----------------------------- MODULE ListLemmas -----------------------------
(***************************************************************************)
(* What the Redis list commands LREM and LPOP, modelled with RemoveFirst   *)
(* and Tail, do to a list.  The proofs about the lists of the system use   *)
(* these facts.                                                            *)
(***************************************************************************)
EXTENDS Integers, Sequences, SequencesExt, SequenceTheorems, WellFoundedInduction,
        NaturalsInduction, TLAPS

(* A nonempty set of naturals has a least element, which Min chooses. *)
LEMMA MinOfNats ==
  ASSUME NEW T, T \subseteq Nat, T # {}
  PROVE  Min(T) \in T
<1>1. PICK x \in T : \A y \in T : ~(<<y, x>> \in OpToRel(<, Nat))
  BY NatLessThanWellFounded, WFMin
<1>2. \A y \in T : x =< y
  <2> SUFFICES ASSUME NEW y \in T, y < x PROVE FALSE
    BY DEF OpToRel
  <2>1. y \in Nat /\ x \in Nat
    OBVIOUS
  <2>2. <<y, x>> \in OpToRel(<, Nat)
    BY <2>1 DEF OpToRel
  <2> QED
    BY <1>1, <2>2
<1> QED
  BY <1>2 DEF Min

(* RemoveFirst removes one position that holds the element, if any does:   *)
(* what LREM list 1 text does to the list.                                 *)
LEMMA RemoveFirstIsRemoveAt ==
  ASSUME NEW S, NEW s \in Seq(S), NEW e, Contains(s, e)
  PROVE  \E k \in 1..Len(s) : s[k] = e /\ RemoveFirst(s, e) = RemoveAt(s, k)
<1> DEFINE I == {i \in 1..Len(s) : s[i] = e}
<1>1. I # {} /\ I \subseteq Nat
  BY LenProperties DEF Contains
<1>2. Min(I) \in I
  BY <1>1, MinOfNats
<1>3. RemoveFirst(s, e) = RemoveAt(s, Min(I))
  BY <1>1 DEF RemoveFirst, SelectInSeq
<1> QED
  BY <1>2, <1>3

(* The shape of a sequence with one position taken out. *)
LEMMA RemoveAtProperties ==
  ASSUME NEW S, NEW s \in Seq(S), NEW k \in 1..Len(s)
  PROVE  /\ RemoveAt(s, k) \in Seq(S)
         /\ Len(RemoveAt(s, k)) = Len(s) - 1
         /\ \A i \in 1..(Len(s) - 1) :
              RemoveAt(s, k)[i] = IF i < k THEN s[i] ELSE s[i + 1]
<1> DEFINE a == SubSeq(s, 1, k - 1)
           b == SubSeq(s, k + 1, Len(s))
<1>1. Len(s) \in Nat /\ \A i \in 1..Len(s) : s[i] \in S
  BY LenProperties, ElementOfSeq
<1>2. a \in Seq(S) /\ Len(a) = k - 1 /\ \A i \in 1..(k - 1) : a[i] = s[i]
  <2>1. \A i \in 1..(k - 1) : s[i] \in S
    BY <1>1
  <2> QED
    BY <1>1, <2>1, SubSeqProperties
<1>3. b \in Seq(S) /\ Len(b) = Len(s) - k /\ \A i \in 1..(Len(s) - k) : b[i] = s[k + i]
  <2>1. \A i \in (k + 1)..Len(s) : s[i] \in S
    BY <1>1
  <2> QED
    BY <1>1, <2>1, SubSeqProperties
<1>4. RemoveAt(s, k) = a \o b
  BY DEF RemoveAt
<1> HIDE DEF a, b
<1>5. /\ a \o b \in Seq(S)
      /\ Len(a \o b) = Len(a) + Len(b)
      /\ \A i \in 1..(Len(a) + Len(b)) :
           (a \o b)[i] = IF i <= Len(a) THEN a[i] ELSE b[i - Len(a)]
  BY <1>2, <1>3, ConcatProperties
<1>6. ASSUME NEW i \in 1..(Len(s) - 1)
      PROVE  (a \o b)[i] = IF i < k THEN s[i] ELSE s[i + 1]
  <2>1. CASE i < k
    BY <1>1, <1>2, <1>3, <1>5, <2>1
  <2>2. CASE ~(i < k)
    <3>1. PICK j \in 1..(Len(s) - k) : j = i - (k - 1)
      BY <1>1, <2>2
    <3>2. ~(i <= Len(a)) /\ i - Len(a) = j /\ k + j = i + 1
      BY <1>1, <1>2, <2>2, <3>1
    <3>3. (a \o b)[i] = b[j]
      BY <1>1, <1>2, <1>3, <1>5, <3>2
    <3>4. b[j] = s[k + j]
      BY <1>3
    <3> QED
      BY <2>2, <3>2, <3>3, <3>4
  <2> QED
    BY <2>1, <2>2
<1> QED
  BY <1>1, <1>2, <1>3, <1>4, <1>5, <1>6

(* Taking the head or the first equal element leaves a list of commands. *)
LEMMA ShorterLists ==
  ASSUME NEW S, NEW s \in Seq(S)
  PROVE  /\ s # <<>> => Tail(s) \in Seq(S) /\ Head(s) \in S
         /\ \A e : RemoveFirst(s, e) \in Seq(S)
<1>1. s # <<>> => Tail(s) \in Seq(S) /\ Head(s) \in S
  BY HeadTailProperties
<1>2. ASSUME NEW e PROVE RemoveFirst(s, e) \in Seq(S)
  <2>1. CASE Contains(s, e)
    BY <2>1, RemoveFirstIsRemoveAt, RemoveAtProperties
  <2>2. CASE ~Contains(s, e)
    BY <2>2 DEF RemoveFirst, Contains
  <2> QED
    BY <2>1, <2>2
<1> QED
  BY <1>1, <1>2

(* Neither list command brings an element to the list. *)
LEMMA ShorterRange ==
  ASSUME NEW S, NEW s \in Seq(S)
  PROVE  /\ s # <<>> => Range(Tail(s)) \subseteq Range(s)
         /\ \A e : Range(RemoveFirst(s, e)) \subseteq Range(s)
<1>1. s # <<>> => Range(Tail(s)) \subseteq Range(s)
  <2> SUFFICES ASSUME s # <<>>, NEW x \in Range(Tail(s)) PROVE x \in Range(s)
    OBVIOUS
  <2>1. /\ Tail(s) \in Seq(S) /\ Len(Tail(s)) = Len(s) - 1 /\ Len(s) \in Nat
        /\ \A i \in 1..Len(s) - 1 : Tail(s)[i] = s[i + 1]
    BY HeadTailProperties, LenProperties
  <2>2. PICK i \in DOMAIN Tail(s) : x = Tail(s)[i]
    BY DEF Range
  <2>3. i \in 1..Len(s) - 1
    BY <2>1, <2>2, LenProperties
  <2>4. x = s[i + 1] /\ i + 1 \in DOMAIN s
    BY <2>1, <2>2, <2>3, LenProperties
  <2> QED
    BY <2>4 DEF Range
<1>2. ASSUME NEW e PROVE Range(RemoveFirst(s, e)) \subseteq Range(s)
  <2>1. CASE Contains(s, e)
    <3>1. PICK k \in 1..Len(s) : RemoveFirst(s, e) = RemoveAt(s, k)
      BY <2>1, RemoveFirstIsRemoveAt
    <3> DEFINE t == RemoveAt(s, k)
    <3>2. /\ t \in Seq(S) /\ Len(t) = Len(s) - 1 /\ Len(s) \in Nat
          /\ \A i \in 1..Len(s) - 1 : t[i] = IF i < k THEN s[i] ELSE s[i + 1]
      BY RemoveAtProperties, LenProperties
    <3> HIDE DEF t
    <3>3. ASSUME NEW x \in Range(t) PROVE x \in Range(s)
      <4>1. PICK i \in DOMAIN t : x = t[i]
        BY <3>3 DEF Range
      <4>2. i \in 1..Len(s) - 1
        BY <3>2, <4>1, LenProperties
      <4>3. PICK j \in 1..Len(s) : x = s[j]
        BY <3>2, <4>1, <4>2
      <4> QED
        BY <4>3, LenProperties DEF Range
    <3> QED
      BY <3>1, <3>3 DEF t
  <2>2. CASE ~Contains(s, e)
    BY <2>2 DEF RemoveFirst, Contains
  <2> QED
    BY <2>1, <2>2
<1> QED
  BY <1>1, <1>2
(* Taking the last element, as RPOP does. *)
LEMMA FrontProperties ==
  ASSUME NEW S, NEW s \in Seq(S), s # <<>>
  PROVE  /\ Front(s) \in Seq(S) /\ Len(Front(s)) = Len(s) - 1
         /\ Last(s) \in S
<1>1. Len(s) \in Nat /\ Len(s) # 0
  BY LenProperties, EmptySeq
<1>2. \A k \in 1..Len(s) : s[k] \in S
  BY ElementOfSeq
<1>3. Last(s) \in S
  BY <1>1, <1>2 DEF Last
<1>4. PICK n \in Nat : n = Len(s) - 1
  BY <1>1
<1>5. \A k \in 1..n : s[k] \in S
  BY <1>1, <1>2, <1>4
<1>6. SubSeq(s, 1, n) \in Seq(S) /\ Len(SubSeq(s, 1, n)) = n
  BY <1>1, <1>4, <1>5, SubSeqProperties
<1> QED
  BY <1>3, <1>4, <1>6 DEF Front
LEMMA RangeOfAppend ==
  ASSUME NEW S, NEW s \in Seq(S), NEW e \in S
  PROVE  Range(Append(s, e)) = Range(s) \cup {e}
<1>1. Append(s, e) = s \o <<e>>
  BY AppendIsConcat
<1>2. <<e>> \in Seq(S)
  OBVIOUS
<1>3. Range(<<e>>) = {e}
  BY DEF Range
<1>4. Range(s \o <<e>>) = Range(s) \cup Range(<<e>>)
  BY <1>2, RangeConcatenation
<1> QED
  BY <1>1, <1>3, <1>4
=============================================================================
