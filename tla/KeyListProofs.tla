---------------------------- MODULE KeyListProofs ----------------------------
(***************************************************************************)
(* What the operations of the list do to its elements, for every list      *)
(* without duplicate, and the facts about counting that the proofs share.  *)
(***************************************************************************)
EXTENDS KeyList, FiniteSetTheorems, TLAPS

Distinct(s) == \A i, j \in DOMAIN s : s[i] = s[j] => i = j

(* std::list::erase removes one element and keeps the others, in order.    *)
LEMMA EraseProperties ==
    ASSUME NEW S, NEW s \in Seq(S), NEW i \in 1 .. Len(s), Distinct(s)
    PROVE  /\ Erase(s, i) \in Seq(S)
           /\ Len(Erase(s, i)) = Len(s) - 1
           /\ Distinct(Erase(s, i))
           /\ Elements(Erase(s, i)) = Elements(s) \ {s[i]}
<1> DEFINE n == Len(s)
           e == Erase(s, i)
<1>1. /\ n \in Nat \ {0}
      /\ DOMAIN s = 1 .. n
      /\ \A j \in 1 .. n : s[j] \in S
  OBVIOUS
<1>2. /\ DOMAIN e = 1 .. n - 1
      /\ \A j \in 1 .. n - 1 : e[j] = IF j < i THEN s[j] ELSE s[j + 1]
  BY <1>1 DEF Erase
<1>3. e \in Seq(S) /\ Len(e) = n - 1
  <2>1. \A j \in 1 .. n - 1 : (IF j < i THEN s[j] ELSE s[j + 1]) \in S
    BY <1>1
  <2> QED
    BY <1>1, <2>1 DEF Erase
<1>4. Distinct(e)
  BY <1>1, <1>2 DEF Distinct
<1>5. Elements(e) = Elements(s) \ {s[i]}
  <2>1. \A k \in 1 .. n : k # i => s[k] \in Elements(e)
    <3> TAKE k \in 1 .. n
    <3> HAVE k # i
    <3>1. CASE k < i
      BY <1>1, <1>2, <3>1 DEF Elements
    <3>2. CASE k > i
      <4>1. k - 1 \in 1 .. n - 1 /\ e[k - 1] = s[k]
        BY <1>1, <1>2, <3>2
      <4> QED
        BY <1>2, <4>1 DEF Elements
    <3> QED
      BY <3>1, <3>2, <1>1
  <2>2. \A j \in 1 .. n - 1 : e[j] \in Elements(s) \ {s[i]}
    BY <1>1, <1>2 DEF Elements, Distinct
  <2> QED
    BY <1>1, <1>2, <2>1, <2>2 DEF Elements
<1> QED
  BY <1>3, <1>4, <1>5

(* std::list::push_front adds one element before the others.               *)
LEMMA PushFrontProperties ==
    ASSUME NEW S, NEW s \in Seq(S), NEW x \in S, Distinct(s), x \notin Elements(s)
    PROVE  /\ PushFront(x, s) \in Seq(S)
           /\ Len(PushFront(x, s)) = Len(s) + 1
           /\ Distinct(PushFront(x, s))
           /\ Elements(PushFront(x, s)) = Elements(s) \cup {x}
<1> DEFINE n == Len(s)
           p == PushFront(x, s)
<1>1. /\ n \in Nat
      /\ DOMAIN s = 1 .. n
      /\ \A j \in 1 .. n : s[j] \in S
  OBVIOUS
<1>2. /\ DOMAIN p = 1 .. n + 1
      /\ \A j \in 1 .. n + 1 : p[j] = IF j = 1 THEN x ELSE s[j - 1]
  BY <1>1 DEF PushFront
<1>3. p \in Seq(S) /\ Len(p) = n + 1
  <2>1. \A j \in 1 .. n + 1 : (IF j = 1 THEN x ELSE s[j - 1]) \in S
    BY <1>1
  <2> QED
    BY <1>1, <2>1 DEF PushFront
<1>4. Distinct(p)
  BY SMTT(30), <1>1, <1>2 DEF Distinct, Elements
<1>5. Elements(p) = Elements(s) \cup {x}
  <2>1. \A k \in 1 .. n : s[k] \in Elements(p)
    <3> TAKE k \in 1 .. n
    <3>1. k + 1 \in 1 .. n + 1 /\ p[k + 1] = s[k]
      BY <1>1, <1>2
    <3> QED
      BY <1>2, <3>1 DEF Elements
  <2>2. x \in Elements(p)
    <3>1. 1 \in 1 .. n + 1 /\ p[1] = x
      BY <1>1, <1>2
    <3> QED
      BY <1>2, <3>1 DEF Elements
  <2>3. \A j \in 1 .. n + 1 : p[j] \in Elements(s) \cup {x}
    BY <1>1, <1>2 DEF Elements
  <2> QED
    BY <1>1, <1>2, <2>1, <2>2, <2>3 DEF Elements
<1> QED
  BY <1>3, <1>4, <1>5

LEMMA CountInterval ==
    ASSUME NEW n \in Nat PROVE IsFiniteSet(1 .. n) /\ Cardinality(1 .. n) = n
<1>1. /\ IsFiniteSet(1 .. n)
      /\ Cardinality(1 .. n) = IF 1 > n THEN 0 ELSE n - 1 + 1
  BY FS_Interval
<1> QED
  BY <1>1

(* A list without duplicates has as many elements as it is long.           *)
LEMMA CountElements ==
    ASSUME NEW S, NEW s \in Seq(S), Distinct(s)
    PROVE  IsFiniteSet(Elements(s)) /\ Cardinality(Elements(s)) = Len(s)
<1> DEFINE n == Len(s)
<1>1. n \in Nat /\ s \in [1 .. n -> Elements(s)] /\ DOMAIN s = 1 .. n
  BY DEF Elements
<1>2. s \in Bijection(1 .. n, Elements(s))
  BY <1>1 DEF Bijection, Injection, Surjection, IsInjective, Distinct, Elements
<1>3. IsFiniteSet(1 .. n) /\ Cardinality(1 .. n) = n
  BY <1>1, CountInterval
<1>4. ExistsBijection(1 .. n, Elements(s))
  BY <1>2 DEF ExistsBijection
<1> QED
  BY <1>3, <1>4, FS_Bijection

(* A list whose elements are as many as it is long has no duplicate.        *)
LEMMA CountedIsDistinct ==
    ASSUME NEW S, NEW s \in Seq(S), Cardinality(Elements(s)) = Len(s)
    PROVE  Distinct(s)
<1> DEFINE n == Len(s)
<1>1. n \in Nat /\ s \in [1 .. n -> Elements(s)] /\ DOMAIN s = 1 .. n
  BY DEF Elements
<1>2. s \in Surjection(1 .. n, Elements(s))
  BY <1>1 DEF Surjection, Elements
<1>3. IsFiniteSet(1 .. n) /\ Cardinality(1 .. n) = n
  BY <1>1, CountInterval
<1>4. s \in Injection(1 .. n, Elements(s))
  <2>1. IsFiniteSet(1 .. n) /\ Cardinality(1 .. n) = Cardinality(Elements(s))
    BY <1>3
  <2> QED
    BY <1>2, <2>1, FS_SurjSameCardinalityImpliesInj
<1> QED
  BY <1>1, <1>4 DEF Injection, IsInjective, Distinct

(* Every set of numbers that is not empty has a smallest one: the sets     *)
(* 1 .. n of the others are all larger than that of one of them.           *)
LEMMA SmallestExists ==
    ASSUME NEW S \in SUBSET Nat, S # {}
    PROVE  \E m \in S : \A n \in S : m <= n
<1> DEFINE T == {1 .. n : n \in S}
<1>1. T \subseteq FiniteSubsetsOf(Nat) /\ T # {}
  <2>1. \A n \in S : 1 .. n \in SUBSET Nat /\ IsFiniteSet(1 .. n)
    BY CountInterval
  <2> QED
    BY <2>1 DEF FiniteSubsetsOf
<1>2. PICK x \in T : \A y \in T : <<y, x>> \notin StrictSubsetOrdering(Nat)
  <2>1. IsWellFoundedOn(StrictSubsetOrdering(Nat), FiniteSubsetsOf(Nat))
    BY FS_StrictSubsetOrderingWellFounded
  <2> HIDE DEF T
  <2> QED
    BY <1>1, <2>1, WFMin
<1>3. PICK m \in S : x = 1 .. m
  BY <1>2
<1>4. ASSUME NEW n \in S, n < m PROVE FALSE
  <2>1. 1 .. n \subseteq 1 .. m /\ m \in 1 .. m /\ m \notin 1 .. n
    BY <1>4
  <2>2. <<1 .. n, 1 .. m>> \in StrictSubsetOrdering(Nat)
    BY <2>1 DEF StrictSubsetOrdering
  <2> QED
    BY <1>2, <1>3, <2>2
<1> QED
  BY <1>4

=============================================================================
