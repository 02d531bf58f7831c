----------------------- MODULE LRUSessionsCacheProofs -----------------------
(***************************************************************************)
(* Proofs about LRUSessionsCache, for every set of keys and every capacity *)
(* of at least one: the invariant is preserved action by action, and the   *)
(* abstract cache of RecentSessions is implemented.                        *)
(***************************************************************************)
EXTENDS LRUSessionsCache, KeyListProofs, FiniteSetTheorems

(* The state the invariant describes when nothing is cached.               *)
LEMMA EmptyCache ==
    /\ <<>> \in Seq(Keys)
    /\ Len(<<>>) = 0
    /\ Elements(<<>>) = {}
    /\ Distinct(<<>>)
BY DEF Elements, Distinct

(* refer() preserves the invariant, in the constructor (x leaves toScan)   *)
(* and in a request (toScan is empty).                                     *)
LEMMA ReferKeepsInv ==
    ASSUME Inv, NEW x \in Keys, Refer(x),
           toScan' = toScan \ {x}, UNCHANGED phase
    PROVE  Inv'
<1> DEFINE list == fSessionsList
           n == Len(fSessionsList)
<1>1. /\ list \in Seq(Keys) /\ n \in Nat /\ DOMAIN list = 1 .. n
      /\ Distinct(list) /\ fSessionPos = Elements(list)
      /\ n <= fMaxSize
  BY DEF Inv, TypeOK, CacheSound, NoDuplicate, MapMatchesList, WithinCapacity,
         Distinct
<1>2. fMaxSize \in Nat \ {0} /\ referred' = <<x>>
  BY MaxSizeAssumption DEF Refer
<1>3. CASE ReferPresent(x)
  <2> DEFINE i == Position(list, x)
             rest == Erase(list, i)
  <2>1. i \in 1 .. n /\ list[i] = x
    BY <1>1, <1>3 DEF ReferPresent, Elements, Position
  <2>2. /\ rest \in Seq(Keys) /\ Len(rest) = n - 1
        /\ Distinct(rest) /\ Elements(rest) = Elements(list) \ {x}
    BY <1>1, <2>1, EraseProperties
  <2> HIDE DEF rest
  <2>3. /\ PushFront(x, rest) \in Seq(Keys) /\ Len(PushFront(x, rest)) = n
        /\ Distinct(PushFront(x, rest))
        /\ Elements(PushFront(x, rest)) = Elements(list)
    <3>1. x \in Elements(list) /\ x \notin Elements(rest)
      BY <1>1, <1>3, <2>1, <2>2 DEF ReferPresent
    <3>2. /\ PushFront(x, rest) \in Seq(Keys)
          /\ Len(PushFront(x, rest)) = Len(rest) + 1
          /\ Distinct(PushFront(x, rest))
          /\ Elements(PushFront(x, rest)) = Elements(rest) \cup {x}
      BY <2>2, <3>1, PushFrontProperties
    <3>3. Len(rest) + 1 = n
      BY <1>1, <2>2
    <3> QED
      BY <2>2, <3>1, <3>2, <3>3
  <2>4. fSessionsList' = PushFront(x, rest)
    BY <1>3 DEF ReferPresent, rest
  <2>5. CacheSound'
    BY <1>1, <1>3, <2>3, <2>4 DEF ReferPresent, CacheSound, NoDuplicate,
       MapMatchesList, WithinCapacity, Distinct
  <2>6. TypeOK' /\ DiskTracked'
    BY <1>2, <1>3, <2>3, <2>4 DEF ReferPresent, Inv, TypeOK, DiskTracked
  <2> QED
    BY <2>5, <2>6 DEF Inv
<1>4. CASE ReferNew(x)
  <2>1. /\ PushFront(x, list) \in Seq(Keys) /\ Len(PushFront(x, list)) = n + 1
        /\ Distinct(PushFront(x, list))
        /\ Elements(PushFront(x, list)) = Elements(list) \cup {x}
    BY <1>1, <1>4, PushFrontProperties DEF ReferNew
  <2>2. CacheSound'
    <3>1. n + 1 <= fMaxSize
      <4>1. n # fMaxSize
        BY <1>4 DEF ReferNew
      <4>2. n \in Nat /\ n <= fMaxSize
        BY <1>1
      <4> HIDE DEF n
      <4> QED
        BY <1>2, <4>1, <4>2
    <3>2. fSessionsList' = PushFront(x, list) /\ fSessionPos' = fSessionPos \cup {x}
      BY <1>4 DEF ReferNew
    <3>3. WithinCapacity'
      BY <2>1, <3>1, <3>2 DEF WithinCapacity
    <3>4. NoDuplicate' /\ MapMatchesList'
      BY <1>1, <2>1, <3>2 DEF NoDuplicate, MapMatchesList, Distinct
    <3> QED
      BY <3>3, <3>4 DEF CacheSound
  <2>3. TypeOK' /\ DiskTracked'
    BY <1>2, <1>4, <2>1 DEF ReferNew, Inv, TypeOK, DiskTracked
  <2> QED
    BY <2>2, <2>3 DEF Inv
<1>5. CASE ReferEvict(x)
  <2> DEFINE last == Back(list)
             rest == PopBack(list)
  <2>1. n \in 1 .. n /\ last = list[n] /\ n = fMaxSize
    BY <1>1, <1>2, <1>5 DEF ReferEvict, Back
  <2>2. /\ rest \in Seq(Keys) /\ Len(rest) = n - 1
        /\ Distinct(rest) /\ Elements(rest) = Elements(list) \ {last}
    <3>1. /\ Erase(list, n) \in Seq(Keys) /\ Len(Erase(list, n)) = n - 1
          /\ Distinct(Erase(list, n))
          /\ Elements(Erase(list, n)) = Elements(list) \ {list[n]}
      BY <1>1, <2>1, EraseProperties
    <3> QED
      BY <2>1, <3>1 DEF PopBack
  <2>3. last \in fSessionPos /\ x \notin fSessionPos /\ last # x
    BY <1>1, <1>5, <2>1 DEF ReferEvict, Elements
  <2> HIDE DEF rest, last
  <2>4. /\ PushFront(x, rest) \in Seq(Keys) /\ Len(PushFront(x, rest)) = n
        /\ Distinct(PushFront(x, rest))
        /\ Elements(PushFront(x, rest)) = (Elements(list) \ {last}) \cup {x}
    BY <1>1, <2>2, <2>3, PushFrontProperties
  <2>5. /\ fSessionsList' = PushFront(x, rest)
        /\ fSessionPos' = (fSessionPos \ {last}) \cup {x}
        /\ \/ sessions' = sessions \ {last} /\ untracked' = untracked \ {x, last}
           \/ /\ last \in sessions /\ sessions' = sessions
              /\ untracked' = (untracked \ {x}) \cup {last}
    BY <1>5 DEF ReferEvict, rest, last
  <2>6. CacheSound'
    BY <1>1, <2>1, <2>4, <2>5 DEF CacheSound, NoDuplicate,
       MapMatchesList, WithinCapacity, Distinct
  <2>7. TypeOK'
    BY <1>2, <2>3, <2>4, <2>5 DEF Inv, TypeOK, DiskTracked
  <2>8. DiskTracked'
    BY <2>3, <2>5 DEF Inv, TypeOK, DiskTracked
  <2> QED
    BY <2>6, <2>7, <2>8 DEF Inv
<1> QED
  BY <1>3, <1>4, <1>5 DEF Refer

(* Every action preserves the invariant.                                   *)
LEMMA NextKeepsInv == Inv /\ [Next]_vars => Inv'
<1> SUFFICES ASSUME Inv, [Next]_vars PROVE Inv'
  OBVIOUS
<1>1. ASSUME NEW x \in Keys, Scan(x) PROVE Inv'
  BY <1>1, ReferKeepsInv DEF Scan
<1>2. ASSUME NEW x \in Keys, ClearEntry(x) PROVE Inv'
  BY <1>2 DEF ClearEntry, Inv, TypeOK, DiskTracked, CacheSound, NoDuplicate,
              MapMatchesList, WithinCapacity
<1>3. ASSUME NEW x \in Keys, Request(x) PROVE Inv'
  <2>1. toScan' = toScan \ {x}
    BY <1>3 DEF Request, Inv, TypeOK
  <2> QED
    BY <1>3, <2>1, ReferKeepsInv DEF Request
<1>4. ASSUME NEW x \in Keys, Upload(x) PROVE Inv'
  BY <1>4 DEF Upload, Inv, TypeOK, DiskTracked, CacheSound, NoDuplicate,
              MapMatchesList, WithinCapacity
<1>5. ASSUME NEW x \in Keys, UploadRefused(x) PROVE Inv'
  BY <1>5 DEF UploadRefused, Inv, TypeOK, DiskTracked, CacheSound, NoDuplicate,
              MapMatchesList, WithinCapacity
<1>6. CASE ScanEnd
  BY <1>6 DEF ScanEnd, Inv, TypeOK, DiskTracked, CacheSound, NoDuplicate,
              MapMatchesList, WithinCapacity
<1>7. CASE ClearEnd
  BY <1>7 DEF ClearEnd, Inv, TypeOK, DiskTracked, CacheSound, NoDuplicate,
              MapMatchesList, WithinCapacity
<1>8. CASE Restart
  BY <1>8, EmptyCache, MaxSizeAssumption
     DEF Restart, Inv, TypeOK, DiskTracked, CacheSound, NoDuplicate,
         MapMatchesList, WithinCapacity, Distinct
<1>9. CASE UNCHANGED vars
  BY <1>9 DEF vars, Inv, TypeOK, DiskTracked, CacheSound, NoDuplicate,
               MapMatchesList, WithinCapacity
<1> QED
  BY <1>1, <1>2, <1>3, <1>4, <1>5, <1>6, <1>7, <1>8, <1>9 DEF Next

(* The first start satisfies the invariant, whatever the disk holds.       *)
LEMMA InitInv == Init => Inv
BY EmptyCache, MaxSizeAssumption
   DEF Init, Inv, TypeOK, DiskTracked, CacheSound, NoDuplicate,
       MapMatchesList, WithinCapacity, Distinct

(* The three parts of the invariant hold together in every execution.      *)
THEOREM Invariance == Spec => []Inv
BY InitInv, NextKeepsInv, PTL DEF Spec

(* The fields keep their types.                                            *)
THEOREM TypeCorrect == Spec => []TypeOK
BY Invariance, PTL DEF Inv

(* The list and the map of LRUSessionsCache.hh describe one set of at most *)
(* fMaxSize keys, whatever the calls, evictions, failures and restarts.    *)
THEOREM CacheIsSound == Spec => []CacheSound
BY Invariance, PTL DEF Inv

(* refer() and dispose() lose track of no directory (LRUSessionsCache.cpp).*)
THEOREM DiskIsTracked == Spec => []DiskTracked
BY Invariance, PTL DEF Inv

-----------------------------------------------------------------------------
(* LRUSessionsCache implements RecentSessions: the keys before a key in the *)
(* list are those referred to since it was.                                *)

Before(s, k) == {s[j] : j \in 1 .. Position(s, k) - 1}

(* A key of the list has one position.                                     *)
LEMMA PositionOfElement ==
    ASSUME NEW S, NEW s \in Seq(S), Distinct(s), NEW i \in 1 .. Len(s)
    PROVE  Position(s, s[i]) = i
BY DEF Position, Distinct

(* What is before a key is in the list, and is not that key.               *)
LEMMA BeforeIsOthers ==
    ASSUME NEW S, NEW s \in Seq(S), Distinct(s), NEW k \in Elements(s)
    PROVE  Before(s, k) \subseteq Elements(s) \ {k}
<1>1. PICK i \in 1 .. Len(s) : s[i] = k
  BY DEF Elements
<1>2. Position(s, k) = i
  BY <1>1, PositionOfElement
<1> QED
  BY <1>1, <1>2 DEF Before, Elements, Distinct

(* A key pushed to the front is before all the others, and they keep what  *)
(* was before them.                                                        *)
LEMMA BeforePushFront ==
    ASSUME NEW S, NEW s \in Seq(S), NEW x \in S, Distinct(s), x \notin Elements(s)
    PROVE  /\ Before(PushFront(x, s), x) = {}
           /\ \A k \in Elements(s) :
                  Before(PushFront(x, s), k) = Before(s, k) \cup {x}
<1> DEFINE n == Len(s)
           p == PushFront(x, s)
<1>1. p \in Seq(S) /\ Len(p) = n + 1 /\ Distinct(p) /\ n \in Nat
  BY PushFrontProperties
<1>2. \A j \in 1 .. n + 1 : p[j] = IF j = 1 THEN x ELSE s[j - 1]
  BY <1>1 DEF PushFront
<1> HIDE DEF p
<1>3. Before(p, x) = {}
  <2>1. 1 \in 1 .. Len(p) /\ p[1] = x
    BY <1>1, <1>2
  <2>2. Position(p, x) = 1
    BY <1>1, <2>1, PositionOfElement
  <2> QED
    BY <2>2 DEF Before
<1>4. ASSUME NEW k \in Elements(s) PROVE Before(p, k) = Before(s, k) \cup {x}
  <2>1. PICK i \in 1 .. n : s[i] = k
    BY DEF Elements
  <2>2. Position(s, k) = i
    BY <2>1, PositionOfElement
  <2>3. i + 1 \in 1 .. n + 1 /\ p[i + 1] = k
    BY <1>1, <1>2, <2>1
  <2>4. Position(p, k) = i + 1
    BY <1>1, <2>3, PositionOfElement
  <2>5. Before(p, k) = {p[j] : j \in 1 .. i} /\ Before(s, k) = {s[j] : j \in 1 .. i - 1}
    BY <2>1, <2>2, <2>4 DEF Before
  <2>6. 1 \in 1 .. i /\ p[1] = x
    BY <1>1, <1>2, <2>1
  <2>7. \A j \in 1 .. i - 1 : j + 1 \in 1 .. i /\ p[j + 1] = s[j]
    BY <1>1, <1>2, <2>1
  <2>8. \A j \in 1 .. i : j # 1 => j - 1 \in 1 .. i - 1 /\ p[j] = s[j - 1]
    BY <1>1, <1>2, <2>1
  <2>9. Before(s, k) \cup {x} \subseteq Before(p, k)
    BY <2>5, <2>6, <2>7
  <2>10. Before(p, k) \subseteq Before(s, k) \cup {x}
    BY <2>5, <2>6, <2>8
  <2> QED
    BY <2>9, <2>10
<1> QED
  BY <1>3, <1>4 DEF p

(* Erasing a key takes it from what was before the others.                 *)
LEMMA BeforeErase ==
    ASSUME NEW S, NEW s \in Seq(S), NEW i \in 1 .. Len(s), Distinct(s)
    PROVE  \A k \in Elements(s) \ {s[i]} :
               Before(Erase(s, i), k) = Before(s, k) \ {s[i]}
<1> DEFINE n == Len(s)
           e == Erase(s, i)
<1>1. e \in Seq(S) /\ Len(e) = n - 1 /\ Distinct(e) /\ n \in Nat \ {0}
  BY EraseProperties
<1>2. \A j \in 1 .. n - 1 : e[j] = IF j < i THEN s[j] ELSE s[j + 1]
  BY <1>1 DEF Erase
<1> HIDE DEF e
<1> SUFFICES ASSUME NEW k \in Elements(s) \ {s[i]}
             PROVE  Before(e, k) = Before(s, k) \ {s[i]}
  BY DEF e
<1>3. PICK m \in 1 .. n : s[m] = k /\ m # i
  BY DEF Elements
<1>4. Position(s, k) = m
  BY <1>3, PositionOfElement
<1>5. CASE m < i
  <2>1. m \in 1 .. Len(e) /\ e[m] = k
    BY <1>1, <1>2, <1>3, <1>5
  <2>2. Position(e, k) = m
    BY <1>1, <2>1, PositionOfElement
  <2>3. \A j \in 1 .. m - 1 : e[j] = s[j] /\ s[j] # s[i]
    <3> TAKE j \in 1 .. m - 1
    <3>1. j \in 1 .. n - 1 /\ j < i /\ j \in DOMAIN s /\ i \in DOMAIN s
      BY <1>1, <1>3, <1>5
    <3> QED
      BY <1>2, <3>1 DEF Distinct
  <2> QED
    BY <1>4, <2>2, <2>3 DEF Before
<1>6. CASE m > i
  <2>1. m - 1 \in 1 .. Len(e) /\ e[m - 1] = k
    BY <1>1, <1>2, <1>3, <1>6
  <2>2. Position(e, k) = m - 1
    BY <1>1, <2>1, PositionOfElement
  <2>3. Before(e, k) = {e[j] : j \in 1 .. m - 2} /\ Before(s, k) = {s[j] : j \in 1 .. m - 1}
    BY <1>1, <1>3, <1>4, <2>2 DEF Before
  <2>4. \A j \in 1 .. m - 2 : /\ j < i => e[j] = s[j] /\ j \in 1 .. m - 1
                              /\ j >= i => e[j] = s[j + 1] /\ j + 1 \in 1 .. m - 1
                              /\ e[j] # s[i]
    <3> TAKE j \in 1 .. m - 2
    <3>1. j \in 1 .. n - 1 /\ j \in DOMAIN s /\ j + 1 \in DOMAIN s /\ i \in DOMAIN s
          /\ j \in 1 .. m - 1 /\ j + 1 \in 1 .. m - 1
      BY <1>1, <1>3, <1>6
    <3>2. e[j] = IF j < i THEN s[j] ELSE s[j + 1]
      BY <1>2, <3>1
    <3>3. j < i => s[j] # s[i]
      BY <3>1 DEF Distinct
    <3>4. j >= i => s[j + 1] # s[i]
      BY <3>1 DEF Distinct
    <3> QED
      BY <3>1, <3>2, <3>3, <3>4
  <2>5. \A j \in 1 .. m - 1 : /\ j < i => j \in 1 .. m - 2 /\ e[j] = s[j]
                              /\ j > i => j - 1 \in 1 .. m - 2 /\ e[j - 1] = s[j]
    BY <1>1, <1>2, <1>3, <1>6
  <2>6. Before(e, k) \subseteq Before(s, k) \ {s[i]}
    BY <1>1, <1>3, <2>3, <2>4
  <2>7. Before(s, k) \ {s[i]} \subseteq Before(e, k)
    BY <1>1, <1>3, <2>3, <2>5
  <2> QED
    BY <2>6, <2>7
<1> QED
  BY <1>3, <1>5, <1>6

-----------------------------------------------------------------------------
(* The refinement mapping, as an operator of the list.                     *)
Since == [k \in fSessionPos |-> Before(fSessionsList, k)]

(* RecentSessions counts as this module does.                              *)
LEMMA SameCardinality == \A S : Recent!Cardinality(S) = Cardinality(S)
BY DEF Recent!Cardinality, Cardinality

(* How Refer of RecentSessions follows from what a step does to the list:  *)
(* it ages the keys, keeps those of the new list, and takes directories    *)
(* only from keys that leave.                                              *)
LEMMA AgingIsRefer ==
    ASSUME NEW x \in Keys,
           Inv, Inv',
           referred' = <<x>>, UNCHANGED phase,
           sessions' \subseteq sessions,
           sessions \ sessions' \subseteq fSessionPos \ fSessionPos',
           x \in fSessionPos',
           fSessionPos' \subseteq fSessionPos \cup {x},
           Before(fSessionsList, x)' = {},
           \A k \in fSessionPos' \ {x} :
               Before(fSessionsList, k)' = Before(fSessionsList, k) \cup {x},
           \A k \in fSessionPos \ fSessionPos' :
               Cardinality(Before(fSessionsList, k) \cup {x}) = fMaxSize
    PROVE  Recent!Refer(x)
<1> DEFINE older(k) == IF k = x THEN {} ELSE Since[k] \cup {x}
           kept == {k \in fSessionPos : Cardinality(older(k)) < fMaxSize} \cup {x}
<1>1. /\ fSessionsList' \in Seq(Keys) /\ Distinct(fSessionsList')
      /\ fSessionPos' = Elements(fSessionsList') /\ Len(fSessionsList') <= fMaxSize
      /\ fMaxSize \in Nat \ {0}
  BY MaxSizeAssumption DEF Inv, TypeOK, CacheSound, NoDuplicate, MapMatchesList,
     WithinCapacity, Distinct
<1>2. ASSUME NEW k \in fSessionPos' PROVE older(k) = Before(fSessionsList, k)'
  BY <1>2 DEF Since
<1>3. ASSUME NEW k \in fSessionPos' PROVE Cardinality(older(k)) < fMaxSize
  <2> DEFINE l == fSessionsList'
             B == Before(l, k)
  <2>1. IsFiniteSet(Elements(l)) /\ Cardinality(Elements(l)) = Len(l)
    BY <1>1, CountElements
  <2>2. Len(l) \in Nat /\ k \in Elements(l) /\ B \subseteq Elements(l) \ {k}
    BY <1>1, <1>3, BeforeIsOthers
  <2>3. /\ IsFiniteSet(Elements(l) \ {k})
        /\ Cardinality(Elements(l) \ {k}) = Cardinality(Elements(l)) - 1
    BY <2>1, <2>2, FS_RemoveElement
  <2>4. Cardinality(B) \in Nat /\ Cardinality(B) <= Cardinality(Elements(l) \ {k})
    BY <2>2, <2>3, FS_Subset, FS_CardinalityType
  <2>5. Cardinality(B) < fMaxSize
    BY <1>1, <2>1, <2>2, <2>3, <2>4
  <2> QED
    BY <1>2, <1>3, <2>5
<1>4. kept = fSessionPos'
  <2>1. ASSUME NEW k \in fSessionPos \ fSessionPos'
        PROVE  Cardinality(older(k)) = fMaxSize
    BY <2>1 DEF Since
  <2>2. kept \subseteq fSessionPos'
    <3> SUFFICES ASSUME NEW k \in kept, k \notin fSessionPos' PROVE FALSE
      OBVIOUS
    <3>1. k \in fSessionPos /\ Cardinality(older(k)) < fMaxSize
      OBVIOUS
    <3>2. Cardinality(older(k)) = fMaxSize
      BY <2>1, <3>1
    <3> QED
      BY <1>1, <3>1, <3>2
  <2>3. fSessionPos' \subseteq kept
    BY <1>3
  <2> QED
    BY <2>2, <2>3
<1>5. Since' = [k \in kept |-> older(k)]
  BY <1>2, <1>4 DEF Since
<1>6. /\ kept = {k \in fSessionPos : Recent!Cardinality(older(k)) < fMaxSize} \cup {x}
      /\ sessions \ sessions' \subseteq fSessionPos \ kept
  BY <1>4, SameCardinality
<1>7. fSessionPos = DOMAIN Since
  BY DEF Since
<1> QED
  BY <1>5, <1>6, <1>7 DEF Recent!Refer, Recent!Cached, Since, Before

(* The three cases of refer() refer to x in RecentSessions.                *)
LEMMA ReferRefines ==
    ASSUME Inv, Inv', NEW x \in Keys, Refer(x), UNCHANGED phase
    PROVE  Recent!Refer(x)
<1> DEFINE list == fSessionsList
           n == Len(fSessionsList)
<1>1. /\ list \in Seq(Keys) /\ n \in Nat /\ DOMAIN list = 1 .. n
      /\ Distinct(list) /\ fSessionPos = Elements(list)
      /\ n <= fMaxSize /\ fMaxSize \in Nat \ {0} /\ referred' = <<x>>
  BY MaxSizeAssumption DEF Inv, TypeOK, CacheSound, NoDuplicate, MapMatchesList,
     WithinCapacity, Distinct, Refer
<1>2. CASE ReferPresent(x)
  <2> DEFINE i == Position(list, x)
             rest == Erase(list, i)
  <2>1. i \in 1 .. n /\ list[i] = x
    BY <1>1, <1>2 DEF ReferPresent, Elements, Position
  <2>2. /\ rest \in Seq(Keys) /\ Distinct(rest)
        /\ Elements(rest) = Elements(list) \ {x}
        /\ \A k \in Elements(list) \ {x} : Before(rest, k) = Before(list, k) \ {x}
    <3>1. rest \in Seq(Keys) /\ Distinct(rest)
          /\ Elements(rest) = Elements(list) \ {list[i]}
      BY <1>1, <2>1, EraseProperties
    <3>2. \A k \in Elements(list) \ {list[i]} : Before(rest, k) = Before(list, k) \ {list[i]}
      BY <1>1, <2>1, BeforeErase
    <3> QED
      BY <2>1, <3>1, <3>2
  <2> HIDE DEF rest
  <2>3. /\ Before(PushFront(x, rest), x) = {}
        /\ \A k \in Elements(rest) :
               Before(PushFront(x, rest), k) = Before(rest, k) \cup {x}
    BY <2>2, BeforePushFront
  <2>4. /\ fSessionsList' = PushFront(x, rest) /\ x \in fSessionPos
        /\ UNCHANGED <<fSessionPos, sessions>>
    BY <1>2 DEF ReferPresent, rest
  <2>5. Before(fSessionsList, x)' = {}
    BY <2>3, <2>4
  <2>6. \A k \in fSessionPos' \ {x} : Before(fSessionsList, k)' = Before(list, k) \cup {x}
    BY <1>1, <2>2, <2>3, <2>4
  <2> QED
    BY <1>1, <2>4, <2>5, <2>6, AgingIsRefer
<1>3. CASE ReferNew(x)
  <2>1. /\ fSessionsList' = PushFront(x, list) /\ x \notin Elements(list)
        /\ fSessionPos' = fSessionPos \cup {x} /\ UNCHANGED sessions
    BY <1>1, <1>3 DEF ReferNew
  <2>2. /\ Before(PushFront(x, list), x) = {}
        /\ \A k \in Elements(list) :
               Before(PushFront(x, list), k) = Before(list, k) \cup {x}
    BY <1>1, <2>1, BeforePushFront
  <2>3. Before(fSessionsList, x)' = {}
    BY <2>1, <2>2
  <2>4. \A k \in fSessionPos' \ {x} : Before(fSessionsList, k)' = Before(list, k) \cup {x}
    BY <1>1, <2>1, <2>2
  <2> QED
    BY <1>1, <2>1, <2>3, <2>4, AgingIsRefer
<1>4. CASE ReferEvict(x)
  <2> DEFINE last == Back(list)
             rest == PopBack(list)
  <2>1. n \in 1 .. n /\ last = list[n] /\ n = fMaxSize
    BY <1>1, <1>4 DEF ReferEvict, Back
  <2>2. x \notin Elements(list) /\ last \in Elements(list)
    BY <1>1, <1>4, <2>1 DEF ReferEvict, Elements
  <2>3. /\ rest \in Seq(Keys) /\ Distinct(rest)
        /\ Elements(rest) = Elements(list) \ {last}
        /\ \A k \in Elements(list) \ {last} : Before(rest, k) = Before(list, k) \ {last}
    <3>1. Erase(list, n) \in Seq(Keys) /\ Distinct(Erase(list, n))
          /\ Elements(Erase(list, n)) = Elements(list) \ {list[n]}
      BY <1>1, <2>1, EraseProperties
    <3>2. \A k \in Elements(list) \ {list[n]} :
              Before(Erase(list, n), k) = Before(list, k) \ {list[n]}
      BY <1>1, <2>1, BeforeErase
    <3>3. rest = Erase(list, n)
      BY DEF PopBack
    <3> QED
      BY <2>1, <3>1, <3>2, <3>3
  <2>4. Before(list, last) = Elements(list) \ {last}
    <3>1. Position(list, last) = n
      BY <1>1, <2>1, PositionOfElement
    <3>2. Elements(list) \ {last} \subseteq Before(list, last)
      BY <1>1, <2>1, <3>1 DEF Before, Elements
    <3> QED
      BY <1>1, <2>2, <3>2, BeforeIsOthers
  <2>5. Cardinality(Before(list, last) \cup {x}) = fMaxSize
    <3>1. IsFiniteSet(Elements(list)) /\ Cardinality(Elements(list)) = n
      BY <1>1, CountElements
    <3>2. /\ IsFiniteSet(Elements(list) \ {last})
          /\ Cardinality(Elements(list) \ {last}) = n - 1
      BY <2>2, <3>1, FS_RemoveElement
    <3>3. Cardinality((Elements(list) \ {last}) \cup {x}) = n - 1 + 1
      BY <2>2, <3>2, FS_AddElement
    <3>4. n - 1 + 1 = fMaxSize
      BY <1>1, <2>1
    <3> QED
      BY <2>4, <3>3, <3>4
  <2>6. ASSUME NEW k \in Elements(list) \ {last} PROVE last \notin Before(list, k)
    <3>1. PICK m \in 1 .. n : list[m] = k /\ m # n
      BY <1>1, <2>1 DEF Elements
    <3>2. Position(list, k) = m
      BY <1>1, <3>1, PositionOfElement
    <3>3. \A j \in 1 .. m - 1 : list[j] # list[n]
      BY <1>1, <2>1, <3>1 DEF Distinct
    <3> QED
      BY <2>1, <3>2, <3>3 DEF Before
  <2> HIDE DEF rest, last
  <2>7. /\ Before(PushFront(x, rest), x) = {}
        /\ \A k \in Elements(rest) :
               Before(PushFront(x, rest), k) = Before(rest, k) \cup {x}
    BY <2>2, <2>3, BeforePushFront
  <2>8. /\ fSessionsList' = PushFront(x, rest)
        /\ fSessionPos' = (fSessionPos \ {last}) \cup {x}
        /\ sessions' \in {sessions, sessions \ {last}}
    BY <1>4 DEF ReferEvict, rest, last
  <2>9. Before(fSessionsList, x)' = {}
    BY <2>7, <2>8
  <2>10. \A k \in fSessionPos' \ {x} : Before(fSessionsList, k)' = Before(list, k) \cup {x}
    BY <1>1, <2>3, <2>6, <2>7, <2>8
  <2>11. fSessionPos \ fSessionPos' = {last}
    BY <1>1, <2>2, <2>8
  <2>12. \A k \in fSessionPos \ fSessionPos' :
             Cardinality(Before(list, k) \cup {x}) = fMaxSize
    BY <2>5, <2>11
  <2>13. sessions' \subseteq sessions /\ sessions \ sessions' \subseteq {last}
    BY <2>8
  <2> QED
    BY <1>1, <2>8, <2>9, <2>10, <2>11, <2>12, <2>13, AgingIsRefer
<1> QED
  BY <1>2, <1>3, <1>4 DEF Refer

(* The initial states are initial states of RecentSessions.                *)
LEMMA InitRefines == Init => Recent!Init
BY DEF Init, Recent!Init

(* Every step is a step of RecentSessions, or changes nothing there.       *)
LEMMA NextRefines == Inv /\ Inv' /\ [Next]_vars => [Recent!Next]_(Recent!vars)
<1> SUFFICES ASSUME Inv, Inv', [Next]_vars PROVE [Recent!Next]_(Recent!vars)
  OBVIOUS
<1>1. ASSUME NEW x \in Keys, Scan(x) \/ Request(x) PROVE Recent!Next
  BY <1>1, ReferRefines DEF Scan, Request, Recent!Next
<1>2. ASSUME NEW x \in Keys, ClearEntry(x) PROVE Recent!Next
  BY <1>2 DEF ClearEntry, Recent!Next, Recent!Clear
<1>3. CASE ScanEnd \/ ClearEnd
  BY <1>3 DEF ScanEnd, ClearEnd, Recent!Next, Recent!Clear
<1>4. ASSUME NEW x \in Keys, Upload(x) \/ UploadRefused(x) PROVE Recent!Next
  BY <1>4 DEF Upload, UploadRefused, Recent!Next, Recent!Upload
<1>5. CASE Restart
  BY <1>5 DEF Restart, Recent!Next, Recent!Restart
<1>6. CASE UNCHANGED vars
  BY <1>6 DEF vars, Recent!vars
<1> QED
  BY <1>1, <1>2, <1>3, <1>4, <1>5, <1>6 DEF Next

(* LRUSessionsCache.cpp is a least-recently-used cache: with any capacity, *)
(* refer() keeps a key until that many others were referred to since, and  *)
(* no request removes the directory of a key that stays.                   *)
THEOREM CacheEvictsLeastRecent == Spec => EvictsLeastRecent
BY Invariance, InitRefines, NextRefines, PTL DEF Spec, EvictsLeastRecent, Recent!Spec

=============================================================================
