-------------------------- MODULE ReferThreadsProofs --------------------------
(***************************************************************************)
(* Proofs about ReferThreads when one thread runs refer(), for every set   *)
(* of keys and nodes and every capacity of at least one.                   *)
(***************************************************************************)
EXTENDS ReferThreads, KeyListProofs

OneThread == \A t, u \in Threads : t = u

Places == {"idle", "erase", "size", "back", "pop", "unmap", "dispose", "push", "map"}

Linked == Elements(list)

CacheType ==
    /\ list \in Seq(Nodes) /\ Distinct(list)
    /\ keyOf \in [Nodes -> Keys]
    /\ pos = [k \in DOMAIN pos |-> pos[k]]
    /\ pc \in [Threads -> Places]
    /\ x \in [Threads -> Keys] /\ last \in [Threads -> Keys]

(* The map and the list agree on every key but those of S.                  *)
AgreeBut(S) ==
    /\ \A k \in DOMAIN pos \ S : pos[k] \in Linked /\ keyOf[pos[k]] = k
    /\ \A n \in Linked : keyOf[n] \notin S =>
          keyOf[n] \in DOMAIN pos /\ pos[keyOf[n]] = n
NoNodeOf(k) == \A n \in Linked : keyOf[n] # k

(* Where a call is, the map and the list agree but for the key it moves or  *)
(* evicts.                                                                 *)
Within(t) ==
    /\ pc[t] \in {"idle", "erase", "size", "back", "pop", "dispose"} => AgreeBut({})
    /\ pc[t] = "erase" => x[t] \in DOMAIN pos
    /\ pc[t] \in {"size", "back", "pop", "unmap", "dispose"} => NoNodeOf(x[t])
    /\ pc[t] \in {"back", "pop"} => list # <<>>
    /\ pc[t] = "pop" => last[t] = keyOf[Back(list)]
    /\ pc[t] = "unmap" => AgreeBut({last[t]}) /\ NoNodeOf(last[t])
    /\ pc[t] = "push" => AgreeBut({x[t]}) /\ NoNodeOf(x[t])
    /\ pc[t] = "map" =>
          /\ AgreeBut({x[t]}) /\ list # <<>> /\ keyOf[list[1]] = x[t]
          /\ \A n \in Linked : keyOf[n] = x[t] => n = list[1]

ReferInv == CacheType /\ ~undefined /\ \A t \in Threads : Within(t)

-----------------------------------------------------------------------------
LEMMA ListFacts ==
    ASSUME NEW S, NEW s \in Seq(S)
    PROVE  /\ Len(s) \in Nat /\ DOMAIN s = 1 .. Len(s)
           /\ s # <<>> => Len(s) \in 1 .. Len(s) /\ 1 \in DOMAIN s
           /\ Len(s) > 0 => s # <<>>
           /\ \A i \in DOMAIN s : s[i] \in S
OBVIOUS

(* The node an iterator points to is erased, and no other.                  *)
LEMMA EraseAt ==
    ASSUME CacheType, NEW n \in Linked
    PROVE  LET rest == Erase(list, Position(list, n)) IN
           rest \in Seq(Nodes) /\ Distinct(rest) /\ Elements(rest) = Linked \ {n}
<1> DEFINE i == Position(list, n)
<1>1. i \in DOMAIN list /\ list[i] = n
  BY DEF Linked, Elements, Position
<1>2. i \in 1 .. Len(list)
  BY <1>1, ListFacts DEF CacheType
<1> HIDE DEF i
<1>3. /\ Erase(list, i) \in Seq(Nodes) /\ Distinct(Erase(list, i))
      /\ Elements(Erase(list, i)) = Elements(list) \ {list[i]}
  BY <1>2, EraseProperties DEF CacheType
<1> QED
  BY <1>1, <1>3 DEF Linked, i

(* The last node is popped, and no other.                                   *)
LEMMA PopLast ==
    ASSUME CacheType, list # <<>>
    PROVE  /\ PopBack(list) \in Seq(Nodes) /\ Distinct(PopBack(list))
           /\ Elements(PopBack(list)) = Linked \ {Back(list)}
           /\ Back(list) \in Linked
<1>1. Len(list) \in 1 .. Len(list) /\ DOMAIN list = 1 .. Len(list)
  BY ListFacts DEF CacheType
<1> QED
  BY <1>1, EraseProperties DEF CacheType, PopBack, Back, Linked, Elements

(* A new node is first.                                                     *)
LEMMA PushFirst ==
    ASSUME CacheType, NEW n \in Nodes \ Linked
    PROVE  LET longer == PushFront(n, list) IN
           /\ longer \in Seq(Nodes) /\ Distinct(longer)
           /\ Elements(longer) = Linked \cup {n}
           /\ longer # <<>> /\ longer[1] = n
<1>1. /\ PushFront(n, list) \in Seq(Nodes) /\ Len(PushFront(n, list)) = Len(list) + 1
      /\ Distinct(PushFront(n, list)) /\ Elements(PushFront(n, list)) = Linked \cup {n}
  BY PushFrontProperties DEF CacheType, Linked
<1>2. Len(list) \in Nat
  BY ListFacts DEF CacheType
<1>3. PushFront(n, list)[1] = n
  BY <1>2 DEF PushFront
<1>4. PushFront(n, list) # <<>>
  BY <1>1, <1>2
<1> QED
  BY <1>1, <1>3, <1>4

LEMMA ReferInitInv == Init => ReferInv
<1> SUFFICES ASSUME Init PROVE ReferInv
  OBVIOUS
<1>1. Linked = {} /\ Distinct(list) /\ list \in Seq(Nodes)
  BY DEF Init, Linked, Elements, Distinct
<1>2. NoKey \in Keys
  BY CacheKeyAssumption DEF NoKey
<1>3. CacheType
  BY <1>1, <1>2 DEF Init, CacheType, Places
<1> QED
  BY <1>1, <1>3 DEF Init, ReferInv, Within, AgreeBut

-----------------------------------------------------------------------------
(* Every call of refer() on the list or the map, and the upload of a key.   *)
LEMMA CallKeepsInv ==
    ASSUME OneThread, ReferInv, NEW t \in Threads,
           \/ \E k \in Keys : Find(t, k)
           \/ EraseNode(t) \/ Size(t) \/ ReadBack(t) \/ Pop(t) \/ Unmap(t)
           \/ Dispose(t) \/ Push(t) \/ Map(t)
    PROVE  ReferInv'
<1> USE DEF ReferInv, Goto, Places, Local
<1>1. \A u \in Threads : u = t
  BY DEF OneThread
<1>2. SUFFICES CacheType' /\ ~undefined' /\ Within(t)'
  BY <1>1
<1>3. CacheType /\ Within(t)
  OBVIOUS
<1>4. ASSUME NEW k \in Keys, Find(t, k) PROVE CacheType' /\ ~undefined' /\ Within(t)'
  <2>1. k \notin DOMAIN pos => NoNodeOf(k)
    BY <1>3, <1>4 DEF Find, Within, AgreeBut, NoNodeOf
  <2> QED
    BY <1>3, <1>4, <2>1 DEF Find, CacheType, Within, AgreeBut, NoNodeOf, Linked
<1>5. CASE EraseNode(t)
  <2>1. x[t] \in DOMAIN pos /\ pos[x[t]] \in Linked /\ keyOf[pos[x[t]]] = x[t]
    BY <1>3, <1>5 DEF EraseNode, Within, AgreeBut
  <2>2. /\ list' = Erase(list, Position(list, pos[x[t]])) /\ pc'[t] = "push"
        /\ UNCHANGED <<keyOf, pos, last, undefined, x>>
    BY <1>3, <1>5, <2>1 DEF EraseNode, CacheType, Linked
  <2>3. list' \in Seq(Nodes) /\ Distinct(list') /\ Linked' = Linked \ {pos[x[t]]}
    BY <1>3, <2>1, <2>2, EraseAt DEF Linked
  <2>4. CacheType'
    BY <1>3, <1>5, <2>2, <2>3 DEF EraseNode, CacheType
  <2>5. AgreeBut({x[t]})' /\ NoNodeOf(x[t])'
    BY <1>3, <1>5, <2>1, <2>2, <2>3 DEF EraseNode, Within, AgreeBut, NoNodeOf
  <2> QED
    BY <2>2, <2>4, <2>5 DEF Within
<1>6. CASE Size(t)
  <2>1. Len(list) = MaxSize => list # <<>>
    BY <1>3, SizeAssumption, ListFacts DEF CacheType
  <2>2. /\ UNCHANGED <<list, keyOf, pos, last, undefined, x>> /\ pc[t] = "size"
        /\ pc'[t] \in {"back", "push"} /\ (pc'[t] = "back" => list # <<>>)
    BY <1>3, <1>6, <2>1 DEF Size, CacheType
  <2>3. CacheType'
    BY <1>3, <1>6, <2>2 DEF Size, CacheType
  <2>4. AgreeBut({}) /\ NoNodeOf(x[t]) /\ ~undefined
    BY <1>3, <2>2 DEF Within
  <2>5. AgreeBut({})' /\ AgreeBut({x[t]})' /\ NoNodeOf(x[t])'
    BY <2>2, <2>4 DEF AgreeBut, NoNodeOf, Linked
  <2> QED
    BY <2>2, <2>3, <2>4, <2>5 DEF Within
<1>7. CASE ReadBack(t)
  <2>1. /\ UNCHANGED <<list, keyOf, pos, undefined, x>> /\ list # <<>>
        /\ pc[t] = "back" /\ pc'[t] = "pop" /\ last' = [last EXCEPT ![t] = keyOf[Back(list)]]
    BY <1>3, <1>7 DEF ReadBack, Within, CacheType
  <2>2. keyOf[Back(list)] \in Keys
    BY <1>3, <2>1, ListFacts DEF CacheType, Back
  <2>3. CacheType' /\ last'[t] = keyOf[Back(list)]
    BY <1>3, <1>7, <2>1, <2>2 DEF ReadBack, CacheType
  <2>4. AgreeBut({})' /\ NoNodeOf(x[t])'
    BY <1>3, <2>1 DEF Within, AgreeBut, NoNodeOf, Linked
  <2> QED
    BY <2>1, <2>3, <2>4 DEF Within, Back
<1>8. CASE Pop(t)
  <2>1. /\ list' = PopBack(list) /\ UNCHANGED <<keyOf, pos, last, undefined, x>>
        /\ pc'[t] = "unmap" /\ last[t] = keyOf[Back(list)] /\ list # <<>>
    BY <1>3, <1>8 DEF Pop, Within, CacheType
  <2>2. list' \in Seq(Nodes) /\ Distinct(list') /\ Linked' = Linked \ {Back(list)}
    BY <1>3, <2>1, PopLast DEF Linked
  <2>3. CacheType'
    BY <1>3, <1>8, <2>1, <2>2 DEF Pop, CacheType
  <2>4. AgreeBut({}) /\ NoNodeOf(x[t]) /\ Back(list) \in Linked
    BY <1>3, <1>8, <2>1, PopLast DEF Pop, Within
  <2>5. AgreeBut({last[t]})' /\ NoNodeOf(last[t])' /\ NoNodeOf(x[t])'
    BY <2>1, <2>2, <2>4 DEF AgreeBut, NoNodeOf
  <2> QED
    BY <2>1, <2>3, <2>5 DEF Within
<1>9. CASE Unmap(t)
  <2>1. /\ UNCHANGED <<list, keyOf, last, undefined, x>> /\ pc'[t] = "dispose"
        /\ DOMAIN pos' = DOMAIN pos \ {last[t]}
        /\ \A k \in DOMAIN pos' : pos'[k] = pos[k]
        /\ pos' = [k \in DOMAIN pos' |-> pos'[k]]
    BY <1>3, <1>9 DEF Unmap, CacheType
  <2>2. AgreeBut({last[t]}) /\ NoNodeOf(last[t]) /\ NoNodeOf(x[t])
    BY <1>3, <1>9 DEF Unmap, Within
  <2>3. AgreeBut({})' /\ NoNodeOf(x[t])'
    BY <2>1, <2>2 DEF AgreeBut, NoNodeOf, Linked
  <2>4. CacheType'
    BY <1>3, <1>9, <2>1 DEF Unmap, CacheType
  <2> QED
    BY <2>1, <2>3, <2>4, <1>3, <1>9 DEF Within, Unmap
<1>10. CASE Dispose(t)
  BY <1>3, <1>10 DEF Dispose, CacheType, Within, AgreeBut, NoNodeOf, Linked
<1>11. CASE Push(t)
  <2>1. PICK n \in Nodes \ Linked :
          list' = PushFront(n, list) /\ keyOf' = [keyOf EXCEPT ![n] = x[t]]
    BY <1>11 DEF Push, Linked
  <2>2. /\ list' \in Seq(Nodes) /\ Distinct(list') /\ Linked' = Linked \cup {n}
        /\ list' # <<>> /\ list'[1] = n
    BY <1>3, <2>1, PushFirst DEF Linked
  <2>3. /\ keyOf' \in [Nodes -> Keys] /\ keyOf'[n] = x[t]
        /\ \A m \in Nodes \ {n} : keyOf'[m] = keyOf[m]
    BY <1>3, <2>1 DEF CacheType
  <2>4. /\ UNCHANGED <<pos, last, undefined, x>> /\ pc'[t] = "map"
        /\ AgreeBut({x[t]}) /\ NoNodeOf(x[t])
    BY <1>3, <1>11 DEF Push, Within, CacheType
  <2>5. Linked \subseteq Nodes
    BY <1>3, ListFacts DEF CacheType, Linked, Elements
  <2>6. AgreeBut({x[t]})' /\ \A m \in Linked' : keyOf'[m] = x'[t] => m = list'[1]
    BY <2>2, <2>3, <2>4, <2>5 DEF AgreeBut, NoNodeOf
  <2>7. CacheType'
    BY <1>3, <1>11, <2>2, <2>3 DEF Push, CacheType
  <2> QED
    BY <2>2, <2>3, <2>4, <2>6, <2>7 DEF Within
<1>12. CASE Map(t)
  <2>1. /\ AgreeBut({x[t]}) /\ list # <<>> /\ keyOf[list[1]] = x[t]
        /\ \A n \in Linked : keyOf[n] = x[t] => n = list[1]
        /\ list[1] \in Linked
    BY <1>3, <1>12, ListFacts DEF Map, Within, CacheType, Linked, Elements
  <2>2. /\ UNCHANGED <<list, keyOf, last, undefined, x>> /\ pc'[t] = "idle"
        /\ DOMAIN pos' = DOMAIN pos \cup {x[t]}
        /\ \A k \in DOMAIN pos' : pos'[k] = IF k = x[t] THEN list[1] ELSE pos[k]
        /\ pos' = [k \in DOMAIN pos' |-> pos'[k]]
    BY <1>3, <1>12, <2>1 DEF Map, CacheType
  <2>3. AgreeBut({})'
    BY <2>1, <2>2 DEF AgreeBut, Linked
  <2>4. CacheType'
    BY <1>3, <1>12, <2>2 DEF Map, CacheType
  <2> QED
    BY <2>2, <2>3, <2>4, <1>12 DEF Within, Map
<1> QED
  BY <1>4, <1>5, <1>6, <1>7, <1>8, <1>9, <1>10, <1>11, <1>12

LEMMA ReferInvHolds == ASSUME OneThread PROVE Spec => []ReferInv
<1>1. ReferInv /\ [Next]_vars => ReferInv'
  <2> SUFFICES ASSUME ReferInv, [Next]_vars PROVE ReferInv'
    OBVIOUS
  <2>1. ASSUME NEW k \in Keys, Upload(k) PROVE ReferInv'
    BY <2>1 DEF Upload, ReferInv, CacheType, Within, AgreeBut, NoNodeOf, Linked
  <2>2. CASE UNCHANGED vars
    BY <2>2 DEF vars, ReferInv, CacheType, Within, AgreeBut, NoNodeOf, Linked
  <2> QED
    BY <2>1, <2>2, CallKeepsInv DEF Next
<1> QED
  BY <1>1, ReferInitInv, PTL DEF Spec

(* With no two calls of refer() at once, none of its calls on the list and  *)
(* the map is undefined, and the iterators of the map are those of the list,*)
(* for every set of keys, every memory and every capacity.                  *)
THEOREM OneThreadIsValid == OneThread => (Spec => []IteratorsValid)
<1> SUFFICES ASSUME OneThread PROVE Spec => []IteratorsValid
  OBVIOUS
<1>1. ReferInv => IteratorsValid
  <2> SUFFICES ASSUME ReferInv, \A t \in Threads : pc[t] = "idle", NEW k \in DOMAIN pos
               PROVE  pos[k] \in Elements(list) /\ keyOf[pos[k]] = k
    BY DEF ReferInv, IteratorsValid
  <2>1. PICK t \in Threads : pc[t] = "idle"
    BY CacheThreadAssumption
  <2> QED
    BY <2>1 DEF ReferInv, Within, AgreeBut, Linked
<1> QED
  BY <1>1, ReferInvHolds, PTL

-----------------------------------------------------------------------------
(* What is left of the cache that a call began with, once it has erased the *)
(* node of x or evicted the last key: the list, the map and the directories.*)
Rest(k, l, p, s) ==
    \/ /\ k \in before.pos
       /\ l = Erase(before.list, Position(before.list, k))
       /\ p = before.pos /\ s = before.sessions
    \/ /\ k \notin before.pos /\ Len(before.list) # MaxSize
       /\ l = before.list /\ p = before.pos /\ s = before.sessions
    \/ /\ k \notin before.pos /\ Len(before.list) = MaxSize
       /\ l = PopBack(before.list)
       /\ p = before.pos \ {Back(before.list)}
       /\ s = before.sessions \ {Back(before.list)}

Since(t) ==
    /\ pc[t] \in {"erase", "size", "back", "pop"} => before = Cache
    /\ pc[t] = "size" => x[t] \notin DOMAIN pos
    /\ pc[t] \in {"back", "pop", "unmap", "dispose"} =>
          x[t] \notin before.pos /\ Len(before.list) = MaxSize
    /\ pc[t] \in {"unmap", "dispose"} =>
          /\ Keyed(list) = PopBack(before.list) /\ last[t] = Back(before.list)
          /\ DOMAIN pos = before.pos \ (IF pc[t] = "unmap" THEN {} ELSE {last[t]})
          /\ sessions = before.sessions
    /\ pc[t] = "push" => Rest(x[t], Keyed(list), DOMAIN pos, sessions)
    /\ pc[t] = "map" =>
          \E l : Rest(x[t], l, DOMAIN pos, sessions) /\ Keyed(list) = PushFront(x[t], l)

SinceInv == \A t \in Threads : Since(t)

(* The keys of a list of nodes are a list of the same length.               *)
LEMMA KeyedIsList ==
    ASSUME CacheType
    PROVE  /\ Keyed(list) \in Seq(Keys) /\ Len(Keyed(list)) = Len(list)
           /\ DOMAIN list = 1 .. Len(list) /\ Len(list) \in Nat
           /\ \A i \in 1 .. Len(list) : Keyed(list)[i] = keyOf[list[i]]
<1>1. DOMAIN list = 1 .. Len(list) /\ Len(list) \in Nat
      /\ \A i \in 1 .. Len(list) : keyOf[list[i]] \in Keys
  BY ListFacts DEF CacheType
<1>2. Keyed(list) = [i \in 1 .. Len(list) |-> keyOf[list[i]]]
  BY <1>1 DEF Keyed
<1> QED
  BY <1>1, <1>2

(* The keys of a list without its i-th node.                                *)
LEMMA KeyedErase ==
    ASSUME CacheType, NEW i \in 1 .. Len(list), list' = Erase(list, i), keyOf' = keyOf
    PROVE  Keyed(list)' = Erase(Keyed(list), i)
<1> DEFINE n == Len(list)
           e == Erase(list, i)
<1>1. /\ Len(Keyed(list)) = n /\ n \in Nat /\ DOMAIN list = 1 .. n
      /\ \A j \in 1 .. n : Keyed(list)[j] = keyOf[list[j]]
  BY KeyedIsList
<1>2. /\ DOMAIN e = 1 .. n - 1
      /\ \A j \in 1 .. n - 1 : e[j] = IF j < i THEN list[j] ELSE list[j + 1]
  BY <1>1 DEF Erase
<1>3. Keyed(list)' = [j \in 1 .. n - 1 |-> keyOf[e[j]]]
  BY <1>2 DEF Keyed
<1>4. Erase(Keyed(list), i) = [j \in 1 .. n - 1 |->
          IF j < i THEN Keyed(list)[j] ELSE Keyed(list)[j + 1]]
  BY <1>1 DEF Erase
<1>5. \A j \in 1 .. n - 1 :
        keyOf[e[j]] = IF j < i THEN Keyed(list)[j] ELSE Keyed(list)[j + 1]
  <2> TAKE j \in 1 .. n - 1
  <2>1. j \in 1 .. n /\ j + 1 \in 1 .. n
    BY <1>1
  <2> QED
    BY <1>1, <1>2, <2>1
<1> QED
  BY <1>3, <1>4, <1>5, Zenon

(* The keys of a list with a node more, that takes the key k.               *)
LEMMA KeyedPush ==
    ASSUME CacheType, NEW n \in Nodes \ Linked, NEW STATE k,
           list' = PushFront(n, list), keyOf' = [keyOf EXCEPT ![n] = k]
    PROVE  Keyed(list)' = PushFront(k, Keyed(list))
<1> DEFINE m == Len(list)
           p == PushFront(n, list)
<1>1. /\ Len(Keyed(list)) = m /\ m \in Nat /\ DOMAIN list = 1 .. m
      /\ \A j \in 1 .. m : Keyed(list)[j] = keyOf[list[j]]
  BY KeyedIsList
<1>2. /\ DOMAIN p = 1 .. m + 1
      /\ \A j \in 1 .. m + 1 : p[j] = IF j = 1 THEN n ELSE list[j - 1]
  BY <1>1 DEF PushFront
<1>3. Keyed(list)' = [j \in 1 .. m + 1 |-> keyOf'[p[j]]]
  BY <1>2 DEF Keyed
<1>4. PushFront(k, Keyed(list)) =
          [j \in 1 .. m + 1 |-> IF j = 1 THEN k ELSE Keyed(list)[j - 1]]
  BY <1>1 DEF PushFront
<1>5. keyOf'[n] = k /\ \A o \in Nodes \ {n} : keyOf'[o] = keyOf[o]
  BY DEF CacheType
<1>6. \A j \in 1 .. m : list[j] \in Nodes \ {n}
  BY <1>1, ListFacts DEF CacheType, Linked, Elements
<1>7. \A j \in 1 .. m + 1 : keyOf'[p[j]] = IF j = 1 THEN k ELSE Keyed(list)[j - 1]
  <2> TAKE j \in 1 .. m + 1
  <2>1. j # 1 => j - 1 \in 1 .. m
    BY <1>1
  <2> QED
    BY <1>1, <1>2, <1>5, <1>6, <2>1
<1>8. Keyed(list)' = [j \in 1 .. m + 1 |-> IF j = 1 THEN k ELSE Keyed(list)[j - 1]]
  BY <1>3, <1>7
<1> QED
  BY <1>4, <1>8

(* The node of a key is where the key is.                                   *)
LEMMA SamePosition ==
    ASSUME CacheType, AgreeBut({}), NEW k \in DOMAIN pos
    PROVE  /\ Position(list, pos[k]) = Position(Keyed(list), k)
           /\ Position(list, pos[k]) \in 1 .. Len(list)
<1>1. /\ Len(Keyed(list)) = Len(list) /\ DOMAIN list = 1 .. Len(list)
      /\ DOMAIN Keyed(list) = DOMAIN list
      /\ \A i \in DOMAIN list : Keyed(list)[i] = keyOf[list[i]]
  BY KeyedIsList DEF Keyed
<1>2. PICK i \in DOMAIN list : list[i] = pos[k] /\ keyOf[list[i]] = k
  BY DEF AgreeBut, Linked, Elements
<1>3. Position(list, pos[k]) \in DOMAIN list /\ list[Position(list, pos[k])] = pos[k]
  BY <1>2 DEF Position
<1>4. /\ Position(Keyed(list), k) \in DOMAIN list
      /\ keyOf[list[Position(Keyed(list), k)]] = k
  BY <1>1, <1>2 DEF Position
<1>5. list[Position(Keyed(list), k)] = pos[k]
  BY <1>4 DEF AgreeBut, Linked, Elements
<1> QED
  BY <1>1, <1>3, <1>4, <1>5 DEF CacheType, Distinct

LEMMA CallKeepsSince ==
    ASSUME OneThread, ReferInv, SinceInv, NEW t \in Threads,
           \/ \E k \in Keys : Find(t, k)
           \/ EraseNode(t) \/ Size(t) \/ ReadBack(t) \/ Pop(t) \/ Unmap(t)
           \/ Dispose(t) \/ Push(t) \/ Map(t)
    PROVE  SinceInv'
<1> USE DEF Goto, Local
<1>1. SUFFICES Since(t)'
  BY DEF OneThread, SinceInv
<1>2. CacheType /\ Within(t) /\ Since(t) /\ ~undefined
  BY DEF ReferInv, SinceInv
<1>3. pc \in [Threads -> Places] /\ x \in [Threads -> Keys] /\ last \in [Threads -> Keys]
  BY <1>2 DEF CacheType
<1>4. ASSUME NEW k \in Keys, Find(t, k) PROVE Since(t)'
  <2>1. \A u \in Threads : pc[u] = "idle"
    BY <1>4 DEF Find, OneThread
  <2>2. /\ before' = Cache /\ Cache' = Cache /\ x'[t] = k /\ DOMAIN pos' = DOMAIN pos
        /\ pc'[t] = IF k \in DOMAIN pos THEN "erase" ELSE "size"
    BY <1>3, <1>4, <2>1 DEF Find, Cache, Keyed
  <2> QED
    BY <2>2 DEF Since
<1>5. CASE EraseNode(t)
  <2>1. pc[t] = "erase" /\ pc'[t] = "push" /\ AgreeBut({}) /\ x[t] \in DOMAIN pos
    BY <1>2, <1>3, <1>5 DEF EraseNode, Within
  <2>2. pos[x[t]] \in Elements(list)
    BY <2>1 DEF AgreeBut, Linked
  <2>3. /\ list' = Erase(list, Position(list, pos[x[t]]))
        /\ UNCHANGED <<keyOf, pos, sessions, x, before>>
    BY <1>5, <2>1, <2>2 DEF EraseNode
  <2>4. Keyed(list)' = Erase(Keyed(list), Position(Keyed(list), x[t]))
    <3>1. PICK i \in 1 .. Len(list) :
             i = Position(list, pos[x[t]]) /\ i = Position(Keyed(list), x[t])
      BY <1>2, <2>1, SamePosition
    <3> QED
      BY <1>2, <2>3, <3>1, KeyedErase
  <2>5. before.list = Keyed(list) /\ before.pos = DOMAIN pos /\ before.sessions = sessions
    BY <1>2, <2>1 DEF Since, Cache
  <2>6. Rest(x[t], Keyed(list), DOMAIN pos, sessions)'
    BY <2>1, <2>3, <2>4, <2>5 DEF Rest
  <2> QED
    BY <2>1, <2>6 DEF Since
<1>6. CASE Size(t)
  <2>1. /\ pc[t] = "size" /\ pc'[t] = IF Len(list) = MaxSize THEN "back" ELSE "push"
        /\ UNCHANGED <<list, keyOf, pos, sessions, last, x, before>>
    BY <1>3, <1>6 DEF Size
  <2>2. /\ before = Cache /\ x[t] \notin DOMAIN pos /\ Len(Keyed(list)) = Len(list)
        /\ before.list = Keyed(list) /\ before.pos = DOMAIN pos /\ before.sessions = sessions
    BY <1>2, <2>1, KeyedIsList DEF Since, Cache
  <2>3. Cache' = Cache /\ Keyed(list)' = Keyed(list)
    BY <2>1 DEF Cache, Keyed
  <2>4. CASE Len(list) = MaxSize
    BY <2>1, <2>2, <2>3, <2>4 DEF Since
  <2>5. CASE Len(list) # MaxSize
    <3>1. Rest(x[t], Keyed(list), DOMAIN pos, sessions)'
      BY <2>1, <2>2, <2>3, <2>5 DEF Rest
    <3> QED
      BY <2>1, <2>5, <3>1 DEF Since
  <2> QED
    BY <2>4, <2>5
<1>7. CASE ReadBack(t)
  <2>1. /\ pc[t] = "back" /\ pc'[t] = "pop"
        /\ UNCHANGED <<list, keyOf, pos, sessions, x, before>>
    BY <1>2, <1>3, <1>7 DEF ReadBack, Within
  <2>2. Cache' = Cache
    BY <2>1 DEF Cache, Keyed
  <2> QED
    BY <1>2, <2>1, <2>2 DEF Since
<1>8. CASE Pop(t)
  <2>1. /\ pc[t] = "pop" /\ pc'[t] = "unmap" /\ list' = PopBack(list) /\ list # <<>>
        /\ last[t] = keyOf[Back(list)]
        /\ UNCHANGED <<keyOf, pos, sessions, last, x, before>>
    BY <1>2, <1>3, <1>8 DEF Pop, Within
  <2>2. /\ before.list = Keyed(list) /\ before.pos = DOMAIN pos /\ before.sessions = sessions
        /\ x[t] \notin before.pos /\ Len(before.list) = MaxSize
    BY <1>2, <2>1 DEF Since, Cache
  <2>3. Len(list) \in 1 .. Len(list) /\ Len(Keyed(list)) = Len(list)
        /\ Keyed(list)[Len(list)] = keyOf[list[Len(list)]]
    BY <1>2, <2>1, ListFacts, KeyedIsList DEF CacheType
  <2>4. Keyed(list)' = PopBack(Keyed(list))
    BY <1>2, <2>1, <2>3, KeyedErase DEF PopBack
  <2>5. last[t] = Back(Keyed(list))
    BY <2>1, <2>3 DEF Back
  <2> QED
    BY <2>1, <2>2, <2>4, <2>5 DEF Since
<1>9. CASE Unmap(t)
  <2>1. /\ pc[t] = "unmap" /\ pc'[t] = "dispose" /\ DOMAIN pos' = DOMAIN pos \ {last[t]}
        /\ UNCHANGED <<list, keyOf, sessions, last, x, before>>
    BY <1>3, <1>9 DEF Unmap
  <2>2. Keyed(list)' = Keyed(list)
    BY <2>1 DEF Keyed
  <2> QED
    BY <1>2, <2>1, <2>2 DEF Since
<1>10. CASE Dispose(t)
  <2>1. /\ pc[t] = "dispose" /\ pc'[t] = "push" /\ sessions' = sessions \ {last[t]}
        /\ UNCHANGED <<list, keyOf, pos, last, x, before>>
    BY <1>3, <1>10 DEF Dispose
  <2>2. Keyed(list)' = Keyed(list)
    BY <2>1 DEF Keyed
  <2>3. /\ x[t] \notin before.pos /\ Len(before.list) = MaxSize
        /\ Keyed(list) = PopBack(before.list) /\ last[t] = Back(before.list)
        /\ DOMAIN pos = before.pos \ {last[t]} /\ sessions = before.sessions
    BY <1>2, <2>1 DEF Since
  <2>4. Rest(x[t], Keyed(list), DOMAIN pos, sessions)'
    BY <2>1, <2>2, <2>3 DEF Rest
  <2> QED
    BY <2>1, <2>4 DEF Since
<1>11. CASE Push(t)
  <2>1. PICK n \in Nodes \ Linked :
          list' = PushFront(n, list) /\ keyOf' = [keyOf EXCEPT ![n] = x[t]]
    BY <1>11 DEF Push, Linked
  <2>2. /\ pc[t] = "push" /\ pc'[t] = "map"
        /\ UNCHANGED <<pos, sessions, last, x, before>>
    BY <1>3, <1>11 DEF Push
  <2>3. Keyed(list)' = PushFront(x[t], Keyed(list))
    BY <1>2, <2>1, KeyedPush
  <2>4. Rest(x[t], Keyed(list), DOMAIN pos, sessions)
    BY <1>2, <2>2 DEF Since
  <2>5. \E l : Rest(x[t], l, DOMAIN pos, sessions)' /\ Keyed(list)' = PushFront(x[t]', l)
    BY <2>2, <2>3, <2>4 DEF Rest
  <2> QED
    BY <2>2, <2>5 DEF Since
<1>12. CASE Map(t)
  BY <1>2, <1>3, <1>12 DEF Map, Since, Within
<1> QED
  BY <1>4, <1>5, <1>6, <1>7, <1>8, <1>9, <1>10, <1>11, <1>12

(* The operations of LRUSessionsCache on its list are those of this one.    *)
LEMMA SameList ==
    /\ \A k, l : LRU!PushFront(k, l) = PushFront(k, l) /\ LRU!Position(l, k) = Position(l, k)
    /\ \A l, i : LRU!Erase(l, i) = Erase(l, i)
    /\ \A l : LRU!PopBack(l) = PopBack(l) /\ LRU!Back(l) = Back(l)
BY DEF LRU!PushFront, PushFront, LRU!Position, Position, LRU!Erase, Erase,
       LRU!PopBack, PopBack, LRU!Back, Back

(* The last call of refer() shows what the whole of it did: one of the      *)
(* cases of LRUSessionsCache.                                              *)
LEMMA MapIsRefer ==
    ASSUME OneThread, ReferInv, SinceInv, NEW t \in Threads, Map(t)
    PROVE  LRU!Next
<1> DEFINE d == DOMAIN pos
<1>1. CacheType /\ Within(t) /\ Since(t)
  BY DEF ReferInv, SinceInv
<1> PICK k \in Keys : k = x[t]
  BY <1>1 DEF CacheType
<1>2. /\ pc[t] = "map" /\ pc'[t] = "idle"
      /\ list # <<>> /\ keyOf[list[1]] = k
  BY <1>1 DEF Map, Goto, CacheType, Within
<1>3. /\ DOMAIN pos' = d \cup {k}
      /\ UNCHANGED <<list, keyOf, sessions>>
  BY <1>2 DEF Map
<1>4. /\ Shown = before
      /\ Shown'.list = Keyed(list) /\ Shown'.pos = d \cup {k} /\ Shown'.sessions = sessions
  <2>1. Cache'.list = Keyed(list) /\ Cache'.pos = d \cup {k} /\ Cache'.sessions = sessions
    BY <1>3 DEF Cache, Keyed
  <2>2. \A u \in Threads : pc'[u] = "idle"
    BY <1>2 DEF OneThread
  <2> QED
    BY <1>2, <2>1, <2>2 DEF Shown
<1>5. Shown'.list # <<>> /\ Head(Shown'.list) = k
  <2>1. /\ Keyed(list) \in Seq(Keys) /\ Len(Keyed(list)) = Len(list)
        /\ Len(list) \in Nat \ {0} /\ Keyed(list)[1] = k
    BY SMTT(30), <1>1, <1>2, KeyedIsList, ListFacts DEF CacheType
  <2> QED
    BY <1>4, <2>1
<1>6. PICK l : Rest(k, l, d, sessions) /\ Keyed(list) = PushFront(k, l)
  BY <1>1, <1>2 DEF Since
<1> DEFINE b == before
<1>7. LRU!ReferPresent(k) \/ LRU!ReferNew(k) \/ LRU!ReferEvict(k)
  <2>1. CASE /\ k \in b.pos /\ l = Erase(b.list, Position(b.list, k))
             /\ d = b.pos /\ sessions = b.sessions
    <3>1. Shown'.sessions \ Shown'.pos = (Shown.sessions \ Shown.pos) \ {k}
      BY <1>4, <2>1
    <3> QED
      BY <1>4, <1>6, <2>1, <3>1, SameList DEF LRU!ReferPresent
  <2>2. CASE /\ k \notin b.pos /\ Len(b.list) # MaxSize
             /\ l = b.list /\ d = b.pos /\ sessions = b.sessions
    <3>1. Shown'.sessions \ Shown'.pos = (Shown.sessions \ Shown.pos) \ {k}
      BY <1>4, <2>2
    <3> QED
      BY <1>4, <1>6, <2>2, <3>1, SameList DEF LRU!ReferNew
  <2>3. CASE /\ k \notin b.pos /\ Len(b.list) = MaxSize /\ l = PopBack(b.list)
             /\ d = b.pos \ {Back(b.list)} /\ sessions = b.sessions \ {Back(b.list)}
    <3>1. Shown'.sessions \ Shown'.pos =
              (Shown.sessions \ Shown.pos) \ {k, Back(Shown.list)}
      BY <1>4, <2>3
    <3> QED
      BY <1>4, <1>6, <2>3, <3>1, SameList DEF LRU!ReferEvict
  <2> QED
    BY <1>6, <2>1, <2>2, <2>3 DEF Rest
<1>8. LRU!Refer(k)
  BY <1>5, <1>7 DEF LRU!Refer
<1>9. LRU!Request(k)
  BY <1>8 DEF LRU!Request
<1> QED
  BY <1>2, <1>9 DEF LRU!Next

(* refer(), as one thread runs it call by call, is the one action of        *)
(* LRUSessionsCache, for every set of keys, every memory and every capacity.*)
THEOREM OneThreadRefers == OneThread => (Spec => IsRefer)
<1> SUFFICES ASSUME OneThread PROVE Spec => IsRefer
  OBVIOUS
<1>1. Init => SinceInv
  BY DEF Init, SinceInv, Since
<1>2. ReferInv /\ SinceInv /\ [Next]_vars => SinceInv'
  <2> SUFFICES ASSUME ReferInv, SinceInv, [Next]_vars PROVE SinceInv'
    OBVIOUS
  <2>1. ASSUME NEW k \in Keys, Upload(k) PROVE SinceInv'
    BY <2>1 DEF Upload, SinceInv, Since
  <2>2. CASE UNCHANGED vars
    <3>1. /\ UNCHANGED <<pos, sessions, pc, x, last, before>>
          /\ Cache' = Cache /\ Keyed(list)' = Keyed(list)
      BY <2>2 DEF vars, Cache, Keyed
    <3> SUFFICES ASSUME NEW t \in Threads PROVE Since(t)'
      BY DEF SinceInv
    <3>2. Since(t)
      BY DEF SinceInv
    <3> QED
      BY <3>1, <3>2 DEF Since, Rest
  <2> QED
    BY <2>1, <2>2, CallKeepsSince DEF Next
<1>3. ReferInv /\ SinceInv /\ [Next]_vars => [LRU!Next]_(LRU!vars)
  <2> SUFFICES ASSUME ReferInv, SinceInv, Next \/ UNCHANGED vars,
                      ~ UNCHANGED LRU!vars
               PROVE  LRU!Next
    OBVIOUS
  <2>1. UNCHANGED Shown => UNCHANGED LRU!vars
    BY DEF LRU!vars
  <2>2. CASE UNCHANGED vars
    BY <2>1, <2>2 DEF vars, Shown, Cache, Keyed
  <2>3. ASSUME NEW k \in Keys, Upload(k) PROVE LRU!Next
    <3>1. /\ Shown.list = Keyed(list) /\ Shown.pos = DOMAIN pos /\ Shown.sessions = sessions
          /\ Shown'.list = Keyed(list) /\ Shown'.pos = DOMAIN pos
          /\ Shown'.sessions = sessions \cup {k}
      BY <2>3 DEF Upload, Shown, Cache, Keyed
    <3>2. k \notin sessions
      BY <2>1, <2>3 DEF Upload, Shown, Cache, Keyed
    <3> QED
      BY <2>3, <3>1, <3>2 DEF LRU!Next, LRU!Upload
  <2>4. ASSUME NEW t \in Threads, Map(t) PROVE LRU!Next
    BY <2>4, MapIsRefer
  <2>5. ASSUME NEW t \in Threads,
               \/ \E k \in Keys : Find(t, k)
               \/ EraseNode(t) \/ Size(t) \/ ReadBack(t) \/ Pop(t) \/ Unmap(t)
               \/ Dispose(t) \/ Push(t)
        PROVE  UNCHANGED Shown
    <3>1. \A u \in Threads : u = t
      BY DEF OneThread
    <3>2. pc \in [Threads -> Places]
      BY DEF ReferInv, CacheType
    <3>3. pc'[t] # "idle"
      BY <2>5, <3>2 DEF Find, EraseNode, Size, ReadBack, Pop, Unmap, Dispose, Push, Goto
    <3>4. Shown' = before'
      BY <3>3 DEF Shown
    <3>5. ASSUME NEW k \in Keys, Find(t, k) PROVE Shown = before'
      BY <3>1, <3>5 DEF Find, Goto, Shown
    <3>6. CASE ~ \E k \in Keys : Find(t, k)
      <4>1. pc[t] # "idle" /\ before' = before
        BY <2>5, <3>6 DEF EraseNode, Size, ReadBack, Pop, Unmap, Dispose, Push, Goto, Local
      <4> QED
        BY <3>4, <4>1 DEF Shown
    <3> QED
      BY <3>4, <3>5, <3>6
  <2> QED
    BY <2>1, <2>2, <2>3, <2>4, <2>5 DEF Next
<1> QED
  BY <1>1, <1>2, <1>3, ReferInvHolds, PTL DEF Spec, IsRefer

=============================================================================
