---------------------------- MODULE ReferThreads ----------------------------
(***************************************************************************)
(* LRUSessionsCache::refer() as the connection threads run it: nothing     *)
(* locks the cache, and each call on its list and on its map is a step of  *)
(* its own.  (Two such calls may really overlap, with an undefined result: *)
(* the interleavings of whole calls are the least that can happen.)        *)
(*                                                                         *)
(* The list is made of nodes, for which the map holds iterators; a node    *)
(* that is erased is free and may be allocated again for another key.      *)
(***************************************************************************)
EXTENDS KeyList, FiniteSets

CONSTANTS
    Threads,
    Keys,
    Nodes,      \* the memory the nodes of the list come from
    MaxSize     \* fMaxSize

ASSUME CacheThreadAssumption == Threads # {}
ASSUME CacheKeyAssumption == Keys # {}
ASSUME SizeAssumption == MaxSize \in Nat \ {0}

VARIABLES
    list,       \* fSessionsList: the nodes from front to back
    keyOf,      \* the key in each node of the list
    pos,        \* fSessionPos: key -> node
    sessions,   \* keys that have a directory
    pc, x, last,    \* of each thread: its place in refer(x), the local "last"
    undefined,  \* a call has no defined behaviour
    before      \* history: the cache when no call was in progress

vars == <<list, keyOf, pos, sessions, pc, x, last, undefined, before>>

Keyed(l) == [i \in DOMAIN l |-> keyOf[l[i]]]
Cache == [list |-> Keyed(list), pos |-> DOMAIN pos, sessions |-> sessions]
Goto(t, from, to) ==
    /\ ~undefined /\ pc[t] = from
    /\ pc' = [pc EXCEPT ![t] = to]
Undefined == undefined' = TRUE /\ UNCHANGED <<list, keyOf, pos, sessions, last>>
Local == <<x, before>>

-----------------------------------------------------------------------------
\* if (fSessionPos.find(x) == fSessionPos.end())
Find(t, k) ==
    /\ Goto(t, "idle", IF k \in DOMAIN pos THEN "erase" ELSE "size")
    /\ x' = [x EXCEPT ![t] = k]
    /\ before' = IF \A u \in Threads : pc[u] = "idle" THEN Cache ELSE before
    /\ UNCHANGED <<list, keyOf, pos, sessions, last, undefined>>

\* fSessionsList.erase(fSessionPos[x]), through an iterator that is valid if
\* its node is in the list, whatever its key has become.
EraseNode(t) ==
    /\ Goto(t, "erase", "push")
    /\ IF x[t] \in DOMAIN pos /\ pos[x[t]] \in Elements(list)
       THEN /\ list' = Erase(list, Position(list, pos[x[t]]))
            /\ UNCHANGED <<keyOf, pos, sessions, last, undefined>>
       ELSE Undefined
    /\ UNCHANGED Local

\* Mutated: the cache is full when it is past its capacity.
SizeExceeds(t) ==
    /\ Goto(t, "size", IF Len(list) > MaxSize THEN "back" ELSE "push")
    /\ UNCHANGED <<list, keyOf, pos, sessions, last, undefined, Local>>

\* if (fSessionsList.size() == fMaxSize)
Size(t) ==
    /\ Goto(t, "size", IF Len(list) = MaxSize THEN "back" ELSE "push")
    /\ UNCHANGED <<list, keyOf, pos, sessions, last, undefined, Local>>

\* fs::path last = fSessionsList.back()
ReadBack(t) ==
    /\ Goto(t, "back", "pop")
    /\ IF list # <<>>
       THEN /\ last' = [last EXCEPT ![t] = keyOf[Back(list)]]
            /\ UNCHANGED <<list, keyOf, pos, sessions, undefined>>
       ELSE Undefined
    /\ UNCHANGED Local

\* fSessionsList.pop_back()
Pop(t) ==
    /\ Goto(t, "pop", "unmap")
    /\ IF list # <<>>
       THEN list' = PopBack(list) /\ UNCHANGED <<keyOf, pos, sessions, last, undefined>>
       ELSE Undefined
    /\ UNCHANGED Local

\* fSessionPos.erase(last)
Unmap(t) ==
    /\ Goto(t, "unmap", "dispose")
    /\ pos' = [k \in DOMAIN pos \ {last[t]} |-> pos[k]]
    /\ UNCHANGED <<list, keyOf, sessions, last, undefined, Local>>

Dispose(t) ==
    /\ Goto(t, "dispose", "push")
    /\ sessions' = sessions \ {last[t]}
    /\ UNCHANGED <<list, keyOf, pos, last, undefined, Local>>

\* fSessionsList.push_front(x), in a node that is free
Push(t) ==
    /\ Goto(t, "push", "map")
    /\ \E n \in Nodes \ Elements(list) :
         /\ list' = PushFront(n, list)
         /\ keyOf' = [keyOf EXCEPT ![n] = x[t]]
    /\ UNCHANGED <<pos, sessions, last, undefined, Local>>

\* Mutated: the iterator is stored only for a key that is new in the map.
MapIfNew(t) ==
    /\ Goto(t, "map", "idle")
    /\ pos' = IF x[t] \in DOMAIN pos THEN pos
              ELSE [k \in DOMAIN pos \cup {x[t]} |-> IF k = x[t] THEN list[1] ELSE pos[k]]
    /\ UNCHANGED <<list, keyOf, sessions, last, undefined, Local>>

\* fSessionPos[x] = fSessionsList.begin(), whichever node that is by now
Map(t) ==
    /\ Goto(t, "map", "idle")
    /\ IF list # <<>>
       THEN /\ pos' = [k \in DOMAIN pos \cup {x[t]} |->
                          IF k = x[t] THEN list[1] ELSE pos[k]]
            /\ UNCHANGED <<list, keyOf, sessions, last, undefined>>
       ELSE Undefined
    /\ UNCHANGED Local

\* An upload makes a session again.
Upload(k) ==
    /\ \A t \in Threads : pc[t] = "idle"
    /\ sessions' = sessions \cup {k}
    /\ UNCHANGED <<list, keyOf, pos, pc, x, last, undefined, before>>

-----------------------------------------------------------------------------
NoKey == CHOOSE k \in Keys : TRUE

Init ==
    /\ list = <<>>
    /\ keyOf = [n \in Nodes |-> NoKey]
    /\ pos = [k \in {} |-> 0]
    /\ sessions = {}
    /\ pc = [t \in Threads |-> "idle"]
    /\ x = [t \in Threads |-> NoKey]
    /\ last = [t \in Threads |-> NoKey]
    /\ undefined = FALSE
    /\ before = [list |-> <<>>, pos |-> {}, sessions |-> {}]

Next ==
    \/ \E t \in Threads :
         \/ \E k \in Keys : Find(t, k)
         \/ EraseNode(t) \/ Size(t) \/ ReadBack(t) \/ Pop(t) \/ Unmap(t)
         \/ Dispose(t) \/ Push(t) \/ Map(t)
    \/ \E k \in Keys : Upload(k)

Spec == Init /\ [][Next]_vars

-----------------------------------------------------------------------------
(* What a caller of the cache sees: its state between two calls.           *)
Shown == IF \A t \in Threads : pc[t] = "idle" THEN Cache ELSE before

(* The iterators of the map point to the nodes of the list that hold their *)
(* key, whenever no call is in progress, and no call is undefined.         *)
IteratorsValid ==
    /\ ~undefined
    /\ (\A t \in Threads : pc[t] = "idle") =>
         \A k \in DOMAIN pos : pos[k] \in Elements(list) /\ keyOf[pos[k]] = k

(* refer(), run by one thread, is the one action of LRUSessionsCache.      *)
LRU == INSTANCE LRUSessionsCache WITH
    fMaxSize <- MaxSize, MayFail <- FALSE,
    fSessionsList <- Shown.list, fSessionPos <- Shown.pos,
    sessions <- Shown.sessions, phase <- "serve", toScan <- {},
    referred <- IF Shown.list = <<>> THEN <<>> ELSE <<Head(Shown.list)>>,
    untracked <- Shown.sessions \ Shown.pos
IsRefer == [][LRU!Next]_(LRU!vars)

(* LRUSessionsCache.hh:13 "maximum capacity of sessions".                  *)
CapacityRespected == Len(list) <= MaxSize

=============================================================================
