-------------------------- MODULE LRUSessionsCache --------------------------
(***************************************************************************)
(* The session cache of the server: src/LRUSessionsCache.cpp, with what    *)
(* main.cpp and server.cpp do to the directory it manages.                 *)
(*                                                                         *)
(* A session is one sub-directory of the sessions directory, named by the  *)
(* SHA-1 key of the upload.  The cache keeps in memory the list of the     *)
(* keys it was asked to "refer" to, most recent first, and removes from    *)
(* the disk the session of the key it forgets.  The uploads create session *)
(* directories without telling the cache.                                  *)
(*                                                                         *)
(* refer() is one action here: this module is the cache called by one      *)
(* thread at a time.  ReferThreads has its steps interleaved.              *)
(***************************************************************************)
EXTENDS KeyList, FiniteSets

CONSTANTS
    Keys,       \* the keys a request may name
    fMaxSize,   \* LRUSessionsCache::fMaxSize, option -n of the server
    MayFail     \* whether the file system may fail an operation

\* -n accepts 0, for which refer() reads the back of an empty list (undefined):
\* the module is about the capacities for which the code has a meaning.
ASSUME MaxSizeAssumption == fMaxSize \in Nat \ {0}
ASSUME MayFailAssumption == MayFail \in BOOLEAN

VARIABLES
    fSessionsList,  \* keys in the cache, front (most recently referred) first
    fSessionPos,    \* keys that have a position in the map
    sessions,       \* keys that have a directory on the disk
    phase,          \* "scan": constructor, "clear": clear(), "serve": requests
    toScan,         \* entries the constructor's iteration has not reached yet
    referred,       \* history: the last key referred to (<<>> if none was)
    untracked       \* history: directories the cache was not told about since
                    \* they appeared, or that it forgot and could not remove

vars == <<fSessionsList, fSessionPos, sessions, phase, toScan, referred,
          untracked>>

-----------------------------------------------------------------------------
(* refer(x).  The three cases of the code; in the last one the removal of  *)
(* the directory may fail, which dispose() reports and ignores.            *)

\* Mutated: a key already in the cache stays where it is.
ReferPresentInPlace(x) ==
    /\ x \in fSessionPos
    /\ untracked' = untracked \ {x}
    /\ UNCHANGED <<fSessionsList, fSessionPos, sessions>>

\* x is in the cache: it moves to the front.
ReferPresent(x) ==
    /\ x \in fSessionPos
    /\ fSessionsList' =
         PushFront(x, Erase(fSessionsList, Position(fSessionsList, x)))
    /\ untracked' = untracked \ {x}
    /\ UNCHANGED <<fSessionPos, sessions>>

\* x is not in the cache, which has room for it.
ReferNew(x) ==
    /\ x \notin fSessionPos
    /\ Len(fSessionsList) # fMaxSize
    /\ fSessionsList' = PushFront(x, fSessionsList)
    /\ fSessionPos' = fSessionPos \cup {x}
    /\ untracked' = untracked \ {x}
    /\ UNCHANGED sessions

\* Mutated: the evicted key keeps its position in the map.
ReferEvictKeepsPos(x) ==
    /\ x \notin fSessionPos
    /\ Len(fSessionsList) = fMaxSize
    /\ fSessionsList' = PushFront(x, PopBack(fSessionsList))
    /\ fSessionPos' = fSessionPos \cup {x}
    /\ sessions' = sessions \ {Back(fSessionsList)}
    /\ untracked' = untracked \ {x, Back(fSessionsList)}

\* Mutated: the evicted key keeps its directory.
ReferEvictKeepsFiles(x) ==
    /\ x \notin fSessionPos
    /\ Len(fSessionsList) = fMaxSize
    /\ fSessionsList' = PushFront(x, PopBack(fSessionsList))
    /\ fSessionPos' = (fSessionPos \ {Back(fSessionsList)}) \cup {x}
    /\ untracked' = untracked \ {x, Back(fSessionsList)}
    /\ UNCHANGED sessions

\* The cache is full: the key at the back leaves it, with its directory.
ReferEvict(x) ==
    /\ x \notin fSessionPos
    /\ Len(fSessionsList) = fMaxSize
    /\ LET last == Back(fSessionsList) IN
         /\ fSessionsList' = PushFront(x, PopBack(fSessionsList))
         /\ fSessionPos' = (fSessionPos \ {last}) \cup {x}
         /\ \/ /\ sessions' = sessions \ {last}
               /\ untracked' = untracked \ {x, last}
            \/ /\ MayFail /\ last \in sessions        \* remove_all failed
               /\ untracked' = (untracked \ {x}) \cup {last}
               /\ UNCHANGED sessions

Refer(x) ==
    /\ ReferPresent(x) \/ ReferNew(x) \/ ReferEvict(x)
    /\ referred' = <<x>>

-----------------------------------------------------------------------------
(* Start-up: the constructor refers to every entry of the sessions         *)
(* directory, in the order the file system lists them, then the server's   *)
(* constructor calls clear(), which empties the directory and nothing else.*)

Scan(x) ==
    /\ phase = "scan"
    /\ x \in toScan
    /\ toScan' = toScan \ {x}
    /\ Refer(x)
    /\ UNCHANGED phase

\* The iteration is over, or threw: what it did not reach is not in the cache.
ScanEnd ==
    /\ phase = "scan"
    /\ toScan = {} \/ MayFail
    /\ phase' = "clear"
    /\ toScan' = {}
    /\ untracked' = untracked \cup toScan
    /\ UNCHANGED <<fSessionsList, fSessionPos, sessions, referred>>

\* Mutated: clear() may run before the end of the constructor's iteration.
ClearEntryEarly(x) ==
    /\ phase # "serve"
    /\ x \in sessions
    /\ sessions' = sessions \ {x}
    /\ untracked' = untracked \ {x}
    /\ UNCHANGED <<fSessionsList, fSessionPos, phase, toScan, referred>>

ClearEntry(x) ==
    /\ phase = "clear"
    /\ x \in sessions
    /\ sessions' = sessions \ {x}
    /\ untracked' = untracked \ {x}
    /\ UNCHANGED <<fSessionsList, fSessionPos, phase, toScan, referred>>

\* Nothing is left to remove, or one removal threw and ended the loop.
ClearEnd ==
    /\ phase = "clear"
    /\ sessions = {} \/ MayFail
    /\ phase' = "serve"
    /\ UNCHANGED <<fSessionsList, fSessionPos, sessions, toScan, referred,
                   untracked>>

-----------------------------------------------------------------------------
(* Requests.                                                               *)

\* A request to make a target names a key, whether or not it has a session.
Request(x) ==
    /\ phase = "serve"
    /\ Refer(x)
    /\ UNCHANGED <<phase, toScan>>

\* An upload the server has no session for creates its directory; a request
\* whose session is evicted under it may create the directory again.
Upload(x) ==
    /\ phase = "serve"
    /\ x \notin sessions
    /\ sessions' = sessions \cup {x}
    /\ untracked' = untracked \cup ({x} \ fSessionPos)
    /\ UNCHANGED <<fSessionsList, fSessionPos, phase, toScan, referred>>

\* An upload whose generated code includes a file of its own is refused: its
\* session is removed, and the cache is not told.
UploadRefused(x) ==
    /\ phase = "serve"
    /\ x \in sessions
    /\ sessions' = sessions \ {x}
    /\ untracked' = untracked \ {x}
    /\ UNCHANGED <<fSessionsList, fSessionPos, phase, toScan, referred>>

\* The process dies and is started again: the disk is all that is left.
Restart ==
    /\ fSessionsList' = <<>>
    /\ fSessionPos' = {}
    /\ phase' = "scan"
    /\ toScan' = sessions
    /\ referred' = <<>>
    /\ untracked' = {}
    /\ UNCHANGED sessions

-----------------------------------------------------------------------------
(* A first start finds any set of sessions left by an earlier run.         *)
Init ==
    /\ fSessionsList = <<>>
    /\ fSessionPos = {}
    /\ sessions \in SUBSET Keys
    /\ phase = "scan"
    /\ toScan = sessions
    /\ referred = <<>>
    /\ untracked = {}

Next ==
    \/ \E x \in Keys :
         \/ Scan(x)
         \/ ClearEntry(x)
         \/ Request(x)
         \/ Upload(x)
         \/ UploadRefused(x)
    \/ ScanEnd
    \/ ClearEnd
    \/ Restart

Spec == Init /\ [][Next]_vars

-----------------------------------------------------------------------------
(* The fields and the disk have their types, and the start-up's variables  *)
(* are empty outside of it.                                                *)
TypeOK ==
    /\ fSessionsList \in Seq(Keys)
    /\ fSessionPos \subseteq Keys
    /\ sessions \subseteq Keys
    /\ phase \in {"scan", "clear", "serve"}
    /\ toScan \subseteq sessions
    /\ phase # "scan" => toScan = {}
    /\ referred \in {<<>>} \cup {<<x>> : x \in Keys}
    /\ untracked \subseteq sessions

\* No key is twice in the list.
NoDuplicate ==
    \A i, j \in DOMAIN fSessionsList :
        fSessionsList[i] = fSessionsList[j] => i = j

\* The map knows the keys of the list and no other.
MapMatchesList == fSessionPos = Elements(fSessionsList)

\* refer() compares the size with the capacity by "==": a list that ever grew
\* past the capacity would never shrink again.
WithinCapacity == Len(fSessionsList) <= fMaxSize

(* The list and the map of LRUSessionsCache.hh stay two views of one set   *)
(* of at most fMaxSize keys, through any sequence of calls, evictions,     *)
(* failed removals and restarts.                                           *)
CacheSound == NoDuplicate /\ MapMatchesList /\ WithinCapacity

(* A directory outside the cache is one that nobody requested since its    *)
(* upload, or that the file system refused to remove: refer() and          *)
(* dispose() lose no other directory, and the constructor refers once to   *)
(* each of those it finds.                                                 *)
DiskTracked ==
    /\ sessions \subseteq fSessionPos \cup untracked \cup toScan
    /\ toScan \cap fSessionPos = {}

(* The inductive invariant: the proof of each of its parts needs the others*)
(* (the key at the back of the list has a type because the map matches the *)
(* list, its directory is not in toScan because no entry is scanned twice).*)
Inv == TypeOK /\ CacheSound /\ DiskTracked

-----------------------------------------------------------------------------
(* The abstract cache: a session is kept until fMaxSize other ones have    *)
(* been referred to since it was.                                          *)
Recent == INSTANCE RecentSessions WITH
    Capacity <- fMaxSize,
    since <- [x \in fSessionPos |->
                {fSessionsList[j] : j \in 1 .. Position(fSessionsList, x) - 1}],
    serving <- phase = "serve"

(* refer() renews and evicts exactly as the abstract cache does, whatever  *)
(* the stale keys clear() leaves in the list, and only a key that leaves   *)
(* the cache loses its directory to a request.                             *)
EvictsLeastRecent == Recent!Spec

=============================================================================
