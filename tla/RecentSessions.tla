--------------------------- MODULE RecentSessions ---------------------------
(***************************************************************************)
(* What a least-recently-used cache of sessions promises, with no list and *)
(* no map: a session is in the cache from the moment it is referred to     *)
(* until Capacity other sessions have been referred to since, and a        *)
(* reference removes from the disk only sessions that leave the cache.     *)
(***************************************************************************)
EXTENDS Naturals, FiniteSets

CONSTANTS Keys, Capacity

VARIABLES
    since,      \* for each cached key, the keys referred to since it was
    referred,   \* the last key referred to (<<>> if none was)
    sessions,   \* the keys that have a directory
    serving     \* requests are answered (start-up is over)

vars == <<since, referred, sessions, serving>>

Cached == DOMAIN since

\* A reference to x ages the others; those that get too old are forgotten.
Refer(x) ==
    LET older(k) == IF k = x THEN {} ELSE since[k] \cup {x}
        kept == {k \in Cached : Cardinality(older(k)) < Capacity} \cup {x}
    IN  /\ referred' = <<x>>
        /\ since' = [k \in kept |-> older(k)]
        /\ sessions' \subseteq sessions
        /\ sessions \ sessions' \subseteq Cached \ kept
        /\ UNCHANGED serving

\* Start-up may remove any session, and changes nothing to the cache.
Clear ==
    /\ ~serving
    /\ sessions' \subseteq sessions
    /\ serving' \in BOOLEAN
    /\ UNCHANGED <<since, referred>>

\* An upload creates a session, or takes back the one it has just created.
Upload ==
    /\ serving
    /\ \E x \in Keys : sessions' \in {sessions \cup {x}, sessions \ {x}}
    /\ UNCHANGED <<since, referred, serving>>

\* The cache is in memory only.
Restart ==
    /\ since' = [k \in {} |-> {}]
    /\ referred' = <<>>
    /\ serving' = FALSE
    /\ UNCHANGED sessions

Init ==
    /\ since = [k \in {} |-> {}]
    /\ referred = <<>>
    /\ sessions \subseteq Keys
    /\ serving = FALSE

Next == (\E x \in Keys : Refer(x)) \/ Clear \/ Upload \/ Restart

Spec == Init /\ [][Next]_vars

=============================================================================
