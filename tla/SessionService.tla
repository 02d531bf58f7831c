---------------------------- MODULE SessionService ----------------------------
(***************************************************************************)
(* What the service promises a client whose session no other request is    *)
(* using: uploads make sessions, requests for a target make it in a        *)
(* session, and nothing else touches one, except an eviction, which takes  *)
(* a whole session that no request is busy with, and a restart.            *)
(* Sessions implements it when its requests are apart.                     *)
(***************************************************************************)
CONSTANTS
    Clients,    \* each makes one request at a time
    Keys,       \* contents that may be uploaded
    Pairs       \* platform/architecture pairs clients ask for

VARIABLES
    sessions,   \* for each key that has a session, the pairs made in it
    request     \* for each client: phase, whether its content is being taken
                \* ("upload") or its target made ("target"); key and target;
                \* answer, how its last request ended

vars == <<sessions, request>>

Idle == [phase |-> "idle", key |-> "", target |-> "none", answer |-> "none"]

Key(c) == request[c].key
HasSession(k) == k \in DOMAIN sessions
In(c, phase) == request[c].phase = phase

Begin(c, phase, k, g) ==
    request' = [request EXCEPT ![c] =
        [phase |-> phase, key |-> k, target |-> g, answer |-> "none"]]
Answer(c, how) == request' = [request EXCEPT ![c] = [Idle EXCEPT !.answer = how]]

\* A session of k in which nothing has been made.
WithSession(k) ==
    [j \in DOMAIN sessions \cup {k} |-> IF j = k THEN {} ELSE sessions[j]]
WithoutSession(k) == [j \in DOMAIN sessions \ {k} |-> sessions[j]]

-----------------------------------------------------------------------------
Upload(c) ==
    /\ In(c, "idle")
    /\ UNCHANGED sessions
    /\ \E k \in Keys, g \in Pairs \cup {"none"} : Begin(c, "upload", k, g)

\* A content that was uploaded before keeps its session and all that was made in it.
Accept(c) ==
    /\ In(c, "upload")
    /\ sessions' = IF HasSession(Key(c)) THEN sessions ELSE WithSession(Key(c))
    /\ IF request[c].target = "none"
       THEN Answer(c, "key")
       ELSE request' = [request EXCEPT ![c].phase = "target"]

\* Only a new content is refused.  What failed may leave a session behind.
Refuse(c) ==
    /\ In(c, "upload") /\ ~HasSession(Key(c))
    /\ sessions' \in {sessions, WithSession(Key(c))}
    /\ Answer(c, "invalid") \/ Answer(c, "error")

Ask(c) ==
    /\ In(c, "idle")
    /\ UNCHANGED sessions
    /\ \E k \in Keys, g \in Pairs : Begin(c, "target", k, g)

Build(c) ==
    /\ In(c, "target") /\ HasSession(Key(c))
    /\ sessions' = [sessions EXCEPT ![Key(c)] = @ \cup {request[c].target}]
    /\ UNCHANGED request

Send(c) ==
    /\ In(c, "target") /\ HasSession(Key(c))
    /\ request[c].target \in sessions[Key(c)]
    /\ Answer(c, "file")
    /\ UNCHANGED sessions

Fail(c) ==
    /\ In(c, "target")
    /\ Answer(c, "error")
    /\ UNCHANGED sessions

\* Room is made for the session of a request at the expense of one nobody uses.
Evict ==
    /\ UNCHANGED request
    /\ \E k \in DOMAIN sessions :
         /\ \A c \in Clients : ~In(c, "idle") => Key(c) # k
         /\ sessions' = WithoutSession(k)

Restart ==
    /\ request' = [c \in Clients |-> Idle]
    /\ sessions' = [k \in {} |-> {}]

Init ==
    /\ sessions = [k \in {} |-> {}]
    /\ request = [c \in Clients |-> Idle]

Next ==
    \/ \E c \in Clients :
         Upload(c) \/ Accept(c) \/ Refuse(c) \/ Ask(c) \/ Build(c) \/ Send(c) \/ Fail(c)
    \/ Evict
    \/ Restart

Spec == Init /\ [][Next]_vars

=============================================================================
