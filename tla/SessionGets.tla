----------------------------- MODULE SessionGets -----------------------------
(***************************************************************************)
(* The GET requests that make files in a session that others use:          *)
(* svg.zip and webapp.zip of src/serverGETConnections.cpp with their       *)
(* create_*_zip of src/content.cpp, signals.svg, tasks.svg and webapp of   *)
(* src/server.cpp, and the requests that only send a file.  None of them   *)
(* refers to the cache.  Files are made under fixed names, by a thread or  *)
(* by a program it waits for, with no lock; what a file name stands for is *)
(* a node, which lives on when its name is removed.                        *)
(***************************************************************************)
EXTENDS Naturals, FiniteSets, FiniteSetsExt

CONSTANTS
    Threads,    \* the threads of the connections
    Keys,       \* sessions
    Mixes,      \* the sets of requests that the clients of a behaviour make
    Pieces,     \* how many writes make a file
    MayFail     \* whether programs may fail

\* "generated.cpp" stands for all the files that validation makes.
AllRequests == {"svg.zip", "webapp.zip", "signals.svg", "tasks.svg", "webapp",
                "asset", "generated.cpp"}

ASSUME MixAssumption == Mixes \subseteq SUBSET AllRequests
ASSUME PieceAssumption == Pieces \in Nat \ {0}
ASSUME FailAssumption == MayFail \in BOOLEAN
ASSUME FiniteAssumption == IsFiniteSet(Threads) /\ IsFiniteSet(Keys)

VARIABLES
    mix,        \* the requests of this behaviour; it does not change
    stage,      \* for each session: "none"; "empty", validate_faust has made
                \* its directories; "ready", it is complete
    name,       \* for each session and name, the node it stands for, or 0
    node,       \* the pieces of each node: "hole", "ok", or "bad" (made from
                \* something incomplete)
    webapp,     \* for each session, the files of webapp/; 1 is index.html
    thread,     \* for each thread, its request and how far it is
    leftover    \* history: temporary files of archives that could not be made

state == <<stage, name, node, webapp, thread, leftover>>
vars == <<mix, state>>

-----------------------------------------------------------------------------
Piece == 1 .. Pieces
Diagrams == {"signals.svg", "tasks.svg"}
Zips == {"svg.zip", "webapp.zip"}

\* The file a request makes for itself, and the one dot makes its diagram from.
TempZip(request) == IF request = "svg.zip" THEN "temp_svg.zip" ELSE "temp_webapp.zip"

\* Mutated: both diagrams are made from a file of one name.
DotFileShared(request) == "main.dsp.dot"

DotFile(request) == IF request = "signals.svg" THEN "main.dsp-sig.dot" ELSE "main.dsp.dot"

MadeNames == Diagrams \cup {DotFile(r) : r \in Diagrams} \cup {TempZip(r) : r \in Zips}
Nodes == 1 .. Cardinality(MadeNames) * Cardinality(Keys) + Cardinality(Threads)

\* What other requests may share with a request.
Artefact(request) ==
    CASE request \in {"webapp", "asset"} -> {"webapp"}
      [] request = "webapp.zip" -> {"webapp", "webapp.zip"}
      [] request = "generated.cpp" -> {}
      [] OTHER -> {request}

Blank == [i \in Piece |-> "hole"]
Whole == [i \in Piece |-> "ok"]
Idle == [pc |-> "idle", request |-> "none", key |-> "none", fd |-> 0, at |-> 0,
         size |-> 0, good |-> TRUE, lost |-> FALSE, alone |-> TRUE,
         answer |-> "none"]

Key(t) == thread[t].key
Request(t) == thread[t].request
At(t, location) == thread[t].pc = location
Goto(t, location) == thread' = [thread EXCEPT ![t].pc = location]
Answer(t, code) == thread' = [thread EXCEPT ![t] = [Idle EXCEPT !.answer = code]]

Busy(t) == thread[t].pc # "idle"
-----------------------------------------------------------------------------
(* Nodes.                                                                  *)

Held == {thread[t].fd : t \in Threads}
Linked == {name[k][n] : k \in Keys, n \in MadeNames}
FreeNode == Min(Nodes \ (Held \cup Linked))

\* open() for writing: the node the name stands for is emptied, or a new one
\* is made.  The session must exist.
OpenWrite(t, n, next, good) ==
    LET k == Key(t)
        new == IF name[k][n] = 0 THEN FreeNode ELSE name[k][n]
    IN  /\ name' = [name EXCEPT ![k][n] = new]
        /\ node' = [node EXCEPT ![new] = Blank]
        /\ thread' = [thread EXCEPT ![t].pc = next, ![t].fd = new, ![t].at = 0,
                                    ![t].good = good]

\* The nodes that a name or a descriptor refers to after the step are kept.
Kept(nodes) ==
    LET held == {thread'[t].fd : t \in Threads}
        linked == {name'[k][n] : k \in Keys, n \in MadeNames}
    IN  node' = [n \in Nodes |-> IF n \in held \cup linked THEN nodes[n] ELSE Blank]

\* One more piece; after the last the file is closed.
WritePiece(t, next) ==
    LET i == thread[t].at + 1 IN
    /\ thread' = IF i < Pieces
                 THEN [thread EXCEPT ![t].at = i]
                 ELSE [thread EXCEPT ![t].pc = next, ![t].at = 0, ![t].fd = 0,
                                     ![t].good = TRUE]
    /\ UNCHANGED name
    /\ Kept([node EXCEPT ![thread[t].fd][i] = IF thread[t].good THEN "ok" ELSE "bad"])

Unlink(k, n) == name' = [name EXCEPT ![k][n] = 0]

SizeOf(pieces) == Max({0} \cup {i \in Piece : pieces[i] # "hole"})

Program(t) == thread[t].pc \in {"faust", "rundot", "dot", "webwrite"}

\* What a request sends or makes from is there, incomplete.
Spoiled(k, request) ==
    \/ request \in Diagrams /\ name[k][request] # 0 /\ node[name[k][request]] # Whole
    \/ "webapp" \in Artefact(request) /\ webapp[k] \notin {{}, Piece}

-----------------------------------------------------------------------------
(* Requests, and what other requests do to sessions.                       *)

\* A request is alone as long as no other request of the same artefact is in
\* progress, none left it incomplete, and its session is not touched.
Start(t) ==
    /\ ~Busy(t)
    /\ \E k \in Keys, r \in mix :
         LET met == {u \in Threads \ {t} : Busy(u) /\ Key(u) = k
                         /\ Artefact(Request(u)) \cap Artefact(r) # {}}
             alone == met = {} /\ ~Spoiled(k, r)
         IN  thread' = [u \in Threads |->
               IF u = t THEN [Idle EXCEPT !.pc = "begin", !.request = r, !.key = k,
                                          !.alone = alone]
               ELSE IF u \in met THEN [thread[u] EXCEPT !.alone = FALSE]
               ELSE thread[u]]
    /\ UNCHANGED <<stage, name, node, webapp, leftover>>

Disturb(k) ==
    thread' = [t \in Threads |->
        IF Busy(t) /\ Key(t) = k THEN [thread[t] EXCEPT !.alone = FALSE]
        ELSE thread[t]]

Create(k) ==
    /\ stage[k] = "none"
    /\ stage' = [stage EXCEPT ![k] = "empty"]
    /\ Disturb(k)
    /\ UNCHANGED <<name, node, webapp, leftover>>

Complete(k) ==
    /\ stage[k] = "empty"
    /\ stage' = [stage EXCEPT ![k] = "ready"]
    /\ Disturb(k)
    /\ UNCHANGED <<name, node, webapp, leftover>>

\* The session is evicted, or refused.  A program in its directory has none any
\* more; an open file stays.
Remove(k) ==
    /\ stage[k] # "none"
    /\ stage' = [stage EXCEPT ![k] = "none"]
    /\ name' = [name EXCEPT ![k] = [n \in MadeNames |-> 0]]
    /\ webapp' = [webapp EXCEPT ![k] = {}]
    /\ thread' = [t \in Threads |->
         IF Busy(t) /\ Key(t) = k
         THEN [thread[t] EXCEPT !.alone = FALSE, !.lost = Program(t)]
         ELSE thread[t]]
    /\ leftover' = {file \in leftover : file[1] # k}
    /\ Kept(node)

-----------------------------------------------------------------------------
(* Files that are only sent, and the first test of the others.             *)

Begin(t) ==
    /\ At(t, "begin")
    /\ LET k == Key(t)  r == Request(t) IN
         CASE r = "svg.zip" ->
                IF stage[k] = "ready" THEN Goto(t, "zip") ELSE Answer(t, "404")
           [] r \in {"webapp", "webapp.zip"} ->
                IF stage[k] = "none" THEN Answer(t, "404") ELSE Goto(t, "index")
           [] r \in Diagrams ->
                Goto(t, IF name[k][r] # 0 THEN "send" ELSE "sources")
           [] r = "asset" ->
                IF webapp[k] # {} THEN Goto(t, "send") ELSE Answer(t, "404")
           [] OTHER ->
                IF stage[k] = "ready" THEN Goto(t, "send") ELSE Answer(t, "404")
    /\ UNCHANGED <<stage, name, node, webapp, leftover>>

\* send_file of a file nobody rewrites in place.
SendFile(t) ==
    /\ At(t, "send")
    /\ LET k == Key(t)  r == Request(t) IN
         /\ r \notin Diagrams \cup Zips
         /\ LET there == CASE r = "webapp" -> 1 \in webapp[k]
                            [] r = "asset" -> webapp[k] # {}
                            [] OTHER -> stage[k] = "ready"
            IN  Answer(t, IF there THEN "200" ELSE "400")
    /\ UNCHANGED <<stage, name, node, webapp, leftover>>

\* send_file of one that others may rewrite: the library sends as many bytes
\* as it has now, after the handler has returned.
SendName(r) == IF r \in Zips THEN TempZip(r) ELSE r

OpenToSend(t) ==
    /\ At(t, "send") /\ Request(t) \in Diagrams \cup Zips
    /\ LET n == name[Key(t)][SendName(Request(t))]
           next == IF Request(t) \in Zips THEN "unlink" ELSE "sending"
       IN  IF n # 0
           THEN thread' = [thread EXCEPT ![t].pc = next, ![t].fd = n,
                                         ![t].size = SizeOf(node[n])]
           ELSE IF Request(t) \in Zips THEN Goto(t, "unlink")
           ELSE Answer(t, "400")
    /\ UNCHANGED <<stage, name, node, webapp, leftover>>

Sending(t) ==
    /\ At(t, "sending")
    /\ Answer(t, IF thread[t].fd = 0 THEN "400"
                 ELSE IF thread[t].size = Pieces /\ node[thread[t].fd] = Whole
                 THEN "200" ELSE "200 partial")
    /\ UNCHANGED <<stage, name, webapp, leftover>>
    /\ Kept(node)

-----------------------------------------------------------------------------
(* svg.zip and webapp.zip.                                                 *)

\* Mutated: the archive is written though its session may have gone.
OpenZipAnyway(t) ==
    /\ At(t, "zip")
    /\ OpenWrite(t, TempZip(Request(t)), "read", TRUE)
    /\ UNCHANGED <<stage, webapp, leftover>>

\* archive_write_open_filename truncates or creates the temporary file.
OpenZip(t) ==
    /\ At(t, "zip")
    /\ IF stage[Key(t)] # "none"
       THEN OpenWrite(t, TempZip(Request(t)), "read", TRUE)
       ELSE Answer(t, "404") /\ UNCHANGED <<name, node>>
    /\ UNCHANGED <<stage, webapp, leftover>>

\* The directory is read; if it has gone the file is left as it is.
ReadDirectory(t) ==
    /\ At(t, "read")
    /\ UNCHANGED <<stage, name, webapp>>
    /\ LET k == Key(t)
           dir == IF Request(t) = "svg.zip" THEN stage[k] = "ready"
                  ELSE webapp[k] # {}
       IN  IF dir
           THEN /\ thread' = [thread EXCEPT ![t].pc = "write",
                      ![t].good = Request(t) = "svg.zip" \/ webapp[k] = Piece]
                /\ UNCHANGED <<node, leftover>>
           ELSE /\ Answer(t, "404")
                /\ leftover' = IF name[k][TempZip(Request(t))] = 0 THEN leftover
                               ELSE leftover \cup {<<k, TempZip(Request(t))>>}
                /\ Kept(node)

WriteZip(t) ==
    /\ At(t, "write")
    /\ WritePiece(t, "send")
    /\ UNCHANGED <<stage, webapp, leftover>>

\* Mutated: the archive is kept when it could not be sent.
RemoveZipIfSent(t) ==
    /\ At(t, "unlink")
    /\ IF thread[t].size = Pieces THEN Unlink(Key(t), TempZip(Request(t)))
       ELSE UNCHANGED name
    /\ Goto(t, "sending")
    /\ leftover' = leftover \ {<<Key(t), TempZip(Request(t))>>}
    /\ UNCHANGED <<stage, webapp>>
    /\ Kept(node)

RemoveZip(t) ==
    /\ At(t, "unlink")
    /\ Unlink(Key(t), TempZip(Request(t)))
    /\ Goto(t, "sending")
    /\ leftover' = leftover \ {<<Key(t), TempZip(Request(t))>>}
    /\ UNCHANGED <<stage, webapp>>
    /\ Kept(node)

-----------------------------------------------------------------------------
(* signals.svg and tasks.svg.                                              *)

FindSources(t) ==
    /\ At(t, "sources")
    /\ IF stage[Key(t)] = "none" THEN Answer(t, "404") ELSE Goto(t, "find")
    /\ UNCHANGED <<stage, name, node, webapp, leftover>>

\* The directory is read for a .dsp file; it throws if there is none any more.
FindDsp(t) ==
    /\ At(t, "find")
    /\ CASE stage[Key(t)] = "none" -> Answer(t, "400")
         [] stage[Key(t)] = "empty" -> Answer(t, "404")
         [] OTHER -> Goto(t, IF Request(t) \in Diagrams THEN "runfaust" ELSE "runweb")
    /\ UNCHANGED <<stage, name, node, webapp, leftover>>

\* A program starts in sourcecode/, and opens its output file.
RunFaust(t) ==
    /\ At(t, "runfaust")
    /\ IF stage[Key(t)] = "ready"
       THEN OpenWrite(t, DotFile(Request(t)), "faust", TRUE)
       ELSE Goto(t, "undotfailed") /\ UNCHANGED <<name, node>>
    /\ UNCHANGED <<stage, webapp, leftover>>

WriteDot(t) ==
    /\ At(t, "faust")
    /\ WritePiece(t, "rundot")
    /\ UNCHANGED <<stage, webapp, leftover>>

\* dot fails on a file that is absent or incomplete.
RunDot(t) ==
    /\ At(t, "rundot")
    /\ LET k == Key(t)
           dot == name[k][DotFile(Request(t))]
       IN  IF stage[k] # "none" /\ ~thread[t].lost /\ dot # 0 /\ node[dot] = Whole
           THEN OpenWrite(t, Request(t), "dot", TRUE)
           ELSE Goto(t, "undotfailed") /\ UNCHANGED <<name, node>>
    /\ UNCHANGED <<stage, webapp, leftover>>

WriteDiagram(t) ==
    /\ At(t, "dot")
    /\ WritePiece(t, "undot")
    /\ UNCHANGED <<stage, webapp, leftover>>

\* faust or dot fails, at its limit of time for instance.
ProgramFails(t) ==
    /\ MayFail
    /\ thread[t].pc \in {"runfaust", "faust", "rundot", "dot"}
    /\ thread' = [thread EXCEPT ![t].pc = "undotfailed", ![t].fd = 0, ![t].at = 0,
                                ![t].alone = FALSE]
    /\ UNCHANGED <<stage, name, webapp, leftover>>
    /\ Kept(node)

RemoveDot(t) ==
    /\ thread[t].pc \in {"undot", "undotfailed"}
    /\ Unlink(Key(t), DotFile(Request(t)))
    /\ IF At(t, "undot") THEN Goto(t, "made") ELSE Answer(t, "500")
    /\ UNCHANGED <<stage, webapp, leftover>>
    /\ Kept(node)

Made(t) ==
    /\ At(t, "made")
    /\ IF name[Key(t)][Request(t)] # 0 THEN Goto(t, "send") ELSE Answer(t, "500")
    /\ UNCHANGED <<stage, name, node, webapp, leftover>>

-----------------------------------------------------------------------------
(* ensure_webapp_exists.                                                   *)

HasWebapp(t) == Goto(t, IF Request(t) = "webapp" THEN "send" ELSE "webdir")

\* Mutated: an application that is there is made again.
FindIndexRemade(t) ==
    /\ At(t, "index")
    /\ Goto(t, "find")
    /\ UNCHANGED <<stage, name, node, webapp, leftover>>

FindIndex(t) ==
    /\ At(t, "index")
    /\ IF 1 \in webapp[Key(t)] THEN HasWebapp(t) ELSE Goto(t, "find")
    /\ UNCHANGED <<stage, name, node, webapp, leftover>>

\* faust2wasm-ts starts.
RunWebapp(t) ==
    /\ At(t, "runweb")
    /\ IF stage[Key(t)] = "ready"
       THEN Goto(t, "webwrite")
       ELSE Answer(t, "500")
    /\ UNCHANGED <<stage, name, node, webapp, leftover>>

\* It writes the files of the application, in an order of its own.
WriteWebapp(t) ==
    /\ At(t, "webwrite")
    /\ ~thread[t].lost
    /\ \E i \in Piece \ webapp[Key(t)] :
          webapp' = [webapp EXCEPT ![Key(t)] = @ \cup {i}]
    /\ UNCHANGED <<stage, name, node, thread, leftover>>

EndWebapp(t) ==
    /\ At(t, "webwrite")
    /\ ~thread[t].lost /\ webapp[Key(t)] = Piece
    /\ Goto(t, "webmade")
    /\ UNCHANGED <<stage, name, node, webapp, leftover>>

WebappFails(t) ==
    /\ At(t, "webwrite")
    /\ MayFail \/ thread[t].lost
    /\ Answer(t, "500")
    /\ UNCHANGED <<stage, name, node, webapp, leftover>>

WebappMade(t) ==
    /\ At(t, "webmade")
    /\ IF 1 \in webapp[Key(t)] THEN HasWebapp(t) ELSE Answer(t, "500")
    /\ UNCHANGED <<stage, name, node, webapp, leftover>>

FindWebapp(t) ==
    /\ At(t, "webdir")
    /\ IF webapp[Key(t)] # {} THEN Goto(t, "zip") ELSE Answer(t, "404")
    /\ UNCHANGED <<stage, name, node, webapp, leftover>>

-----------------------------------------------------------------------------
Init ==
    /\ mix \in Mixes
    /\ stage = [k \in Keys |-> "none"]
    /\ name = [k \in Keys |-> [n \in MadeNames |-> 0]]
    /\ node = [n \in Nodes |-> Blank]
    /\ webapp = [k \in Keys |-> {}]
    /\ thread = [t \in Threads |-> Idle]
    /\ leftover = {}

Step(t) ==
    \/ Begin(t) \/ SendFile(t) \/ OpenToSend(t) \/ Sending(t)
    \/ OpenZip(t) \/ ReadDirectory(t) \/ WriteZip(t) \/ RemoveZip(t)
    \/ FindSources(t) \/ FindDsp(t) \/ RunFaust(t) \/ WriteDot(t) \/ RunDot(t)
    \/ WriteDiagram(t) \/ RemoveDot(t) \/ Made(t)
    \/ FindIndex(t) \/ RunWebapp(t) \/ WriteWebapp(t) \/ EndWebapp(t)
    \/ WebappFails(t) \/ WebappMade(t) \/ FindWebapp(t)

Next ==
    /\ \/ \E t \in Threads : Start(t) \/ Step(t) \/ ProgramFails(t)
       \/ \E k \in Keys : Create(k) \/ Complete(k) \/ Remove(k)
    /\ UNCHANGED mix

Spec == Init /\ [][Next]_vars

-----------------------------------------------------------------------------
(* Whatever the requests do to each other, every file is in a session that *)
(* exists, and two names never stand for one node.                         *)
TypeOK ==
    /\ LET files == {file \in Keys \X MadeNames : name[file[1]][file[2]] # 0}
           linked == {name[file[1]][file[2]] : file \in files}
       IN  /\ \A file \in files : stage[file[1]] # "none"
           /\ linked \subseteq Nodes /\ Cardinality(linked) = Cardinality(files)
    /\ \A k \in Keys : webapp[k] \subseteq Piece /\ (webapp[k] # {} => stage[k] = "ready")
    /\ \A n \in Nodes : node[n] \in [Piece -> {"hole", "ok", "bad"}]
    /\ \A t \in Threads : thread[t].fd \in Nodes \cup {0}

(* What the client of a request gets when no other request of the same     *)
(* file is in progress, none left it incomplete, no program run for it     *)
(* fails, and the session stays as it is: the whole file if the session has what it is made from, 404 if   *)
(* not.  Requests for other files of the session may run all the while.    *)
Expected(t, answer) ==
    LET k == Key(t)  r == Request(t) IN
    CASE answer = "200" ->
           stage[k] = "ready" /\ (r \in {"webapp", "asset"} => webapp[k] = Piece)
      [] answer = "404" ->
           stage[k] # "ready" \/ (r = "asset" /\ webapp[k] = {})
      [] answer = "500" -> At(t, "webwrite")
      [] OTHER -> FALSE
AloneIsServed ==
    [][\A t \in Threads :
         Busy(t) /\ thread[t].alone /\ thread'[t].pc = "idle" =>
             Expected(t, thread'[t].answer)]_vars

(* A diagram or an application that is complete is not made again by a     *)
(* request that began after it was.                                        *)
NotRemade ==
    \A t \in Threads : thread[t].alone =>
        /\ At(t, "runfaust") => name[Key(t)][Request(t)] = 0
        /\ At(t, "runweb") => 1 \notin webapp[Key(t)]

(* When nobody asks for a diagram or an archive of a session, no .dot file *)
(* and no temporary archive is left in it, save that of a request whose    *)
(* session was removed and not yet complete again when it read it.         *)
NothingLeft ==
    \A k \in Keys :
        LET asked == {Request(t) : t \in {u \in Threads : Busy(u) /\ Key(u) = k}} IN
        /\ \A r \in Diagrams : name[k][DotFile(r)] # 0 => r \in asked
        /\ \A r \in Zips : name[k][TempZip(r)] # 0 =>
                r \in asked \/ <<k, TempZip(r)>> \in leftover

=============================================================================
