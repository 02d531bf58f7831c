------------------------------- MODULE Exports -------------------------------
(***************************************************************************)
(* Exports of Faust programs: the functions of src/client/FaustWebClient.cpp*)
(* and, on the other side, the threads that validate a program and make    *)
(* one of its targets with no lock (src/server.cpp), by the recipes of     *)
(* src/makefiles/android/Makefile.android.  A client gives up after a time;*)
(* the thread that answers it does not.  The server may crash, and a       *)
(* second one may be started on its port.                                  *)
(*                                                                         *)
(* What Sessions says in detail (the creation of a session and of its      *)
(* target) is one step here; what it does in one step, make, is several.   *)
(***************************************************************************)
EXTENDS Naturals, FiniteSets

CONSTANTS
    Users,      \* clients
    Handlers,   \* threads of the server
    Codes,      \* the programs, which stand for their keys too
    Valid,      \* those whose upload is accepted
    ToolsFail,  \* whether the commands of the recipes may fail
    MaxStarts   \* bound of the model: crashes and second instances

ASSUME CodeAssumption == Valid \subseteq Codes /\ "page" \notin Codes /\ "none" \notin Codes
ASSUME UserAssumption == "nobody" \notin Users
ASSUME ToolAssumption == ToolsFail \in BOOLEAN

VARIABLES
    user,       \* for each client: its place in the two requests, the key it got, and
                \* the answer that has come: its status and its body
    handler,    \* for each thread: its place, its client, the program and the type
    live,       \* programs that have a session with the directory of the target
    product,    \* for each program, what the tool wrote: "none", "half" or "whole",
    output,     \* and the files of its target directory; "old" is older than its source
    running,    \* the server runs
    starts,     \* how many times one was started again
    disturbed   \* history: programs two threads made at once, or whose copy failed

exportVars == <<user, handler, live, product, output, running, starts, disturbed>>
server == <<live, product, output, running, starts, disturbed>>

Types == {"binary.zip", "binary.apk", "src.cpp"}
NoAnswer == [status |-> 0, body |-> "none", sure |-> TRUE]
Refused == [status |-> 400, body |-> "page", sure |-> TRUE]
Waiting == [pc |-> "idle", key |-> "none", answer |-> NoAnswer]
Free == [pc |-> "free", user |-> "nobody", code |-> "none", type |-> "none"]
Absent == [t \in {"binary.zip", "binary.apk"} |-> "none"]

-----------------------------------------------------------------------------
(* The client.                                                             *)

\* The function returns.
Returned(u) == user' = [user EXCEPT ![u].pc = "idle", ![u].answer = NoAnswer]

\* A connection: a thread of the server, or an error when none accepts it in time.
Connect(u, pc, where, code, type) ==
    IF running /\ \E h \in Handlers : handler[h].pc = "free"
    THEN \E h \in Handlers :
           /\ handler[h].pc = "free"
           /\ handler' = [handler EXCEPT ![h] =
                  [pc |-> where, user |-> u, code |-> code, type |-> type]]
           /\ user' = [user EXCEPT ![u].pc = pc]
    ELSE Returned(u) /\ UNCHANGED handler

\* fw_get_shakey_from_string.
GetShakey(u) ==
    /\ user[u].pc = "idle"
    /\ \E code \in Codes : Connect(u, "posted", "validate", code, "none")
    /\ UNCHANGED server

\* The body of an answer 200 is the key, whatever it says.
GotShakey(u) ==
    /\ user[u].pc = "posted" /\ user[u].answer.status = 200
    /\ user' = [user EXCEPT ![u] =
           [pc |-> "key", key |-> user[u].answer.body, answer |-> NoAnswer]]
    /\ UNCHANGED <<handler, server>>

\* fw_get_file_from_shakey, right after the key or with the key of an earlier
\* call.
GetFile(u) ==
    /\ user[u].pc \in {"idle", "key"} /\ user[u].key \in Codes
    /\ \E type \in Types : Connect(u, "asked", "get", user[u].key, type)
    /\ UNCHANGED server

\* The file cannot be opened, or the key is a page, which is no part of a URL.
CannotGetFile(u) ==
    /\ user[u].pc = "key"
    /\ Returned(u)
    /\ UNCHANGED <<handler, server>>

\* The function returns true, and the body of the answer is in the file.
GotFile(u) ==
    /\ user[u].pc = "asked" /\ user[u].answer.status = 200
    /\ Returned(u)
    /\ UNCHANGED <<handler, server>>

\* It returns false, and an error page may be in the file.
Refusal(u) ==
    /\ user[u].pc \in {"posted", "asked"} /\ user[u].answer = Refused
    /\ Returned(u)
    /\ UNCHANGED <<handler, server>>

\* The thread goes on for nobody.
GivesUp(u) ==
    /\ user[u].answer = NoAnswer
    /\ Returned(u)
    /\ handler' = [h \in Handlers |->
           IF handler[h].user = u THEN [handler[h] EXCEPT !.user = "nobody"] ELSE handler[h]]
    /\ UNCHANGED server

\* Mutated: only the upload has a limit of time.
TimedOutPosting(u) == user[u].pc = "posted" /\ GivesUp(u)

TimedOut(u) == user[u].pc \in {"posted", "asked"} /\ GivesUp(u)

-----------------------------------------------------------------------------
(* The threads of the server.                                              *)

At(h, location) == running /\ handler[h].pc = location
Code(h) == handler[h].code
Type(h) == handler[h].type
Goto(h, location) == handler' = [handler EXCEPT ![h].pc = location]

Answer(h, answer) ==
    /\ handler' = [handler EXCEPT ![h] = Free]
    /\ user' = IF handler[h].user = "nobody" THEN user
               ELSE [user EXCEPT ![handler[h].user].answer = answer]
Ok(body, sure) == [status |-> 200, body |-> body, sure |-> sure]

Making == {"tool", "pack", "copy", "send"}
Others(h) == {g \in Handlers \ {h} : handler[g].code = Code(h)}
Meets(h) ==
    disturbed' = IF \E g \in Others(h) : handler[g].pc \in Making \ {"send"}
                 THEN disturbed \cup {Code(h)} ELSE disturbed

\* validate_faust, in one step.  A program that faust cannot compile is accepted,
\* and given its key.
Validate(h) ==
    /\ At(h, "validate")
    /\ IF Code(h) \in Valid
       THEN Answer(h, Ok(Code(h), TRUE)) /\ live' = live \cup {Code(h)}
       ELSE Answer(h, Ok("page", TRUE)) /\ UNCHANGED live
    /\ UNCHANGED <<product, output, running, starts, disturbed>>

\* Too many clients, or an exception.
CannotValidate(h) ==
    /\ At(h, "validate")
    /\ Answer(h, Refused)
    /\ UNCHANGED server

\* No route, or no makefile in the directory of a session that is not there.
NotThere(h) ==
    /\ At(h, "get")
    /\ Type(h) = "src.cpp" \/ Code(h) \notin live
    /\ Answer(h, Refused)
    /\ UNCHANGED server

Exists(code, type) == output[code][type] # "none"
UpToDate(code, type) ==
    /\ Exists(code, "binary.zip")
    /\ type = "binary.apk" => output[code][type] \in {"half", "whole"}

\* make: what exists is not made again.
Make(h) ==
    /\ At(h, "get") /\ Type(h) # "src.cpp" /\ Code(h) \in live
    /\ Meets(h)
    /\ CASE UpToDate(Code(h), Type(h)) -> Goto(h, "send") /\ UNCHANGED <<product, output>>
         [] Exists(Code(h), "binary.zip") /\ ~UpToDate(Code(h), Type(h)) ->
              /\ Goto(h, "copy")
              /\ output' = [output EXCEPT ![Code(h)]["binary.apk"] = "half"]
              /\ UNCHANGED product
         [] ~Exists(Code(h), "binary.zip") ->
              /\ Goto(h, "tool")
              /\ product' = [product EXCEPT ![Code(h)] = "half"]
              /\ UNCHANGED output
    /\ UNCHANGED <<user, live, running, starts>>

Ended(h, location) ==
    IF \E g \in Others(h) : handler[g].pc = location THEN "half" ELSE "whole"

ToolEnds(h) ==
    /\ At(h, "tool")
    /\ product' = [product EXCEPT ![Code(h)] = Ended(h, "tool")]
    /\ Goto(h, "pack")
    /\ UNCHANGED <<user, live, output, running, starts, disturbed>>

\* Mutated: the recipe goes on after an error.
ToolFailsIgnored(h) ==
    /\ ToolsFail /\ At(h, "tool")
    /\ Goto(h, "pack")
    /\ UNCHANGED <<user, server>>

ToolFails(h) ==
    /\ ToolsFail /\ At(h, "tool")
    /\ Answer(h, Refused)
    /\ UNCHANGED server

\* zip -r: the archive appears when it is complete.
Pack(h) ==
    /\ At(h, "pack")
    /\ output' = [output EXCEPT ![Code(h)] =
           [t \in DOMAIN Absent |->
               CASE t = "binary.zip" -> product[Code(h)]
                 [] t = "binary.apk" /\ Type(h) = "binary.apk" -> "half"
                 [] OTHER -> IF output[Code(h)][t] = "none" THEN "none" ELSE "old"]]
    /\ Goto(h, IF Type(h) = "binary.apk" THEN "copy" ELSE "send")
    /\ UNCHANGED <<user, live, product, running, starts, disturbed>>

\* cp: the copy exists, and is newer than the archive, while it is written.
CopyEnds(h) ==
    /\ At(h, "copy")
    /\ output' = [output EXCEPT ![Code(h)]["binary.apk"] =
           IF Ended(h, "copy") = "half" THEN "half" ELSE product[Code(h)]]
    /\ Goto(h, "send")
    /\ UNCHANGED <<user, live, product, running, starts, disturbed>>

\* What was copied stays.
CopyFails(h) ==
    /\ ToolsFail /\ At(h, "copy")
    /\ Answer(h, Refused)
    /\ disturbed' = disturbed \cup {Code(h)}
    /\ UNCHANGED <<live, product, output, running, starts>>

Send(h) ==
    /\ At(h, "send")
    /\ Answer(h, Ok(output[Code(h)][Type(h)], Code(h) \notin disturbed))
    /\ UNCHANGED server

\* The directory was removed under make.
Lost(h) ==
    /\ At(h, "lost")
    /\ Answer(h, Refused)
    /\ UNCHANGED server

-----------------------------------------------------------------------------
(* Sessions removed, and servers started.                                  *)

Remove(codes) ==
    /\ live' = live \ codes
    /\ product' = [c \in Codes |-> IF c \in codes THEN "none" ELSE product[c]]
    /\ output' = [c \in Codes |-> IF c \in codes THEN Absent ELSE output[c]]
    /\ disturbed' = disturbed \ codes

LoseTargets(codes) ==
    handler' = [h \in Handlers |->
        IF handler[h].code \in codes /\ handler[h].pc \in Making
        THEN [handler[h] EXCEPT !.pc = "lost"] ELSE handler[h]]

\* A request of someone else takes its place in the cache.
Evict(code) ==
    /\ running /\ code \in live
    /\ Remove({code}) /\ LoseTargets({code})
    /\ UNCHANGED <<user, running, starts>>

\* A second server clears the sessions directory of the first, then finds that
\* the port is in use and exits.
SecondInstance ==
    /\ running /\ starts < MaxStarts
    /\ starts' = starts + 1
    /\ Remove(Codes) /\ LoseTargets(Codes)
    /\ UNCHANGED <<user, running>>

Crash ==
    /\ running /\ starts < MaxStarts
    /\ running' = FALSE
    /\ handler' = [h \in Handlers |-> Free]
    /\ user' = [u \in Users |->
           IF \E h \in Handlers : handler[h].user = u
           THEN [user[u] EXCEPT !.answer = Refused] ELSE user[u]]
    /\ UNCHANGED <<live, product, output, starts, disturbed>>

\* By execv from the handler of the signal, or by the supervisor.
Started ==
    /\ ~running
    /\ running' = TRUE /\ starts' = starts + 1
    /\ Remove(Codes)
    /\ UNCHANGED <<user, handler>>

-----------------------------------------------------------------------------
ExportInit ==
    /\ user = [u \in Users |-> Waiting]
    /\ handler = [h \in Handlers |-> Free]
    /\ live = {} /\ disturbed = {}
    /\ product = [c \in Codes |-> "none"]
    /\ output = [c \in Codes |-> Absent]
    /\ running = TRUE /\ starts = 0

\* What a client does once it has called a function.
Returns(u) ==
    GotShakey(u) \/ CannotGetFile(u) \/ GotFile(u) \/ Refusal(u) \/ TimedOut(u)
User(u) == GetShakey(u) \/ GetFile(u) \/ Returns(u)

Handle(h) ==
    \/ Validate(h) \/ CannotValidate(h) \/ NotThere(h) \/ Make(h)
    \/ ToolEnds(h) \/ ToolFails(h) \/ Pack(h) \/ CopyEnds(h) \/ CopyFails(h)
    \/ Send(h) \/ Lost(h)

ExportNext ==
    \/ \E u \in Users : User(u)
    \/ \E h \in Handlers : Handle(h)
    \/ \E c \in Codes : Evict(c)
    \/ SecondInstance \/ Crash \/ Started

ExportSpec == ExportInit /\ [][ExportNext]_exportVars

\* libcurl has its limits of time (CURLOPT_TIMEOUT).  No fairness of the server: a
\* tool may never end.
ExportFairness == \A u \in Users : WF_exportVars(Returns(u))
FairExportSpec == ExportSpec /\ ExportFairness

-----------------------------------------------------------------------------
(* FaustWebClient.h, "@return true if no error was encountered": when the   *)
(* call returns true, the file it wrote is the whole binary, though the     *)
(* tools fail, clients give up and try again, sessions are evicted and      *)
(* servers die or start in between; unless two threads made the target at   *)
(* once, or a copy failed half way, since the session was made.             *)
ExportIsWhole ==
    [][\A u \in Users : GotFile(u) /\ user[u].answer.sure => user[u].answer.body = "whole"]_exportVars

(* FaustWebClient.h, "Multiple requests can be sent with the same SHA-Key". *)
ManyRequests == [][\A u \in Users : GotFile(u) => user[u].answer.body = "whole"]_exportVars

(* Every function returns, whatever the server does: a make without end, a  *)
(* crash, an answer to nobody.                                              *)
ExportEnds == \A u \in Users : user[u].pc # "idle" ~> user[u].pc = "idle"

=============================================================================
