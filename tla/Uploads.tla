------------------------------- MODULE Uploads -------------------------------
(***************************************************************************)
(* The life of POST requests in src/server.cpp: dispatchPOSTConnections    *)
(* (called once when the headers arrive, once per block of the body, once  *)
(* at its end), iterate_post (called by the post processor for each piece  *)
(* of a field) and request_completed, each in the thread of its            *)
(* connection.  The threads share, without a lock, the counter of          *)
(* uploading clients and the system's temporary directory.                 *)
(*                                                                         *)
(* What validate_faust() does with the uploaded file is in Sessions.       *)
(***************************************************************************)
EXTENDS Naturals, FiniteSets

CONSTANTS
    Conns,          \* connections; one serves any number of requests in turn
    MaxClients,     \* option -m: clients allowed to upload concurrently
    CounterMod,     \* 2 to the width of the counter (2^32 in the program)
    TmpNames,       \* the names tmp_xxxxx_xxxxx that may be drawn
    NoName,         \* tmppath of a request that has drawn no name yet
    MaxUploadSize,  \* kMaxUploadSize, in pieces of a field
    MayFail         \* whether the calls of the file system may fail

ASSUME CounterAssumption ==
    /\ CounterMod \in Nat
    /\ MaxClients \in 1 .. CounterMod - 1
    /\ IsFiniteSet(Conns) /\ Cardinality(Conns) < CounterMod
ASSUME NameAssumption == NoName \notin TmpNames
ASSUME SizeAssumption == MaxUploadSize \in Nat
ASSUME FailAssumption == MayFail \in BOOLEAN

VARIABLES
    nr_of_uploading_clients,
    pc,         \* where the thread of the connection is
    reg,        \* the value of the counter the thread has loaded (0: none)
    tmppath,    \* con_info->tmppath
    fp,         \* con_info->fp: "closed", "open", or "unlinked": open on a
                \* file that has been removed
    uploadsize, \* con_info->uploadsize
    answercode, \* con_info->answercode
    answer,     \* the status the client got (0: none yet)
    buffer,     \* pieces in the buffer of con_info->fp, not yet in the file
    dirs,       \* names that have a directory
    content,    \* for each name with an upload file, how many pieces of each
                \* connection the file holds
    lost,       \* history: pieces that fclose() could not write
    alone,      \* history: no other request in progress drew the same name
    leftover,   \* history: directories that could not be removed
    overlapped  \* history: two threads met between reading and writing
                \* the counter

data == <<tmppath, fp, uploadsize, answercode, buffer, dirs, content, lost,
          alone, leftover>>
counter == <<nr_of_uploading_clients, reg>>
vars == <<counter, pc, data, answer, overlapped>>

-----------------------------------------------------------------------------
(* A thread that has read the counter and has not yet updated it.          *)
Window == {"admitted", "incrementing", "decrementing"}

(* A request that has a place among the uploading clients.                 *)
Uploading == {"receiving", "opening", "creating", "writing", "validating",
              "answered", "closing", "decrementing"}

Goto(c, from, to) ==
    /\ pc[c] = from
    /\ pc' = [pc EXCEPT ![c] = to]
    /\ overlapped' =
         (overlapped \/ Cardinality({d \in Conns : pc'[d] \in Window}) > 1)
SetCode(c, code) == answercode' = [answercode EXCEPT ![c] = code]
HasFile(n) == n \in DOMAIN content

\* The first k pieces of the buffer go to the file.
Flushed(c, k) ==
    IF fp[c] = "open" THEN [content EXCEPT ![tmppath[c]][c] = @ + k] ELSE content

-----------------------------------------------------------------------------
(* The first call: the headers have arrived.                               *)

Refused(c) ==
    /\ Goto(c, "idle", "idle")
    /\ nr_of_uploading_clients >= MaxClients
    /\ answer' = [answer EXCEPT ![c] = 503]
    /\ UNCHANGED <<counter, data>>

Admitted(c) ==
    /\ Goto(c, "idle", "admitted")
    /\ nr_of_uploading_clients < MaxClients
    /\ answer' = [answer EXCEPT ![c] = 0]
    /\ UNCHANGED <<counter, data>>

\* Mutated: the increment comes before the creation of the post processor.
NoPostProcessorCounted(c) ==
    /\ Goto(c, "admitted", "idle")
    /\ nr_of_uploading_clients' = (nr_of_uploading_clients + 1) % CounterMod
    /\ UNCHANGED <<reg, data, answer>>

\* The body is not one the post processor can read.
NoPostProcessor(c) ==
    /\ Goto(c, "admitted", "idle")
    /\ UNCHANGED <<counter, data, answer>>

\* nr_of_uploading_clients++ is a load and a store: the counter is no atomic.
LoadToIncrement(c) ==
    /\ Goto(c, "admitted", "incrementing")
    /\ reg' = [reg EXCEPT ![c] = nr_of_uploading_clients]
    /\ UNCHANGED <<nr_of_uploading_clients, data, answer>>

StoreIncrement(c) ==
    /\ Goto(c, "incrementing", "receiving")
    /\ nr_of_uploading_clients' = (reg[c] + 1) % CounterMod
    /\ SetCode(c, 200)
    /\ uploadsize' = [uploadsize EXCEPT ![c] = 0]
    /\ reg' = [reg EXCEPT ![c] = 0]
    /\ UNCHANGED <<tmppath, fp, buffer, dirs, content, lost, alone, leftover,
                   answer>>

-----------------------------------------------------------------------------
(* A piece of a field.  MHD_NO (here, going to "closing") makes the HTTP   *)
(* library close the connection without an answer.                         *)

\* A field, a file name or a type is missing, or the name is refused.
InvalidField(c) ==
    /\ Goto(c, "receiving", "closing")
    /\ \E code \in {answercode[c], 400} : SetCode(c, code)
    /\ UNCHANGED <<counter, tmppath, fp, uploadsize, buffer, dirs, content,
                   lost, alone, leftover, answer>>

\* The name is drawn and kept in con_info.
Draw(c, n) ==
    /\ tmppath[c] = NoName
    /\ tmppath' = [tmppath EXCEPT ![c] = n]
    /\ LET sharing == {d \in Conns : tmppath[d] = n} IN
         alone' = [d \in Conns |-> IF d = c THEN sharing = {}
                                  ELSE alone[d] /\ d \notin sharing]

\* The first valid piece draws the name of a directory; an existing directory
\* of that name is no error for create_directory.
FirstPiece(c, n) ==
    /\ Goto(c, "receiving", "opening")
    /\ Draw(c, n)
    /\ dirs' = dirs \cup {n}
    /\ SetCode(c, 500)
    /\ UNCHANGED <<counter, fp, uploadsize, buffer, content, lost, leftover,
                   answer>>

\* create_directory throws.  Where the frames of the HTTP library can be
\* unwound, staticAnswerToConnection catches the exception; the library takes
\* no answer in the middle of a body and closes the connection.  Where they
\* cannot, the process dies: this is Restart.
NoDirectory(c, n) ==
    /\ MayFail /\ n \notin dirs
    /\ Goto(c, "receiving", "closing")
    /\ Draw(c, n)
    /\ UNCHANGED <<counter, fp, uploadsize, answercode, buffer, dirs, content,
                   lost, leftover, answer>>

NextPiece(c) ==
    /\ Goto(c, "receiving", "opening")
    /\ tmppath[c] # NoName
    /\ SetCode(c, 500)
    /\ UNCHANGED <<counter, tmppath, fp, uploadsize, buffer, dirs, content,
                   lost, alone, leftover, answer>>

\* Mutated: another field is skipped.
NotAFileSkipped(c) ==
    /\ Goto(c, "opening", "receiving")
    /\ UNCHANGED <<counter, data, answer>>

\* The field is not named "file".
NotAFile(c) ==
    /\ Goto(c, "opening", "closing")
    /\ UNCHANGED <<counter, data, answer>>

FileExists(c) ==
    /\ Goto(c, "opening", "closing")
    /\ fp[c] = "closed" /\ HasFile(tmppath[c])
    /\ SetCode(c, 403)
    /\ UNCHANGED <<counter, tmppath, fp, uploadsize, buffer, dirs, content,
                   lost, alone, leftover, answer>>

NoFileYet(c) ==
    /\ Goto(c, "opening", "creating")
    /\ fp[c] = "closed" /\ ~HasFile(tmppath[c])
    /\ UNCHANGED <<counter, data, answer>>

AlreadyOpen(c) ==
    /\ Goto(c, "opening", "writing")
    /\ fp[c] # "closed"
    /\ UNCHANGED <<counter, data, answer>>

\* fopen(.., "ab"): the file may have been created since it was looked for.
CreateFile(c) ==
    /\ tmppath[c] \in dirs
    /\ Goto(c, "creating", "writing")
    /\ fp' = [fp EXCEPT ![c] = "open"]
    /\ content' = IF HasFile(tmppath[c]) THEN content
                  ELSE [n \in DOMAIN content \cup {tmppath[c]} |->
                           IF n = tmppath[c] THEN [d \in Conns |-> 0]
                           ELSE content[n]]
    /\ UNCHANGED <<counter, tmppath, uploadsize, answercode, buffer, dirs,
                   lost, alone, leftover, answer>>

\* Mutated: fopen is tried again until it succeeds.
CannotCreateRetries(c) ==
    /\ tmppath[c] \notin dirs \/ MayFail
    /\ Goto(c, "creating", "creating")
    /\ UNCHANGED <<counter, data, answer>>

\* The directory has been removed, or there is no descriptor left.
CannotCreate(c) ==
    /\ tmppath[c] \notin dirs \/ MayFail
    /\ Goto(c, "creating", "closing")
    /\ UNCHANGED <<counter, data, answer>>

\* fwrite() of a piece, which may be empty: what is in the buffer stays there
\* or goes, in part or whole, to the file.
Written(c, size) ==
    /\ uploadsize' = [uploadsize EXCEPT ![c] = @ + size]
    /\ \E k \in 0 .. buffer[c] + size :
         /\ content' = Flushed(c, k)
         /\ buffer' = [buffer EXCEPT ![c] = @ + size - k]

\* Mutated: the size of the upload has no limit.
WriteUnlimited(c) ==
    /\ Goto(c, "writing", "receiving")
    /\ \E size \in {0, 1} : Written(c, size)
    /\ SetCode(c, 200)
    /\ UNCHANGED <<counter, tmppath, fp, dirs, lost, alone, leftover, answer>>

Write(c) ==
    /\ Goto(c, "writing", "receiving")
    /\ \E size \in {0, 1} :
         /\ uploadsize[c] + size <= MaxUploadSize
         /\ Written(c, size)
    /\ SetCode(c, 200)
    /\ UNCHANGED <<counter, tmppath, fp, dirs, lost, alone, leftover, answer>>

\* More than kMaxUploadSize, or the disk is full.
CannotWrite(c) ==
    /\ uploadsize[c] >= MaxUploadSize \/ MayFail
    /\ Goto(c, "writing", "closing")
    /\ UNCHANGED <<counter, data, answer>>

-----------------------------------------------------------------------------
(* The end of the body: the file is closed, validated, the client answered.*)

\* Mutated: the file is left to be closed by request_completed.
EndOfDataOpen(c) ==
    /\ Goto(c, "receiving", "validating")
    /\ UNCHANGED <<counter, data, answer>>

\* fclose() writes what is left in the buffer.  Nobody looks at its result:
\* when the disk is full the file is validated without its last pieces.
EndOfData(c) ==
    /\ Goto(c, "receiving", "validating")
    /\ fp' = [fp EXCEPT ![c] = "closed"]
    /\ \E k \in 0 .. buffer[c] :
         /\ MayFail \/ k = buffer[c]
         /\ content' = Flushed(c, k)
         /\ lost' = [lost EXCEPT ![c] = buffer[c] - k]
    /\ buffer' = [buffer EXCEPT ![c] = 0]
    /\ UNCHANGED <<counter, tmppath, uploadsize, answercode, dirs, alone,
                   leftover, answer>>

\* The key of the session or "Invalid Faust Code", with con_info->answercode;
\* 400 when an exception reaches staticAnswerToConnection.
Answer(c) ==
    /\ Goto(c, "validating", "answered")
    /\ \E code \in {answercode[c], 400} :
           answer' = [answer EXCEPT ![c] = code]
    /\ UNCHANGED <<counter, data>>

-----------------------------------------------------------------------------
(* The end of the request, whatever the reason.                            *)

Disconnect(c) ==
    /\ Goto(c, "receiving", "closing")
    /\ UNCHANGED <<counter, data, answer>>

AnswerSent(c) ==
    /\ Goto(c, "answered", "closing")
    /\ UNCHANGED <<counter, data, answer>>

LoadToDecrement(c) ==
    /\ Goto(c, "closing", "decrementing")
    /\ reg' = [reg EXCEPT ![c] = nr_of_uploading_clients]
    /\ UNCHANGED <<nr_of_uploading_clients, data, answer>>

\* Mutated: a request that sent no file does not give its place back.
StoreDecrementOfFiles(c) ==
    /\ Goto(c, "decrementing", "removing")
    /\ nr_of_uploading_clients' =
         IF tmppath[c] = NoName THEN reg[c]
         ELSE (reg[c] + CounterMod - 1) % CounterMod
    /\ reg' = [reg EXCEPT ![c] = 0]
    /\ UNCHANGED <<data, answer>>

StoreDecrement(c) ==
    /\ Goto(c, "decrementing", "removing")
    /\ nr_of_uploading_clients' = (reg[c] + CounterMod - 1) % CounterMod
    /\ reg' = [reg EXCEPT ![c] = 0]
    /\ UNCHANGED <<data, answer>>

\* Mutated: the file is removed, its directory stays.
RemoveUploadFile(c) ==
    /\ Goto(c, "removing", "idle")
    /\ tmppath' = [tmppath EXCEPT ![c] = NoName]
    /\ uploadsize' = [uploadsize EXCEPT ![c] = 0]
    /\ buffer' = [buffer EXCEPT ![c] = 0]
    /\ fp' = [fp EXCEPT ![c] = "closed"]
    /\ content' = [m \in DOMAIN content \ {tmppath[c]} |-> content[m]]
    /\ UNCHANGED <<counter, answercode, dirs, lost, alone, leftover, answer>>

\* fclose, remove_all(tmppath) and delete con_info
RemoveUpload(c) ==
    LET n == tmppath[c] IN
    /\ Goto(c, "removing", "idle")
    /\ tmppath' = [tmppath EXCEPT ![c] = NoName]
    /\ alone' = [alone EXCEPT ![c] = TRUE]
    /\ uploadsize' = [uploadsize EXCEPT ![c] = 0]
    /\ buffer' = [buffer EXCEPT ![c] = 0]
    /\ lost' = [lost EXCEPT ![c] = 0]
    /\ SetCode(c, 200)
    /\ \/ /\ dirs' = dirs \ {n}
          /\ content' = [m \in DOMAIN content \ {n} |-> content[m]]
          /\ fp' = [d \in Conns |->
                      IF d = c THEN "closed"
                      ELSE IF tmppath[d] = n /\ fp[d] = "open" THEN "unlinked"
                      ELSE fp[d]]
          /\ leftover' = leftover \ {n}
       \/ /\ MayFail /\ n \in dirs
          /\ fp' = [fp EXCEPT ![c] = "closed"]
          /\ content' = Flushed(c, buffer[c])
          /\ leftover' = leftover \cup {n}
          /\ dirs' = dirs
    /\ UNCHANGED <<counter, answer>>

-----------------------------------------------------------------------------
\* The process dies and is started again: removeStaleUploads() runs before
\* the first connection.
Restart ==
    /\ nr_of_uploading_clients' = 0
    /\ pc' = [c \in Conns |-> "idle"]
    /\ reg' = [c \in Conns |-> 0]
    /\ tmppath' = [c \in Conns |-> NoName]
    /\ fp' = [c \in Conns |-> "closed"]
    /\ uploadsize' = [c \in Conns |-> 0]
    /\ answercode' = [c \in Conns |-> 200]
    /\ answer' = [c \in Conns |-> 0]
    /\ buffer' = [c \in Conns |-> 0]
    /\ lost' = [c \in Conns |-> 0]
    /\ alone' = [c \in Conns |-> TRUE]
    /\ dirs' \in {{}} \cup (IF MayFail THEN SUBSET dirs ELSE {})
    /\ content' = [n \in DOMAIN content \cap dirs' |-> content[n]]
    /\ leftover' = dirs'
    /\ overlapped' = FALSE

Init ==
    /\ nr_of_uploading_clients = 0
    /\ pc = [c \in Conns |-> "idle"]
    /\ reg = [c \in Conns |-> 0]
    /\ tmppath = [c \in Conns |-> NoName]
    /\ fp = [c \in Conns |-> "closed"]
    /\ uploadsize = [c \in Conns |-> 0]
    /\ answercode = [c \in Conns |-> 200]
    /\ answer = [c \in Conns |-> 0]
    /\ buffer = [c \in Conns |-> 0]
    /\ lost = [c \in Conns |-> 0]
    /\ alone = [c \in Conns |-> TRUE]
    /\ dirs = {}
    /\ content = [n \in {} |-> {}]
    /\ leftover = {}
    /\ overlapped = FALSE

\* The headers of a request.
Headers(c) == Refused(c) \/ Admitted(c)

\* What the code does by itself, once it has been called.
Server(c) ==
    \/ NoPostProcessor(c) \/ LoadToIncrement(c) \/ StoreIncrement(c)
    \/ NotAFile(c) \/ FileExists(c) \/ NoFileYet(c) \/ AlreadyOpen(c)
    \/ CreateFile(c) \/ CannotCreate(c) \/ Write(c) \/ CannotWrite(c)
    \/ Answer(c)
    \/ LoadToDecrement(c) \/ StoreDecrement(c) \/ RemoveUpload(c)

\* A piece of the body.
Piece(c) ==
    \/ InvalidField(c) \/ NextPiece(c)
    \/ \E n \in TmpNames : FirstPiece(c, n) \/ NoDirectory(c, n)

\* The end of the body, of the connection, or of the transfer of the answer.
Finish(c) == EndOfData(c) \/ Disconnect(c) \/ AnswerSent(c)

Next ==
    \/ \E c \in Conns : Headers(c) \/ Server(c) \/ Piece(c) \/ Finish(c)
    \/ Restart

Spec == Init /\ [][Next]_vars

\* The threads run.  That no client sends pieces for ever, or stays silent in
\* the middle of its body, is an assumption on the clients: the server is started
\* with no connection timeout, and empty pieces do not count in kMaxUploadSize.
FairSpec ==
    /\ Spec
    /\ \A c \in Conns :
         /\ WF_vars(Server(c))
         /\ SF_vars(Finish(c))

-----------------------------------------------------------------------------
Locations == {"idle", "admitted", "incrementing", "removing"} \cup Uploading

(* Every variable has its type; only open files are written to, and only   *)
(* in directories that exist.                                              *)
TypeOK ==
    /\ nr_of_uploading_clients \in 0 .. CounterMod - 1
    /\ pc \in [Conns -> Locations]
    /\ reg \in [Conns -> 0 .. CounterMod - 1]
    /\ tmppath \in [Conns -> TmpNames \cup {NoName}]
    /\ fp \in [Conns -> {"closed", "open", "unlinked"}]
    /\ uploadsize \in [Conns -> 0 .. MaxUploadSize]
    /\ answercode \in [Conns -> {200, 400, 403, 500}]
    /\ answer \in [Conns -> {0, 200, 400, 403, 500, 503}]
    /\ dirs \subseteq TmpNames
    /\ DOMAIN content \subseteq dirs
    /\ \A n \in DOMAIN content : content[n] \in [Conns -> Nat]
    /\ buffer \in [Conns -> Nat] /\ lost \in [Conns -> Nat]
    /\ alone \in [Conns -> BOOLEAN]
    /\ leftover \subseteq dirs
    /\ overlapped \in BOOLEAN

(* server.cpp:765 "Number of clients currently uploading", main.cpp:71     *)
(* "maximum number of clients allowed to concurrently upload": both hold   *)
(* as long as no two threads meet between the test or the load of the      *)
(* counter and its store.  No path of a request forgets its decrement, or  *)
(* decrements without having incremented.                                  *)
CounterExact ==
    LET uploading == Cardinality({c \in Conns : pc[c] \in Uploading}) IN
    ~overlapped => /\ nr_of_uploading_clients = uploading
                   /\ uploading <= MaxClients

(* request_completed: "so that nothing sent to the service stays in the    *)
(* temporary directory" - a directory belongs to a request in progress,    *)
(* even when two requests draw the same name, or could not be removed.     *)
TmpOwned == dirs \subseteq {tmppath[c] : c \in Conns} \cup leftover

(* server.cpp:1260 "need to close the file before request_completed so     *)
(* that it can be opened by the methods below": validate_faust() reads all *)
(* the pieces its client sent, none of them left in a buffer, and nothing  *)
(* of another client or of an earlier upload - but for the last pieces, if *)
(* fclose() could not write them, and unless two requests in progress drew *)
(* the same name.                                                          *)
OwnFile ==
    \A c \in Conns :
        pc[c] = "validating" /\ alone[c] /\ uploadsize[c] > 0 =>
            /\ HasFile(tmppath[c])
            /\ content[tmppath[c]] =
                   [d \in Conns |-> IF d = c THEN uploadsize[c] - lost[c] ELSE 0]

(* The codes 403 and 500 that iterate_post prepares reach no client: a     *)
(* piece that sets one and does not reset it closes the connection, and an *)
(* upload that is answered is answered 200, its file valid or not, unless  *)
(* validate_faust() threw.                                                 *)
RefusalsAreSilent ==
    \A c \in Conns :
        /\ answer[c] \notin {403, 500}
        /\ pc[c] = "validating" => answercode[c] = 200

(* A request that takes a place among the uploading clients gives it back. *)
EveryUploadEnds == \A c \in Conns : pc[c] \in Uploading ~> pc[c] = "idle"

(* A server that refuses uploads accepts them again, unless threads met on *)
(* the counter.                                                            *)
BusyServerRecovers ==
    nr_of_uploading_clients >= MaxClients
        ~> (nr_of_uploading_clients < MaxClients \/ overlapped)

=============================================================================
