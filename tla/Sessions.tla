------------------------------ MODULE Sessions ------------------------------
(***************************************************************************)
(* The sessions on the disk and the requests that create, use and remove   *)
(* them: validate_faust and makeAndSendResourceFile of src/server.cpp,     *)
(* create_basic_session and create_target_directory of src/content.cpp,    *)
(* with the cache of src/LRUSessionsCache.cpp.  Each request runs in its   *)
(* own thread, with no lock: one action is one call of std::filesystem, or *)
(* a few that no other thread can tell apart.                              *)
(*                                                                         *)
(* A key stands for a content, of which it is the SHA-1.                   *)
(***************************************************************************)
EXTENDS KeyList, SessionFiles

CONSTANTS
    Threads,    \* the threads of the connections
    Keys,       \* contents that may be uploaded or asked for
    KeysOf,     \* the keys the requests of each thread name
    Class,      \* what each content is, see Classes
    DspNames,   \* .dsp file names clients give to what they upload
    ZipNames,   \* other file names they give
    Targets,    \* platform/architecture pairs that have a makefile
    Others,     \* pairs clients ask for that have none
    MaxSize,    \* capacity of the cache
    MayFail     \* whether fork() may fail

(* "faust"   a Faust program                                               *)
(* "foreign" one whose C++ code includes a header of its own               *)
(* "empty"   nothing: the request carried no file                          *)
(* "archive" an archive with a .dsp file at its top                        *)
(* "nested"  an archive with a .dsp file in a sub-directory only           *)
Classes == {"faust", "foreign", "empty", "archive", "nested"}

ASSUME ThreadAssumption == KeysOf \in [Threads -> SUBSET Keys]
ASSUME ClassAssumption == Class \in [Keys -> Classes]
ASSUME SizeAssumption == MaxSize \in Nat \ {0}
ASSUME FailAssumption == MayFail \in BOOLEAN
\* What is uploaded is a program by its extension: these names have none, or others.
ASSUME NameAssumption ==
    DspNames \cap {"sourcecode", "targets", "svg", "sub", "Makefile", "binary",
                  "generated.cpp"} = {}

VARIABLES
    disk,       \* the paths that exist in the sessions directory
    cache,      \* fSessionsList (fSessionPos always has the same keys)
    thread,     \* for each thread: pc, what it does next; key, name and target
                \* ("none" for a mere upload), its request; main, the variable
                \* main_dsp_filename; answer, how its last request ended
    aborted     \* an assert() of content.cpp has failed

vars == <<disk, cache, thread, aborted>>

-----------------------------------------------------------------------------
Key(t) == thread[t].key
Session(t) == <<Key(t)>>
Sourcecode(t) == <<Key(t), "sourcecode">>
TargetDir(t) == <<Key(t), "targets", thread[t].target>>
Makefile(dir) == Append(dir, "Makefile")
File(dir, name) == Append(dir, name)

\* The Faust files among the names of a directory.
AllDsp == DspNames \cup {"user_code.dsp", "main.dsp", "toolong.dsp"}
FaustFiles(dir) == Names(disk, dir) \cap AllDsp

Idle == [pc |-> "idle", key |-> "", name |-> "", target |-> "none",
         main |-> "", answer |-> "none"]

At(t, location) == thread[t].pc = location /\ ~aborted
Goto(t, location) == thread' = [thread EXCEPT ![t].pc = location]
Start(t, location, k, n, g) ==
    thread' = [thread EXCEPT ![t] =
        [Idle EXCEPT !.pc = location, !.key = k, !.name = n, !.target = g]]
Sources(t, name) ==
    thread' = [thread EXCEPT ![t].pc = "user_code", ![t].main = name]
Done(t, how) == thread' = [thread EXCEPT ![t] = [Idle EXCEPT !.answer = how]]

\* assert(): the process is killed, with all its threads.
Abort == aborted' = TRUE /\ UNCHANGED <<disk, thread>>

\* validate_faust returns 1; it returns 0 and the answer is the key, or the
\* request goes on as a request for a target (/compile/*/*/*).
Invalid(t) == Done(t, "invalid")
Valid(t) == IF thread[t].target = "none" THEN Done(t, "key") ELSE Goto(t, "refer")

-----------------------------------------------------------------------------
(* Requests.                                                               *)

Post(t) ==
    /\ At(t, "idle")
    /\ \E k \in KeysOf[t], n \in DspNames \cup ZipNames,
          g \in Targets \cup Others \cup {"none"} : Start(t, "session", k, n, g)
    /\ UNCHANGED <<disk, cache, aborted>>

\* A request names a session by a key: of a content that was uploaded, or of one
\* that was not.  What a URL may have in place of a key is not modelled.
Get(t) ==
    /\ At(t, "idle")
    /\ \E k \in KeysOf[t], g \in Targets \cup Others : Start(t, "refer", k, "", g)
    /\ UNCHANGED <<disk, cache, aborted>>

-----------------------------------------------------------------------------
(* validate_faust.                                                         *)

\* A session that has a directory is taken to be complete.
SessionExists(t) ==
    /\ At(t, "session")
    /\ Session(t) \in disk
    /\ Valid(t)
    /\ UNCHANGED <<disk, cache, aborted>>

\* Mutated: a session is looked up by the name of the upload.
NewSessionByName(t) ==
    /\ At(t, "session")
    /\ File(Sourcecode(t), thread[t].name) \notin disk
    /\ Goto(t, "create")
    /\ UNCHANGED <<disk, cache, aborted>>

NewSession(t) ==
    /\ At(t, "session")
    /\ Session(t) \notin disk
    /\ Goto(t, "create")
    /\ UNCHANGED <<disk, cache, aborted>>

CreateSession(t) ==
    /\ At(t, "create")
    /\ disk' = CreateDirectories(disk, Sourcecode(t))
    /\ Goto(t, "sources")
    /\ UNCHANGED <<cache, aborted>>

\* Nothing was uploaded, or what was is neither a .dsp file nor an archive.
NoSources(t) ==
    /\ At(t, "sources")
    /\ \/ Class[Key(t)] = "empty"
       \/ thread[t].name \in ZipNames /\ Class[Key(t)] \in {"faust", "foreign"}
    /\ Invalid(t)
    /\ UNCHANGED <<disk, cache, aborted>>

\* copy_file throws if the file is there, or its directory is not.
CopySource(t) ==
    /\ At(t, "sources")
    /\ Class[Key(t)] # "empty" /\ thread[t].name \in DspNames
    /\ LET file == File(Sourcecode(t), thread[t].name) IN
         \/ /\ file \notin disk /\ CanCreate(disk, file)
            /\ disk' = disk \cup {file}
            /\ Sources(t, thread[t].name)
         \/ /\ file \in disk \/ ~CanCreate(disk, file)
            /\ Done(t, "error")
            /\ UNCHANGED disk
    /\ UNCHANGED <<cache, aborted>>

\* The directories of the entries are created as needed.  An extraction that
\* takes more than 5 seconds is replaced by a program that says so.  The main
\* file of a nested archive is looked for at its top.
Extract(t) ==
    /\ At(t, "sources")
    /\ Class[Key(t)] \in {"archive", "nested"} /\ thread[t].name \in ZipNames
    /\ LET src == Sourcecode(t)
           made == CreateDirectories(disk, src)
       IN  \/ /\ disk' = IF Class[Key(t)] = "archive"
                         THEN Add(made, src, {"main.dsp"})
                         ELSE CreateDirectories(disk, Append(src, "sub"))
              /\ Sources(t, "main.dsp")
           \/ /\ disk' = Add(CreateDirectories(RemoveAll(disk, src), src),
                             src, {"toolong.dsp"})
              /\ Sources(t, "toolong.dsp")
    /\ UNCHANGED <<cache, aborted>>

CopyUserCode(t) ==
    /\ At(t, "user_code")
    /\ LET copy == File(Session(t), "user_code.dsp") IN
         IF File(Sourcecode(t), thread[t].main) \in disk /\ CanCreate(disk, copy)
         THEN /\ disk' = disk \cup {copy}
              /\ Goto(t, "compile")
         ELSE /\ Invalid(t)
              /\ UNCHANGED disk
    /\ UNCHANGED <<cache, aborted>>

\* faust runs, whatever its exit code.  It fails on the program, or is killed by
\* kFaustLimits, before it has written the includes of generated.cpp; or it writes
\* them, and generated.cpp is in disk.
Compile(t) ==
    /\ At(t, "compile")
    /\ \/ /\ File(Sourcecode(t), thread[t].main) \in disk
          /\ disk' = disk \cup {File(Session(t), "generated.cpp")}
       \/ UNCHANGED disk
    /\ Goto(t, "check")
    /\ UNCHANGED <<cache, aborted>>

CannotFork(t) ==
    /\ MayFail
    /\ At(t, "compile")
    /\ Invalid(t)
    /\ UNCHANGED <<disk, cache, aborted>>

\* Mutated: a refused session is kept.
CheckIncludesKeeps(t) ==
    /\ At(t, "check")
    /\ IF Class[Key(t)] = "foreign" /\ File(Session(t), "generated.cpp") \in disk
       THEN Invalid(t)
       ELSE Goto(t, "svg")
    /\ UNCHANGED <<disk, cache, aborted>>

\* Mutated: only the sources of a refused session are removed.
CheckIncludesSources(t) ==
    /\ At(t, "check")
    /\ IF Class[Key(t)] = "foreign" /\ File(Session(t), "generated.cpp") \in disk
       THEN disk' = RemoveAll(disk, Sourcecode(t)) /\ Invalid(t)
       ELSE Goto(t, "svg") /\ UNCHANGED disk
    /\ UNCHANGED <<cache, aborted>>

\* A program without generated.cpp passes.
CheckIncludes(t) ==
    /\ At(t, "check")
    /\ IF Class[Key(t)] = "foreign" /\ File(Session(t), "generated.cpp") \in disk
       THEN /\ disk' = RemoveAll(disk, Session(t))
            /\ Invalid(t)
       ELSE /\ Goto(t, "svg")
            /\ UNCHANGED disk
    /\ UNCHANGED <<cache, aborted>>

\* Mutated: the answer comes before the basic session.
CreateSvgAnswers(t) ==
    /\ At(t, "svg")
    /\ disk' = CreateDirectories(disk, Append(Session(t), "svg"))
    /\ Valid(t)
    /\ UNCHANGED <<cache, aborted>>

\* svg/, metadata.json, filename.txt: only the directory is modelled.
CreateSvg(t) ==
    /\ At(t, "svg")
    /\ disk' = CreateDirectories(disk, Append(Session(t), "svg"))
    /\ Goto(t, "makefile")
    /\ UNCHANGED <<cache, aborted>>

\* Mutated: the makefile is written to a session that may be gone.
BasicMakefileAnyway(t) ==
    /\ At(t, "makefile")
    /\ disk' = disk \cup {Makefile(Session(t))}
    /\ Goto(t, "basic")
    /\ UNCHANGED <<cache, aborted>>

\* create_basic_session: the makefile is copied, then the Faust files.
BasicMakefile(t) ==
    /\ At(t, "makefile")
    /\ IF Session(t) \in disk
       THEN /\ disk' = disk \cup {Makefile(Session(t))}
            /\ Goto(t, "basic")
       ELSE /\ Done(t, "error")
            /\ UNCHANGED disk
    /\ UNCHANGED <<cache, aborted>>

BasicFiles(t) ==
    /\ At(t, "basic")
    /\ IF Sourcecode(t) \notin disk
       THEN Abort
       ELSE /\ LET files == FaustFiles(Sourcecode(t)) IN
                 IF files \cap FaustFiles(Session(t)) = {}
                 THEN disk' = Add(disk, Session(t), files) /\ Valid(t)
                 ELSE /\ \E some \in SUBSET files :
                             disk' = Add(disk, Session(t), some)
                      /\ Done(t, "error")
            /\ UNCHANGED aborted
    /\ UNCHANGED cache

-----------------------------------------------------------------------------
(* makeAndSendResourceFile.                                                *)

\* Mutated: the session evicted is the one referred to.
ReferDisposesNew(t) ==
    /\ At(t, "refer")
    /\ LET k == Key(t)
           cached == k \in Elements(cache)
           full == Len(cache) = MaxSize
       IN  /\ cache' = PushFront(k,
                         IF cached THEN Erase(cache, Position(cache, k))
                         ELSE IF full THEN PopBack(cache) ELSE cache)
           /\ disk' = IF ~cached /\ full THEN RemoveAll(disk, <<k>>) ELSE disk
    /\ Goto(t, "target")
    /\ UNCHANGED aborted

\* Mutated: the cache evicts one session before it is full.
ReferEarly(t) ==
    /\ At(t, "refer")
    /\ LET k == Key(t)
           cached == k \in Elements(cache)
           full == Len(cache) = MaxSize - 1 /\ cache # <<>>
       IN  /\ cache' = PushFront(k,
                         IF cached THEN Erase(cache, Position(cache, k))
                         ELSE IF full THEN PopBack(cache) ELSE cache)
           /\ disk' = IF ~cached /\ full THEN RemoveAll(disk, <<Back(cache)>>)
                      ELSE disk
    /\ Goto(t, "target")
    /\ UNCHANGED aborted

\* Mutated: an eviction removes the sources and keeps the targets.
ReferKeepsTargets(t) ==
    /\ At(t, "refer")
    /\ LET k == Key(t)
           cached == k \in Elements(cache)
           full == Len(cache) = MaxSize
       IN  /\ cache' = PushFront(k,
                         IF cached THEN Erase(cache, Position(cache, k))
                         ELSE IF full THEN PopBack(cache) ELSE cache)
           /\ disk' = IF ~cached /\ full
                      THEN RemoveAll(disk, <<Back(cache), "sourcecode">>)
                      ELSE disk
    /\ Goto(t, "target")
    /\ UNCHANGED aborted

\* The key is referred to before anyone looks whether it has a session.  One
\* action: here no two calls of refer() overlap.  Those that do are the subject of
\* ReferThreads, where they exceed the capacity.
Refer(t) ==
    /\ At(t, "refer")
    /\ LET k == Key(t)
           cached == k \in Elements(cache)
           full == Len(cache) = MaxSize
       IN  /\ cache' = PushFront(k,
                         IF cached THEN Erase(cache, Position(cache, k))
                         ELSE IF full THEN PopBack(cache) ELSE cache)
           /\ disk' = IF ~cached /\ full THEN RemoveAll(disk, <<Back(cache)>>)
                      ELSE disk
    /\ Goto(t, "target")
    /\ UNCHANGED aborted

FindMakefile(t) ==
    /\ At(t, "target")
    /\ Goto(t, IF Makefile(TargetDir(t)) \in disk THEN "make" ELSE "root")
    /\ UNCHANGED <<disk, cache, aborted>>

\* create_target_directory: the root of the session first.
RootMakefile(t) ==
    /\ At(t, "root")
    /\ \/ /\ Makefile(Session(t)) \in disk
          /\ Goto(t, "directory")
          /\ UNCHANGED disk
       \/ /\ Makefile(Session(t)) \notin disk /\ Session(t) \in disk
          /\ disk' = disk \cup {Makefile(Session(t))}
          /\ Goto(t, "rootfiles")
       \/ /\ Session(t) \notin disk
          /\ Done(t, "error")
          /\ UNCHANGED disk
    /\ UNCHANGED <<cache, aborted>>

\* copyFaustOrAudioFiles(session, session): copying a file onto itself throws.
RootFiles(t) ==
    /\ At(t, "rootfiles")
    /\ IF Session(t) \notin disk
       THEN Abort
       ELSE /\ IF FaustFiles(Session(t)) = {}
               THEN Goto(t, "directory")
               ELSE Done(t, "error")
            /\ UNCHANGED <<disk, aborted>>
    /\ UNCHANGED cache

CreateTarget(t) ==
    /\ At(t, "directory")
    /\ IF thread[t].target \in Targets
       THEN /\ disk' = CreateDirectories(disk, TargetDir(t))
            /\ Goto(t, "copymakefile")
       ELSE /\ Goto(t, "make")
            /\ UNCHANGED disk
    /\ UNCHANGED <<cache, aborted>>

TargetMakefile(t) ==
    /\ At(t, "copymakefile")
    /\ IF TargetDir(t) \in disk
       THEN /\ disk' = disk \cup {Makefile(TargetDir(t))}
            /\ Goto(t, "targetfiles")
       ELSE /\ Goto(t, "make")
            /\ UNCHANGED disk
    /\ UNCHANGED <<cache, aborted>>

\* A file that is already there ends the copy; the failure is only logged.
TargetFiles(t) ==
    /\ At(t, "targetfiles")
    /\ IF Sourcecode(t) \notin disk \/ TargetDir(t) \notin disk
       THEN Abort
       ELSE /\ LET files == FaustFiles(Sourcecode(t)) IN
                 IF files \cap FaustFiles(TargetDir(t)) = {}
                 THEN disk' = Add(disk, TargetDir(t), files)
                 ELSE \E some \in SUBSET files :
                          disk' = Add(disk, TargetDir(t), some)
            /\ Goto(t, "make")
            /\ UNCHANGED aborted
    /\ UNCHANGED cache

\* A file of the target that the request names (*.js, *.wasm, *.svg, ...) is sent
\* as it is, without making it: here, one that make has produced.  For a *.svg that
\* is not there, "make diagram" is run two directories above, where there is no
\* makefile, or one with no such target: it makes nothing.
SendAsset(t) ==
    /\ At(t, "make")
    /\ Done(t, IF File(TargetDir(t), "binary") \in disk THEN "file" ELSE "error")
    /\ UNCHANGED <<disk, cache, aborted>>

NoMakefile(t) ==
    /\ At(t, "make")
    /\ Makefile(TargetDir(t)) \notin disk
    /\ Done(t, "error")
    /\ UNCHANGED <<disk, cache, aborted>>

\* Mutated: a make that fails is tried again.
MakeAgain(t) ==
    /\ At(t, "make")
    /\ Makefile(TargetDir(t)) \in disk
    /\ \/ /\ FaustFiles(TargetDir(t)) # {}
          /\ disk' = disk \cup {File(TargetDir(t), "binary")}
          /\ Goto(t, "send")
       \/ Goto(t, "target") /\ UNCHANGED disk
    /\ UNCHANGED <<cache, aborted>>

\* make may fail, and cannot succeed without a source.
Make(t) ==
    /\ At(t, "make")
    /\ Makefile(TargetDir(t)) \in disk
    /\ \/ /\ FaustFiles(TargetDir(t)) # {}
          /\ disk' = disk \cup {File(TargetDir(t), "binary")}
          /\ Goto(t, "send")
       \/ /\ Done(t, "error")
          /\ UNCHANGED disk
    /\ UNCHANGED <<cache, aborted>>

Send(t) ==
    /\ At(t, "send")
    /\ Done(t, IF File(TargetDir(t), "binary") \in disk THEN "file" ELSE "error")
    /\ UNCHANGED <<disk, cache, aborted>>

-----------------------------------------------------------------------------
\* The process was aborted, or killed, and starts again.  Its cache lists
\* sessions of the previous run, which it has removed from the disk.
Restart ==
    /\ \E order \in UNION {[1 .. n -> Keys] : n \in 0 .. MaxSize} :
         LET found == {k \in Keys : <<k>> \in disk} IN
         /\ Elements(order) \subseteq found
         /\ Cardinality(Elements(order)) = Len(order)
         /\ Len(order) = MaxSize \/ Elements(order) = found
         /\ cache' = order
    /\ disk' = {}
    /\ thread' = [t \in Threads |-> Idle]
    /\ aborted' = FALSE

Init ==
    /\ disk = {}
    /\ cache = <<>>
    /\ thread = [t \in Threads |-> Idle]
    /\ aborted = FALSE

Validate(t) ==
    \/ SessionExists(t) \/ NewSession(t) \/ CreateSession(t) \/ NoSources(t)
    \/ CopySource(t) \/ Extract(t) \/ CopyUserCode(t) \/ Compile(t)
    \/ CannotFork(t) \/ CheckIncludes(t) \/ CreateSvg(t) \/ BasicMakefile(t)
    \/ BasicFiles(t)

MakeAndSend(t) ==
    \/ Refer(t) \/ FindMakefile(t) \/ RootMakefile(t) \/ RootFiles(t)
    \/ CreateTarget(t) \/ TargetMakefile(t) \/ TargetFiles(t)
    \/ SendAsset(t) \/ NoMakefile(t) \/ Make(t) \/ Send(t)

Next ==
    \/ \E t \in Threads : Post(t) \/ Get(t) \/ Validate(t) \/ MakeAndSend(t)
    \/ Restart

Spec == Init /\ [][Next]_vars

\* The threads run; a process that died is started again by its supervisor.
FairSpec ==
    /\ Spec
    /\ \A t \in Threads : WF_vars(Validate(t) \/ MakeAndSend(t))
    /\ WF_vars(aborted /\ Restart)

-----------------------------------------------------------------------------
(* Whatever the threads do to each other, the sessions directory stays a   *)
(* tree, of sessions that have a key.  Evictions are those of calls of      *)
(* refer() that do not overlap.                                            *)
TypeOK ==
    /\ \A path \in disk : CanCreate(disk, path) /\ path[1] \in Keys
    /\ Elements(cache) \subseteq Keys
    /\ \A t \in Threads : thread[t].pc # "idle" => Key(t) \in KeysOf[t]
    /\ aborted \in BOOLEAN

(* content.cpp:42-43: the directories that copyFaustOrAudioFiles is given  *)
(* exist.  The function is called long after they were created or seen.    *)
(* Said of requests that name a session by a key.                          *)
NoAssertFails == ~aborted

(* "The behaviour of this Makefile will only be correct if only one .dsp   *)
(* file exists in the folder": it is so in the directory of every target,  *)
(* whatever names one content was uploaded under, and after any eviction.  *)
OneDspPerTarget ==
    \A k \in Keys, g \in Targets :
        Cardinality(FaustFiles(<<k, "targets", g>>)) <= 1

(* server.cpp:533-536: an upload whose code includes a file of its own is  *)
(* removed "so that no target can be made from it".  No target is in a      *)
(* session with such a generated.cpp.  (A session that faust left without   *)
(* one is not checked, and has its targets.)                               *)
NoTargetOfRefused ==
    \A k \in Keys, g \in Targets :
        Class[k] = "foreign" /\ <<k, "generated.cpp">> \in disk =>
            <<k, "targets", g, "binary">> \notin disk

(* server.cpp:156: validate_faust returns 0 for success.  A session whose   *)
(* directory is there is taken to be complete, one that was given up half- *)
(* way too: the client that is given a key has a session with its sources,  *)
(* and one that has svg/, which is created when the program has been        *)
(* checked, has user_code.dsp and the Makefile of create_basic_session too. *)
KeyMeansSession ==
    [][\A t \in Threads :
         thread[t].pc # "idle" /\ thread'[t].answer = "key" =>
             /\ Sourcecode(t) \in disk'
             /\ File(Session(t), "svg") \in disk' =>
                  {File(Session(t), "user_code.dsp"), Makefile(Session(t))} \subseteq disk']_vars

(* A file is sent only if the session it was made from, by this request or *)
(* an earlier one, has its sources: no target outlives its session.        *)
FileMeansSources ==
    [][\A t \in Threads :
         thread[t].pc \in {"make", "send"} /\ thread'[t].answer = "file" =>
             FaustFiles(Sourcecode(t)) # {}]_vars

(* Every request ends: no failure, eviction or race of another request     *)
(* leaves a thread where none of its steps is possible.                    *)
EveryRequestEnds ==
    \A t \in Threads : thread[t].pc # "idle" ~> thread[t].pc = "idle"

(* The directory as SessionService sees it.  The session of an upload      *)
(* counts once the upload was answered, or goes on as a request for a      *)
(* target.                                                                 *)
Asked == Targets \cup Others \cup {"none"}
Compiling == {"user_code", "compile", "check"}
Validating == {"sources", "svg", "makefile", "basic"} \cup Compiling
Uploading == {"create"} \cup Validating
Found == {k \in Keys : <<k>> \in disk}
Kept == {k \in Found : \A t \in Threads : thread[t].pc \in Uploading => Key(t) # k}
Built(D, k) == {g \in Asked : <<k, "targets", g, "binary">> \in D}

Phase(t) ==
    IF thread[t].pc = "idle" THEN "idle"
    ELSE IF thread[t].pc \in {"session"} \cup Uploading THEN "upload" ELSE "target"
Request(t) ==
    [phase |-> Phase(t), key |-> Key(t), target |-> thread[t].target,
     answer |-> thread[t].answer]

KeptSessions == [k \in Kept |-> Built(disk, k)]
Requests == [t \in Threads |-> Request(t)]

Service == INSTANCE SessionService WITH
    Clients <- Threads, Pairs <- Targets \cup Others,
    sessions <- KeptSessions, request <- Requests

(* When no two requests meet in a session, validate_faust,                 *)
(* makeAndSendResourceFile and the cache together are the service that     *)
(* SessionService describes: an accepted upload has a session until it is  *)
(* evicted or the server starts again, and what is sent was made in it.    *)
ServesClients == Service!Spec

=============================================================================
