# A TLA+ model of faustservice

faustservice is a web service that compiles Faust programs: a client POSTs a
program, gets the SHA-1 key of the session the server makes of it, and GETs the
binaries of that session, which the server makes on demand. This directory holds
TLA+ modules of the server, the TLC configurations that check them, and TLAPS
proofs about them. All paths below are relative to `src/`.

    tlc -workers 2 -config SessionsAlone.cfg MCSessions    # a run of PROJECT.json
    for m in *Proofs.tla; do tlapm $m; done                # the proofs

`PROJECT.json` lists the runs with their properties, the lines each definition
translates (`map`), for each property a plausible bug that violates it
(`mutants`, defined in the modules under "Mutated:"), the hazards and the
disagreements found between the code and what it says of itself (`findings`).

## 1. The system

The server is one process. libmicrohttpd calls `staticAnswerToConnection`
(server.cpp:950) in one thread per connection (927), and nothing in the code is
protected by a lock. Its state is: a directory of sessions; the list of the
recent ones, in memory; a counter of uploading clients; a temporary directory.

| component | code | state | operations |
|---|---|---|---|
| session cache | LRUSessionsCache.cpp | list and map of keys; the sessions directory | constructor (scan), `refer`, `dispose`, `clear` |
| POST requests | server.cpp 728-767, 904-932, 1192-1434 | `nr_of_uploading_clients`; for each request its `connection_info_struct` and temporary directory | headers, pieces of fields, end of data, completion |
| validation | server.cpp 97-639, content.cpp 40-51, 216-233 | `<key>/sourcecode`, `user_code.dsp`, `generated.cpp`, `svg`, `Makefile` | `validate_faust`, `create_basic_session` |
| targets | server.cpp 648-668, 1031-1187, content.cpp 163-213 | `<key>/targets/<platform>/<arch>` | `makeAndSendResourceFile`, `create_target_directory`, `make` |
| start-up | main.cpp 152-231, server.cpp 904-932, 1436-1489 | - | clears the sessions, removes stale uploads, starts the daemon |
| GET routes | serverGETConnections.cpp, match.cpp | - | a sequence of patterns; static files of a session |
| temporary archives | serverGETConnections.cpp 172-240, content.cpp 238-417 | `temp_svg.zip`, `temp_webapp.zip` | write, send, remove |
| diagrams, web application | server.cpp 1529-1827 | files in the session | made when asked for and absent |
| Faust options | faustOptions.cpp | a table filled at first use | extract, filter |
| child processes | process.cpp | pipes, limits | `runProgram`, `captureProgram` |
| targets as JSON | server.cpp 1448-1485, client/JsonParser.cpp | `fTargets` | print, parse |
| client | client/ | - | upload, export |

How they interact. A POST passes through the counter, writes the upload to a
temporary directory, and ends in `validate_faust`, which creates a session unless
its directory exists. A POST to `/compile/...` and the GETs of binaries go to
`makeAndSendResourceFile`, which first calls `fSessionCache.refer`; that may
`remove_all` the session of another key, whatever the other threads are doing
with it. Other GETs read the session without `refer`. The cache learns of a session
only when a target of it is asked for. A restart empties the directory.

What makes each correct:

- cache: list and map agree, at most `fMaxSize` keys, least recently referred key
  evicted, no directory forgotten;
- POST: the counter is the number of uploading clients and bounded, a request
  reads its own complete file, when it could be written, everything temporary is removed, every place is
  given back;
- validation: a key is given only for a session that can be used; a refused upload
  leaves nothing; simultaneous uploads of one content do not mix;
- targets: the directory of a target holds one `.dsp` file; no target of a refused
  upload; no request for a session kills the server; every request is answered;
- GET routes: every URL of the interface reaches its own handler and its own file;
- archives, diagrams, web application: a request gets the whole file, made once, and
  leaves nothing behind;
- uploaded archives: the program of a session follows from the entries that count,
  and the limits hold whatever the archive declares;
- options: a thread that was told the table is filled uses all of it; what passes the
  filter is what faust can read;
- child processes: a call returns the status and the output of its own program, always;
- list of targets: the client gets all of it or an error;
- client: a function that returns true wrote the whole binary, and every function
  returns.

The behaviours that are hard to test are listed as `hazards`: unlocked state
(the cache, the counter, the files), tests apart from the actions they guard, a
session evicted while in use, failures half way of the creation of a session,
files that are served while they are made, clients that give up while the server goes
on, a pipe that other children inherit, and disconnections, crashes and restarts at
any point.

## 2. The modules

| module | models | how |
|---|---|---|
| `KeyList` | the calls of `std::list` | operators on sequences |
| `LRUSessionsCache` | the cache called by one thread at a time, and the sessions directory it manages | one action per case of `refer()`, per step of the scan and of `clear()`, per kind of request |
| `RecentSessions` | what an LRU cache of sessions promises | abstract: for each key, the set of keys referred to since it was |
| `ReferThreads` | `refer()` in concurrent threads | one action per call on the list or the map; nodes, so that an iterator may dangle; `undefined` when a call has no meaning |
| `Uploads` | the life of POST requests | one action per block of the three callbacks; load and store of the counter apart |
| `SessionFiles` | `std::filesystem` | operators on a set of paths |
| `Sessions` | validation and targets, with the cache | one action per call on the file system |
| `SessionService` | what the service promises its clients | abstract: for each key that has a session, the pairs made in it; for each client, its request |
| `Archive` | the extraction of an uploaded archive, and the copies of its program | one action per outcome of an entry; a path is a sequence of components |
| `FaustOptions` | the options a program declares, and the table that filters them | one action per line of `faust -h`, two for a line that inserts, and one per word |
| `SessionGets` | GET requests that make files in a session | one action per call on the file system, and per piece a program writes; file names and nodes apart |
| `Routes` | which handler and which file a URL gets | a function of the URL, the routes in the order of the code |
| `TargetsJson` | the list of targets, printed by the server and parsed by the client | one action per entry printed and per state of the parser; a text is a sequence of tokens |
| `Processes` | `runProgram`, `captureProgram` and their children | one action per system call; who has which pipe |
| `Exports` | the client, and the threads of the server that make a target | one action per command of the recipes of Android; crash, second instance |
| `MC*` | instances for TLC | values of the constants, symmetry |
| `KeyListProofs` and the other `*Proofs` | - | the proofs of section 5 |

`ReferThreads` has `refer()` call by call, and shows that in one thread it is the one
action of `LRUSessionsCache` (`IsRefer`), which implements `RecentSessions`
(`EvictsLeastRecent`). `Sessions` has `refer()` as one action too, `Refer`: its threads
interleave everywhere else, and it says nothing of the cache under calls of `refer()`
that overlap. Those break the capacity, in `ReferThreads` (run `ReferCapacity`).
`Sessions` implements `SessionService` when no two requests meet (`ServesClients`).
`Archive` and `FaustOptions` are the detail of two steps of `validate_faust` that
`Sessions` takes at once; `Processes` of the programs that `Sessions`, `SessionGets` and
`FaustOptions` run; `Exports` of `make`, which `Sessions` takes in one step, with the
creation of the session and of the target in one step in its turn.

**LRUSessionsCache.** `fSessionsList` and `fSessionPos` are the fields; of the map
only the keys are kept, since its iterators are the positions of the keys as long as
no key is twice in the list (checked with nodes in `ReferThreads`). `phase` and
`toScan` are the progress of the constructors (main.cpp:215). `Upload` and
`UploadRefused` are all that the rest of the server does to session directories. Two
history variables say what the properties need: `untracked`, the directories that
were uploaded and never asked for or that could not be removed, and `referred`, the
argument of the last `refer()`, without which a reference that does nothing could
not be told from no reference.

**Uploads.** `pc[c]` is where the thread of connection `c` is between two calls of
the library, or between two accesses to shared state in one callback. `reg` is the
register of `++` and `--`. `content` says of a file how many pieces of each connection
it holds, so that mixed and cut files show; `buffer` is what `fwrite` left in the buffer
of `fp`, which goes to the file when the buffer overflows, or at `fclose`. The code does
not look at the result of that `fclose` (server.cpp:1265): it may lose the end of the file,
and `lost` is the history of it. `fp` is "unlinked" when the file was removed while open,
as on POSIX. `MHD_NO` is the step to "closing": the library closes the connection and
calls `request_completed`. `NoDirectory` is the exception of a `create_directory` that
fails (server.cpp:1377). `alone`, `leftover` and `overlapped` are history.

**Sessions.** A key stands for a content, of which it is the SHA-1 (no collisions);
`Class` says what the content is: a Faust program, one whose generated code includes
a file of its own, an archive, one whose program is in a sub-directory, nothing. A
path is a sequence; `disk` is the set of paths that exist. `thread[t].pc` names the
next step. An exception that leaves the handlers ends in `staticAnswerToConnection`,
which answers 400 ("error"). An `assert` that fails ends all threads (`aborted`);
the next step is `Restart`, by the supervisor (faustweb.conf, `respawn`). Of the
extraction loop two results are kept, the files of the archive or the replacement
`toolong.dsp`, both possible for any archive since the limit is on time; the other
replacements take the same path with another name, and are told apart in `Archive`.
`make` succeeds or fails, and cannot succeed without a `.dsp` file. `faust` may leave no
`generated.cpp`, because it fails or its limits end it: the check of the includes then
finds nothing to refuse (server.cpp:117-154, 528) and the session is kept, unchecked.
A request for an `.svg` that is not there runs `make diagram` two directories above
the file, where it makes nothing (server.cpp:1117): it is part of `SendAsset`.
Writes to one file are atomic.

A request names a session by a key. The routes accept any component of a URL in the
place of the key (match.cpp:34-43) and nothing tests that it is one; a component that
names another directory is not modelled, and the assertions of content.cpp:42-43 are
not said to hold for it. `NoAssertFails` and `KeyMeansSession` are said of keys.

**SessionService.** The mapping (`KeptSessions`, `Requests`) takes a session for one
that the service has when its directory is there and no upload of its content is in
progress, and a target for made when its binary is there (`Built`). An upload is one
step, `Accept` or `Refuse`, at its last step in the code, which answers it or lets it go
on as a request for a target; `Build` is a `make` that succeeds, `Evict` a `refer()` on a
full cache, and an abort is no step. What the mapping does not see of an upload, the
files of its session, is for `KeyMeansSession`.

**Archive.** `kept`, `size`, `programs` and `main` are `entry_count`,
`total_extracted`, `dsp_files` and `main_dsp_filename`; `files` gives the size of each
file of `sourcecode/`, in buffers of the extraction. An entry is skipped, counted, made a
directory or extracted, by the tests in the order of server.cpp:261-392; the limit on
time may strike before any of them. `EndOfArchive` is the choice of the replacement when
there is not one program, `CopyUserCode` and `BasicFiles` the copies that follow: of every
name with one of the extensions of content.cpp:44-49 (`Copied`), accepted or not, where a
directory of such a name throws. `MacNames` are the components that make server.cpp:327
skip a path, whose test is on the beginning of the string.

**FaustOptions.** `table` is the three static sets, `initialized` the static flag,
and `compiler[t]` the locals of a thread. The sets are `std::set`s with no lock: a line that
inserts begins and ends in two steps, and `damaged` is history, that two threads were
inserting in one set at once, one of them a name that was new. From then on an insertion
may lose any name of the set, and a look-up in a set that is being written may miss a
name; a tree that is corrupted so that a thread crashes or loops is not modelled. A word is a model value with the word that the
character filter makes of it (`Clean`), and a line of the program declares words or does
not: the patterns that `extractFaustOptions` looks for decide, and are not modelled.

**SessionGets.** The GETs do not call `refer()`, so that a session may be evicted under
any of them, made again by an upload, and evicted again (`Disturb`). `name` is a
directory and `node` its inodes: a thread that reads an open file goes on reading it
when the name is removed or given to another file. A piece is "bad" when it was made
from something incomplete. `Kept` forgets the content of nodes that no name and no thread
has. `thread[t].alone` is history: no other request of the same file was in progress, and
none left it incomplete.

**Routes.** `FirstRoutes` and `LastRoutes` are the two sequences of
`dispatchGETConnections`, with the routes of web applications between them. `expected` is
what the interface says of a URL (README.md, and the comments of the routes), given with
each URL by `SessionApi`, `ApplicationApi` and `TargetApi`. `ReadmePages` are the URLs
`/<key>/<platform>/<architecture>/web/pwa/*` of README.md:45-46: the code serves the pages
of an application under `/<key>/web/pwa/` only (serverGETConnections.cpp:257), and what is
expected of these is what it does with them, nothing made; the names that clients choose
are, on purpose, those of other routes. `NameAssumption` is what the fixed names of the
routes are (their extensions, the length of `webapp`, which tells it from a key);
`TargetAssumption` and `PageAssumption` say which names the interface cannot serve: a
platform called `diagram` or `svg`, whose targets a route of diagrams hides, and an image
with `.js` in its name.

**TargetsJson.** `JsonInit` chooses a directory of makefiles; `PrintEntry` prints one
of its entries (none that is not a directory of makefiles, and no comma before the first),
`Transfer` cuts the text anywhere or not at all, and then one action is one state of the
parser, which reads a token.

**Processes.** `pipe[t]` is what is in the pipe of the call of `t`; `child[t]` how far
the child is, and `Inherits` which children hold the pipe of which call. A failure of
`fork` or `exec`, and an exit with an error, may happen to any call.

**Exports.** `user` is a client between its two requests, `handler` a thread of the
server; `product` and `output` are what the tool and the recipes wrote, and
`UpToDate` is the comparison of dates `make` does. The program of a client is one whose
upload is accepted (`Valid`) or not, as `Sessions` says. A connection that finds no free
handler stands for a refused one: the number of handlers is a bound of the model.
`SecondInstance` clears the sessions before it finds the port in use
(main.cpp:215, server.cpp:927), `Crash` and `Started` are the signal handler
(main.cpp:132) or the supervisor.

**MCParts.** Six modules that share no state, each on its own small instance:
`subject` is chosen by the first state and a behaviour is then one of that module, with
the variables of the others at rest. Each property is true of the parts at rest and is
about one of them.

## 3. The runs

Passing runs, with what their bounds allow to happen:

| run | bounds | properties |
|---|---|---|
| `MCLRUSessionsCache` | 6 keys, capacity 4, failures; symmetric keys | `TypeOK`, `CacheSound`, `DiskTracked`, `EvictsLeastRecent`. Two keys beyond the capacity: full cache, eviction, return of an evicted key, restart with more sessions than the capacity |
| `MCUploads` | 2 connections, 1 client admitted, 2 names, files of 2 pieces, counter modulo 4, failures | `TypeOK`, `CounterExact`, `TmpOwned`, `OwnFile`, `RefusalsAreSilent`: two requests meet on the counter and on a name, a buffer is written in part, a directory cannot be created |
| `UploadsLive` | the same with 1 name, 1 piece, `FairSpec` | `EveryUploadEnds`, `BusyServerRecovers` |
| `SessionsAlone` | 1 thread, 4 contents, one of each class but a plain program, cache of 1, failing forks | `NoAssertFails`, `OneDspPerTarget`, `FileMeansSources`, `ServesClients`: every path of a request, evictions, restarts |
| `SessionsDisjoint` | 2 threads, a program for one and a refused one for the other, every target asked for has a makefile, cache of 2, failing forks | `NoAssertFails`, `NoTargetOfRefused`, `KeyMeansSession`, `ServesClients`: with room in the cache, requests on different contents do not disturb each other, and a session that was given up half way is found again |
| `SessionsShared` | 2 threads on the same 2 contents, cache of 1, `FairSpec` | `TypeOK`, `EveryRequestEnds`: all the races at once, and what survives them |
| `SessionGets` | 2 threads, 1 session that comes and goes, files of 2 pieces, failures; one of 3 mixes of requests per behaviour | `TypeOK`, `NotRemade`, `NothingLeft`, `AloneIsServed`: both archives, both diagrams, or the application, its files and the files of validation |
| `MCParts`, archive | a limit of 3 buffers, 2 entries kept, 4 read; files of 0 to 3 buffers under 8 paths, directories, a link | `OneProgram`, `LimitsHold`, `VerdictFollows`: limits just met and just passed, several programs, a file under a directory and the reverse |
| `MCParts`, options | 2 threads that compile, help of 9 lines, 12 programs | `TableWhole`, `FilterReadable`: two fill the table, one after the other or at once, while one may fail to run faust |
| `MCParts`, routes | 2 sessions, 5 targets, names of other routes, URLs of 99 to 101 characters | `ApiServed`: the URLs of the interface, and those of README.md:45-46 that no route is for |
| `MCParts`, json | directories of up to 3 entries of up to 2 makefiles, entries with none among them, a text cut anywhere | `ParsesWhole`: no list, a part of one, a comma before and after an entry that is not printed |
| `MCParts`, processes | 2 callers, an output of 2, pipes of 1 | `NoDescriptorLeft`, `OwnResult`, `EveryCallEnds`: a writer that waits for its reader, a pipe two children have |
| `MCParts`, cache | `ReferThreads` with 1 thread, 3 keys and nodes, capacity 2 | `IteratorsValid`, `IsRefer`: nodes are freed and reused |
| `Exports` | 2 clients, 2 threads, 2 programs, 1 crash or second instance, failing tools, `FairExportSpec` | `ExportIsWhole`, `ExportEnds` |

Runs that find a violation, each of one sentence of the code's comments, options,
pages or assertions (quoted in `findings`):

| run | what TLC shows |
|---|---|
| `ReferCapacity` | two threads in `refer()` exceed the capacity, and `==` never notices again |
| `SessionsAssert` | a session evicted while it is being built or made: `assert` ends the server |
| `ExportsAtOnce` | two requests for one target run `make` at once, and one is answered 200 with a half-made binary |

Seen while modelling, and left without a run of their own: `clear()` empties the
directory and keeps the list and the map (LRUSessionsCache.hh:22 says "Clear the
cache"), which `EvictsLeastRecent` shows to be harmless; uploads nobody makes a target
of are not counted by `-n` (main.cpp:75 "maximum number of cached sessions",
`untracked` in `DiskTracked`); two requests can pass the test of the counter
together (main.cpp:71), which `CounterExact` excludes by `overlapped`; an upload that
was answered "It has not been registered" (htmlPages.cpp:31) leaves a directory that
the next one is given as a session; the root of a session has two `.dsp` files
beside Makefile.none (content.cpp:227).
Further:

- two requests that meet on `++` or `--` (server.cpp:742, 1230) lose an update, and
  the counter ("Number of clients currently uploading", 765) stays wrong: `overlapped` in
  `CounterExact` and `BusyServerRecovers`;
- one content uploaded under two names at once leaves two `.dsp` files in each target
  (server.cpp:213; Makefile.none:1 expects one), and a target can be made of an upload
  that is about to be refused (535): `OneDspPerTarget` and `NoTargetOfRefused` hold
  where no two requests are on one content;
- an entry that would be ignored, after 100 that were kept, still replaces the
  program (server.cpp:284);
- `'_'` is dropped by the character filter of `extractFaustOptions`, so that names of
  options and parameters with one never pass; the tests of characters that
  `filterFaustOptions` begins with can no longer fail; and an option at the end
  that lacks its parameter takes the name of the program for it (server.cpp:505);
- faustOptions.cpp:26 says "Called once at server startup": it is called at the first
  use, by several threads if they meet;
- match.cpp:32 says "Trailing / are removed", which they are not; README.md:45-46
  gives the pages of a `web/pwa` target under `/<key>/<platform>/<architecture>/web/pwa/`,
  where no route is: such a URL is answered 404, or taken for a file of a web application,
  and the pages are under `/<key>/web/pwa/` (serverGETConnections.cpp:257). `ApiServed` says
  both;
- an upload whose file could not be written whole is validated all the same: the result
  of `fclose` is ignored (server.cpp:1265; the client ignores its own,
  client/FaustWebClient.cpp:295): `lost` in `OwnFile`;
- a comment says of an upload that includes a file of its own that it is removed "so that
  no target can be made from it" (server.cpp:535): an upload for which `faust` leaves no
  `generated.cpp` is not checked (117-154), and one whose validation was given up, because
  `fork()` failed (520), has a session for the next upload of it (213). `NoTargetOfRefused`
  is said of the sessions that have the code that would have been refused;
- two threads that fill the table of options at once may damage it for all that follow:
  `damaged` in `TableWhole`;
- faust2wasm-ts writes over the `errors.log` of the compilation (server.cpp:1783);
- the client asks for a `src.cpp` that no route makes, and says nothing of answers
  that are neither 200 nor 400 (FaustWebClient.cpp:223).

Reading them together: with one request at a time, or with room in the cache and
contents of their own, requests do not disturb each other, and what remains is in the list
above (files not written whole, programs not checked); the failures that the runs show
need two requests of one content or one target at once, or an eviction under a request.

In the same way a GET that is alone on its file gets it whole, and two that make one
file at once may not (`thread.alone`, `disturbed`); the parts without shared state
(archives, routes, list of targets, child processes) hold without condition.

Why the bounds are enough. A race here is between two threads on one key, one name or
one counter: two threads and one or two of each show every pair of steps. The
cache's own theorems hold for all constants. The counter modulo 4 is wide enough for
two connections to count and to wrap, and the theorems of `Uploads` hold for any. What two pieces cannot show beyond one is the
size limit, which they reach. In `SessionGets` two pieces make
a file that can be seen half made, and one session is enough since sessions share
nothing there. In `Archive` the limits are small so that four entries pass each of them;
its theorem holds for any. Every bound is a constant of a `.cfg`.

The deadlock check is disabled in `ReferCapacity`, where undefined behaviour stops the
model, and in `MCParts`, where an extraction, a filtering and a parse end.

## 4. Fairness

`Uploads!FairSpec`: the thread of a connection goes on whenever the code can
(weak fairness of `Server`), as the operating system schedules threads. `Finish` has
strong fairness: a client does not stay silent or send pieces for ever. The code does
*not* enforce it: the daemon is started without a connection timeout (server.cpp:927)
and empty pieces do not count in `kMaxUploadSize`; it is an assumption on the
clients, and the liveness results are under that assumption.
`Sessions!FairSpec`: threads go on, and a process that aborted is restarted. That
`make` and `faust` end is justified by the limits runProgram gives `faust`; `make` is
assumed to end.
`Processes!ProcessFairness`: the threads go on, and so does a program that is running or
about to (`GoesOn`: no failure is fair, a program that fails is not needed for the
call to end). `runProgram` limits the processor time of its children; those of
`captureProgram`, `faust -h` and `faust --version`, are assumed to end.
`Exports!ExportFairness`: only the clients, which libcurl makes return
(CURLOPT_TIMEOUT, FaustWebClient.cpp:272). The server has none: `make` may last for
ever, and `ExportEnds` holds still.

## 5. What is proved

`LRUSessionsCacheProofs`, for every set of keys and every capacity of at least one:

- `TypeCorrect`: `Spec => []TypeOK`;
- `CacheIsSound`: `Spec => []CacheSound`;
- `DiskIsTracked`: `Spec => []DiskTracked`.

All three follow from `Inv == TypeOK /\ CacheSound /\ DiskTracked`, which is
inductive where none of its parts is: the evicted key has a type and a directory to
remove because the map matches the list; erasing the position the map gives removes
all occurrences because the list has no duplicate; the evicted directory is not one
the scan has still to visit because `toScan` and the map are disjoint. The list
operations are dealt with once, in `EraseProperties` and `PushFrontProperties`
(what is in the result, its length, no duplicates); `ReferKeepsInv` uses them in the
three cases of `refer()`, and is used for the scan and for the requests. The lemmas on
lists are in `KeyListProofs`, which also shows that a set of numbers that is not empty has
a smallest one (`SmallestExists`), the form of induction that the prover can use.

and, from that invariant:

- `CacheEvictsLeastRecent`: `Spec => EvictsLeastRecent`, that is, `LRUSessionsCache`
  implements `RecentSessions`.

The refinement mapping gives each key the set of keys before it in the list.
`BeforePushFront` and `BeforeErase` say how that set changes, `CountElements` and
`BeforeIsOthers` that it has fewer keys than the list is long; so after `refer()` the
keys still in the list are those too few keys were referred to since
(`AgingIsRefer`), and the evicted one, before which all the others were, has reached
the capacity. `CacheSound` is needed in every step and is taken from `Invariance`.

Assumptions: `MaxSizeAssumption` (a capacity of at least one: with `-n 0`, `refer()`
reads the back of an empty list) and `MayFailAssumption`.

`UploadsProofs`, for every finite set of connections, every limit of clients below
the range of the counter, every set of names and every size limit:

- `UploadsTypes`: `Spec => []TypeOK`;
- `CounterIsExact`: `Spec => []CounterExact`;
- `TmpIsOwned`: `Spec => []TmpOwned`;
- `FileIsOwn`: `Spec => []OwnFile`;
- `RefusalsSilent`: `Spec => []RefusalsAreSilent`.

The inductive invariant is the conjunction of six parts. `TypeOK` and `TmpOwned` are
nearly inductive. `CounterInv` says why the counter is exact as long as no two threads
met: at most one thread is between its test or load and its store, what it loaded
is still the value of the counter, and a thread that passed the test still has room;
`MoveKeepsCounter` deals with all the moves that do not touch the counter,
`IncrementKeepsCounter` and `DecrementKeepsCounter` with the two that do (the
remainders of the unsigned counter, the cardinality of the set of uploading
requests). `CodesInv` gives the answer code at the points where a request can be
answered. `OpenInv` and `SoleInv` say why the file is whole: nothing was written except
to an open file, only the owner of a name opens a file of that name, and what its
file and its buffer hold, and what was lost, add up to its `uploadsize`; `SoleStays` deals with the requests a step does
not concern. One step per action, in one lemma per part.

Assumptions: `CounterAssumption` (a limit of at least one, below the range of the
counter, and fewer connections than that range), `NameAssumption`, `SizeAssumption`.

`ReferThreadsProofs`, for every set of keys and of nodes, and every capacity of at
least one:

- `OneThreadIsValid`: `OneThread => (Spec => []IteratorsValid)`;
- `OneThreadRefers`: `OneThread => (Spec => IsRefer)`, that is, the calls on the list and
  the map that `refer()` makes one after the other add up to the one action that
  `LRUSessionsCache` has for it.

`OneThread` (no two calls of `refer()` at once) is the hypothesis that the code does
not ensure; `ReferCapacity` shows what happens without it. The inductive invariant
`ReferInv` says that nothing was undefined and that the map and the list agree on every
key but the one that the call is moving or evicting (`AgreeBut`), with one case per place
of the call (`Within`). For the second theorem `SinceInv` adds what the call has done so
far to the list it found, again with one case per place (`Since`), until all of it is
done; `MapIsRefer` says the same of the map. `EraseAt`, `PopLast` and `PushFirst` are the list; assumptions
`CacheThreadAssumption`, `CacheKeyAssumption`, `SizeAssumption`.

`PartsProofs` has the theorems of five parts that share no state. Of `Archive`, for any
entries, names and limits:

- `OneProgramAlways`: `ArchiveSpec => []OneProgram`;
- `LimitsAlwaysHold`: `ArchiveSpec => []LimitsHold`;
- `VerdictAlwaysFollows`: `ArchiveSpec => []VerdictFollows`.

While entries are read (`Reading`), `dsp_files` has every program that may be in
`sourcecode/`, so that a count of one means one file; after the choice (`Chosen`), what
is left is that one or the replacement. Assumptions: `FileNameAssumption` (a replacement
is not a library, and the empty name is none) and `SlashAssumption` (libarchive takes a file
with a trailing slash for a directory). That a kept file has the name that was looked at,
although "." and slashes on its way are dropped, is `PlaceIs`.

`Place`, `Extract` and the counts are folds of the community modules, a CHOOSE among
functions that iterate. `FoldsExist` shows, by induction on the size of a set, that such a
function exists for any operation; the lemmas on each fold then show that the one CHOOSE
takes is it.

The two theorems on the limits need that a sum does not depend on the order in which a
fold takes its terms. `SumsExist` is `FoldsExist` for the sums on the subsets of a finite set, `FoldIsSum` shows that
the fold of the library gives them, `SumOfRest` that any element may be taken first;
`TotalOfOneMore` is what the actions use: a file that is written, or written again, adds
at most its size. `LimitsInv` is then inductive on its own: the files are no more than
the entries kept, their sizes no more than what was counted. `Agreeing` says while
entries are read that the count, the size, the programs and the main program are what
the entries say (`NextEntry` is one more entry), and that no entry came after the limit
was reached; when the loop ends `Verdict` is what was chosen, and the entries do not
change any more. Further assumptions: `EntryAssumption`, `LimitAssumption`.

Of `FaustOptions`, for any number of threads and any help:

- `TableIsWhole`: `OptionsSpec => []TableWhole`;
- `FilterIsReadable`: `OptionsSpec => []FilterReadable`, for any declarations.

`OptionsInv` has two halves: the table never has a name that the help does not give
(`TableSound`), and a thread that parses has already put in it all the names of the lines
it read (`Parsing`), which the others can only add to (`GrowthKeepsOthers`), unless two of
them met on a set (`damaged`). Once the table is whole no insertion has a new name, and
nothing can damage it any more.
`FilterInv` says of what a thread has kept that it is read option by option, and what
may come next (`Pending`), with three lemmas for an option kept, a parameter kept and an
option dropped; and of a declaration that faust reads, filtered with the whole table, that
what is kept and what is left of it make it up (`Agrees`). Assumptions:
`HelpAssumption`, `SourceAssumption`, `UnambiguousAssumption` (an option takes a parameter
of one kind or none, as those of faust do). `ExtractIs` shows that what is left of a
declaration are clean words.

Of `Processes`, for any number of callers, any output and any capacity of pipes:

- `NothingLeftOpen`: `ProcessSpec => []NoDescriptorLeft`;
- `ResultIsOwn`: `ProcessSpec => OwnResult`.

`ProcessInv` says for each call and each place what its child and its pipe are; both
theorems follow. Assumptions: `CallerAssumption`, `OutputAssumption`.

Of `TargetsJson`, for any directory of makefiles and a text cut anywhere:

- `ListParsesWhole`: `JsonSpec => []ParsesWhole`.

The invariant needs two lists that no variable has. `Printed(list, start)`: `list` is the
entries that were printed, `start[i]` the token at which the i-th begins, and the printed
text is, from there, what `PlatformAt` says token by token; `PrintEntry` adds one entry
to both (`EntryPrinted`). `Parsed(list, start)`: for each state of the parser, how many
platforms of `list` it has whole, how many architectures of the next, and therefore which
token of the printed text it is at. So it fails only where the text ends (`TokenTypes` and
`MarksDiffer`: tokens of different kinds differ), and reaches `parsed` only behind the last
brace, which nothing follows. An empty list is the case where the code itself fails:
`{}` is not accepted, as `ParsesWhole` says. Assumption: `MakefileAssumption`.

Of `Routes`, for any sessions, targets, diagrams, files of applications and lengths of
names:

- `ApiIsServed`: `RouteSpec => []ApiServed`.

The request does not change; the work is in which of the routes a URL matches first.
`FirstRoutesAre` and the lemmas before it say which routes there are, `RouteUrls` which
URLs each matches, `RouteAnswers` that the smallest index that matches decides. Then there
is one lemma for each kind of request (`ImageServed`, `KeptServed`, `PwaPage`,
`TargetServed` ...): the routes before the right one do not match, because their pattern
has another length or a fixed name where the URL has another. `CharactersCount` gives
the length of a URL for the limit of 100 characters (a sum, as those of `Archive`).
Assumptions: `ComponentAssumption`, `NameAssumption`, `HashAssumption` (40 digits),
`TargetAssumption`, `SvgAssumption`, `PageAssumption`.

`ExportsProofs`, for any number of clients, threads and programs, of crashes and of
second instances:

- `FinishedExportIsWhole`: `ExportSpec => ExportIsWhole`.

`ExportIsWhole` is about one step of a client, long after the steps that made its file.
`ExportInv` has what is needed in between. `ServeInv`: a thread answers one client,
which waits for it, and a client that waits for nothing has no answer, so that a late
answer goes to nobody. `MakeInv`: a program that is not in `disturbed` has one thread
that makes it at most, the archive exists only when the tool wrote the whole product,
a copy that is there is whole unless that thread is writing it, and a thread that sends
has its whole file (`Orderly`, `Progress`). `AnswerInv`: an answer counted as `sure` has
the whole file. `QuietKeepsMake` deals with the steps that make nothing, `OthersStay`
with the programs that a step does not concern. Assumptions: `CodeAssumption`,
`UserAssumption`.

`SessionsProofs`, for any number of threads, sessions, programs and targets:

- `SessionsTypes`: `Spec => []TypeOK` (the directory stays a tree of sessions that have a
  key), with no hypothesis on the requests, save that calls of `refer()` do not overlap;
- `SessionsAssert`, `SessionsOneDsp`, `SessionsSendSources`: `NoAssertFails`,
  `OneDspPerTarget` and `FileMeansSources` hold when `Apart`;
- `SessionsServe`: `Spec => ServesClients` when `Apart`, that is, `Sessions` implements
  `SessionService`;
- `SessionsRefuse`: `NoTargetOfRefused`, when `Apart`;
- `SessionsKeys`: `KeyMeansSession`, when `Apart`.

`Apart` says that no two requests are on one content, and that with more than one
thread the cache has room for every session. The code does not ensure it: the run
`SessionsAssert` shows `NoAssertFails` violated without. `SessionsAlone` (one thread, any
capacity) and `SessionsDisjoint` are instances of it. In all of them `fork()` may fail,
`faust` may leave no `generated.cpp`, and an upload may be given up at any step and leave
its session to the next one.

`TypeInv` is the inductive invariant of the first: `Tree` (each path has its
parent) is kept by `AddKeepsTree` and `RemoveKeepsTree`, one lemma for each operation on
the file system. For the others, `ApartInv` says of each session what its
directory has, from the place of the one thread that may be on it (`AtSession`): a
session being made has what the thread made so far, one with `svg/` that nobody makes has
its `user_code.dsp` and its makefile (`Complete`), and code that would be refused is in a
session only until it is checked (`Refused`). `Framing` is why it is inductive: a step of a thread changes
nothing outside of its session. One lemma per action.

For `SessionsServe` each action lemma says, beside `Frames`, what the service sees of its
session: nothing (`Inert`), or a target made in it (`Makes`). `ApartInv` says for this
that nothing was made in a session that is still validated, so that `Accept` gives one
with no target (`Send` itself looks for the binary it sends). `ValidateServes`,
`MakeServes`, `ReferServes` and `RequestServes` then map each step to one of the service
or to none; the eviction is the step that needs `Apart` most: with two threads there is
none (`ReferEvicts`, by counting), with one the key evicted is not the one asked for.
Assumptions: `ThreadAssumption`,
`ClassAssumption`, `SizeAssumption`, `FailAssumption`, `NameAssumption`.

`SessionGetsProofs`, for any finite sets of threads and sessions, any requests, any number of
pieces in a file and programs that may fail:

- `SessionGetsTypes`: `Spec => []TypeOK`;
- `SessionGetsNotRemade`: `Spec => []NotRemade`;
- `SessionGetsNothingLeft`: `Spec => []NothingLeft`;
- `SessionGetsAlone`: `Spec => AloneIsServed`.

`IInv` has seven parts. `FileInv`: two names never stand for one node, and there is a file
only in a session that exists. `OwnInv`: what a thread has open is a file of its own
kind of request in its own session, or a file without a name; two threads that have
one file open make the same. `LeftInv`: a temporary file has a thread that will remove
it. `ApartInv` and `AloneInv`: a request that is alone shares no artefact with another,
and for each place, how far its file has come (`Going`, `Prefix`). `Moves` is what a
step of a thread may change, and `MovesInv` shows once that such a step keeps all
seven: `MovesOthers` is the heart of it, a request that is alone does not notice the
others. Each action has then one lemma, that it `Moves` and `Keeps` its own request
going; `StartInv`, `CreateInv` and `RemoveInv` deal with the steps that end the loneliness of
others. A node is always free to open a file (`FreeNodeIs`, by counting).
Assumptions: `MixAssumption`, `PieceAssumption`, `FiniteAssumption` (finitely many
threads and sessions).

Only model-checked: liveness (`EveryUploadEnds`, `BusyServerRecovers`,
`EveryRequestEnds`, `EveryCallEnds`, `ExportEnds`) stays with TLC, as the prover has no
ENABLED. Every invariant and every action property of the passing runs has a theorem.

## 6. What is not modelled

- `ReferThreads` interleaves whole calls; calls that really overlap on one
  `std::list` have undefined behaviour that is worse. Likewise the static map of mime
  types (server.cpp:1127).
- Names of targets (`isValidTarget`), the contents of files, options, metadata and
  audio files; the characters of names, of which the models keep what the tests tell
  apart.
- What the exceptions of `iterate_post` do to the C library they cross: `NoDirectory`
  takes them for the end of the connection, `Restart` for that of the process.
- Components of a URL that stand where a key should and are not SHA-1s.
- A `std::set` of the table of options whose tree is corrupted: `FaustOptions` has the
  names it may lose, not a crash.
- Calls of `refer()` that overlap, in `Sessions`; uploads of one content at once, whose
  properties are `TypeOK` and `EveryRequestEnds` only.
- The limits of memory and of processor time of the children, which are the kernel's:
  a child that passes them is one that fails.
- The components of `PROJECT.json` with status `not_modelled`: the error pages are
  texts, the list of the sessions reads the directory and prints it, the recipes of the
  other makefiles are those of Android with one product or run one tool.
- `CLI11.hpp`, a third-party parser of command lines, which is two thirds of the
  lines of the repository, and with it the options of `faustweb` and of the client.

## 7. Plan

Next: the other makefiles, when one has a recipe that is not one of Android's.
