------------------------------ MODULE MCParts ------------------------------
(***************************************************************************)
(* The parts of the server that share no state, each on a small instance:  *)
(* a behaviour is one of the part that its first state chooses, with the   *)
(* variables of the others at rest.                                        *)
(***************************************************************************)
EXTENDS Archive, FaustOptions, Routes, TargetsJson, Processes, ReferThreads

VARIABLE subject

partVars == <<subject, archiveVars, optionVars, routeVars, jsonVars, processVars, vars>>

-----------------------------------------------------------------------------
(* Archives: files that fill the limit, names that are accepted or not, and *)
(* names under which one file hides another.                               *)

File(path, s) == [kind |-> "file", path |-> path, size |-> s]
Directory(path) == [kind |-> "directory", path |-> path, size |-> 0]

MCEntries ==
    {File(<<"a.dsp">>, s) : s \in {0, 2, 3}}
    \cup {File(p, 1) : p \in {<<"b.dsp">>, <<".", "a.dsp">>, <<"sub", "a.dsp">>,
                              <<"a.dsp", "a.lib">>, <<"..", "a.dsp">>, <<"notes.txt">>,
                              <<"user_code.dsp">>}}
    \cup {Directory(<<d, "">>) : d \in {"sub", "a.dsp", "empty.dsp", "old.flac"}}
    \cup {File(<<"__MACOSX.dsp">>, 1)}
    \cup {[kind |-> "link", path |-> <<"a.dsp">>, size |-> 0]}

-----------------------------------------------------------------------------
(* Options: a help with a code section between two others, declarations    *)
(* that faust can read or not.                                             *)

Line(names, follows) == [kind |-> "option", names |-> names, follows |-> follows]
MCHelp ==
    <<[kind |-> "title"], Line({"-i"}, "nothing"), [kind |-> "code"],
      Line({"-vec", "--vectorize"}, "nothing"), Line({"-vs"}, "number"),
      Line({"-lang"}, "lang"), Line({"-cn"}, "name"), [kind |-> "title"],
      Line({"-svg"}, "nothing")>>

MCClean ==
    [w \in {"-vec", "--vectorize", "-vs", "-lang", "-cn", "-i", "32", "cpp", "c.p", "-v_ec", "%"} |->
        CASE w = "-v_ec" -> "-vec" [] w = "%" -> "" [] OTHER -> w]

Plain == [declares |-> FALSE]
Declares(words) == [declares |-> TRUE, words |-> words]
MCSources ==
    {<<Plain, Declares(words), Declares(<<"-cn">>)>> : words \in
        {<<>>, <<"-vs", "32">>, <<"-vs", "cpp", "-vec">>, <<"-vs">>, <<"-lang", "cpp", "-vec">>,
         <<"-lang", "-vec">>, <<"-cn", "-vec">>, <<"-vs", "-vs", "32">>,
         <<"-lang", "c.p", "-vec">>, <<"%", "-v_ec">>, <<"--vectorize", "-i">>}}
    \cup {<<Plain, Plain, Declares(<<"-vec">>)>>}

-----------------------------------------------------------------------------
(* URLs: names that are those of other routes, and lengths around 100.     *)

MCSvgs == {"process.svg", "long50.svg", "long54.svg", "long55.svg"}
MCPages ==
    {<<"index.html">>, <<"index.js">>, <<"dir", "index.css">>, <<"svg", "a.svg">>,
     <<"webapp", "a.js">>, <<"a.wasm">>, <<"targets", "x.json">>, <<"web", "pwa", "b.js">>,
     <<"d1", "webapp", "a.js">>, <<"d1", "d2", "d3", "long50.js">>}
MCTargets ==
    {<<"linux", "alsa">>, <<"web", "pwa">>, <<"web", "wasm">>, <<"diagram2", "svg">>,
     <<"android", "android">>}
Components ==
    {"k1", "k2", "", "generated.cpp", "errors.log", "user_code.dsp", "signals.svg", "tasks.svg",
     "svg.zip", "webapp.zip", "filename", "webapp", "svg", "diagram", "binary.zip",
     "binary.apk", "installer.sh", "precompile", "compile", "filepost", "pwa-poly"}
    \cup MCSvgs \cup UNION {Range(p) : p \in MCPages \cup MCTargets}
Named50 == {"long50.svg", "long50.js"}
MCLength ==
    [c \in Components |->
        CASE c \in {"k1", "k2"} -> 40 [] c \in Named50 -> 50
          [] c = "long54.svg" -> 54 [] c = "long55.svg" -> 55
          [] c = "webapp" -> 6 [] c = "" -> 0 [] OTHER -> 8]
MCExtension ==
    [c \in Components |->
        CASE c \in {"a.svg", "signals.svg", "tasks.svg"} \cup MCSvgs -> ".svg"
          [] c \in {"index.js", "a.js", "b.js", "long50.js"} -> ".js"
          [] c = "index.css" -> ".css" [] c = "a.wasm" -> ".wasm" [] c = "x.json" -> ".json"
          [] c = "index.html" -> ".html" [] OTHER -> ""]
MCWeb == {c \in Components : MCExtension[c] \in {".js", ".css", ".wasm", ".json"}}
MCArtifact == [t \in MCTargets |-> IF t[1] = "android" THEN "binary.apk" ELSE "binary.zip"]

-----------------------------------------------------------------------------
(* Directories of makefiles: platforms with 0 to 2, in any order.          *)

Os(name, architectures) == [name |-> name, architectures |-> architectures]
Platforms(name) == {Os(name, <<>>), Os(name, <<"a">>), Os(name, <<"a", "b">>)}
MCMakefiles ==
    {<<>>} \cup {<<p>> : p \in Platforms("p")}
    \cup {<<p, q>> : p \in Platforms("p"), q \in Platforms("q")}
    \cup {<<p, q, r>> : p \in Platforms("p"), q \in Platforms("q"), r \in Platforms("r")}

-----------------------------------------------------------------------------
PartsInit ==
    /\ ArchiveInit /\ OptionsInit /\ ProcessInit /\ Init
    /\ subject \in {"archive", "options", "routes", "json", "processes", "cache"}
    /\ IF subject = "routes" THEN RouteInit
       ELSE /\ asked = [method |-> "GET", key |-> "", url |-> <<>>]
            /\ expected = Sends("ask", <<>>)
    /\ IF subject = "json" THEN JsonInit
       ELSE /\ dir = <<>> /\ entries = 0 /\ printed = <<>> /\ text = <<>>
            /\ next = 1 /\ state = "printing" /\ found = <<>>

PartsNext ==
    /\ UNCHANGED subject
    /\ \/ /\ subject = "archive" /\ ArchiveNext
          /\ UNCHANGED <<optionVars, routeVars, jsonVars, processVars, vars>>
       \/ /\ subject = "options" /\ OptionsNext
          /\ UNCHANGED <<archiveVars, routeVars, jsonVars, processVars, vars>>
       \/ /\ subject = "routes" /\ RouteNext
          /\ UNCHANGED <<archiveVars, optionVars, jsonVars, processVars, vars>>
       \/ /\ subject = "json" /\ JsonNext
          /\ UNCHANGED <<archiveVars, optionVars, routeVars, processVars, vars>>
       \/ /\ subject = "processes" /\ ProcessNext
          /\ UNCHANGED <<archiveVars, optionVars, routeVars, jsonVars, vars>>
       \/ /\ subject = "cache" /\ Next
          /\ UNCHANGED <<archiveVars, optionVars, routeVars, jsonVars, processVars>>

PartsSpec ==
    PartsInit /\ [][PartsNext]_partVars /\ (subject = "processes" => ProcessFairness)

=============================================================================
