------------------------------- MODULE Routes -------------------------------
(***************************************************************************)
(* Which handler answers the URL of a GET request, and which file of which *)
(* session it sends (src/serverGETConnections.cpp, src/match.cpp, and the  *)
(* first lines of makeAndSendResourceFile of src/server.cpp).  The routes  *)
(* are tried in order, and many URLs match several.                        *)
(*                                                                         *)
(* A URL is the sequence of its components after the first "/", simplified *)
(* by simplifyURL; a trailing slash is a last component "".                *)
(***************************************************************************)
EXTENDS Naturals, SequencesExt, FiniteSetsExt

CONSTANTS
    Hashes,       \* sessions
    Targets,    \* pairs of a platform and an architecture
    Svgs,       \* diagrams of a session
    Pages,      \* paths of the files of web applications
    Length,     \* the length of each component
    Extension,  \* its extension, "" for none
    Web,        \* components with .js, .wasm, .css, .json or .png somewhere
    Artifact,   \* what the makefile of a platform and architecture makes
    DebugAPI    \* --debug-api

Assets == {".svg", ".js", ".css", ".wasm", ".json", ".png", ".flac", ".wav"}
\* Names of the interface that are neither assets nor scripts of a web server.
Ordinary ==
    {"", "generated.cpp", "errors.log", "user_code.dsp", "filename", "svg.zip", "webapp.zip",
     "webapp", "binary.zip", "binary.apk", "installer.sh", "precompile", "index.html"}

ASSUME ComponentAssumption ==
    /\ Length \in [DOMAIN Length -> Nat] /\ DOMAIN Extension = DOMAIN Length
    /\ Web \subseteq DOMAIN Length
ASSUME NameAssumption ==
    /\ Ordinary \cup {"diagram", "svg", "web", "pwa", "pwa-poly"} \subseteq DOMAIN Length
    /\ Length["webapp"] = 6
    /\ \A c \in Ordinary : c \notin Web /\ Extension[c] \notin Assets \cup {".php"}
    /\ \A c \in {"signals.svg", "tasks.svg"} :
         c \in DOMAIN Length \ Web /\ Extension[c] = ".svg"
\* The 40 digits of a SHA-1.
ASSUME HashAssumption ==
    \A k \in Hashes : k \in DOMAIN Length \ (Web \cup {"webapp"}) /\ Length[k] = 40
\* The routes of diagrams come before the targets of a platform of their name.
ASSUME TargetAssumption ==
    \A t \in Targets :
        t \in (DOMAIN Length \ {"diagram", "svg"}) \X DOMAIN Length
ASSUME SvgAssumption == \A f \in Svgs : f \in DOMAIN Length /\ Extension[f] = ".svg"
\* What faust2wasm and faust2pwa make; ".js" and the like are not inside the name of an image.
ASSUME PageAssumption ==
    \A p \in Pages :
        /\ p \in Seq(DOMAIN Length) \ {<<>>}
        /\ Last(p) = "index.html" \/ Extension[Last(p)] \in Assets
        /\ Last(p) \in Web => Extension[Last(p)] # ".svg"
ASSUME DebugAssumption == DebugAPI \in BOOLEAN

VARIABLES
    asked,      \* the method and the URL of a request; for a POST, the key of the
                \* program it carries
    expected    \* history: what it should be answered with

routeVars == <<asked, expected>>

-----------------------------------------------------------------------------
(* match.cpp.                                                              *)

Same(component, pattern) == pattern \in {"*", component}

MatchURL(u, pattern) ==
    Len(u) = Len(pattern) /\ \A i \in DOMAIN u : Same(u[i], pattern[i])

MatchBeginURL(u, pattern) ==
    Len(pattern) <= Len(u) /\ \A i \in DOMAIN pattern : Same(u[i], pattern[i])

MatchExtension(u, extension) == u # <<>> /\ Extension[Last(u)] = extension

Characters(u) == FoldSeq(LAMBDA c, n : Length[c] + 1 + n, IF u = <<>> THEN 1 ELSE 0, u)

\* "/webapp/" is in the text of the URL.
WebappAt(u) == {i \in DOMAIN u : u[i] = "webapp" /\ i < Len(u)}

-----------------------------------------------------------------------------
(* What is sent: how, and which file.                                      *)

Sends(how, file) == [how |-> how, file |-> file]
NotFound == Sends("not found", <<>>)

\* makeAndSendResourceFile: the target directory and the file in it.
Makes(u) ==
    LET target == Len(u) >= 3 /\ u[2] \notin {"diagram", "svg"}
        dir == IF target THEN <<u[1], "targets", u[2], u[3]>> ELSE Front(u)
        pwa == Len(u) > 3 /\ u[2] = "web" /\ u[3] \in {"pwa", "pwa-poly"}
        file == IF pwa THEN SubSeq(u, 4, Len(u)) ELSE <<Last(u)>>
        asset == Extension[Last(u)] \in Assets
    IN  CASE asset -> Sends("file", dir \o file)
          [] ~asset /\ file = <<"precompile">> ->
               Sends("make only", dir \o <<Artifact[<<u[2], u[3]>>]>>)
          [] OTHER -> Sends("make", dir \o file)

\* The routes that come before the assets of web applications, in their order.
Route(pattern, extension, handler) ==
    [pattern |-> pattern, extension |-> extension, handler |-> handler]

Debug(page) == IF DebugAPI THEN <<Route(<<page>>, "", page)>> ELSE <<>>

ServerRoutes ==
    <<Route(<<>>, "", "ask"), Route(<<"targets">>, "", "targets"),
      Route(<<"version">>, "", "version")>>
    \o Debug("app") \o Debug("verbosity0") \o Debug("verbosity1") \o Debug("verbosity2")

SessionRoutes ==
    <<Route(<<"*", "*", "*", "installer.sh">>, "", "make"),
      Route(<<"*", "*", "*", "binary.zip">>, "", "make"),
      Route(<<"*", "*", "*", "precompile">>, "", "make"),
      Route(<<"*", "*", "*", "binary.apk">>, "", "make"),
      Route(<<"*", "diagram", "*">>, ".svg", "diagram"),
      Route(<<"*", "generated.cpp">>, "", "generated.cpp"),
      Route(<<"*", "errors.log">>, "", "errors.log"),
      Route(<<"*", "filename">>, "", "filename.txt"),
      Route(<<"*", "svg.zip">>, "", "zip"),
      Route(<<"*", "webapp.zip">>, "", "zip"),
      Route(<<"*", "svg", "*">>, ".svg", "svg")>>

FirstRoutes == ServerRoutes \o SessionRoutes

Applies(route, u) ==
    /\ MatchURL(u, route.pattern)
    /\ route.extension # "" => MatchExtension(u, route.extension)

Handled(route, u) ==
    CASE route.handler = "make" -> Makes(u)
      [] route.handler \in {"diagram", "svg"} -> Sends("file", <<u[1], "svg", u[3]>>)
      [] route.handler = "zip" -> Sends("zip", <<u[1], u[2]>>)
      [] route.handler \in {"generated.cpp", "errors.log", "filename.txt"} ->
           Sends("file", <<u[1], route.handler>>)
      [] OTHER -> Sends(route.handler, <<>>)

-----------------------------------------------------------------------------
\* Mutated: the files of applications have short URLs too.
TooLongAll(u) == Characters(u) > 100

TooLong(u) == Characters(u) > 100 /\ WebappAt(u) = {}

Asset(u) ==
    LET at == Min(WebappAt(u))
        file == SubSeq(u, at + 1, Len(u))
    IN  IF at = 1 \/ file = <<"">> THEN NotFound
        ELSE Sends("file", SubSeq(u, 1, at - 1) \o <<"webapp">> \o file)

\* The files of an application, asked for from its page.
Direct(u) == Sends("file", <<u[1], "webapp">> \o Tail(u))

LastRoutes(u) ==
    CASE DebugAPI /\ MatchURL(u, <<"sessions", "list">>) -> Sends("sessions", <<>>)
      [] MatchURL(u, <<"*", "user_code.dsp">>) -> Sends("file", u)
      [] OTHER -> NotFound

Served(u) ==
    LET first == {i \in DOMAIN FirstRoutes : Applies(FirstRoutes[i], u)} IN
    IF MatchExtension(u, ".php") \/ TooLong(u) THEN NotFound
    ELSE IF first # {} THEN Handled(FirstRoutes[Min(first)], u)
    ELSE IF MatchBeginURL(u, <<"*", "web", "pwa">>)
         \/ MatchBeginURL(u, <<"*", "web", "pwa-poly">>) THEN Makes(u)
    ELSE IF MatchURL(u, <<"*", "signals.svg">>) \/ MatchURL(u, <<"*", "tasks.svg">>)
         THEN Sends("made", u)
    ELSE IF MatchURL(u, <<"*", "webapp">>) THEN Sends("made", u \o <<"index.html">>)
    ELSE IF WebappAt(u) # {} /\ Characters(u) > 40 THEN Asset(u)
    ELSE IF \E i \in DOMAIN u : u[i] \in Web THEN Direct(u)
    ELSE LastRoutes(u)

\* dispatchPOSTConnections: the answer to a valid upload.
Posted(k, u) ==
    IF MatchURL(u, <<"compile", "*", "*", "*">>) THEN Makes(<<k>> \o Tail(u))
    ELSE Sends("key", <<k>>)

Answered ==
    IF asked.method = "GET" THEN Served(asked.url) ELSE Posted(asked.key, asked.url)

-----------------------------------------------------------------------------
(* What the README (lines 32-46, 67-87), the pages of the applications and  *)
(* the client ask for, and what they expect.                               *)
Get(u, sends) == [asked |-> [method |-> "GET", key |-> "", url |-> u], sends |-> sends]
Post(k, u, sends) == [asked |-> [method |-> "POST", key |-> k, url |-> u], sends |-> sends]
OfTarget(k, t, f) == <<k, "targets">> \o t \o <<f>>

SessionApi(k) ==
    {Get(<<k, f>>, Sends("file", <<k, f>>)) :
        f \in {"generated.cpp", "errors.log", "user_code.dsp"}}
    \cup {Get(<<k, f>>, Sends("made", <<k, f>>)) : f \in {"signals.svg", "tasks.svg"}}
    \cup {Get(<<k, f>>, Sends("zip", <<k, f>>)) : f \in {"svg.zip", "webapp.zip"}}
    \cup {Get(<<k, dir, f>>, Sends("file", <<k, "svg", f>>)) :
        dir \in {"svg", "diagram"}, f \in Svgs}
    \cup {Get(<<k, "filename">>, Sends("file", <<k, "filename.txt">>))}

\* The pages of web/pwa and web/pwa-poly are those of the targets of that name,
\* which is how the routes and the pages themselves write them.
ApplicationApi(k) ==
    {Get(<<k, "webapp">>, Sends("made", <<k, "webapp", "index.html">>))}
    \cup {Get(<<k, "webapp">> \o p, Sends("file", <<k, "webapp">> \o p)) : p \in Pages}
    \cup {Get(<<k>> \o p, Sends("file", <<k, "webapp">> \o p)) :
        p \in {q \in Pages :
            Last(q) \in Web /\ Head(q) # "web" /\ "webapp" \notin Range(Front(q))}}
    \cup {Get(<<k, "web", a>> \o p, Sends(IF Last(p) = "index.html" THEN "make" ELSE "file",
                                        <<k, "targets", "web", a>> \o p)) :
        a \in {"pwa", "pwa-poly"}, p \in Pages}

TargetApi(k) ==
    {Get(<<k>> \o t \o <<f>>, Sends("make", OfTarget(k, t, f))) :
        t \in Targets, f \in {"binary.zip", "binary.apk", "installer.sh"}}
    \cup {Get(<<k>> \o t \o <<"precompile">>, Sends("make only", OfTarget(k, t, Artifact[t]))) :
        t \in Targets}
    \cup {Post(k, <<"compile">> \o t \o <<f>>, Sends("make", OfTarget(k, t, f))) :
        t \in Targets, f \in {"binary.zip", "binary.apk"}}
    \cup {Post(k, <<"filepost">>, Sends("key", <<k>>))}

(* The README (lines 45-46) writes them after a platform and an            *)
(* architecture, and no route is for such a URL.                           *)
ReadmePage(k, t, a, p) ==
    [method |-> "GET", key |-> "", url |-> <<k, t[1], t[2], "web", a>> \o p]
ReadmePages ==
    {ReadmePage(k, t, a, p) :
        k \in Hashes, t \in {target \in Targets : target[1] # "web"},
        a \in {"pwa", "pwa-poly"}, p \in Pages}

Requests ==
    (UNION {SessionApi(k) \cup ApplicationApi(k) \cup TargetApi(k) : k \in Hashes})
    \cup {[asked |-> r, sends |-> NotFound] : r \in ReadmePages}

RouteInit == \E r \in Requests : asked = r.asked /\ expected = r.sends

\* Another request.
RouteNext == \E r \in Requests : asked' = r.asked /\ expected' = r.sends

RouteSpec == RouteInit /\ [][RouteNext]_routeVars

(* serverGETConnections.cpp: every URL of the interface reaches its own     *)
(* handler, which looks for the file where the session has it, whatever the *)
(* names of the platforms, of the diagrams and of the files of the          *)
(* applications; up to 100 characters save for applications.  The URLs of   *)
(* README.md:45-46 are not of this interface: they are not found, or taken  *)
(* for a file of a web application, and make nothing.                       *)
ApiServed ==
    IF asked \in ReadmePages
    THEN \/ Answered \in {NotFound, Direct(asked.url)}
         \/ WebappAt(asked.url) # {} /\ Answered = Asset(asked.url)
    ELSE Characters(asked.url) <= 100 \/ "webapp" \in Range(asked.url) => Answered = expected

=============================================================================
