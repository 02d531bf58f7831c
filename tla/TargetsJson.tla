----------------------------- MODULE TargetsJson -----------------------------
(***************************************************************************)
(* The list of targets: the constructor of FaustServer prints it from the  *)
(* makefiles directory (src/server.cpp), /targets sends it, and the client *)
(* parses it (src/client/JsonParser.cpp).  A text is a sequence of tokens; *)
(* the transfer may be cut short.                                          *)
(***************************************************************************)
EXTENDS Naturals, Sequences, FiniteSets

CONSTANTS
    Makefiles   \* the makefiles directories: for each entry, in the order in which
                \* the directory is read, its name and its architectures, sorted;
                \* an entry that is no directory has none

ASSUME MakefileAssumption ==
    \A d \in Makefiles : d \in Seq([name : STRING, architectures : Seq(STRING)])

VARIABLES
    dir,        \* the makefiles directory
    entries,    \* how many of its entries the constructor has read
    printed,    \* fTargets, the text it prints
    text,       \* what the client has received of it
    next,       \* p, the token the parser is at
    state,      \* what it expects there, or what the server does before it
    found       \* the map it fills, as a sequence of platforms

jsonVars == <<dir, entries, printed, text, next, state, found>>

-----------------------------------------------------------------------------
(* The constructor.                                                        *)

Quoted(name) == [quoted |-> TRUE, text |-> name]
Mark(m) == [quoted |-> FALSE, text |-> m]
OpenBrace == Mark("{")
CloseBrace == Mark("}")
OpenBracket == Mark("[")
CloseBracket == Mark("]")
Colon == Mark(":")
Comma == Mark(",")

\* The names, with commas between them.
Listed(names) ==
    [i \in 1 .. 2 * Len(names) - 1 |->
        IF i % 2 = 1 THEN Quoted(names[(i + 1) \div 2]) ELSE Comma]

Platform(os) ==
    <<Quoted(os.name), Colon, OpenBracket>> \o Listed(os.architectures) \o <<CloseBracket>>

\* There is no comma before the first platform.
Separator == IF Len(printed) = 1 THEN <<>> ELSE <<Comma>>

JsonInit ==
    /\ dir \in Makefiles
    /\ entries = 0 /\ printed = <<OpenBrace>>
    /\ state = "printing"
    /\ text = <<>> /\ next = 1 /\ found = <<>>

\* Mutated: a platform with no makefile is printed too.
PrintAnyEntry ==
    /\ state = "printing" /\ entries < Len(dir)
    /\ entries' = entries + 1
    /\ printed' = printed \o Separator \o Platform(dir[entries + 1])
    /\ UNCHANGED <<dir, text, next, state, found>>

PrintEntry ==
    /\ state = "printing" /\ entries < Len(dir)
    /\ entries' = entries + 1
    /\ printed' = IF dir[entries + 1].architectures = <<>> THEN printed
                  ELSE printed \o Separator \o Platform(dir[entries + 1])
    /\ UNCHANGED <<dir, text, next, state, found>>

PrintEnd ==
    /\ state = "printing" /\ entries = Len(dir)
    /\ printed' = Append(printed, CloseBrace)
    /\ state' = "printed"
    /\ UNCHANGED <<dir, entries, text, next, found>>

\* GET /targets: the connection may break at any point, and the client parses what
\* it has unless libcurl knows, from a length that was announced, that it is cut.
Transfer ==
    /\ state = "printed"
    /\ \E n \in 0 .. Len(printed) : text' = SubSeq(printed, 1, n)
    /\ state' = "{"
    /\ UNCHANGED <<dir, entries, printed, next, found>>

-----------------------------------------------------------------------------
(* The parser.                                                             *)

Is(token) == next <= Len(text) /\ text[next] = token
IsString == next <= Len(text) /\ text[next].quoted

\* parseChar.  Whether the first token is there is not looked at.
Begin ==
    /\ state = "{"
    /\ next' = IF Is(OpenBrace) THEN next + 1 ELSE next
    /\ state' = "platform"
    /\ UNCHANGED <<dir, entries, printed, text, found>>

\* parseChar: a token that must be there.
Expect(token, location, then) ==
    /\ state = location
    /\ IF Is(token)
       THEN next' = next + 1 /\ state' = then
       ELSE state' = "failed" /\ UNCHANGED next
    /\ UNCHANGED <<dir, entries, printed, text, found>>

ParsePlatform ==
    /\ state = "platform"
    /\ IF IsString
       THEN /\ found' = Append(found, [name |-> text[next].text, architectures |-> <<>>])
            /\ next' = next + 1 /\ state' = ":"
       ELSE state' = "failed" /\ UNCHANGED <<next, found>>
    /\ UNCHANGED <<dir, entries, printed, text>>

ParseArchitecture ==
    /\ state = "architecture"
    /\ IF IsString
       THEN /\ found' = [found EXCEPT ![Len(found)].architectures = Append(@, text[next].text)]
            /\ next' = next + 1 /\ state' = "more architectures"
       ELSE state' = "failed" /\ UNCHANGED <<next, found>>
    /\ UNCHANGED <<dir, entries, printed, text>>

\* tryChar: a comma, and one more, or the closing token.
TryComma(location, more, end) ==
    /\ state = location
    /\ IF Is(Comma) THEN next' = next + 1 /\ state' = more
       ELSE state' = end /\ UNCHANGED next
    /\ UNCHANGED <<dir, entries, printed, text, found>>

ParseColon == Expect(Colon, ":", "[")
OpenArchitectures == Expect(OpenBracket, "[", "architecture")
MoreArchitectures == TryComma("more architectures", "architecture", "]")
CloseArchitectures == Expect(CloseBracket, "]", "more platforms")
MorePlatforms == TryComma("more platforms", "platform", "}")
End == Expect(CloseBrace, "}", "parsed")

JsonNext ==
    \/ PrintEntry \/ PrintEnd \/ Transfer
    \/ Begin \/ ParsePlatform \/ ParseColon
    \/ OpenArchitectures \/ ParseArchitecture \/ MoreArchitectures \/ CloseArchitectures
    \/ MorePlatforms \/ End

JsonSpec == JsonInit /\ [][JsonNext]_jsonVars

-----------------------------------------------------------------------------
(* JsonParser.cpp:30-35: "Returns true if parsing was successfull".  The    *)
(* client gets the targets that the server has, all of them, and never a    *)
(* part of them for the whole: the parse succeeds on the whole text of a    *)
(* server that has a makefile, and on no other.                             *)
WithMakefile(d, n) == {i \in 1 .. n : d[i].architectures # <<>>}

\* The platforms of list are the first n entries of d that have a makefile.
Advertises(d, n, list) ==
    /\ Len(list) = Cardinality(WithMakefile(d, n))
    /\ \A i \in WithMakefile(d, n) : list[Cardinality(WithMakefile(d, i))] = d[i]

ParsesWhole ==
    /\ state = "parsed" => text = printed /\ Advertises(dir, Len(dir), found)
    /\ state = "failed" => text # printed \/ WithMakefile(dir, Len(dir)) = {}

=============================================================================
