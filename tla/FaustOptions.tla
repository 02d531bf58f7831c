---------------------------- MODULE FaustOptions ----------------------------
(***************************************************************************)
(* The options that a Faust program declares for its own compilation       *)
(* (src/faustOptions.cpp): they are extracted from the program, filtered   *)
(* with the table of options that faust -h prints, and put before the name *)
(* of the program in the command lines of faust.  The table is filled by   *)
(* whichever threads need it while it is not known to be filled, with no   *)
(* lock; one action is one line of the help, or one word of the options,   *)
(* and two for a line that inserts names: other threads run in between.    *)
(***************************************************************************)
EXTENDS Naturals, SequencesExt

CONSTANTS
    Compilers,  \* threads that validate an upload
    Help,       \* the lines of faust -h
    Sources,    \* the programs, as sequences of lines
    MaxLines,   \* MAX_LINES_TO_CHECK
    Clean,      \* what the character filter leaves of each word, "" for nothing
    Numbers,    \* clean words made of digits, dots and dashes, not too long
    Names       \* clean words made of letters, digits and dashes, not too long

(* A line of the help is the title of a section, "code" for the one that    *)
(* counts, or gives an option under some names with what follows it.  A     *)
(* line of a program declares options or not: one that is too long, or has  *)
(* a suspicious pattern, does not.                                          *)
Follows == {"nothing", "number", "lang", "name"}
ASSUME HelpAssumption ==
    /\ Help \in Seq(Range(Help))
    /\ \A i \in DOMAIN Help :
          Help[i].kind \in {"code", "title", "other"} \/ Help[i].follows \in Follows
ASSUME SourceAssumption ==
    \A source \in Sources :
        /\ source \in Seq(Range(source))
        /\ \A i \in DOMAIN source :
              source[i].declares => source[i].words \in Seq(DOMAIN Clean)

VARIABLES
    table,          \* the three sets of options, by what follows them
    initialized,    \* g_options_initialized
    compiler,       \* for each thread: its words, what it keeps of them, ...
    damaged         \* history: a set was written while another thread used it

optionVars == <<table, initialized, compiler, damaged>>

-----------------------------------------------------------------------------
\* extractFaustOptions: the first declaration of the first lines.
Extract(source) ==
    LET found == {i \in DOMAIN source : i <= MaxLines /\ source[i].declares} IN
    IF found = {} THEN <<>>
    ELSE FoldLeft(LAMBDA words, w : IF Clean[w] = "" THEN words ELSE Append(words, Clean[w]),
                  <<>>, source[CHOOSE i \in found : \A j \in found : i <= j].words)

Idle == [pc |-> "idle", declared |-> <<>>, words |-> <<>>, line |-> 0, code |-> FALSE, kept |-> <<>>,
         after |-> "nothing", sure |-> FALSE]

At(t, location) == compiler[t].pc = location

Declared(t) ==
    /\ At(t, "idle")
    /\ \E source \in Sources :
          compiler' = [compiler EXCEPT ![t] =
              [Idle EXCEPT !.pc = "table", !.words = Extract(source),
                           !.declared = Extract(source)]]
    /\ UNCHANGED <<table, initialized, damaged>>

-----------------------------------------------------------------------------
(* initializeFaustOptions.                                                 *)

TableFilled(t) ==
    /\ At(t, "table") /\ initialized
    /\ compiler' = [compiler EXCEPT ![t].pc = "filter", ![t].sure = ~damaged]
    /\ UNCHANGED <<table, initialized, damaged>>

\* Mutated: the flag says that the table is being filled.
HelpRunsMarked(t) ==
    /\ At(t, "table") /\ ~initialized
    /\ compiler' = [compiler EXCEPT ![t].pc = "help", ![t].line = 1]
    /\ initialized' = TRUE
    /\ UNCHANGED <<table, damaged>>

HelpRuns(t) ==
    /\ At(t, "table") /\ ~initialized
    /\ compiler' = [compiler EXCEPT ![t].pc = "help", ![t].line = 1]
    /\ UNCHANGED <<table, initialized, damaged>>

\* faust cannot be run: the table is used as it is.
HelpFails(t) ==
    /\ At(t, "table") /\ ~initialized
    /\ compiler' = [compiler EXCEPT ![t].pc = "filter"]
    /\ UNCHANGED <<table, initialized, damaged>>

LineOf(t) == Help[compiler[t].line]
Inserts(t) == LineOf(t).kind = "option" /\ compiler[t].code /\ LineOf(t).follows # "name"

\* A line that gives no option of the code section, or none that is allowed.
ParseLine(t) ==
    /\ At(t, "help") /\ compiler[t].line <= Len(Help) /\ ~Inserts(t)
    /\ compiler' = [compiler EXCEPT ![t].line = @ + 1,
            ![t].code = CASE LineOf(t).kind = "code" -> TRUE
                          [] LineOf(t).kind = "title" -> FALSE
                          [] OTHER -> @]
    /\ UNCHANGED <<table, initialized, damaged>>

\* std::set::insert: a set that has the names already is only read.
New(t) == ~(LineOf(t).names \subseteq table[LineOf(t).follows])
PutsNew(t, f) == At(t, "insert") /\ LineOf(t).follows = f /\ New(t)

InsertBegins(t) ==
    /\ At(t, "help") /\ compiler[t].line <= Len(Help) /\ Inserts(t)
    /\ compiler' = [compiler EXCEPT ![t].pc = "insert"]
    /\ damaged' = (damaged \/ \E u \in Compilers \ {t} :
                      /\ At(u, "insert") /\ LineOf(u).follows = LineOf(t).follows
                      /\ New(u) \/ New(t))
    /\ UNCHANGED <<table, initialized>>

\* Once two threads have written it at once, a set may lose any of its names.
InsertEnds(t) ==
    LET f == LineOf(t).follows
        all == table[f] \cup LineOf(t).names
    IN  /\ At(t, "insert")
        /\ \E left \in (IF damaged THEN SUBSET all ELSE {all}) :
               table' = [table EXCEPT ![f] = left]
        /\ compiler' = [compiler EXCEPT ![t].pc = "help", ![t].line = @ + 1]
        /\ UNCHANGED <<initialized, damaged>>

HelpParsed(t) ==
    /\ At(t, "help") /\ compiler[t].line > Len(Help)
    /\ initialized' = TRUE
    /\ compiler' = [compiler EXCEPT ![t].pc = "filter", ![t].sure = ~damaged]
    /\ UNCHANGED <<table, damaged>>

-----------------------------------------------------------------------------
(* filterFaustOptions.  After the character filter no word has a character *)
(* that its first tests look for.                                          *)

Fits(word, after) == word \in (IF after = "number" THEN Numbers ELSE Names)

Keep(t, kept, after) ==
    compiler' = [compiler EXCEPT ![t].words = Tail(@), ![t].kept = kept, ![t].after = after]

\* What follows an option is kept with it, or dropped with it.
\* Mutated: a parameter that is not valid is dropped alone.
ParameterDropped(t) ==
    /\ At(t, "filter") /\ compiler[t].words # <<>> /\ compiler[t].after # "nothing"
    /\ LET word == Head(compiler[t].words) IN
         Keep(t, IF Fits(word, compiler[t].after) THEN Append(compiler[t].kept, word)
                 ELSE compiler[t].kept, "nothing")
    /\ UNCHANGED <<table, initialized, damaged>>

Parameter(t) ==
    /\ At(t, "filter") /\ compiler[t].words # <<>> /\ compiler[t].after # "nothing"
    /\ LET word == Head(compiler[t].words) IN
         Keep(t, IF Fits(word, compiler[t].after) THEN Append(compiler[t].kept, word)
                 ELSE Front(compiler[t].kept), "nothing")
    /\ UNCHANGED <<table, initialized, damaged>>

\* The sets in which a word is found: it may be missed in one that another
\* thread is writing.
Finds(word) ==
    LET has == {f \in DOMAIN table : word \in table[f]} IN
    {found \in SUBSET has : \A f \in has \ found : \E u \in Compilers : PutsNew(u, f)}

Option(t) ==
    /\ At(t, "filter") /\ compiler[t].words # <<>> /\ compiler[t].after = "nothing"
    /\ \E found \in Finds(Head(compiler[t].words)) :
         Keep(t, IF found = {} THEN compiler[t].kept
                 ELSE Append(compiler[t].kept, Head(compiler[t].words)),
              CASE found = {} \/ "nothing" \in found -> "nothing"
                [] "number" \in found \ {"nothing"} -> "number"
                [] OTHER -> "lang")
    /\ UNCHANGED <<table, initialized, damaged>>

Filtered(t) ==
    /\ At(t, "filter") /\ compiler[t].words = <<>>
    /\ compiler' = [compiler EXCEPT ![t].pc = "done"]
    /\ UNCHANGED <<table, initialized, damaged>>

OptionsInit ==
    /\ table = [f \in {"nothing", "number", "lang"} |-> {}]
    /\ initialized = FALSE
    /\ compiler = [t \in Compilers |-> Idle]
    /\ damaged = FALSE

OptionsNext ==
    \E t \in Compilers :
        \/ Declared(t) \/ TableFilled(t) \/ HelpRuns(t) \/ HelpFails(t)
        \/ ParseLine(t) \/ InsertBegins(t) \/ InsertEnds(t) \/ HelpParsed(t)
        \/ Parameter(t) \/ Option(t) \/ Filtered(t)

OptionsSpec == OptionsInit /\ [][OptionsNext]_optionVars

-----------------------------------------------------------------------------
\* The options of the code section, said without the loop.
Section(i) == {j \in 1 .. i : Help[j].kind \in {"code", "title"}}
InCode(i) ==
    \E j \in Section(i) : Help[j].kind = "code" /\ \A k \in Section(i) : k <= j
TakesOf(f) == UNION {Help[i].names : i \in {j \in DOMAIN Help :
                  Help[j].kind = "option" /\ InCode(j) /\ Help[j].follows = f}}

(* An option has a parameter of one kind, or has none: the code looks for   *)
(* it in one set after the other.                                           *)
ASSUME UnambiguousAssumption ==
    \A f, g \in {"nothing", "number", "lang"} : f # g => TakesOf(f) \cap TakesOf(g) = {}

(* faustOptions.cpp:19, :25: the table is filled once, by parsing faust -h. *)
(* The threads that find it empty all fill it: one that was told it is     *)
(* filled, or has filled it, when no two threads had written the same set  *)
(* at once, uses the whole table from then on.  The insertions that others *)
(* are still doing cannot take a name away from it any more.               *)
TableWhole ==
    \A t \in Compilers :
        compiler[t].sure => \A f \in DOMAIN table : table[f] = TakesOf(f)

\* Options that faust reads one by one: each that takes a parameter has one,
\* save the last, and each is an option of the code section.
ReadBy(words, start) ==
    \A i \in DOMAIN words :
        IF start[i]
        THEN /\ words[i] \in UNION {TakesOf(f) : f \in {"nothing", "number", "lang"}}
             /\ i < Len(words) => (start[i + 1] <=> words[i] \in TakesOf("nothing"))
        ELSE /\ i > 1 /\ start[i - 1]
             /\ \E f \in {"number", "lang"} :
                   words[i - 1] \in TakesOf(f) /\ Fits(words[i], f)
Readable(words) == \E start \in [DOMAIN words -> BOOLEAN] : ReadBy(words, start)

(* faustOptions.cpp:119: only code generation options pass, whatever state  *)
(* the table was in when each word was looked up: no parameter is taken for *)
(* an option and no option for a parameter.  With the whole table, options  *)
(* that faust can read pass unchanged, so that filtering twice is the same  *)
(* as filtering once.                                                       *)
FilterReadable ==
    \A t \in Compilers :
        At(t, "done") =>
            /\ Readable(compiler[t].kept)
            /\ compiler[t].sure /\ Readable(compiler[t].declared) =>
                   compiler[t].kept = compiler[t].declared

=============================================================================
