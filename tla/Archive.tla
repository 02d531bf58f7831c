------------------------------- MODULE Archive -------------------------------
(***************************************************************************)
(* The extraction of an uploaded archive by validate_faust (src/server.cpp)*)
(* into sourcecode/, up to the copies of its program and of its files to   *)
(* the session (src/content.cpp).  One action reads one entry.             *)
(*                                                                         *)
(* A path is the sequence of its components, as fs::path iterates on them: *)
(* "/" first for an absolute one, "" last after a trailing slash.  What is *)
(* written is counted in buffers.  An archive that cannot be read further  *)
(* is one that ends there.                                                 *)
(***************************************************************************)
EXTENDS Naturals, FiniteSets, SequencesExt

CONSTANTS
    Entries,        \* the entries clients put in archives
    Programs,       \* the names that isSecureFilename accepts, in .dsp,
    Libraries,      \* and in .lib, .wav and .zip
    Copied,         \* the names in .dsp, .lib, .wav and .flac, accepted or not
    MacNames,       \* the names that begin with __MACOSX
    MaxExtracted,   \* MAX_EXTRACTED_SIZE
    MaxEntries,     \* MAX_ENTRIES
    MaxRead         \* bound of the model: entries in an archive

Kinds == {"file", "directory", "link"}

ASSUME EntryAssumption ==
    \A e \in Entries :
        e.kind \in Kinds /\ e.path \in Seq(STRING) \ {<<>>} /\ e.size \in Nat
ASSUME LimitAssumption == MaxExtracted \in Nat /\ MaxEntries \in Nat

VARIABLES
    read,       \* history: the entries read
    kept,       \* entry_count
    size,       \* total_extracted
    programs,   \* dsp_files
    main,       \* main_dsp_filename
    files,      \* the size of each file of sourcecode/
    dirs,       \* its directories
    stage

archiveVars == <<read, kept, size, programs, main, files, dirs, stage>>

-----------------------------------------------------------------------------
Substitutes == {"toolong.dsp", "toomanyentries.dsp", "toobig.dsp", "multi.dsp", "empty.dsp"}
EmptyName == ""
Secure == Programs \cup Libraries

\* Where a path leads: "." and a trailing slash change nothing.
Place(path) ==
    FoldLeft(LAMBDA place, c : IF c \in {".", EmptyName} THEN place ELSE Append(place, c),
             <<>>, path)

\* Every directory on the way to a place.
Above(place) == {SubSeq(place, 1, n) : n \in 0 .. Len(place) - 1}

\* A file takes the place of a directory.
Blocked(places) == places \cap DOMAIN files # {}

IsProgram(e) == Last(e.path) \in Programs

\* Entries that are passed over: outside of sourcecode/ or not plain, with a
\* name that is not accepted, or of a Mac.
Skipped(e) ==
    \/ Head(e.path) = "/" \/ ".." \in Range(e.path) \/ e.kind = "link"
    \/ Last(e.path) \notin Secure \cup {EmptyName}
    \/ Head(e.path) \in MacNames

ASSUME FileNameAssumption ==
    /\ Programs \cap Libraries = {} /\ Libraries \cap Substitutes = {}
    /\ Programs \cup Substitutes \subseteq Copied
    /\ {EmptyName, ".", ".."} \cap Secure = {}

\* libarchive takes a file with a trailing slash for a directory.
ASSUME SlashAssumption ==
    \A e \in Entries : e.kind = "file" => Last(e.path) # EmptyName

-----------------------------------------------------------------------------
(* The loop on the entries.                                                *)

AddFile(place, n) ==
    files' = [p \in DOMAIN files \cup {place} |-> IF p = place THEN n ELSE files[p]]

Replace(name) ==
    /\ files' = [p \in {<<name>>} |-> 0]
    /\ dirs' = {<<>>}
    /\ main' = name
    /\ stage' = "copy"

TookTooLong ==
    /\ stage = "reading" /\ Len(read) < MaxRead
    /\ Replace("toolong.dsp")
    /\ UNCHANGED <<read, kept, size, programs>>

\* The limit is tested before the entry is known to be one that counts.
TooMany(e) ==
    /\ stage = "reading" /\ Len(read) < MaxRead
    /\ kept = MaxEntries
    /\ read' = Append(read, e)
    /\ Replace("toomanyentries.dsp")
    /\ UNCHANGED <<kept, size, programs>>

\* Mutated: what is passed over counts.
SkipCounted(e) ==
    /\ stage = "reading" /\ Len(read) < MaxRead
    /\ kept < MaxEntries /\ Skipped(e)
    /\ read' = Append(read, e)
    /\ kept' = kept + 1
    /\ UNCHANGED <<size, programs, main, files, dirs, stage>>

Skip(e) ==
    /\ stage = "reading" /\ Len(read) < MaxRead
    /\ kept < MaxEntries /\ Skipped(e)
    /\ read' = Append(read, e)
    /\ UNCHANGED <<kept, size, programs, main, files, dirs, stage>>

KeepEntry(e) ==
    /\ stage = "reading" /\ Len(read) < MaxRead
    /\ kept < MaxEntries /\ ~Skipped(e)
    /\ read' = Append(read, e)
    /\ kept' = kept + 1
    /\ programs' = IF IsProgram(e) THEN Append(programs, Last(e.path)) ELSE programs

Named(e) == main' = IF main = EmptyName /\ IsProgram(e) THEN Last(e.path) ELSE main

MakeDirectory(e) ==
    /\ e.kind = "directory" /\ KeepEntry(e) /\ Named(e)
    /\ LET places == Above(Place(e.path)) \cup {Place(e.path)} IN
         IF Blocked(places)
         THEN stage' = "error" /\ UNCHANGED dirs
         ELSE dirs' = dirs \cup places /\ UNCHANGED stage
    /\ UNCHANGED <<size, files>>

\* Mutated: the declared sizes are not added up.
RoomEach == MaxExtracted

Room == MaxExtracted - size

\* What is written of a file: nothing if a directory is there, and no more than
\* the limit leaves.  The bytes count wherever they go.
ExtractFile(e) ==
    /\ e.kind = "file" /\ KeepEntry(e)
    /\ LET place == Place(e.path)
           written == IF e.size <= Room THEN e.size ELSE Room
       IN  IF Blocked(Above(place))
           THEN stage' = "error" /\ Named(e) /\ UNCHANGED <<size, files, dirs>>
           ELSE /\ size' = size + written
                /\ IF written < e.size
                   THEN Replace("toobig.dsp")
                   ELSE /\ Named(e)
                        /\ dirs' = dirs \cup Above(place)
                        /\ IF place \in dirs THEN UNCHANGED files
                           ELSE AddFile(place, written)
                        /\ UNCHANGED stage

-----------------------------------------------------------------------------
(* After the loop.  A program that replaces the others cannot be written    *)
(* where a directory is: the upload is refused when it is copied.           *)

\* Mutated: of several programs the first is taken.
EndOfArchiveFirst ==
    /\ stage = "reading"
    /\ IF main = EmptyName
       THEN /\ IF <<"empty.dsp">> \in dirs THEN UNCHANGED files ELSE AddFile(<<"empty.dsp">>, 0)
            /\ main' = "empty.dsp"
       ELSE UNCHANGED <<files, main>>
    /\ stage' = "copy"
    /\ UNCHANGED <<read, kept, size, programs, dirs>>

EndOfArchive ==
    /\ stage = "reading"
    /\ \/ Len(programs) > 1 /\ Replace("multi.dsp")
       \/ /\ Len(programs) <= 1 /\ main = EmptyName
          /\ IF <<"empty.dsp">> \in dirs THEN UNCHANGED files ELSE AddFile(<<"empty.dsp">>, 0)
          /\ main' = "empty.dsp" /\ stage' = "copy" /\ UNCHANGED dirs
       \/ /\ Len(programs) <= 1 /\ main # EmptyName
          /\ stage' = "copy" /\ UNCHANGED <<files, dirs, main>>
    /\ UNCHANGED <<read, kept, size, programs>>

\* The program is looked for at the top of sourcecode/.
CopyUserCode ==
    /\ stage = "copy"
    /\ stage' = IF <<main>> \in DOMAIN files THEN "basic" ELSE "invalid"
    /\ UNCHANGED <<read, kept, size, programs, main, files, dirs>>

\* copyFaustOrAudioFiles copies what has a Faust or audio extension, whatever the
\* rest of its name: it throws on a directory, and on a file that the session has.
BasicFiles ==
    /\ stage = "basic"
    /\ LET top == {n \in Secure : <<n>> \in DOMAIN files} \cup {main}
           odd == {n \in Copied : <<n>> \in dirs}
       IN  stage' = IF odd # {} \/ "user_code.dsp" \in top THEN "error" ELSE "done"
    /\ UNCHANGED <<read, kept, size, programs, main, files, dirs>>

ArchiveInit ==
    /\ read = <<>> /\ kept = 0 /\ size = 0
    /\ programs = <<>> /\ main = EmptyName
    /\ files = [p \in {} |-> 0] /\ dirs = {<<>>}
    /\ stage = "reading"

ArchiveNext ==
    \/ \E e \in Entries : TooMany(e) \/ Skip(e) \/ MakeDirectory(e) \/ ExtractFile(e)
    \/ TookTooLong \/ EndOfArchive \/ CopyUserCode \/ BasicFiles

ArchiveSpec == ArchiveInit /\ [][ArchiveNext]_archiveVars

-----------------------------------------------------------------------------
(* The makefiles and the diagrams need sources with one .dsp file: when the *)
(* session is made there is exactly one, at the top of sourcecode/, and it *)
(* is the main program, whatever was in the archive and in which order, and *)
(* whichever program replaced it.                                          *)
OneProgram ==
    stage = "done" =>
        {p \in DOMAIN files : Last(p) \in Programs \cup Substitutes} = {<<main>>}

Total(sizes) == FoldSet(LAMBDA p, sum : sizes[p] + sum, 0, DOMAIN sizes)

(* server.cpp:252-254: the limits hold at every moment, whatever an archive *)
(* says of its sizes and however often it writes to one file.              *)
LimitsHold ==
    /\ size <= MaxExtracted /\ kept <= MaxEntries
    /\ Total(files) <= size
    /\ Cardinality(DOMAIN files) <= IF stage = "reading" THEN kept ELSE kept + 1

(* What becomes of an archive, said without the loop.                      *)
Counted == {i \in DOMAIN read : ~Skipped(read[i])}
Sizes == [i \in Counted |-> IF read[i].kind = "file" THEN read[i].size ELSE 0]
NamesProgram == {i \in Counted : IsProgram(read[i])}
Cut == read # <<>> /\ Cardinality(Counted \ {Len(read)}) >= MaxEntries
Verdict ==
    CASE Cut -> "toomanyentries.dsp"
      [] ~Cut /\ Total(Sizes) > MaxExtracted -> "toobig.dsp"
      [] ~Cut /\ Total(Sizes) <= MaxExtracted /\ Cardinality(NamesProgram) > 1 -> "multi.dsp"
      [] ~Cut /\ Total(Sizes) <= MaxExtracted /\ NamesProgram = {} -> "empty.dsp"
      [] OTHER -> Last(read[CHOOSE i \in NamesProgram : TRUE].path)

(* server.cpp:261-419: the program of the session follows from the entries *)
(* that count, unless the machine was slow: the limits come first, then    *)
(* several programs, then none.  Entries that are passed over change       *)
(* nothing, save one that comes after MaxEntries entries were kept.        *)
VerdictFollows ==
    stage \in {"copy", "basic", "invalid", "done"} /\ main # "toolong.dsp" => main = Verdict

=============================================================================
