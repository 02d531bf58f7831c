----------------------------- MODULE PartsProofs -----------------------------
(***************************************************************************)
(* Proofs about the parts of the server that share no state: Archive,      *)
(* FaustOptions, TargetsJson, Processes and Routes.                        *)
(***************************************************************************)
EXTENDS Archive, FaustOptions, TargetsJson, Processes, Routes, KeyListProofs,
        SequenceTheorems, TLAPS

-----------------------------------------------------------------------------
(* Folds over finite sets, which is what FoldLeft and FoldSet are: they take *)
(* the elements in an order that CHOOSE gives.                             *)

First(s) == CHOOSE x \in s : TRUE

LEMMA FirstIsElement == ASSUME NEW s, s # {} PROVE First(s) \in s
BY DEF First

LEMMA SmallestSet ==
    ASSUME NEW S, IsFiniteSet(S), NEW B \in SUBSET SUBSET S, B # {}
    PROVE  \E m \in B : \A s \in B : ~(s \subseteq m /\ s # m)
<1>1. B \subseteq FiniteSubsetsOf(S)
  BY FS_Subset DEF FiniteSubsetsOf
<1>2. IsWellFoundedOn(StrictSubsetOrdering(S), FiniteSubsetsOf(S))
  BY FS_StrictSubsetOrderingWellFounded
<1>3. PICK m \in B : \A s \in B : <<s, m>> \notin StrictSubsetOrdering(S)
  BY <1>1, <1>2, WFMin
<1> QED
  BY <1>3 DEF StrictSubsetOrdering

\* What a fold that takes the elements of a set in the order of c gives on its subsets.
Folds(S, base, h, c, g) ==
    \A s \in SUBSET S : g[s] = IF s = {} THEN base ELSE h[c[s]][g[s \ {c[s]}]]

LEMMA FoldsExist ==
    ASSUME NEW S, IsFiniteSet(S), NEW V, NEW base \in V, NEW h \in [S -> [V -> V]],
           NEW c, \A s \in SUBSET S : s # {} => c[s] \in s
    PROVE  \E g \in [SUBSET S -> V] : Folds(S, base, h, c, g)
<1> DEFINE Step(g, s) == IF s = {} THEN base ELSE h[c[s]][g[s \ {c[s]}]]
           Upto(n) == \E g \in [SUBSET S -> V] :
                         \A s \in SUBSET S : Cardinality(s) <= n => g[s] = Step(g, s)
           Bad == {n \in Nat : ~Upto(n)}
<1>1. \A s \in SUBSET S : IsFiniteSet(s) /\ Cardinality(s) \in Nat
  BY FS_Subset, FS_CardinalityType
<1>2. ASSUME NEW s \in SUBSET S, s # {}
      PROVE  /\ c[s] \in S /\ s \ {c[s]} \in SUBSET S
             /\ Cardinality(s \ {c[s]}) = Cardinality(s) - 1
  BY <1>1, <1>2, FS_RemoveElement
<1>3. ASSUME NEW s \in SUBSET S, NEW g \in [SUBSET S -> V] PROVE Step(g, s) \in V
  <2>1. CASE s = {}
    BY <2>1
  <2>2. CASE s # {}
    <3>1. h[c[s]] \in [V -> V] /\ g[s \ {c[s]}] \in V
      BY <1>2, <2>2
    <3> QED
      BY <2>2, <3>1
  <2> QED
    BY <2>1, <2>2
<1> HIDE DEF Step
<1>4. Upto(0)
  <2> DEFINE g == [s \in SUBSET S |-> base]
  <2>1. \A s \in SUBSET S : Cardinality(s) <= 0 => s = {}
    BY <1>1, FS_EmptySet
  <2>2. g \in [SUBSET S -> V] /\ \A s \in SUBSET S : Cardinality(s) <= 0 => g[s] = Step(g, s)
    BY <2>1 DEF Step
  <2> QED
    BY <2>2
<1>5. ASSUME NEW n \in Nat, Upto(n) PROVE Upto(n + 1)
  <2>1. PICK g \in [SUBSET S -> V] :
            \A s \in SUBSET S : Cardinality(s) <= n => g[s] = Step(g, s)
    BY <1>5
  <2> DEFINE after == [s \in SUBSET S |-> IF Cardinality(s) <= n THEN g[s] ELSE Step(g, s)]
  <2>2. after \in [SUBSET S -> V]
    BY <1>3
  <2>3. ASSUME NEW s \in SUBSET S, Cardinality(s) <= n + 1 PROVE after[s] = Step(after, s)
    <3>1. after[s] = Step(g, s)
      BY <2>1
    <3>2. CASE s = {}
      BY <3>1, <3>2 DEF Step
    <3>3. CASE s # {}
      <4>1. Cardinality(s \ {c[s]}) <= n /\ s \ {c[s]} \in SUBSET S
          <5>1. Cardinality(s) \in Nat /\ Cardinality(s \ {c[s]}) = Cardinality(s) - 1
          BY <1>1, <1>2, <3>3
        <5> QED
          BY <1>2, <2>3, <3>3, <5>1
      <4>2. after[s \ {c[s]}] = g[s \ {c[s]}]
        BY <4>1
      <4> HIDE DEF after
      <4> QED
        BY <3>1, <3>3, <4>2 DEF Step
    <3> QED
      BY <3>2, <3>3
  <2> HIDE DEF after
  <2> QED
    BY <2>2, <2>3
<1> HIDE DEF Upto
<1>6. Bad = {}
  <2> SUFFICES ASSUME Bad # {} PROVE FALSE
    OBVIOUS
  <2>1. PICK m \in Bad : \A n \in Bad : m <= n
    BY SmallestExists
  <2>2. m \in Nat /\ ~Upto(m)
    BY <2>1
  <2>3. m # 0
    BY <1>4, <2>2
  <2>4. m - 1 \in Nat /\ m - 1 \notin Bad /\ (m - 1) + 1 = m
    BY <2>1, <2>2, <2>3
  <2>5. Upto(m - 1)
    BY <2>4
  <2> QED
    BY <1>5, <2>2, <2>4, <2>5
<1>7. Upto(Cardinality(S))
  BY <1>1, <1>6
<1>8. PICK g \in [SUBSET S -> V] :
          \A s \in SUBSET S : Cardinality(s) <= Cardinality(S) => g[s] = Step(g, s)
  BY <1>7 DEF Upto
<1>9. \A s \in SUBSET S : Cardinality(s) <= Cardinality(S)
  BY FS_Subset
<1> QED
  BY <1>8, <1>9 DEF Folds, Step

LEMMA GreatestExists ==
    ASSUME NEW n \in Nat, NEW s \in SUBSET (1 .. n), s # {}
    PROVE  Max(s) \in s /\ \A j \in s : Max(s) >= j
<1> DEFINE T == {n - x : x \in s}
<1>0. \A x \in s : x \in Nat /\ n - x \in Nat
  OBVIOUS
<1>1. T # {} /\ T \in SUBSET Nat
  BY <1>0
<1>2. PICK m \in T : \A k \in T : m <= k
  <2> HIDE DEF T
  <2> QED
    BY <1>1, SmallestExists
<1>3. PICK x \in s : m = n - x
  BY <1>2
<1>4. \A j \in s : x >= j
  <2> SUFFICES ASSUME NEW j \in s PROVE x >= j
    OBVIOUS
  <2>1. n - j \in T
    OBVIOUS
  <2>2. n - x <= n - j /\ x \in Nat /\ j \in Nat
    BY <1>0, <1>2, <1>3, <2>1
  <2> QED
    BY <2>2
<1> QED
  BY <1>3, <1>4 DEF Max

-----------------------------------------------------------------------------
(***************************************************************************)
(* Archive, for any entries, any names and any limits.                     *)
(***************************************************************************)

DspNames == Programs \cup Substitutes
ProgramFiles == {p \in DOMAIN files : Last(p) \in DspNames}
Found == Len(programs)
AtMostOne == \A p, q \in ProgramFiles : p = q

(* While entries are read, dsp_files counts every program that may be in    *)
(* sourcecode/, and main_dsp_filename has a name once there is one.         *)
Reading ==
    /\ programs \in Seq(Programs)
    /\ main = EmptyName <=> Found = 0
    /\ main # EmptyName => main \in Programs
    /\ Found = 0 => ProgramFiles = {}
    /\ Found = 1 => AtMostOne

(* Then there is at most one program file, under the name that is copied    *)
(* if it is at the top.                                                    *)
Chosen ==
    /\ main \in DspNames /\ AtMostOne
    /\ stage \in {"basic", "done"} => <<main>> \in DOMAIN files

ArchiveInv ==
    /\ stage = "reading" => Reading
    /\ stage \in {"copy", "basic", "done"} => Chosen

-----------------------------------------------------------------------------
LEMMA LastOfOne == ASSUME NEW name PROVE Last(<<name>>) = name
BY DEF Last

LEMMA FoundType == Reading => Found \in Nat
BY LenProperties DEF Reading, Found

LEMMA ArchiveInitInv == ArchiveInit => ArchiveInv
<1> SUFFICES ASSUME ArchiveInit PROVE Reading /\ stage = "reading"
  BY DEF ArchiveInv
<1>1. programs \in Seq(Programs) /\ Found = 0
  BY EmptySeq DEF ArchiveInit, Found
<1>2. ProgramFiles = {}
  BY DEF ArchiveInit, ProgramFiles
<1> QED
  BY <1>1, <1>2 DEF ArchiveInit, Reading

(* A program of the server takes the place of all that was extracted.       *)
LEMMA ReplaceIsChosen ==
    ASSUME NEW name \in Substitutes, Replace(name) PROVE ArchiveInv'
<1>1. DOMAIN files' = {<<name>>} /\ main' = name /\ stage' = "copy"
  BY DEF Replace
<1> QED
  BY <1>1 DEF ArchiveInv, Chosen, AtMostOne, ProgramFiles, DspNames

(* An entry that counts, when nothing more than its place is added to the   *)
(* files.                                                                  *)
LEMMA KeepIsReading ==
    ASSUME NEW e \in Entries, stage = "reading", Reading, KeepEntry(e), Named(e),
           NEW place, DOMAIN files' \subseteq DOMAIN files \cup {place},
           place \in DOMAIN files' \ DOMAIN files /\ Last(place) \in DspNames => IsProgram(e)
    PROVE  Reading'
<1>1. ProgramFiles' \subseteq ProgramFiles \cup {place}
  BY DEF ProgramFiles
<1>2. CASE IsProgram(e)
  <2>1. Last(e.path) \in Programs /\ Last(e.path) # EmptyName
    BY <1>2, FileNameAssumption DEF IsProgram, Secure
  <2>2. programs' = Append(programs, Last(e.path))
    BY <1>2 DEF KeepEntry
  <2>3. programs' \in Seq(Programs) /\ Found' = Found + 1 /\ Found \in Nat
    BY <2>1, <2>2, AppendProperties, FoundType DEF Reading, Found
  <2>4. main' # EmptyName /\ main' \in Programs
    BY <1>2, <2>1 DEF Named, Reading
  <2>5. Found' # 0 /\ (Found' = 1 => Found = 0)
    BY <2>3
  <2>6. Found' = 1 => AtMostOne'
    BY <1>1, <2>5 DEF Reading, AtMostOne
  <2> QED
    BY <2>3, <2>4, <2>5, <2>6 DEF Reading
<1>3. CASE ~IsProgram(e)
  <2>1. ProgramFiles' \subseteq ProgramFiles
    BY <1>3 DEF ProgramFiles
  <2>2. programs' = programs /\ main' = main /\ Found' = Found
    BY <1>3 DEF KeepEntry, Named, Found
  <2> QED
    BY <2>1, <2>2 DEF Reading, AtMostOne
<1> QED
  BY <1>2, <1>3

(* A path that does not end in "." or a slash leads to its last component. *)
LEMMA PlaceIs ==
    ASSUME NEW C, NEW path \in Seq(C), path # <<>>, Last(path) \notin {".", EmptyName}
    PROVE  Last(Place(path)) = Last(path)
<1> DEFINE S == DOMAIN path
           V == Seq(C)
           Skips(x) == x \in {".", EmptyName}
           h == [i \in S |-> [v \in V |-> IF Skips(path[i]) THEN v ELSE Append(v, path[i])]]
           c == [s \in SUBSET S |-> Max(s)]
           Iterates(f) == f = [s \in SUBSET S |->
               IF s = {} THEN <<>>
               ELSE IF Skips(path[Max(s)]) THEN f[s \ {Max(s)}]
               ELSE Append(f[s \ {Max(s)}], path[Max(s)])]
           iter == CHOOSE f : Iterates(f)
<1>1. /\ S = 1 .. Len(path) /\ Len(path) \in Nat \ {0} /\ IsFiniteSet(S)
      /\ \A i \in S : path[i] \in C
  BY LenProperties, ElementOfSeq, EmptySeq, CountInterval
<1>2. h \in [S -> [V -> V]]
  <2>1. \A i \in S : \A v \in V : (IF Skips(path[i]) THEN v ELSE Append(v, path[i])) \in V
    BY <1>1, AppendProperties
  <2> HIDE DEF Skips, S, V
  <2> QED
    BY <2>1
<1>3. \A s \in SUBSET S : s # {} => c[s] = Max(s) /\ c[s] \in s
  BY <1>1, GreatestExists
<1>4. PICK g \in [SUBSET S -> V] : Folds(S, <<>>, h, c, g)
  <2>1. <<>> \in V
    OBVIOUS
  <2> HIDE DEF S, V, h, c
  <2> QED
    BY <1>1, <1>2, <1>3, <2>1, FoldsExist
<1>5. ASSUME NEW f, NEW s \in SUBSET S, f[s \ {c[s]}] \in V
      PROVE  (IF s = {} THEN <<>> ELSE h[c[s]][f[s \ {c[s]}]])
             = IF s = {} THEN <<>>
               ELSE IF Skips(path[Max(s)]) THEN f[s \ {Max(s)}]
               ELSE Append(f[s \ {Max(s)}], path[Max(s)])
  <2>1. CASE s = {}
    BY <2>1
  <2>2. CASE s # {}
    <3>1. c[s] = Max(s) /\ c[s] \in S
      BY <1>3, <2>2
    <3>2. h[c[s]] = [v \in V |-> IF Skips(path[c[s]]) THEN v ELSE Append(v, path[c[s]])]
      BY <3>1
    <3> HIDE DEF h, c, Skips, S, V
    <3> QED
      BY <1>5, <2>2, <3>1, <3>2
  <2> QED
    BY <2>1, <2>2
<1> HIDE DEF h, c
<1>6. Iterates(g)
  <2>1. \A s \in SUBSET S : g[s \ {c[s]}] \in V
    BY <1>4
  <2>2. \A s \in SUBSET S :
          g[s] = IF s = {} THEN <<>>
                 ELSE IF Skips(path[Max(s)]) THEN g[s \ {Max(s)}]
                 ELSE Append(g[s \ {Max(s)}], path[Max(s)])
    BY <1>4, <1>5, <2>1 DEF Folds
  <2> HIDE DEF S, V, Skips
  <2> QED
    BY <1>4, <2>2
<1>7. Iterates(iter)
  <2> HIDE DEF Iterates
  <2> QED
    BY <1>6
<1>8. Place(path) = iter[S]
  BY DEF Place, FoldLeft, MapThenFoldSet
<1> HIDE DEF iter
<1>9. \A s \in SUBSET S : iter[s] = g[s]
  <2>1. ASSUME NEW s \in SUBSET S, s = {} \/ iter[s \ {c[s]}] = g[s \ {c[s]}]
        PROVE  iter[s] = g[s]
    <3>1. s # {} => c[s] = Max(s)
      BY <1>3
    <3>2. iter[s] = IF s = {} THEN <<>>
                    ELSE IF Skips(path[Max(s)]) THEN iter[s \ {Max(s)}]
                    ELSE Append(iter[s \ {Max(s)}], path[Max(s)])
      <4> HIDE DEF S, Skips
      <4> QED
        BY <1>7
    <3>3. g[s] = IF s = {} THEN <<>>
                 ELSE IF Skips(path[Max(s)]) THEN g[s \ {Max(s)}]
                 ELSE Append(g[s \ {Max(s)}], path[Max(s)])
      <4> HIDE DEF S, Skips
      <4> QED
        BY <1>6
    <3> HIDE DEF S, Skips
    <3> QED
      BY <2>1, <3>1, <3>2, <3>3
  <2>2. \A s \in SUBSET S : s = {} \/ iter[s \ {c[s]}] = g[s \ {c[s]}] => iter[s] = g[s]
    BY <2>1
  <2>3. IsFiniteSet(S) /\ \A s \in SUBSET S : s # {} => c[s] \in s
    BY <1>1, <1>3
  <2> DEFINE Bad == {s \in SUBSET S : iter[s] # g[s]}
  <2> SUFFICES ASSUME Bad # {} PROVE FALSE
    OBVIOUS
  <2>4. PICK m \in Bad : \A s \in Bad : ~(s \subseteq m /\ s # m)
    <3>1. Bad \in SUBSET SUBSET S
      OBVIOUS
    <3> HIDE DEF Bad, S
    <3> QED
      BY <2>3, <3>1, SmallestSet
  <2>5. m \in SUBSET S /\ iter[m] # g[m]
    BY <2>4
  <2> HIDE DEF S
  <2>6. m # {} /\ c[m] \in m
    BY <2>2, <2>3, <2>5
  <2>7. m \ {c[m]} \notin Bad /\ m \ {c[m]} \in SUBSET S
    <3> HIDE DEF Bad
    <3> QED
      BY <2>4, <2>5, <2>6
  <2>8. iter[m \ {c[m]}] = g[m \ {c[m]}]
    BY <2>7
  <2> QED
    BY <2>2, <2>5, <2>8
<1> DEFINE n == Len(path)
           r == g[S \ {n}]
<1>10. S \in SUBSET S /\ n \in S /\ S # {} /\ S \ {n} \in SUBSET S
  <2>1. n \in 1 .. Len(path)
    BY <1>1
  <2>2. n \in S
    BY <1>1, <2>1
  <2> HIDE DEF S, n
  <2> QED
    BY <2>2
<1>11. Max(S) = n
  <2>1. Max(S) \in 1 .. n /\ Max(S) >= n
    BY <1>1, <1>10, GreatestExists
  <2> QED
    BY <1>1, <2>1
<1>12. Place(path) = Append(r, path[n])
  <2>1. ~Skips(path[n])
    BY DEF Last
  <2>2. g[S] = Append(g[S \ {Max(S)}], path[Max(S)])
    <3>1. g[S] = IF S = {} THEN <<>>
                 ELSE IF Skips(path[Max(S)]) THEN g[S \ {Max(S)}]
                 ELSE Append(g[S \ {Max(S)}], path[Max(S)])
      <4> HIDE DEF S, Skips
      <4> QED
        BY <1>6, <1>10
    <3> HIDE DEF S, Skips
    <3> QED
      BY <1>10, <1>11, <2>1, <3>1
  <2> QED
    BY <1>8, <1>9, <1>10, <1>11, <2>2
<1>13. r \in Seq(C) /\ path[n] \in C
  BY <1>1, <1>4, <1>10
<1> HIDE DEF r
<1>14. Last(Append(r, path[n])) = path[n]
  BY <1>13 DEF Last
<1> QED
  BY <1>12, <1>14 DEF Last

-----------------------------------------------------------------------------
LEMMA EntryKeepsInv ==
    ASSUME ArchiveInv, NEW e \in Entries,
           TooMany(e) \/ Skip(e) \/ MakeDirectory(e) \/ ExtractFile(e)
    PROVE  ArchiveInv'
<1>1. CASE TooMany(e)
  BY <1>1, ReplaceIsChosen DEF TooMany, Substitutes
<1>2. CASE Skip(e)
  BY <1>2 DEF Skip, ArchiveInv, Reading, Found, AtMostOne, ProgramFiles
<1>3. CASE MakeDirectory(e)
  <2>1. stage = "reading" /\ Reading /\ UNCHANGED files /\ KeepEntry(e) /\ Named(e)
    BY <1>3 DEF MakeDirectory, KeepEntry, ArchiveInv
  <2>2. Reading'
    BY <2>1, KeepIsReading
  <2>3. stage' \in {"reading", "error"}
    BY <1>3, <2>1 DEF MakeDirectory
  <2> QED
    BY <2>2, <2>3 DEF ArchiveInv
<1>4. CASE ExtractFile(e)
  <2> DEFINE place == Place(e.path)
  <2>1. stage = "reading" /\ Reading /\ KeepEntry(e)
    BY <1>4 DEF ExtractFile, KeepEntry, ArchiveInv
  <2>2. Last(e.path) \in Secure /\ Last(place) = Last(e.path)
    <3>1. e.kind = "file" /\ ~Skipped(e) /\ e.path \in Seq(STRING) /\ e.path # <<>>
      BY <1>4, EntryAssumption DEF ExtractFile, KeepEntry
    <3>2. Last(e.path) \in Secure
      BY <3>1, SlashAssumption DEF Skipped
    <3>3. Last(e.path) \notin {".", EmptyName}
      BY <3>2, FileNameAssumption
    <3> QED
      BY <3>1, <3>2, <3>3, PlaceIs
  <2>3. Last(place) \in DspNames => IsProgram(e)
    BY <2>2, FileNameAssumption DEF DspNames, Secure, IsProgram
  <2>4. CASE stage' = "error"
    BY <2>4 DEF ArchiveInv
  <2>5. CASE Replace("toobig.dsp")
    BY <2>5, ReplaceIsChosen DEF Substitutes
  <2>6. CASE /\ Named(e) /\ UNCHANGED stage
             /\ UNCHANGED files \/ \E n : AddFile(place, n)
    <3>1. DOMAIN files' \subseteq DOMAIN files \cup {place}
      BY <2>6 DEF AddFile
    <3>2. Reading'
      BY <2>1, <2>3, <2>6, <3>1, KeepIsReading
    <3> QED
      BY <2>1, <2>6, <3>2 DEF ArchiveInv
  <2> QED
    BY <1>4, <2>4, <2>5, <2>6 DEF ExtractFile
<1> QED
  BY <1>1, <1>2, <1>3, <1>4

LEMMA EndKeepsInv ==
    ASSUME ArchiveInv, TookTooLong \/ EndOfArchive \/ CopyUserCode \/ BasicFiles
    PROVE  ArchiveInv'
<1>1. CASE TookTooLong
  BY <1>1, ReplaceIsChosen DEF TookTooLong, Substitutes
<1>2. CASE EndOfArchive
  <2>1. stage = "reading" /\ Reading
    BY <1>2 DEF EndOfArchive, ArchiveInv
  <2>2. CASE Found > 1 /\ Replace("multi.dsp")
    BY <2>2, ReplaceIsChosen DEF Substitutes
  <2>3. CASE /\ Found <= 1 /\ main = EmptyName
             /\ IF <<"empty.dsp">> \in dirs THEN UNCHANGED files ELSE AddFile(<<"empty.dsp">>, 0)
             /\ main' = "empty.dsp" /\ stage' = "copy"
    <3>1. Found = 0 /\ ProgramFiles = {}
      BY <2>1, <2>3 DEF Reading
    <3>2. DOMAIN files' \subseteq DOMAIN files \cup {<<"empty.dsp">>}
      BY <2>3 DEF AddFile
    <3>3. ProgramFiles' \subseteq {<<"empty.dsp">>}
      BY <3>1, <3>2 DEF ProgramFiles
    <3>4. AtMostOne'
      BY <3>3 DEF AtMostOne
    <3>5. main' \in DspNames
      BY <2>3 DEF DspNames, Substitutes
    <3> QED
      BY <2>3, <3>4, <3>5 DEF ArchiveInv, Chosen, DspNames
  <2>4. CASE Found <= 1 /\ main # EmptyName /\ stage' = "copy" /\ UNCHANGED <<files, dirs, main>>
    <3>1. Found = 1
      BY <2>1, <2>4, FoundType DEF Reading
    <3>2. AtMostOne' = AtMostOne
      BY <2>4 DEF AtMostOne, ProgramFiles
    <3> QED
      BY <2>1, <2>4, <3>1, <3>2 DEF Reading, ArchiveInv, Chosen, DspNames
  <2> QED
    BY <1>2, <2>2, <2>3, <2>4 DEF EndOfArchive, Found
<1>3. CASE CopyUserCode
  BY <1>3 DEF CopyUserCode, ArchiveInv, Chosen, AtMostOne, ProgramFiles
<1>4. CASE BasicFiles
  BY <1>4 DEF BasicFiles, ArchiveInv, Chosen, AtMostOne, ProgramFiles
<1> QED
  BY <1>1, <1>2, <1>3, <1>4

LEMMA ArchiveInvHolds == ArchiveSpec => []ArchiveInv
<1>1. ArchiveInv /\ [ArchiveNext]_archiveVars => ArchiveInv'
  <2> SUFFICES ASSUME ArchiveInv, [ArchiveNext]_archiveVars PROVE ArchiveInv'
    OBVIOUS
  <2>1. CASE ArchiveNext
    BY <2>1, EntryKeepsInv, EndKeepsInv DEF ArchiveNext
  <2>2. CASE UNCHANGED archiveVars
    BY <2>2 DEF archiveVars, ArchiveInv, Reading, Found, Chosen, AtMostOne, ProgramFiles
  <2> QED
    BY <2>1, <2>2
<1> QED
  BY <1>1, ArchiveInitInv, PTL DEF ArchiveSpec

(* Whatever entries an archive has, and whatever the limits, a session that *)
(* validate_faust makes of it has one .dsp file in sourcecode/, its main    *)
(* program, which create_target_directory and the makefiles need.          *)
THEOREM OneProgramAlways == ArchiveSpec => []OneProgram
<1>1. ArchiveInv => OneProgram
  <2> SUFFICES ASSUME ArchiveInv, stage = "done" PROVE ProgramFiles = {<<main>>}
    BY DEF OneProgram, ProgramFiles, DspNames
  <2> QED
    BY LastOfOne DEF ArchiveInv, Chosen, AtMostOne, ProgramFiles
<1> QED
  BY <1>1, ArchiveInvHolds, PTL

-----------------------------------------------------------------------------
(* What is counted of the files; the sum does not depend on the order.      *)

\* The sums of h on the subsets of S.
Sums(h, S, g) ==
    /\ g \in [SUBSET S -> Nat]
    /\ \A s \in SUBSET S : g[s] = IF s = {} THEN 0 ELSE h[First(s)] + g[s \ {First(s)}]

LEMMA SumsExist ==
    ASSUME NEW S, IsFiniteSet(S), NEW h \in [S -> Nat] PROVE \E g : Sums(h, S, g)
<1> DEFINE add == [x \in S |-> [v \in Nat |-> h[x] + v]]
           c == [s \in SUBSET S |-> First(s)]
<1>1. add \in [S -> [Nat -> Nat]]
  <2>1. \A x \in S, v \in Nat : h[x] + v \in Nat
    OBVIOUS
  <2> QED
    BY <2>1
<1>2. \A s \in SUBSET S : s # {} => c[s] = First(s) /\ c[s] \in s
  BY FirstIsElement
<1>3. PICK g \in [SUBSET S -> Nat] : Folds(S, 0, add, c, g)
  <2> HIDE DEF add, c
  <2> QED
    BY <1>1, <1>2, FoldsExist
<1>4. ASSUME NEW s \in SUBSET S, s # {} PROVE add[c[s]][g[s \ {c[s]}]] = h[First(s)] + g[s \ {First(s)}]
  <2>1. c[s] = First(s) /\ c[s] \in S /\ g[s \ {c[s]}] \in Nat
    BY <1>2, <1>3, <1>4
  <2>2. add[c[s]] = [v \in Nat |-> h[c[s]] + v]
    BY <2>1
  <2> HIDE DEF add, c
  <2> QED
    BY <2>1, <2>2
<1> HIDE DEF add, c
<1> QED
  BY <1>3, <1>4 DEF Sums, Folds

\* The element that is taken first does not matter.
LEMMA SumOfRest ==
    ASSUME NEW S, IsFiniteSet(S), NEW h \in [S -> Nat], NEW g, Sums(h, S, g),
           NEW s \in SUBSET S, NEW x \in s
    PROVE  g[s] = h[x] + g[s \ {x}]
<1> DEFINE Bad == {r \in SUBSET S : \E y \in r : g[r] # h[y] + g[r \ {y}]}
<1> SUFFICES Bad = {}
  OBVIOUS
<1> SUFFICES ASSUME Bad # {} PROVE FALSE
  OBVIOUS
<1>1. PICK m \in Bad : \A r \in Bad : ~(r \subseteq m /\ r # m)
  <2>1. Bad \in SUBSET SUBSET S
    OBVIOUS
  <2> HIDE DEF Bad
  <2> QED
    BY <2>1, SmallestSet
<1>2. PICK y \in m : g[m] # h[y] + g[m \ {y}]
  BY <1>1
<1>3. m \in SUBSET S
  BY <1>1
<1> DEFINE z == First(m)
<1>4. z \in m /\ g[m] = h[z] + g[m \ {z}]
  BY <1>2, <1>3, FirstIsElement DEF Sums
<1> HIDE DEF z
<1>5. y # z
  BY <1>2, <1>4
<1>6. m \ {z} \in SUBSET S /\ m \ {z} \notin Bad /\ m \ {y} \in SUBSET S /\ m \ {y} \notin Bad
  BY <1>1, <1>2, <1>3, <1>4
<1>7. g[m \ {z}] = h[y] + g[(m \ {z}) \ {y}] /\ g[m \ {y}] = h[z] + g[(m \ {y}) \ {z}]
  BY <1>2, <1>4, <1>5, <1>6
<1>8. (m \ {z}) \ {y} = (m \ {y}) \ {z} /\ (m \ {z}) \ {y} \in SUBSET S
  BY <1>3
<1>9. h[y] \in Nat /\ h[z] \in Nat /\ g[(m \ {z}) \ {y}] \in Nat
  BY <1>2, <1>3, <1>4, <1>8 DEF Sums
<1> QED
  <2> DEFINE v == g[(m \ {z}) \ {y}]
  <2>1. /\ g[m \ {z}] = h[y] + v /\ g[m \ {y}] = h[z] + v
        /\ v \in Nat /\ h[y] \in Nat /\ h[z] \in Nat
    BY <1>7, <1>8, <1>9
  <2>2. g[m] = h[z] + (h[y] + v)
    BY <1>4, <2>1
  <2>3. g[m] # h[y] + (h[z] + v)
    BY <1>2, <2>1
  <2> HIDE DEF v
  <2> QED
    BY <2>1, <2>2, <2>3

LEMMA SumsAgree ==
    ASSUME NEW S, NEW T, IsFiniteSet(S), IsFiniteSet(T),
           NEW h, NEW k, NEW g, NEW f, Sums(h, S, g), Sums(k, T, f),
           NEW R \in SUBSET (S \cap T), \A x \in R : h[x] = k[x]
    PROVE  g[R] = f[R]
<1> DEFINE Bad == {r \in SUBSET R : g[r] # f[r]}
<1> SUFFICES ASSUME Bad # {} PROVE FALSE
  OBVIOUS
<1>1. IsFiniteSet(R)
  BY FS_Subset
<1>2. PICK m \in Bad : \A r \in Bad : ~(r \subseteq m /\ r # m)
  <2>1. Bad \in SUBSET SUBSET R
    OBVIOUS
  <2> HIDE DEF Bad
  <2> QED
    BY <1>1, <2>1, SmallestSet
<1>3. m \in SUBSET S /\ m \in SUBSET T /\ m \in SUBSET R /\ g[m] # f[m]
  BY <1>2
<1>4. m # {}
  BY <1>3 DEF Sums
<1>5. First(m) \in m
  BY <1>4, FirstIsElement
<1>6. g[m \ {First(m)}] = f[m \ {First(m)}]
  BY <1>2, <1>5
<1>7. h[First(m)] = k[First(m)]
  BY <1>3, <1>5
<1> QED
  BY <1>3, <1>4, <1>6, <1>7 DEF Sums
LEMMA FoldIsSum ==
    ASSUME NEW S, IsFiniteSet(S), NEW h \in [S -> Nat], NEW g, Sums(h, S, g)
    PROVE  FoldSet(LAMBDA p, sum : h[p] + sum, 0, S) = g[S]
<1> DEFINE Iterates(f) == f = [s \in SUBSET S |->
                   IF s = {} THEN 0 ELSE h[First(s)] + f[s \ {First(s)}]]
           iter == CHOOSE f : Iterates(f)
<1>1. Iterates(g)
  BY DEF Sums
<1>2. Iterates(iter)
  <2> HIDE DEF Iterates
  <2> QED
    BY <1>1
<1>3. iter = [s \in SUBSET S |-> IF s = {} THEN 0 ELSE h[First(s)] + iter[s \ {First(s)}]]
  <2> HIDE DEF iter
  <2> QED
    BY <1>2
<1>4. FoldSet(LAMBDA p, sum : h[p] + sum, 0, S) = iter[S]
  BY DEF FoldSet, MapThenFoldSet, First
<1> HIDE DEF iter
<1>5. iter[S] = g[S]
  <2> DEFINE Bad == {r \in SUBSET S : iter[r] # g[r]}
  <2> SUFFICES ASSUME Bad # {} PROVE FALSE
    OBVIOUS
  <2>1. PICK m \in Bad : \A r \in Bad : ~(r \subseteq m /\ r # m)
    <3>1. Bad \in SUBSET SUBSET S
      OBVIOUS
    <3> HIDE DEF Bad
    <3> QED
      BY <3>1, SmallestSet
  <2>2. m \in SUBSET S /\ iter[m] # g[m]
    BY <2>1
  <2>3. /\ iter[m] = IF m = {} THEN 0 ELSE h[First(m)] + iter[m \ {First(m)}]
        /\ g[m] = IF m = {} THEN 0 ELSE h[First(m)] + g[m \ {First(m)}]
    BY <1>3, <2>2 DEF Sums
  <2>4. m # {}
    BY <2>2, <2>3
  <2>5. First(m) \in m
    BY <2>4, FirstIsElement
  <2>6. iter[m \ {First(m)}] = g[m \ {First(m)}]
    BY <2>1, <2>5
  <2> QED
    BY <2>2, <2>3, <2>4, <2>6
<1> QED
  BY <1>4, <1>5

LEMMA TotalIsSum ==
    ASSUME NEW h, IsFiniteSet(DOMAIN h), h \in [DOMAIN h -> Nat]
    PROVE  \E g : Sums(h, DOMAIN h, g) /\ Total(h) = g[DOMAIN h] /\ Total(h) \in Nat
<1>1. PICK g : Sums(h, DOMAIN h, g)
  BY SumsExist
<1>2. Total(h) = g[DOMAIN h]
  BY <1>1, FoldIsSum DEF Total
<1> QED
  BY <1>1, <1>2 DEF Sums

LEMMA TotalOfNone ==
    ASSUME NEW h, DOMAIN h = {}, h = [p \in {} |-> 0]
    PROVE  Total(h) = 0
<1>1. h \in [DOMAIN h -> Nat] /\ IsFiniteSet(DOMAIN h)
  BY FS_EmptySet
<1>2. PICK g : Sums(h, DOMAIN h, g) /\ Total(h) = g[DOMAIN h]
  BY <1>1, TotalIsSum
<1> QED
  BY <1>2 DEF Sums

LEMMA TotalOfEmpty ==
    ASSUME NEW h, NEW x, DOMAIN h = {x}, h \in [{x} -> Nat], h[x] = 0
    PROVE  Total(h) = 0
<1>1. IsFiniteSet({x})
  BY FS_Singleton
<1>2. PICK g : Sums(h, {x}, g) /\ Total(h) = g[{x}]
  BY <1>1, TotalIsSum
<1>3. First({x}) = x
  BY FirstIsElement
<1>4. g[{x}] = h[x] + g[{}] /\ g[{}] = 0
  <2>1. {x} \in SUBSET {x} /\ {} \in SUBSET {x} /\ {x} # {} /\ {x} \ {x} = {}
    OBVIOUS
  <2>2. /\ g[{x}] = h[First({x})] + g[{x} \ {First({x})}]
        /\ g[{}] = 0
    BY <1>2, <2>1 DEF Sums
  <2> QED
    BY <1>3, <2>1, <2>2
<1> QED
  BY <1>2, <1>4

\* A file that is written, or written again.
LEMMA TotalOfOneMore ==
    ASSUME NEW h, IsFiniteSet(DOMAIN h), h \in [DOMAIN h -> Nat],
           NEW x, NEW n \in Nat,
           NEW k, k = [p \in DOMAIN h \cup {x} |-> IF p = x THEN n ELSE h[p]]
    PROVE  /\ Total(h) \in Nat /\ Total(k) \in Nat /\ Total(k) <= Total(h) + n
           /\ x \notin DOMAIN h => Total(k) = Total(h) + n
<1> DEFINE S == DOMAIN h
           T == DOMAIN k
           R == S \ {x}
<1>1. T = S \cup {x} /\ k \in [T -> Nat] /\ IsFiniteSet(T) /\ k[x] = n
  BY FS_AddElement
<1>2. PICK g : Sums(h, S, g) /\ Total(h) = g[S] /\ Total(h) \in Nat
  BY TotalIsSum
<1>3. PICK f : Sums(k, T, f) /\ Total(k) = f[T] /\ Total(k) \in Nat
  BY <1>1, TotalIsSum
<1>4. T \ {x} = R /\ R \in SUBSET (S \cap T) /\ \A y \in R : h[y] = k[y]
  BY <1>1
<1>5. f[T] = n + f[R]
  <2>1. T \in SUBSET T /\ x \in T
    BY <1>1
  <2>3. IsFiniteSet(T) /\ k \in [T -> Nat] /\ Sums(k, T, f)
    BY <1>1, <1>3
  <2> HIDE DEF S, T, R
  <2>2. f[T] = k[x] + f[T \ {x}]
    BY ONLY <2>1, <2>3, SumOfRest
  <2> QED
    BY <1>1, <1>4, <2>2
<1>6. g[R] = f[R]
  <2>1. IsFiniteSet(S)
    OBVIOUS
  <2> HIDE DEF S, T, R
  <2> QED
    BY <1>1, <1>2, <1>3, <1>4, <2>1, SumsAgree
<1>7. g[R] \in Nat
  BY <1>2 DEF Sums
<1>8. g[R] <= g[S]
  <2>1. CASE x \in S
    <3>1. g[S] = h[x] + g[S \ {x}] /\ h[x] \in Nat
      <4>1. S \in SUBSET S
        OBVIOUS
      <4>2. g[S] = h[x] + g[S \ {x}]
        <5>1. IsFiniteSet(S) /\ h \in [S -> Nat] /\ Sums(h, S, g)
          BY <1>2
        <5> HIDE DEF S
        <5> QED
          BY <2>1, <4>1, <5>1, SumOfRest
      <4> QED
        BY <2>1, <4>2
    <3> QED
      BY <1>7, <3>1
  <2>2. CASE x \notin S
    <3>1. R = S
      BY <2>2
    <3> QED
      BY <1>7, <3>1
  <2> QED
    BY <2>1, <2>2
<1>9. x \notin DOMAIN h => R = S
  OBVIOUS
<1> HIDE DEF S, T, R
<1> QED
  BY <1>2, <1>3, <1>5, <1>6, <1>7, <1>8, <1>9

-----------------------------------------------------------------------------
(* The limits hold together with a count of the files: each was added by an *)
(* entry that counted, or by the end of the loop.                          *)
LimitsInv ==
    /\ IsFiniteSet(DOMAIN files) /\ files \in [DOMAIN files -> Nat]
    /\ size \in 0 .. MaxExtracted /\ kept \in 0 .. MaxEntries
    /\ Total(files) <= size
    /\ Cardinality(DOMAIN files) <= IF stage = "reading" THEN kept ELSE kept + 1

\* What the program of the server that takes the place of the files does.
LEMMA ReplaceKeepsLimits ==
    ASSUME NEW name, Replace(name),
           size' \in 0 .. MaxExtracted, kept' \in 0 .. MaxEntries
    PROVE  LimitsInv'
<1>1. files' = [p \in {<<name>>} |-> 0] /\ stage' = "copy"
  BY DEF Replace
<1>2. PICK place : place = <<name>>
  OBVIOUS
<1>3. /\ DOMAIN files' = {place} /\ files' \in [DOMAIN files' -> Nat] /\ files'[place] = 0
      /\ IsFiniteSet({place}) /\ Cardinality({place}) = 1
  BY <1>1, <1>2, FS_Singleton
<1>4. Total(files') = 0
  BY <1>3, TotalOfEmpty
<1>5. Cardinality(DOMAIN files') <= IF stage' = "reading" THEN kept' ELSE kept' + 1
  BY <1>1, <1>3, LimitAssumption
<1>6. Total(files') <= size'
  BY <1>4, LimitAssumption
<1> QED
  BY <1>3, <1>5, <1>6 DEF LimitsInv

LEMMA AddFileKeepsLimits ==
    ASSUME LimitsInv, NEW place, NEW n \in Nat, AddFile(place, n),
           size' \in 0 .. MaxExtracted, kept' \in 0 .. MaxEntries,
           size + n <= size',
           \/ stage = "reading" /\ stage' \in {"reading", "copy"} /\ kept' = kept + 1
           \/ stage = "reading" /\ stage' = "copy" /\ kept' = kept
    PROVE  LimitsInv'
<1>1. files' = [p \in DOMAIN files \cup {place} |-> IF p = place THEN n ELSE files[p]]
  BY DEF AddFile
<1>2. Total(files) \in Nat /\ Total(files') \in Nat /\ Total(files') <= Total(files) + n
  BY <1>1, TotalOfOneMore DEF LimitsInv
<1>3. /\ DOMAIN files' = DOMAIN files \cup {place} /\ files' \in [DOMAIN files' -> Nat]
      /\ IsFiniteSet(DOMAIN files')
      /\ Cardinality(DOMAIN files') <= Cardinality(DOMAIN files) + 1
      /\ Cardinality(DOMAIN files) \in Nat /\ Cardinality(DOMAIN files') \in Nat
  <2>1. DOMAIN files' = DOMAIN files \cup {place} /\ files' \in [DOMAIN files' -> Nat]
    BY <1>1 DEF LimitsInv
  <2>2. /\ IsFiniteSet(DOMAIN files) /\ Cardinality(DOMAIN files) \in Nat
        /\ IsFiniteSet(DOMAIN files')
        /\ Cardinality(DOMAIN files') = IF place \in DOMAIN files THEN Cardinality(DOMAIN files)
                                        ELSE Cardinality(DOMAIN files) + 1
    BY <2>1, FS_AddElement, FS_CardinalityType DEF LimitsInv
  <2> QED
    BY <2>1, <2>2
<1>4. Total(files') <= size'
  BY <1>2, LimitAssumption DEF LimitsInv
<1>5. Cardinality(DOMAIN files') <= IF stage' = "reading" THEN kept' ELSE kept' + 1
  BY <1>3, LimitAssumption DEF LimitsInv
<1> QED
  BY <1>3, <1>4, <1>5 DEF LimitsInv

LEMMA QuietKeepsLimits ==
    ASSUME LimitsInv, UNCHANGED files, size' \in size .. MaxExtracted,
           kept' \in kept .. MaxEntries, kept' <= kept + 1,
           stage = "reading" \/ stage' # "reading"
    PROVE  LimitsInv'
<1>1. size \in Nat /\ kept \in Nat /\ Cardinality(DOMAIN files) \in Nat /\ Total(files) \in Nat
  BY FS_CardinalityType, TotalIsSum DEF LimitsInv
<1>2. size' \in 0 .. MaxExtracted /\ kept' \in 0 .. MaxEntries /\ Total(files) <= size'
  BY <1>1, LimitAssumption DEF LimitsInv
<1>3. Cardinality(DOMAIN files) <= IF stage' = "reading" THEN kept' ELSE kept' + 1
  BY <1>1, LimitAssumption DEF LimitsInv
<1> QED
  BY <1>2, <1>3 DEF LimitsInv

LEMMA StepKeepsLimits == ASSUME LimitsInv, ArchiveNext PROVE LimitsInv'
<1>1. /\ size \in 0 .. MaxExtracted /\ kept \in 0 .. MaxEntries
      /\ size \in size .. MaxExtracted /\ kept \in kept .. MaxEntries
      /\ kept < MaxEntries => kept + 1 \in kept .. MaxEntries /\ kept + 1 \in 0 .. MaxEntries
      /\ MaxExtracted \in Nat /\ MaxEntries \in Nat
  BY LimitAssumption DEF LimitsInv
<1>2. ASSUME NEW e \in Entries, TooMany(e) PROVE LimitsInv'
  BY <1>1, <1>2, ReplaceKeepsLimits DEF TooMany
<1>3. ASSUME NEW e \in Entries, Skip(e) PROVE LimitsInv'
  BY <1>1, <1>3, QuietKeepsLimits DEF Skip
<1>4. ASSUME NEW e \in Entries, MakeDirectory(e) PROVE LimitsInv'
  BY <1>1, <1>4, QuietKeepsLimits DEF MakeDirectory, KeepEntry
<1>5. ASSUME NEW e \in Entries, ExtractFile(e) PROVE LimitsInv'
  <2> DEFINE place == Place(e.path)
             written == IF e.size <= Room THEN e.size ELSE Room
  <2>1. stage = "reading" /\ kept' = kept + 1 /\ kept < MaxEntries
    BY <1>5 DEF ExtractFile, KeepEntry
  <2>2. written \in Nat /\ size + written \in size .. MaxExtracted
    BY <1>1, EntryAssumption DEF Room
  <2>3. CASE Blocked(Above(place))
    <3>1. UNCHANGED <<size, files>>
      BY <1>5, <2>3 DEF ExtractFile
    <3> QED
      BY <1>1, <2>1, <3>1, QuietKeepsLimits
  <2>4. CASE ~Blocked(Above(place))
    <3>1. /\ size' = size + written
          /\ \/ Replace("toobig.dsp")
             \/ UNCHANGED <<files, stage>>
             \/ AddFile(place, written) /\ UNCHANGED stage
      BY <1>5, <2>4 DEF ExtractFile
    <3> HIDE DEF written, place
    <3>2. size' \in 0 .. MaxExtracted /\ size' \in size .. MaxExtracted /\ size + written <= size'
      BY <1>1, <2>2, <3>1
    <3>3. kept' \in 0 .. MaxEntries /\ kept' \in kept .. MaxEntries /\ kept' <= kept + 1
      BY <1>1, <2>1
    <3>4. CASE Replace("toobig.dsp")
      BY <3>2, <3>3, <3>4, ReplaceKeepsLimits
    <3>5. CASE UNCHANGED <<files, stage>>
      BY <2>1, <3>2, <3>3, <3>5, QuietKeepsLimits
    <3>6. CASE AddFile(place, written) /\ UNCHANGED stage
      BY <2>1, <2>2, <3>2, <3>3, <3>6, AddFileKeepsLimits
    <3> QED
      BY <3>1, <3>4, <3>5, <3>6
  <2> QED
    BY <2>3, <2>4
<1>6. CASE TookTooLong
  BY <1>1, <1>6, ReplaceKeepsLimits DEF TookTooLong
<1>7. CASE EndOfArchive
  <2>1. stage = "reading" /\ stage' = "copy" /\ UNCHANGED <<size, kept>>
    BY <1>7 DEF EndOfArchive, Replace
  <2>2. CASE Replace("multi.dsp")
    BY <1>1, <2>1, <2>2, ReplaceKeepsLimits
  <2>3. CASE AddFile(<<"empty.dsp">>, 0)
    <3>1. size + 0 <= size' /\ 0 \in Nat
      BY <1>1, <2>1
    <3> QED
      BY <1>1, <2>1, <2>3, <3>1, AddFileKeepsLimits
  <2>4. CASE UNCHANGED files
    BY <1>1, <2>1, <2>4, QuietKeepsLimits
  <2> QED
    BY <1>7, <2>2, <2>3, <2>4 DEF EndOfArchive
<1>8. CASE CopyUserCode \/ BasicFiles
  <2>1. UNCHANGED <<files, size, kept>>
    BY <1>8 DEF CopyUserCode, BasicFiles
  <2>3. stage' # "reading"
    <3>1. CASE CopyUserCode
      BY <3>1 DEF CopyUserCode
    <3>2. CASE BasicFiles
      BY <3>2 DEF BasicFiles
    <3> QED
      BY <1>8, <3>1, <3>2
  <2>4. kept <= kept + 1
    BY <1>1
  <2> QED
    BY <1>1, <2>1, <2>3, <2>4, QuietKeepsLimits
<1> QED
  BY <1>2, <1>3, <1>4, <1>5, <1>6, <1>7, <1>8 DEF ArchiveNext

LEMMA LimitsInvHolds == ArchiveSpec => []LimitsInv
<1>1. ArchiveInit => LimitsInv
  <2> SUFFICES ASSUME ArchiveInit PROVE LimitsInv
    OBVIOUS
  <2>1. files = [p \in {} |-> 0] /\ DOMAIN files = {} /\ size = 0 /\ kept = 0 /\ stage = "reading"
    BY DEF ArchiveInit
  <2>2. Total(files) = 0
    BY <2>1, TotalOfNone
  <2> QED
    BY <2>1, <2>2, FS_EmptySet, LimitAssumption DEF LimitsInv
<1>2. LimitsInv /\ [ArchiveNext]_archiveVars => LimitsInv'
  <2> SUFFICES ASSUME LimitsInv, UNCHANGED archiveVars PROVE LimitsInv'
    BY StepKeepsLimits
  <2> QED
    BY DEF archiveVars, LimitsInv
<1> QED
  BY <1>1, <1>2, PTL DEF ArchiveSpec

(* Whatever an archive says of its sizes, and however often it writes to    *)
(* one file, what is in sourcecode/ is within the limits at every moment,   *)
(* for any limits.                                                         *)
THEOREM LimitsAlwaysHold == ArchiveSpec => []LimitsHold
<1>1. LimitsInv => LimitsHold
  BY LimitAssumption DEF LimitsInv, LimitsHold
<1> QED
  BY <1>1, LimitsInvHolds, PTL

-----------------------------------------------------------------------------
(* While entries are read, what is counted is what the entries say.         *)
Agreeing ==
    /\ read \in Seq(Entries)
    /\ kept = Cardinality(Counted) /\ size = Total(Sizes) /\ ~Cut
    /\ programs \in Seq(Programs) /\ Len(programs) = Cardinality(NamesProgram)
    /\ NamesProgram = {} => main = EmptyName
    /\ NamesProgram # {} => main # EmptyName
    /\ \A i \in NamesProgram : NamesProgram = {i} => main = Last(read[i].path)

VerdictInv ==
    /\ stage = "reading" => Agreeing
    /\ VerdictFollows

LEMMA CountedIsFinite ==
    ASSUME read \in Seq(Entries)
    PROVE  /\ Len(read) \in Nat /\ DOMAIN read = 1 .. Len(read)
           /\ IsFiniteSet(Counted) /\ Cardinality(Counted) \in Nat
           /\ IsFiniteSet(NamesProgram) /\ Cardinality(NamesProgram) \in Nat
           /\ Sizes \in [Counted -> Nat] /\ DOMAIN Sizes = Counted
           /\ Counted \in SUBSET (1 .. Len(read))
<1>1. /\ Len(read) \in Nat /\ DOMAIN read = 1 .. Len(read)
      /\ \A i \in 1 .. Len(read) : read[i] \in Entries
  OBVIOUS
<1>2. Counted \in SUBSET (1 .. Len(read)) /\ NamesProgram \in SUBSET Counted
  BY <1>1 DEF Counted, NamesProgram
<1>3. IsFiniteSet(1 .. Len(read))
  BY <1>1, CountInterval
<1>4. IsFiniteSet(Counted)
  BY <1>2, <1>3, FS_Subset
<1>5. IsFiniteSet(NamesProgram)
  BY <1>2, <1>4, FS_Subset
<1>6. \A i \in Counted : (IF read[i].kind = "file" THEN read[i].size ELSE 0) \in Nat
  BY <1>1, <1>2, EntryAssumption
<1> QED
  BY <1>1, <1>2, <1>4, <1>5, <1>6, FS_CardinalityType DEF Sizes

(* One more entry.                                                          *)
LEMMA NextEntry ==
    ASSUME read \in Seq(Entries), NEW e \in Entries, read' = Append(read, e)
    PROVE  LET n == Len(read) + 1
               declared == IF e.kind = "file" THEN e.size ELSE 0
           IN  /\ read' \in Seq(Entries) /\ read' # <<>> /\ Len(read') = n /\ read'[n] = e
               /\ \A i \in 1 .. Len(read) : read'[i] = read[i]
               /\ n \notin Counted /\ Counted' \ {n} = Counted
               /\ Skipped(e) =>
                     Counted' = Counted /\ Sizes' = Sizes /\ NamesProgram' = NamesProgram
               /\ ~Skipped(e) =>
                     /\ Counted' = Counted \cup {n}
                     /\ Cardinality(Counted') = Cardinality(Counted) + 1
                     /\ Total(Sizes') = Total(Sizes) + declared
                     /\ NamesProgram' = IF IsProgram(e) THEN NamesProgram \cup {n}
                                        ELSE NamesProgram
<1> DEFINE n == Len(read) + 1
           declared == IF e.kind = "file" THEN e.size ELSE 0
<1>1. /\ Len(read) \in Nat /\ n \in Nat /\ DOMAIN read = 1 .. Len(read)
      /\ IsFiniteSet(Counted) /\ Counted \in SUBSET (1 .. Len(read))
      /\ Sizes \in [Counted -> Nat] /\ DOMAIN Sizes = Counted
  BY CountedIsFinite
<1>2. /\ read' \in Seq(Entries) /\ read' # <<>> /\ Len(read') = n /\ read'[n] = e
      /\ DOMAIN read' = 1 .. n
      /\ \A i \in 1 .. Len(read) : read'[i] = read[i]
  BY <1>1, AppendProperties
<1>3. n \notin 1 .. Len(read) /\ n \notin Counted /\ 1 .. n = (1 .. Len(read)) \cup {n}
  BY <1>1
<1> HIDE DEF n
<1>4. Counted' = {i \in 1 .. n : ~Skipped(read'[i])} /\ Counted = {i \in 1 .. Len(read) : ~Skipped(read[i])}
  BY <1>1, <1>2 DEF Counted
<1>5. Counted' = IF Skipped(e) THEN Counted ELSE Counted \cup {n}
  BY <1>2, <1>3, <1>4
<1>6. NamesProgram' = IF ~Skipped(e) /\ IsProgram(e) THEN NamesProgram \cup {n}
                     ELSE NamesProgram
  BY <1>1, <1>2, <1>3, <1>5 DEF NamesProgram
<1>7. \A i \in Counted : read'[i] = read[i]
  BY <1>1, <1>2
<1>8. Sizes' = [i \in Counted' |-> IF i = n THEN declared ELSE Sizes[i]]
  <2>1. \A i \in Counted' : (IF read'[i].kind = "file" THEN read'[i].size ELSE 0)
                           = IF i = n THEN declared ELSE Sizes[i]
    BY <1>2, <1>3, <1>5, <1>7 DEF Sizes
  <2> QED
    BY <2>1 DEF Sizes
<1>9. Skipped(e) => Sizes' = Sizes
  BY <1>1, <1>3, <1>5, <1>8
<1>10. ASSUME ~Skipped(e)
       PROVE  /\ Cardinality(Counted') = Cardinality(Counted) + 1
              /\ Total(Sizes') = Total(Sizes) + declared
  <2>1. Cardinality(Counted') = Cardinality(Counted) + 1
    BY <1>1, <1>3, <1>5, <1>10, FS_AddElement
  <2>2. declared \in Nat
    BY EntryAssumption
  <2>3. Sizes' = [i \in DOMAIN Sizes \cup {n} |-> IF i = n THEN declared ELSE Sizes[i]]
    BY <1>1, <1>5, <1>8, <1>10
  <2> HIDE DEF declared
  <2>4. Total(Sizes') = Total(Sizes) + declared
    BY <1>1, <1>3, <2>2, <2>3, TotalOfOneMore
  <2> QED
    BY <2>1, <2>4
<1> QED
  BY <1>2, <1>3, <1>5, <1>6, <1>9, <1>10 DEF n
\* The verdict depends on the entries alone.
LEMMA VerdictStays ==
    ASSUME UNCHANGED read PROVE Verdict' = Verdict
BY DEF Verdict, Cut, Counted, Sizes, NamesProgram

(* Once the program is known, nothing that the verdict depends on changes.  *)
LEMMA DecidedKeepsVerdict ==
    ASSUME stage' # "reading", main' = "toolong.dsp" \/ main' = Verdict'
    PROVE  VerdictInv'
BY DEF VerdictInv, VerdictFollows

(* An entry that counts, and fits in the limit.                             *)
LEMMA KeepIsAgreeing ==
    ASSUME Agreeing, NEW e \in Entries, KeepEntry(e), Named(e),
           size' = size + (IF e.kind = "file" THEN e.size ELSE 0)
    PROVE  Agreeing'
<1> DEFINE n == Len(read) + 1
           declared == IF e.kind = "file" THEN e.size ELSE 0
<1>1. /\ read \in Seq(Entries) /\ read' = Append(read, e) /\ ~Skipped(e) /\ kept < MaxEntries
      /\ kept' = kept + 1 /\ kept = Cardinality(Counted) /\ size = Total(Sizes)
      /\ programs' = IF IsProgram(e) THEN Append(programs, Last(e.path)) ELSE programs
  BY DEF KeepEntry, Agreeing
<1>2. /\ Len(read) \in Nat /\ Counted \in SUBSET (1 .. Len(read)) /\ NamesProgram \subseteq Counted
      /\ IsFiniteSet(NamesProgram) /\ Cardinality(NamesProgram) \in Nat
      /\ Cardinality(Counted) \in Nat
  BY <1>1, CountedIsFinite DEF NamesProgram
<1>3. /\ read' \in Seq(Entries) /\ read' # <<>> /\ Len(read') = n /\ read'[n] = e
      /\ \A i \in 1 .. Len(read) : read'[i] = read[i]
      /\ n \notin Counted /\ Counted' \ {n} = Counted
      /\ Counted' = Counted \cup {n}
      /\ Cardinality(Counted') = Cardinality(Counted) + 1
      /\ Total(Sizes') = Total(Sizes) + declared
      /\ NamesProgram' = IF IsProgram(e) THEN NamesProgram \cup {n} ELSE NamesProgram
  BY <1>1, NextEntry
<1>4. size' = size + declared
  OBVIOUS
<1> HIDE DEF n, declared
<1>5. ~Cut'
  <2>1. Counted' \ {Len(read')} = Counted
    BY <1>3
  <2>2. ~(Cardinality(Counted) >= MaxEntries)
    BY <1>1, <1>2, LimitAssumption
  <2> QED
    BY ONLY <2>1, <2>2 DEF Cut
<1>6. kept' = Cardinality(Counted') /\ size' = Total(Sizes')
  BY <1>1, <1>3, <1>4
<1>7. CASE IsProgram(e)
  <2>1. Last(e.path) \in Programs /\ Last(e.path) # EmptyName
    BY <1>7, FileNameAssumption DEF IsProgram, Secure
  <2>2. programs \in Seq(Programs) /\ Len(programs) = Cardinality(NamesProgram)
    BY DEF Agreeing
  <2>3. programs' \in Seq(Programs) /\ Len(programs') = Len(programs) + 1
    BY <1>1, <1>7, <2>1, <2>2, AppendProperties
  <2>4. NamesProgram' = NamesProgram \cup {n} /\ n \notin NamesProgram
    BY <1>2, <1>3, <1>7
  <2>5. Len(programs') = Cardinality(NamesProgram')
    BY <1>2, <2>2, <2>3, <2>4, FS_AddElement
  <2>6. main' = IF main = EmptyName THEN Last(e.path) ELSE main
    BY <1>7 DEF Named
  <2>7. main' # EmptyName
    BY <2>1, <2>6
  <2>8. ASSUME NEW i \in NamesProgram', NamesProgram' = {i} PROVE main' = Last(read'[i].path)
    <3>1. NamesProgram = {} /\ i = n
      BY <2>4, <2>8
    <3>2. main = EmptyName
      BY <3>1 DEF Agreeing
    <3> QED
      BY <1>3, <2>6, <3>1, <3>2
  <2> QED
    BY <1>3, <1>5, <1>6, <2>3, <2>4, <2>5, <2>7, <2>8 DEF Agreeing
<1>8. CASE ~IsProgram(e)
  <2>1. programs' = programs /\ main' = main /\ NamesProgram' = NamesProgram
    BY <1>1, <1>3, <1>8 DEF Named
  <2>2. \A i \in NamesProgram : read'[i] = read[i]
    BY <1>2, <1>3
  <2>3. /\ NamesProgram = {} => main = EmptyName
        /\ NamesProgram # {} => main # EmptyName
        /\ \A i \in NamesProgram : NamesProgram = {i} => main = Last(read'[i].path)
        /\ programs \in Seq(Programs) /\ Len(programs) = Cardinality(NamesProgram)
    BY <2>2 DEF Agreeing
  <2> QED
    BY <1>3, <1>5, <1>6, <2>1, <2>3 DEF Agreeing
<1> QED
  BY <1>7, <1>8

LEMMA EntryKeepsVerdict ==
    ASSUME LimitsInv, VerdictInv, NEW e \in Entries,
           TooMany(e) \/ Skip(e) \/ MakeDirectory(e) \/ ExtractFile(e)
    PROVE  VerdictInv'
<1> DEFINE n == Len(read) + 1
<1>1. stage = "reading" /\ Agreeing /\ read' = Append(read, e) /\ read \in Seq(Entries)
  BY DEF VerdictInv, Agreeing, TooMany, Skip, MakeDirectory, ExtractFile, KeepEntry
<1>2. /\ read' \in Seq(Entries) /\ read' # <<>> /\ Len(read') = n
      /\ \A i \in 1 .. Len(read) : read'[i] = read[i]
      /\ Counted' \ {n} = Counted
  BY <1>1, NextEntry
<1>3. /\ kept = Cardinality(Counted) /\ size = Total(Sizes)
      /\ size \in Nat /\ size <= MaxExtracted /\ MaxExtracted \in Nat /\ MaxEntries \in Nat
      /\ kept \in Nat
  BY <1>1, LimitAssumption DEF Agreeing, LimitsInv
<1> HIDE DEF n
<1>9. Cut' <=> kept >= MaxEntries
  <2>1. Counted' \ {Len(read')} = Counted
    BY <1>2
  <2>2. Cut' <=> Cardinality(Counted) >= MaxEntries
    BY ONLY <1>2, <2>1 DEF Cut
  <2> QED
    BY <1>3, <2>2
<1>4. CASE TooMany(e)
  <2>1. kept = MaxEntries /\ main' = "toomanyentries.dsp" /\ stage' = "copy"
    BY <1>4 DEF TooMany, Replace
  <2>2. Cut'
    BY <1>3, <1>9, <2>1
  <2>3. Verdict' = "toomanyentries.dsp"
    BY <2>2 DEF Verdict
  <2> QED
    BY <2>1, <2>3, DecidedKeepsVerdict
<1>5. kept < MaxEntries => ~Cut'
  BY <1>3, <1>9
<1>6. CASE Skip(e)
  <2>1. Skipped(e) /\ kept < MaxEntries /\ UNCHANGED <<kept, size, programs, main, stage>>
    BY <1>6 DEF Skip
  <2>2. Counted' = Counted /\ Sizes' = Sizes /\ NamesProgram' = NamesProgram
    BY <1>1, <2>1, NextEntry
  <2>3. \A i \in NamesProgram : read'[i] = read[i]
    BY <1>1, <1>2, CountedIsFinite DEF NamesProgram
  <2>4. /\ NamesProgram = {} => main = EmptyName
        /\ NamesProgram # {} => main # EmptyName
        /\ \A i \in NamesProgram : NamesProgram = {i} => main = Last(read'[i].path)
        /\ programs \in Seq(Programs) /\ Len(programs) = Cardinality(NamesProgram)
    BY <1>1, <2>3 DEF Agreeing
  <2>5. Agreeing'
    BY <1>2, <1>3, <1>5, <2>1, <2>2, <2>4 DEF Agreeing
  <2> QED
    BY <1>1, <2>1, <2>5 DEF VerdictInv, VerdictFollows
<1>7. CASE MakeDirectory(e)
  <2>1. e.kind = "directory" /\ KeepEntry(e) /\ Named(e) /\ size' = size
        /\ stage' \in {"reading", "error"}
    BY <1>1, <1>7 DEF MakeDirectory
  <2>2. size' = size + (IF e.kind = "file" THEN e.size ELSE 0)
    BY <1>3, <2>1
  <2>3. Agreeing'
    BY <1>1, <2>1, <2>2, KeepIsAgreeing
  <2> QED
    BY <2>1, <2>3 DEF VerdictInv, VerdictFollows
<1>8. CASE ExtractFile(e)
  <2> DEFINE written == IF e.size <= Room THEN e.size ELSE Room
  <2>1. e.kind = "file" /\ KeepEntry(e) /\ ~Skipped(e) /\ kept < MaxEntries
    BY <1>8 DEF ExtractFile, KeepEntry
  <2>2. \/ stage' = "error"
        \/ size' = size + written /\ written < e.size /\ Replace("toobig.dsp")
        \/ size' = size + written /\ ~(written < e.size) /\ Named(e) /\ stage' = "reading"
    BY <1>1, <1>8 DEF ExtractFile
  <2>3. CASE stage' = "error"
    BY <2>3 DEF VerdictInv, VerdictFollows
  <2>4. CASE size' = size + written /\ written < e.size /\ Replace("toobig.dsp")
    <3>1. e.size \in Nat /\ e.size > Room
      BY <1>3, <2>4, EntryAssumption
    <3>2. Total(Sizes') = Total(Sizes) + e.size
      BY <1>1, <2>1, NextEntry
    <3>3. Total(Sizes') > MaxExtracted
      BY <1>3, <3>1, <3>2 DEF Room
    <3>4. Verdict' = "toobig.dsp"
      <4>1. ~Cut' /\ ~(Total(Sizes') <= MaxExtracted)
        BY <1>3, <1>5, <2>1, <3>1, <3>2 DEF Room
      <4> QED
        BY <3>3, <4>1 DEF Verdict
    <3>5. main' = "toobig.dsp" /\ stage' = "copy"
      BY <2>4 DEF Replace
    <3> QED
      BY <3>4, <3>5, DecidedKeepsVerdict
  <2>5. CASE size' = size + written /\ ~(written < e.size) /\ Named(e) /\ stage' = "reading"
    <3>1. size' = size + (IF e.kind = "file" THEN e.size ELSE 0)
      BY <1>3, <2>1, <2>5, EntryAssumption DEF Room
    <3>2. Agreeing'
      BY <1>1, <2>1, <2>5, <3>1, KeepIsAgreeing
    <3> QED
      BY <2>5, <3>2 DEF VerdictInv, VerdictFollows
  <2> QED
    BY <2>2, <2>3, <2>4, <2>5
<1> QED
  BY <1>4, <1>6, <1>7, <1>8

LEMMA EndKeepsVerdict ==
    ASSUME LimitsInv, VerdictInv, TookTooLong \/ EndOfArchive \/ CopyUserCode \/ BasicFiles
    PROVE  VerdictInv'
<1>1. UNCHANGED read /\ Verdict' = Verdict
  BY VerdictStays DEF TookTooLong, EndOfArchive, CopyUserCode, BasicFiles
<1>2. CASE TookTooLong
  BY <1>2, DecidedKeepsVerdict DEF TookTooLong, Replace
<1>3. CASE CopyUserCode
  BY <1>1, <1>3 DEF CopyUserCode, VerdictInv, VerdictFollows
<1>4. CASE BasicFiles
  BY <1>1, <1>4 DEF BasicFiles, VerdictInv, VerdictFollows
<1>5. CASE EndOfArchive
  <2>1. Agreeing /\ stage' = "copy"
    BY <1>5 DEF EndOfArchive, VerdictInv, Replace
  <2>2. /\ ~Cut /\ Total(Sizes) <= MaxExtracted
        /\ Len(programs) = Cardinality(NamesProgram) /\ Cardinality(NamesProgram) \in Nat
        /\ IsFiniteSet(NamesProgram)
    BY <2>1, CountedIsFinite, LimitAssumption DEF Agreeing, LimitsInv
  <2>3. ~(Total(Sizes) > MaxExtracted)
    <3>1. Total(Sizes) \in Nat
      BY <2>1 DEF Agreeing, LimitsInv
    <3> QED
      BY <2>2, <3>1, LimitAssumption
  <2>4. CASE Len(programs) > 1 /\ Replace("multi.dsp")
    <3>1. Cardinality(NamesProgram) > 1 /\ ~(Cardinality(NamesProgram) <= 1)
      BY <2>2, <2>4
    <3>2. NamesProgram # {}
      BY <3>1, FS_EmptySet
    <3>3. Verdict = "multi.dsp"
      BY <2>2, <2>3, <3>1, <3>2 DEF Verdict
    <3>4. main' = "multi.dsp"
      BY <2>4 DEF Replace
    <3> QED
      BY <1>1, <2>1, <3>3, <3>4, DecidedKeepsVerdict
  <2>5. CASE Len(programs) <= 1 /\ main = EmptyName /\ main' = "empty.dsp"
    <3>1. NamesProgram = {}
      BY <2>1, <2>5 DEF Agreeing
    <3>2. ~(Cardinality(NamesProgram) > 1)
      BY <2>2, <2>5
    <3>3. Verdict = "empty.dsp"
      BY <2>2, <2>3, <3>1, <3>2 DEF Verdict
    <3> QED
      BY <1>1, <2>1, <2>5, <3>3, DecidedKeepsVerdict
  <2>6. CASE Len(programs) <= 1 /\ main # EmptyName /\ main' = main
    <3>1. NamesProgram # {}
      BY <2>1, <2>6 DEF Agreeing
    <3>2. Cardinality(NamesProgram) = 1
      BY <2>2, <2>6, <3>1, FS_EmptySet
    <3>3. PICK i : NamesProgram = {i}
      BY <2>2, <3>2, FS_Singleton
    <3>4. (CHOOSE j \in NamesProgram : TRUE) = i
      BY <3>3
    <3>5. main = Last(read[i].path)
      BY <2>1, <3>3 DEF Agreeing
    <3>6. ~(Cardinality(NamesProgram) > 1)
      BY <3>2
    <3>7. Verdict = Last(read[CHOOSE j \in NamesProgram : TRUE].path)
      BY <2>2, <2>3, <3>1, <3>6 DEF Verdict
    <3> QED
      BY <1>1, <2>1, <2>6, <3>4, <3>5, <3>7, DecidedKeepsVerdict
  <2> QED
    BY <1>5, <2>4, <2>5, <2>6 DEF EndOfArchive
<1> QED
  BY <1>2, <1>3, <1>4, <1>5

(* For any entries in any order and any limits: the program of the session  *)
(* is what the entries that count say, unless the machine was slow.         *)
THEOREM VerdictAlwaysFollows == ArchiveSpec => []VerdictFollows
<1>1. ArchiveInit => VerdictInv
  <2> SUFFICES ASSUME ArchiveInit PROVE Agreeing /\ VerdictFollows
    BY DEF VerdictInv
  <2>1. read = <<>> /\ read \in Seq(Entries) /\ programs \in Seq(Programs) /\ Len(programs) = 0
    BY EmptySeq DEF ArchiveInit
  <2>2. Counted = {} /\ NamesProgram = {}
    BY <2>1 DEF Counted, NamesProgram
  <2>3. DOMAIN Sizes = {} /\ Sizes = [p \in {} |-> 0]
    BY <2>2 DEF Sizes
  <2>4. Total(Sizes) = 0
    BY <2>3, TotalOfNone
  <2> QED
    BY <2>1, <2>2, <2>4, FS_EmptySet DEF ArchiveInit, Agreeing, Cut, VerdictFollows
<1>2. LimitsInv /\ VerdictInv /\ [ArchiveNext]_archiveVars => VerdictInv'
  <2> SUFFICES ASSUME LimitsInv, VerdictInv, [ArchiveNext]_archiveVars PROVE VerdictInv'
    OBVIOUS
  <2>1. CASE ArchiveNext
    BY <2>1, EntryKeepsVerdict, EndKeepsVerdict DEF ArchiveNext
  <2>2. CASE UNCHANGED archiveVars
    <3>1. Verdict' = Verdict /\ UNCHANGED <<read, kept, size, programs, main, stage>>
      BY <2>2, VerdictStays DEF archiveVars
    <3> QED
      BY <3>1 DEF VerdictInv, VerdictFollows, Agreeing, Counted, Sizes, NamesProgram, Cut
  <2> QED
    BY <2>1, <2>2
<1>3. VerdictInv => VerdictFollows
  BY DEF VerdictInv
<1> QED
  BY <1>1, <1>2, <1>3, LimitsInvHolds, PTL DEF ArchiveSpec

-----------------------------------------------------------------------------
(***************************************************************************)
(* FaustOptions, for any number of threads that fill the table and any     *)
(* help of faust.                                                          *)
(***************************************************************************)

Fields == {"nothing", "number", "lang"}

(* The line i of the help gives its names to the field f.                   *)
Gives(i, f) == Help[i].kind = "option" /\ InCode(i) /\ Help[i].follows = f

(* What is read of the state of a thread is there.                          *)
Shape(r) == {"pc", "line", "code", "sure"} \subseteq DOMAIN r

OptionsType ==
    /\ table = [f \in Fields |-> table[f]]
    /\ initialized \in BOOLEAN
    /\ compiler = [t \in Compilers |-> compiler[t]]
    /\ \A t \in Compilers : Shape(compiler[t]) /\ compiler[t].code \in BOOLEAN
    /\ damaged \in BOOLEAN

TableSound == \A f \in Fields : table[f] \subseteq TakesOf(f)
Whole == \A f \in Fields : TakesOf(f) \subseteq table[f]

(* A thread that parses the help has put in the table what the lines it     *)
(* has read give, unless the table was damaged, and knows the section it is *)
(* in.                                                                      *)
Parsing(t) ==
    compiler[t].pc \in {"help", "insert"} =>
        /\ compiler[t].line \in 1 .. Len(Help) + 1
        /\ compiler[t].code = InCode(compiler[t].line - 1)
        /\ ~damaged =>
              \A i \in 1 .. compiler[t].line - 1 : \A f \in Fields :
                 Gives(i, f) => Help[i].names \subseteq table[f]

(* The line that a thread inserts gives options of the code section.        *)
Inserting(t) ==
    compiler[t].pc = "insert" =>
        /\ compiler[t].line \in 1 .. Len(Help)
        /\ LineOf(t).follows \in Fields
        /\ Gives(compiler[t].line, LineOf(t).follows)

Fresh(t) == compiler[t].pc = "table" => compiler[t].code = FALSE

OptionsInv ==
    /\ OptionsType /\ TableSound
    /\ initialized /\ ~damaged => Whole
    /\ \A t \in Compilers :
          /\ Parsing(t) /\ Inserting(t) /\ Fresh(t)
          /\ compiler[t].sure => Whole /\ ~damaged

-----------------------------------------------------------------------------
LEMMA HelpIsSeq == Len(Help) \in Nat /\ DOMAIN Help = 1 .. Len(Help)
BY HelpAssumption

(* The section of a line follows from that of the line before.              *)
LEMMA NextSection ==
    ASSUME NEW n \in Nat, n < Len(Help)
    PROVE  InCode(n + 1) = CASE Help[n + 1].kind = "code" -> TRUE
                             [] Help[n + 1].kind = "title" -> FALSE
                             [] OTHER -> InCode(n)
<1> USE HelpIsSeq
<1>1. CASE Help[n + 1].kind \in {"code", "title"}
  <2>1. n + 1 \in Section(n + 1) /\ \A k \in Section(n + 1) : k <= n + 1
    BY <1>1 DEF Section
  <2>2. \A j \in Section(n + 1) : (\A k \in Section(n + 1) : k <= j) => j = n + 1
    BY <2>1 DEF Section
  <2> QED
    BY <1>1, <2>1, <2>2 DEF InCode
<1>2. CASE Help[n + 1].kind \notin {"code", "title"}
  <2>1. Section(n + 1) = Section(n)
    BY <1>2 DEF Section
  <2> QED
    BY <1>2, <2>1 DEF InCode
<1> QED
  BY <1>1, <1>2

LEMMA NoSection == InCode(0) = FALSE
BY DEF InCode, Section

LEMMA TakenFrom ==
    ASSUME NEW f
    PROVE  /\ \A i \in 1 .. Len(Help) : Gives(i, f) => Help[i].names \subseteq TakesOf(f)
           /\ \A x \in TakesOf(f) : \E i \in 1 .. Len(Help) : Gives(i, f) /\ x \in Help[i].names
BY HelpIsSeq DEF TakesOf, Gives

-----------------------------------------------------------------------------
(* While no set is damaged the table only grows: what a thread has put in  *)
(* it stays.  A whole table cannot be damaged.                              *)
LEMMA GrowthKeepsOthers ==
    ASSUME OptionsInv, OptionsType', TableSound',
           damaged => damaged', damaged' => damaged \/ ~Whole,
           ~damaged' => \A f \in Fields : table[f] \subseteq table'[f],
           NEW t \in Compilers,
           \A u \in Compilers \ {t} : compiler'[u] = compiler[u],
           Parsing(t)', Inserting(t)', Fresh(t)',
           compiler'[t].sure => compiler[t].sure \/ (Whole' /\ ~damaged'),
           initialized' /\ ~damaged' => initialized \/ Whole'
    PROVE  OptionsInv'
<1>1. /\ Whole /\ ~damaged' => Whole'
      /\ \A u \in Compilers : compiler[u].sure => Whole' /\ ~damaged'
  <2>1. Whole /\ ~damaged' => Whole'
    BY DEF Whole
  <2> QED
    BY <2>1 DEF OptionsInv
<1>2. ASSUME NEW u \in Compilers \ {t}
      PROVE  /\ Parsing(u)' /\ Inserting(u)' /\ Fresh(u)'
             /\ compiler'[u].sure => Whole' /\ ~damaged'
  <2>1. /\ compiler'[u] = compiler[u]
        /\ Parsing(u) /\ Inserting(u) /\ Fresh(u)
    BY <1>2 DEF OptionsInv
  <2>2. Inserting(u)' /\ Fresh(u)'
    BY <2>1 DEF Inserting, Fresh, LineOf, Gives, InCode, Section
  <2>3. Parsing(u)'
    BY <2>1 DEF Parsing, Gives, InCode, Section
  <2> QED
    BY <1>1, <1>2, <2>1, <2>2, <2>3
<1>3. compiler'[t].sure => Whole' /\ ~damaged'
  BY <1>1
<1>4. initialized' /\ ~damaged' => Whole'
  BY <1>1 DEF OptionsInv
<1> QED
  BY <1>2, <1>3, <1>4 DEF OptionsInv

(* The steps that leave the table alone, and do not parse.                  *)
LEMMA QuietKeepsInv ==
    ASSUME OptionsInv, NEW t \in Compilers, UNCHANGED <<table, initialized, damaged>>,
           compiler' = [u \in Compilers |-> compiler'[u]],
           \A u \in Compilers \ {t} : compiler'[u] = compiler[u],
           Shape(compiler'[t]), compiler'[t].code \in BOOLEAN,
           compiler'[t].pc \notin {"help", "insert"},
           compiler'[t].pc = "table" => compiler'[t].code = FALSE,
           compiler'[t].sure => compiler[t].sure \/ (Whole /\ ~damaged)
    PROVE  OptionsInv'
<1>1. OptionsType' /\ TableSound'
  BY DEF OptionsInv, OptionsType, TableSound
<1>2. Parsing(t)' /\ Inserting(t)' /\ Fresh(t)'
  BY DEF Parsing, Inserting, Fresh
<1>3. Whole' = Whole
  BY DEF Whole
<1> QED
  BY <1>1, <1>2, <1>3, GrowthKeepsOthers

(* The next line is read: the section it is in follows.                     *)
LEMMA NextLine ==
    ASSUME OptionsInv, NEW t \in Compilers, compiler[t].pc \in {"help", "insert"},
           compiler[t].line <= Len(Help),
           compiler'[t].line = compiler[t].line + 1, compiler'[t].pc = "help",
           compiler'[t].code = CASE LineOf(t).kind = "code" -> TRUE
                                 [] LineOf(t).kind = "title" -> FALSE
                                 [] OTHER -> compiler[t].code,
           ~damaged' => ~damaged,
           ~damaged' =>
              \A f \in Fields :
                 /\ table[f] \subseteq table'[f]
                 /\ Gives(compiler[t].line, f) => LineOf(t).names \subseteq table'[f]
    PROVE  Parsing(t)' /\ Inserting(t)' /\ Fresh(t)'
<1> DEFINE n == compiler[t].line
<1>1. n \in 1 .. Len(Help) /\ Parsing(t) /\ Len(Help) \in Nat
  BY HelpIsSeq DEF OptionsInv, Parsing
<1>2. InCode(n) = compiler'[t].code
  <2>1. n - 1 \in Nat /\ n - 1 < Len(Help) /\ (n - 1) + 1 = n
    BY <1>1
  <2> QED
    BY <1>1, <2>1, NextSection DEF Parsing, LineOf
<1>3. ASSUME ~damaged', NEW i \in 1 .. n, NEW f \in Fields, Gives(i, f)
      PROVE  Help[i].names \subseteq table'[f]
  <2>1. CASE i = n
    BY <1>3, <2>1 DEF LineOf
  <2>2. CASE i # n
    <3>1. i \in 1 .. n - 1
      BY <1>1, <2>2
    <3>2. Help[i].names \subseteq table[f]
      BY <1>1, <1>3, <3>1 DEF Parsing
    <3> QED
      BY <1>3, <3>2
  <2> QED
    BY <2>1, <2>2
<1>4. n + 1 \in 1 .. Len(Help) + 1 /\ (n + 1) - 1 = n
  BY <1>1
<1>5. Parsing(t)'
  BY <1>2, <1>3, <1>4 DEF Parsing, Gives, InCode, Section
<1> QED
  BY <1>5 DEF Inserting, Fresh

(* One line of the help that gives nothing.                                 *)
LEMMA ParseKeepsInv ==
    ASSUME OptionsInv, NEW t \in Compilers, ParseLine(t)
    PROVE  OptionsInv'
<1> DEFINE c == compiler[t]
           line == LineOf(t)
           code == CASE line.kind = "code" -> TRUE
                     [] line.kind = "title" -> FALSE
                     [] OTHER -> c.code
           below == c.line + 1
           after == [c EXCEPT !.line = below, !.code = code]
<1>1. Shape(c) /\ c.code \in BOOLEAN /\ compiler = [u \in Compilers |-> compiler[u]]
  BY DEF OptionsInv, OptionsType
<1>2. /\ c.pc = "help" /\ c.line <= Len(Help) /\ ~Inserts(t)
      /\ compiler' = [compiler EXCEPT ![t] = after]
      /\ UNCHANGED <<table, initialized, damaged>>
  BY <1>1 DEF ParseLine, At
<1>3. code \in BOOLEAN
  BY <1>1
<1>4. /\ compiler'[t] = after /\ compiler' = [u \in Compilers |-> compiler'[u]]
      /\ \A u \in Compilers \ {t} : compiler'[u] = compiler[u]
  BY <1>1, <1>2
<1> HIDE DEF code, below
<1>5. Shape(after)
  BY <1>1 DEF Shape
<1>6. after.pc = c.pc /\ after.sure = c.sure
  BY <1>1 DEF Shape
<1>7. after.line = below /\ after.code = code
  BY <1>1 DEF Shape
<1> HIDE DEF after
<1>8. \A f \in Fields : ~Gives(c.line, f)
  <2>1. ASSUME NEW f \in Fields, Gives(c.line, f) PROVE FALSE
    <3>1. line.kind = "option" /\ InCode(c.line) /\ line.follows = f /\ f # "name"
      BY <2>1 DEF Gives, LineOf, Fields
    <3>2. c.line - 1 \in Nat /\ c.line - 1 < Len(Help) /\ (c.line - 1) + 1 = c.line
          /\ c.code = InCode(c.line - 1)
      BY <1>2, HelpIsSeq DEF OptionsInv, Parsing
    <3>3. InCode(c.line) = c.code
      BY <3>1, <3>2, NextSection DEF LineOf
    <3> QED
      BY <1>2, <3>1, <3>3 DEF Inserts
  <2> QED
    BY <2>1
<1>9. Parsing(t)' /\ Inserting(t)' /\ Fresh(t)'
  <2>1. /\ c.pc \in {"help", "insert"} /\ compiler'[t].line = c.line + 1
        /\ compiler'[t].pc = "help"
        /\ compiler'[t].code = CASE LineOf(t).kind = "code" -> TRUE
                                 [] LineOf(t).kind = "title" -> FALSE
                                 [] OTHER -> c.code
    BY <1>2, <1>4, <1>6, <1>7 DEF below, code
  <2> QED
    BY <1>2, <1>8, <2>1, NextLine
<1>10. OptionsType' /\ TableSound'
  BY <1>2, <1>3, <1>4, <1>5, <1>7 DEF OptionsInv, OptionsType, TableSound
<1> QED
  BY <1>2, <1>4, <1>6, <1>9, <1>10, GrowthKeepsOthers

(* A thread reaches a line to insert: if another one inserts in the same    *)
(* set a name that is new, the table is not whole yet.                      *)
LEMMA BeginKeepsInv ==
    ASSUME OptionsInv, NEW t \in Compilers, InsertBegins(t)
    PROVE  OptionsInv'
<1> DEFINE c == compiler[t]
           n == c.line
           after == [c EXCEPT !.pc = "insert"]
<1>1. Shape(c) /\ c.code \in BOOLEAN /\ compiler = [u \in Compilers |-> compiler[u]]
      /\ damaged \in BOOLEAN
  BY DEF OptionsInv, OptionsType
<1>2. /\ c.pc = "help" /\ n <= Len(Help) /\ Inserts(t)
      /\ compiler' = [compiler EXCEPT ![t] = after]
      /\ UNCHANGED <<table, initialized>>
      /\ damaged => damaged'
      /\ damaged' \in BOOLEAN
  BY <1>1 DEF InsertBegins, At
<1>3. /\ compiler'[t] = after /\ compiler' = [u \in Compilers |-> compiler'[u]]
      /\ \A u \in Compilers \ {t} : compiler'[u] = compiler[u]
  BY <1>1, <1>2
<1>4. /\ Shape(after) /\ after.pc = "insert" /\ after.line = n /\ after.code = c.code
      /\ after.sure = c.sure
  BY <1>1 DEF Shape
<1> HIDE DEF after
<1>5. n \in 1 .. Len(Help) /\ Parsing(t) /\ Len(Help) \in Nat
  BY <1>2, HelpIsSeq DEF OptionsInv, Parsing
<1>6. LineOf(t).follows \in Fields
  <2>1. LineOf(t).follows \in Follows
    BY <1>2, <1>5, HelpIsSeq, HelpAssumption DEF Inserts, LineOf
  <2> QED
    BY <1>2, <2>1 DEF Inserts, Follows, Fields
<1>7. Gives(n, LineOf(t).follows)
  <2>1. n - 1 \in Nat /\ n - 1 < Len(Help) /\ (n - 1) + 1 = n
    BY <1>5
  <2>2. InCode(n) = c.code
    BY <1>2, <1>5, <2>1, NextSection DEF Parsing, LineOf, Inserts
  <2> QED
    BY <1>2, <2>2 DEF Gives, Inserts, LineOf
<1>8. Parsing(t)' /\ Inserting(t)' /\ Fresh(t)'
  <2>1. LineOf(t)' = LineOf(t)
    BY <1>3, <1>4 DEF LineOf
  <2>2. Inserting(t)'
    BY <1>3, <1>4, <1>5, <1>6, <1>7, <2>1 DEF Inserting, Gives, InCode, Section
  <2>3. Parsing(t)'
    BY <1>2, <1>3, <1>4, <1>5 DEF Parsing, Gives, InCode, Section
  <2> QED
    BY <1>3, <1>4, <2>2, <2>3 DEF Fresh
<1>9. damaged' => damaged \/ ~Whole
  <2>1. ASSUME NEW u \in Compilers \ {t}, At(u, "insert"),
               LineOf(u).follows = LineOf(t).follows, New(u) \/ New(t)
        PROVE  ~Whole
    <3>1. /\ compiler[u].line \in 1 .. Len(Help)
          /\ Gives(compiler[u].line, LineOf(u).follows)
      BY <2>1 DEF OptionsInv, Inserting, At
    <3>2. /\ LineOf(u).names \subseteq TakesOf(LineOf(u).follows)
          /\ LineOf(t).names \subseteq TakesOf(LineOf(t).follows)
      BY <1>5, <1>7, <3>1, TakenFrom DEF LineOf
    <3> QED
      BY <1>6, <2>1, <3>2 DEF New, Whole
  <2> QED
    BY <2>1 DEF InsertBegins
<1>10. OptionsType' /\ TableSound'
  BY <1>1, <1>2, <1>3, <1>4 DEF OptionsInv, OptionsType, TableSound
<1>11. ~damaged' => \A f \in Fields : table[f] \subseteq table'[f]
  BY <1>2
<1> QED
  BY <1>2, <1>3, <1>4, <1>8, <1>9, <1>10, <1>11, GrowthKeepsOthers

(* The names of the line are in the set, and all the others if it is not    *)
(* damaged.                                                                 *)
LEMMA EndInsertKeepsInv ==
    ASSUME OptionsInv, NEW t \in Compilers, InsertEnds(t)
    PROVE  OptionsInv'
<1> DEFINE c == compiler[t]
           n == c.line
           below == n + 1
           after == [c EXCEPT !.pc = "help", !.line = below]
           g == LineOf(t).follows
           all == table[g] \cup LineOf(t).names
<1>1. Shape(c) /\ c.code \in BOOLEAN /\ compiler = [u \in Compilers |-> compiler[u]]
      /\ table = [f \in Fields |-> table[f]]
  BY DEF OptionsInv, OptionsType
<1>2. /\ c.pc = "insert"
      /\ compiler' = [compiler EXCEPT ![t] = after]
      /\ UNCHANGED <<initialized, damaged>>
  BY <1>1 DEF InsertEnds, At
<1>3. PICK left \in (IF damaged THEN SUBSET all ELSE {all}) :
          table' = [table EXCEPT ![g] = left]
  BY Zenon DEF InsertEnds
<1>4. /\ compiler'[t] = after /\ compiler' = [u \in Compilers |-> compiler'[u]]
      /\ \A u \in Compilers \ {t} : compiler'[u] = compiler[u]
  BY <1>1, <1>2
<1> HIDE DEF below
<1>5. Shape(after)
  BY <1>1 DEF Shape
<1>6. after.pc = "help" /\ after.sure = c.sure
  BY <1>1 DEF Shape
<1>7. after.line = below /\ after.code = c.code
  BY <1>1 DEF Shape
<1> HIDE DEF after
<1>8. /\ n \in 1 .. Len(Help) /\ g \in Fields /\ Gives(n, g)
      /\ LineOf(t).kind = "option"
  BY <1>2 DEF OptionsInv, Inserting, Gives, LineOf
<1>9. /\ left \subseteq all /\ (~damaged => left = all)
      /\ all \subseteq TakesOf(g)
  <2>1. LineOf(t).names \subseteq TakesOf(g)
    BY <1>8, TakenFrom DEF LineOf
  <2>2. table[g] \subseteq TakesOf(g)
    BY <1>8 DEF OptionsInv, TableSound
  <2> QED
    BY <1>3, <2>1, <2>2
<1> HIDE DEF all
<1>10. /\ table' = [f \in Fields |-> table'[f]] /\ table'[g] = left
       /\ \A f \in Fields \ {g} : table'[f] = table[f]
  BY <1>1, <1>3, <1>8
<1>11. TableSound'
  <2>1. ASSUME NEW f \in Fields PROVE table'[f] \subseteq TakesOf(f)
    BY <1>9, <1>10 DEF OptionsInv, TableSound
  <2> QED
    BY <2>1 DEF TableSound, TakesOf, InCode, Section
<1>12. OptionsType'
  BY <1>1, <1>2, <1>4, <1>5, <1>7, <1>10 DEF OptionsInv, OptionsType
<1>13. ~damaged => \A f \in Fields : table[f] \subseteq table'[f]
  BY <1>9, <1>10 DEF all
<1>14. ~damaged => LineOf(t).names \subseteq table'[g]
  BY <1>9, <1>10 DEF all
<1>15. \A f \in Fields : Gives(n, f) => f = g
  BY DEF Gives, LineOf
<1>16. Parsing(t)' /\ Inserting(t)' /\ Fresh(t)'
  <2>1. /\ c.pc \in {"help", "insert"} /\ compiler'[t].line = c.line + 1
        /\ compiler'[t].pc = "help" /\ c.line <= Len(Help)
        /\ compiler'[t].code = CASE LineOf(t).kind = "code" -> TRUE
                                 [] LineOf(t).kind = "title" -> FALSE
                                 [] OTHER -> c.code
    BY <1>2, <1>4, <1>6, <1>7, <1>8, HelpIsSeq DEF below
  <2>2. ~damaged' =>
           \A f \in Fields :
              /\ table[f] \subseteq table'[f]
              /\ Gives(c.line, f) => LineOf(t).names \subseteq table'[f]
    BY <1>2, <1>13, <1>14, <1>15
  <2> HIDE DEF g
  <2> QED
    BY <1>2, <2>1, <2>2, NextLine
<1> QED
  BY <1>2, <1>4, <1>6, <1>11, <1>12, <1>13, <1>16, GrowthKeepsOthers

-----------------------------------------------------------------------------
LEMMA OptionsInitInv == OptionsInit => OptionsInv
<1> SUFFICES ASSUME OptionsInit PROVE OptionsInv
  OBVIOUS
<1>1. OptionsType
  BY DEF OptionsInit, OptionsType, Fields, Idle, Shape
<1>2. TableSound
  BY DEF OptionsInit, TableSound, Fields
<1> QED
  BY <1>1, <1>2 DEF OptionsInv, OptionsInit, Idle, Parsing, Inserting, Fresh

(* One action of a thread.                                                  *)
LEMMA ActionKeepsInv ==
    ASSUME OptionsInv, NEW t \in Compilers,
           \/ Declared(t) \/ TableFilled(t) \/ HelpRuns(t) \/ HelpFails(t)
           \/ HelpParsed(t) \/ Parameter(t) \/ Option(t) \/ Filtered(t)
    PROVE  OptionsInv'
<1> USE DEF At
<1>1. /\ compiler = [u \in Compilers |-> compiler[u]]
      /\ Shape(compiler[t]) /\ compiler[t].code \in BOOLEAN
      /\ initialized /\ ~damaged => Whole
  BY DEF OptionsInv, OptionsType
<1>2. CASE Declared(t)
  <2>1. /\ UNCHANGED <<table, initialized, damaged>>
        /\ compiler' = [u \in Compilers |-> compiler'[u]]
        /\ \A u \in Compilers \ {t} : compiler'[u] = compiler[u]
    BY <1>1, <1>2 DEF Declared
  <2>2. /\ Shape(compiler'[t]) /\ compiler'[t].code = FALSE
        /\ compiler'[t].pc = "table" /\ compiler'[t].sure = FALSE
    <3>1. PICK source \in Sources :
              compiler'[t] = [Idle EXCEPT !.pc = "table", !.words = Extract(source),
                                          !.declared = Extract(source)]
      BY <1>1, <1>2 DEF Declared
    <3> QED
      BY <3>1 DEF Idle, Shape
  <2> QED
    BY <2>1, <2>2, QuietKeepsInv
<1>3. CASE TableFilled(t)
  BY <1>1, <1>3, QuietKeepsInv DEF TableFilled, Shape
<1>4. CASE HelpFails(t)
  BY <1>1, <1>4, QuietKeepsInv DEF HelpFails, Shape
<1>5. ASSUME NEW option, NEW after, Keep(t, option, after), compiler[t].pc = "filter",
             UNCHANGED <<table, initialized, damaged>>
      PROVE  OptionsInv'
  BY <1>1, <1>5, QuietKeepsInv DEF Keep, Shape
<1>6. CASE Parameter(t)
  BY <1>5, <1>6 DEF Parameter
<1>7. CASE Option(t)
  BY <1>5, <1>7 DEF Option
<1>8. CASE Filtered(t)
  BY <1>1, <1>8, QuietKeepsInv DEF Filtered, Shape
<1>9. CASE HelpRuns(t)
  <2>1. /\ compiler' = [u \in Compilers |-> compiler'[u]]
        /\ \A u \in Compilers \ {t} : compiler'[u] = compiler[u]
        /\ Shape(compiler'[t]) /\ compiler'[t].code = compiler[t].code
        /\ compiler'[t].pc = "help" /\ compiler'[t].line = 1
        /\ compiler'[t].sure = compiler[t].sure
    BY <1>1, <1>9 DEF HelpRuns, Shape
  <2>2. compiler'[t].code = FALSE
    BY <1>9, <2>1 DEF OptionsInv, Fresh, HelpRuns
  <2>3. Parsing(t)' /\ Inserting(t)' /\ Fresh(t)'
    <3>1. compiler'[t].line - 1 = 0 /\ compiler'[t].line \in 1 .. Len(Help) + 1
      BY <2>1, HelpIsSeq
    <3>2. compiler'[t].code = InCode(compiler'[t].line - 1)
      BY <2>2, <3>1, NoSection
    <3>3. 1 .. compiler'[t].line - 1 = {}
      BY <3>1
    <3> QED
      BY <2>1, <2>2, <3>1, <3>2, <3>3 DEF Parsing, Inserting, Fresh
  <2>4. OptionsType' /\ TableSound' /\ UNCHANGED <<table, initialized, damaged>>
    BY <1>1, <1>9, <2>1 DEF HelpRuns, OptionsInv, OptionsType, TableSound
  <2> QED
    BY <2>1, <2>3, <2>4, GrowthKeepsOthers
<1>10. CASE HelpParsed(t)
  <2>1. /\ compiler' = [u \in Compilers |-> compiler'[u]]
        /\ \A u \in Compilers \ {t} : compiler'[u] = compiler[u]
        /\ Shape(compiler'[t]) /\ compiler'[t].code = compiler[t].code
        /\ compiler'[t].pc = "filter"
    BY <1>1, <1>10 DEF HelpParsed, Shape
  <2>2. UNCHANGED <<table, damaged>> /\ initialized' = TRUE /\ compiler'[t].sure = ~damaged
    BY <1>1, <1>10 DEF HelpParsed, Shape
  <2>3. ~damaged => Whole
    <3>1. Parsing(t) /\ compiler[t].pc = "help" /\ compiler[t].line > Len(Help)
      BY <1>10 DEF OptionsInv, HelpParsed
    <3>2. compiler[t].line - 1 = Len(Help)
      BY <3>1, HelpIsSeq DEF Parsing
    <3>3. ~damaged => \A i \in 1 .. Len(Help) : \A f \in Fields :
              Gives(i, f) => Help[i].names \subseteq table[f]
      BY <3>1, <3>2 DEF Parsing
    <3> QED
      BY <3>3, TakenFrom DEF Whole
  <2>4. ~damaged' => Whole'
    BY <2>2, <2>3 DEF Whole, TakesOf, InCode, Section
  <2>5. OptionsType' /\ TableSound' /\ Parsing(t)' /\ Inserting(t)' /\ Fresh(t)'
    BY <1>1, <2>1, <2>2 DEF OptionsInv, OptionsType, TableSound, Parsing, Inserting, Fresh
  <2> QED
    BY <2>1, <2>2, <2>4, <2>5, GrowthKeepsOthers
<1> QED
  BY <1>2, <1>3, <1>4, <1>6, <1>7, <1>8, <1>9, <1>10

LEMMA OptionsInvHolds == OptionsSpec => []OptionsInv
<1>1. OptionsInv /\ [OptionsNext]_optionVars => OptionsInv'
  <2> SUFFICES ASSUME OptionsInv, [OptionsNext]_optionVars PROVE OptionsInv'
    OBVIOUS
  <2>1. CASE OptionsNext
    BY <2>1, ActionKeepsInv, ParseKeepsInv, BeginKeepsInv, EndInsertKeepsInv
    DEF OptionsNext
  <2>2. CASE UNCHANGED optionVars
    BY <2>2 DEF optionVars, OptionsInv, OptionsType, TableSound, Whole, Parsing, Inserting, Fresh,
                LineOf
  <2> QED
    BY <2>1, <2>2
<1> QED
  BY <1>1, OptionsInitInv, PTL DEF OptionsSpec

(* However many threads fill the table at the same time, with no lock, and  *)
(* whatever faust -h prints: as long as no two of them were writing the     *)
(* same set at once, a thread that found g_options_initialized set, or      *)
(* filled the table, uses the whole table, and no thread that is still      *)
(* inserting damages it any more.                                           *)
THEOREM TableIsWhole == OptionsSpec => []TableWhole
<1>1. OptionsInv => TableWhole
  BY DEF OptionsInv, OptionsType, TableSound, Whole, TableWhole, Fields
<1> QED
  BY <1>1, OptionsInvHolds, PTL

-----------------------------------------------------------------------------
(* The filter.  What is kept of a declaration is read as it is written: it  *)
(* has a start for every option, so far, and what comes next is known.      *)

CleanWords == Range(Clean)
KeptWords == (UNION {TakesOf(f) : f \in Fields}) \cup Numbers \cup Names
Starts(words) == [DOMAIN words -> BOOLEAN]

\* What an action of the thread reads of it.
FilterShape(r) == {"pc", "declared", "words", "line", "code", "kept", "after", "sure"} \subseteq DOMAIN r

\* How the words that are kept are read, with the parameter that comes next.
Pending(taken, after, start) ==
    /\ ReadBy(taken, start)
    /\ after = "nothing" /\ Len(taken) > 0 /\ start[Len(taken)] =>
           taken[Len(taken)] \in TakesOf("nothing")
    /\ after # "nothing" =>
           /\ Len(taken) > 0 /\ start[Len(taken)]
           /\ taken[Len(taken)] \in TakesOf(after)

\* A declaration that faust reads is what is kept of it and what is left.
Agrees(declared, taken, words, after) ==
    /\ Len(declared) = Len(taken) + Len(words)
    /\ \A i \in 1 .. Len(taken) : taken[i] = declared[i]
    /\ \A i \in 1 .. Len(words) : words[i] = declared[Len(taken) + i]
    /\ \A start \in Starts(declared) :
          ReadBy(declared, start) /\ words # <<>> => (after = "nothing" <=> start[Len(taken) + 1])

Filter(r) ==
    /\ FilterShape(r)
    /\ r.declared \in Seq(CleanWords) /\ r.words \in Seq(CleanWords)
    /\ r.kept \in Seq(KeptWords) /\ r.after \in Fields
    /\ r.pc \notin {"filter", "done"} =>
           r.kept = <<>> /\ r.after = "nothing" /\ r.words = r.declared
    /\ r.pc = "done" => r.words = <<>>
    /\ \E start \in Starts(r.kept) : Pending(r.kept, r.after, start)
    /\ r.sure /\ r.pc \in {"filter", "done"} /\ Readable(r.declared) =>
           Agrees(r.declared, r.kept, r.words, r.after)

FilterInv == \A t \in Compilers : Filter(compiler[t])

-----------------------------------------------------------------------------
LEMMA SeqDomain ==
    ASSUME NEW S, NEW s \in Seq(S)
    PROVE  Len(s) \in Nat /\ DOMAIN s = 1 .. Len(s) /\ \A i \in 1 .. Len(s) : s[i] \in S
OBVIOUS

LEMMA KeptHas ==
    Numbers \cup Names \subseteq KeptWords /\ \A f \in Fields : TakesOf(f) \subseteq KeptWords
<1>1. ASSUME NEW w \in Numbers \cup Names PROVE w \in KeptWords
  BY <1>1 DEF KeptWords
<1>2. ASSUME NEW f \in Fields, NEW w \in TakesOf(f) PROVE w \in KeptWords
  <2>1. TakesOf(f) \in {TakesOf(g) : g \in Fields}
    OBVIOUS
  <2> QED
    BY <2>1 DEF KeptWords
<1> QED
  BY <1>1, <1>2

LEMMA OneField ==
    ASSUME NEW f \in Fields, NEW g \in Fields, NEW w \in TakesOf(f) \cap TakesOf(g)
    PROVE  f = g
BY UnambiguousAssumption DEF Fields

(* An option that is kept, at a place where one may start.                  *)
LEMMA OptionIsRead ==
    ASSUME NEW taken \in Seq(KeptWords), NEW start \in Starts(taken),
           Pending(taken, "nothing", start),
           NEW after \in Fields, NEW word \in TakesOf(after)
    PROVE  /\ Append(taken, word) \in Seq(KeptWords)
           /\ \E starts \in Starts(Append(taken, word)) : Pending(Append(taken, word), after, starts)
<1> DEFINE n == Len(taken)
           more == Append(taken, word)
           starts == [i \in 1 .. n + 1 |-> IF i = n + 1 THEN TRUE ELSE start[i]]
<1>1. /\ n = Len(taken) /\ n \in Nat /\ DOMAIN taken = 1 .. n
      /\ start \in [1 .. n -> BOOLEAN]
  BY SeqDomain DEF Starts
<1>2. word \in KeptWords
  BY DEF KeptWords
<1>3. /\ more \in Seq(KeptWords) /\ Len(more) = n + 1 /\ DOMAIN more = 1 .. n + 1
      /\ more[n + 1] = word
      /\ \A i \in 1 .. n : more[i] = taken[i]
  BY <1>1, <1>2, AppendProperties
<1>4. starts \in Starts(more) /\ starts[n + 1] = TRUE /\ \A i \in 1 .. n : starts[i] = start[i]
  <2>1. ASSUME NEW i \in 1 .. n + 1 PROVE starts[i] \in BOOLEAN
    <3>1. i # n + 1 => i \in 1 .. n
      BY <1>1, <2>1
    <3>2. i # n + 1 => start[i] \in BOOLEAN
      BY <1>1, <3>1
    <3> QED
      BY <2>1, <3>2
  <2>2. n + 1 \in 1 .. n + 1 /\ \A i \in 1 .. n : i \in 1 .. n + 1 /\ i # n + 1
    BY <1>1
  <2>3. starts \in Starts(more)
    BY <1>3, <2>1 DEF Starts
  <2> QED
    BY <2>2, <2>3
<1> HIDE DEF n, more, starts
<1>5. ReadBy(more, starts)
  <2> SUFFICES ASSUME NEW i \in 1 .. n + 1
               PROVE  IF starts[i]
                      THEN /\ more[i] \in UNION {TakesOf(f) : f \in Fields}
                           /\ i < Len(more) => (starts[i + 1] <=> more[i] \in TakesOf("nothing"))
                      ELSE /\ i > 1 /\ starts[i - 1]
                           /\ \E f \in {"number", "lang"} :
                                 more[i - 1] \in TakesOf(f) /\ Fits(more[i], f)
    BY <1>3 DEF ReadBy, Fields
  <2>1. CASE i = n + 1
    BY <1>3, <1>4, <2>1 DEF Fields
  <2>2. CASE i \in 1 .. n
    <3>1. IF start[i]
          THEN /\ taken[i] \in UNION {TakesOf(f) : f \in Fields}
               /\ i < n => (start[i + 1] <=> taken[i] \in TakesOf("nothing"))
          ELSE /\ i > 1 /\ start[i - 1]
               /\ \E f \in {"number", "lang"} :
                     taken[i - 1] \in TakesOf(f) /\ Fits(taken[i], f)
      BY <1>1, <2>2 DEF Pending, ReadBy, Fields
    <3>2. more[i] = taken[i] /\ starts[i] = start[i]
      BY <1>3, <1>4, <2>2
    <3>3. CASE start[i]
      <4>1. i < n + 1 => (starts[i + 1] <=> taken[i] \in TakesOf("nothing"))
        <5>1. CASE i < n
          <6>1. i + 1 \in 1 .. n
            BY <1>1, <2>2, <5>1
          <6> QED
            BY <1>4, <3>1, <3>3, <5>1, <6>1
        <5>2. CASE i = n
          BY <1>1, <1>4, <2>2, <3>3, <5>2 DEF Pending
        <5>3. i < n \/ i = n
          BY <1>1, <2>2
        <5> QED
          BY <5>1, <5>2, <5>3
      <4> QED
        BY <1>3, <3>1, <3>2, <3>3, <4>1
    <3>4. CASE ~start[i]
      <4>1. i > 1 /\ i - 1 \in 1 .. n
        BY <1>1, <2>2, <3>1, <3>4
      <4> QED
        BY <1>3, <1>4, <3>1, <3>2, <3>4, <4>1
    <3> QED
      BY <3>3, <3>4
  <2> QED
    BY <1>1, <2>1, <2>2
<1>6. Pending(more, after, starts)
  BY <1>1, <1>3, <1>4, <1>5 DEF Pending
<1> QED
  BY <1>3, <1>4, <1>6 DEF more

(* A parameter that is kept, after the option that takes it.                *)
LEMMA ParameterIsRead ==
    ASSUME NEW taken \in Seq(KeptWords), NEW start \in Starts(taken),
           NEW after \in {"number", "lang"}, Pending(taken, after, start),
           NEW word, Fits(word, after)
    PROVE  /\ Append(taken, word) \in Seq(KeptWords)
           /\ \E starts \in Starts(Append(taken, word)) : Pending(Append(taken, word), "nothing", starts)
<1> DEFINE n == Len(taken)
           more == Append(taken, word)
           starts == [i \in 1 .. n + 1 |-> IF i = n + 1 THEN FALSE ELSE start[i]]
<1>1. /\ n = Len(taken) /\ n \in Nat \ {0} /\ DOMAIN taken = 1 .. n
      /\ start \in [1 .. n -> BOOLEAN] /\ start[n] /\ taken[n] \in TakesOf(after)
  BY SeqDomain DEF Starts, Pending
<1>2. word \in KeptWords
  <2>1. word \in Numbers \cup Names
    BY DEF Fits
  <2> QED
    BY ONLY <2>1, KeptHas
<1>3. /\ more \in Seq(KeptWords) /\ Len(more) = n + 1 /\ DOMAIN more = 1 .. n + 1
      /\ more[n + 1] = word
      /\ \A i \in 1 .. n : more[i] = taken[i]
  BY <1>1, <1>2, AppendProperties
<1>4. starts \in Starts(more) /\ starts[n + 1] = FALSE /\ \A i \in 1 .. n : starts[i] = start[i]
  <2>1. ASSUME NEW i \in 1 .. n + 1 PROVE starts[i] \in BOOLEAN
    <3>1. i # n + 1 => i \in 1 .. n
      BY <1>1, <2>1
    <3>2. i # n + 1 => start[i] \in BOOLEAN
      BY <1>1, <3>1
    <3> QED
      BY <2>1, <3>2
  <2>2. n + 1 \in 1 .. n + 1 /\ \A i \in 1 .. n : i \in 1 .. n + 1 /\ i # n + 1
    BY <1>1
  <2>3. starts \in Starts(more)
    BY <1>3, <2>1 DEF Starts
  <2> QED
    BY <2>2, <2>3
<1>5. taken[n] \notin TakesOf("nothing")
  BY <1>1, OneField DEF Fields
<1> HIDE DEF n, more, starts
<1>6. ReadBy(more, starts)
  <2> SUFFICES ASSUME NEW i \in 1 .. n + 1
               PROVE  IF starts[i]
                      THEN /\ more[i] \in UNION {TakesOf(f) : f \in Fields}
                           /\ i < Len(more) => (starts[i + 1] <=> more[i] \in TakesOf("nothing"))
                      ELSE /\ i > 1 /\ starts[i - 1]
                           /\ \E f \in {"number", "lang"} :
                                 more[i - 1] \in TakesOf(f) /\ Fits(more[i], f)
    BY <1>3 DEF ReadBy, Fields
  <2>1. CASE i = n + 1
    <3>1. i > 1 /\ i - 1 = n /\ n \in 1 .. n
      BY <1>1, <2>1
    <3>2. starts[i - 1] /\ more[i - 1] \in TakesOf(after) /\ Fits(more[i], after) /\ ~starts[i]
      BY <1>1, <1>3, <1>4, <2>1, <3>1
    <3> QED
      BY <3>1, <3>2
  <2>2. CASE i \in 1 .. n
    <3>1. IF start[i]
          THEN /\ taken[i] \in UNION {TakesOf(f) : f \in Fields}
               /\ i < n => (start[i + 1] <=> taken[i] \in TakesOf("nothing"))
          ELSE /\ i > 1 /\ start[i - 1]
               /\ \E f \in {"number", "lang"} :
                     taken[i - 1] \in TakesOf(f) /\ Fits(taken[i], f)
      BY <1>1, <2>2 DEF Pending, ReadBy, Fields
    <3>2. more[i] = taken[i] /\ starts[i] = start[i]
      BY <1>3, <1>4, <2>2
    <3>3. CASE start[i]
      <4>1. i < n + 1 => (starts[i + 1] <=> taken[i] \in TakesOf("nothing"))
        <5>1. CASE i < n
          <6>1. i + 1 \in 1 .. n
            BY <1>1, <2>2, <5>1
          <6> QED
            BY <1>4, <3>1, <3>3, <5>1, <6>1
        <5>2. CASE i = n
          BY <1>1, <1>4, <1>5, <5>2
        <5>3. i < n \/ i = n
          BY <1>1, <2>2
        <5> QED
          BY <5>1, <5>2, <5>3
      <4> QED
        BY <1>3, <3>1, <3>2, <3>3, <4>1
    <3>4. CASE ~start[i]
      <4>1. i > 1 /\ i - 1 \in 1 .. n
        BY <1>1, <2>2, <3>1, <3>4
      <4> QED
        BY <1>3, <1>4, <3>1, <3>2, <3>4, <4>1
    <3> QED
      BY <3>3, <3>4
  <2> QED
    BY <1>1, <2>1, <2>2
<1>7. Pending(more, "nothing", starts)
  BY <1>1, <1>3, <1>4, <1>6 DEF Pending
<1> QED
  BY <1>3, <1>4, <1>7 DEF more

(* An option that is dropped, with its parameter.                           *)
LEMMA DroppedIsRead ==
    ASSUME NEW taken \in Seq(KeptWords), NEW start \in Starts(taken),
           NEW after \in {"number", "lang"}, Pending(taken, after, start)
    PROVE  /\ Front(taken) \in Seq(KeptWords)
           /\ \E starts \in Starts(Front(taken)) : Pending(Front(taken), "nothing", starts)
<1> DEFINE n == Len(taken)
           less == Front(taken)
           starts == [i \in 1 .. n - 1 |-> start[i]]
<1>1. /\ n = Len(taken) /\ n \in Nat \ {0} /\ DOMAIN taken = 1 .. n
      /\ start \in [1 .. n -> BOOLEAN] /\ start[n]
  BY SeqDomain DEF Starts, Pending
<1>2. /\ less \in Seq(KeptWords) /\ Len(less) = n - 1 /\ DOMAIN less = 1 .. n - 1
      /\ \A i \in 1 .. n - 1 : less[i] = taken[i]
  BY <1>1, SubSeqProperties DEF Front
<1>3. starts \in Starts(less) /\ \A i \in 1 .. n - 1 : starts[i] = start[i]
  BY <1>1, <1>2 DEF Starts
<1>4. \A i \in 1 .. n :
        IF start[i]
        THEN /\ taken[i] \in UNION {TakesOf(f) : f \in Fields}
             /\ i < n => (start[i + 1] <=> taken[i] \in TakesOf("nothing"))
        ELSE /\ i > 1 /\ start[i - 1]
             /\ \E f \in {"number", "lang"} :
                   taken[i - 1] \in TakesOf(f) /\ Fits(taken[i], f)
  BY <1>1 DEF Pending, ReadBy, Fields
<1> HIDE DEF n, less, starts
<1>5. ReadBy(less, starts)
  <2> SUFFICES ASSUME NEW i \in 1 .. n - 1
               PROVE  IF starts[i]
                      THEN /\ less[i] \in UNION {TakesOf(f) : f \in Fields}
                           /\ i < Len(less) => (starts[i + 1] <=> less[i] \in TakesOf("nothing"))
                      ELSE /\ i > 1 /\ starts[i - 1]
                           /\ \E f \in {"number", "lang"} :
                                 less[i - 1] \in TakesOf(f) /\ Fits(less[i], f)
    BY <1>2 DEF ReadBy, Fields
  <2>1. i \in 1 .. n /\ less[i] = taken[i] /\ starts[i] = start[i]
    BY <1>1, <1>2, <1>3
  <2>2. CASE start[i]
    <3>1. i < n - 1 => i < n /\ i + 1 \in 1 .. n - 1
      BY <1>1
    <3> QED
      BY <1>2, <1>3, <1>4, <2>1, <2>2, <3>1
  <2>3. CASE ~start[i]
    <3>1. i > 1 /\ i - 1 \in 1 .. n - 1
      BY <1>1, <1>4, <2>1, <2>3
    <3> QED
      BY <1>2, <1>3, <1>4, <2>1, <2>3, <3>1
  <2> QED
    BY <2>2, <2>3
<1>6. ASSUME n - 1 > 0, starts[n - 1] PROVE less[n - 1] \in TakesOf("nothing")
  <2>1. n - 1 \in 1 .. n - 1 /\ n - 1 \in 1 .. n /\ n - 1 < n /\ (n - 1) + 1 = n
    BY <1>1, <1>6
  <2> QED
    BY <1>1, <1>2, <1>3, <1>4, <1>6, <2>1
<1>7. Pending(less, "nothing", starts)
  BY <1>2, <1>5, <1>6 DEF Pending
<1> QED
  BY <1>2, <1>3, <1>7 DEF less
-----------------------------------------------------------------------------
(* What a word of a declaration that is read, and kept whole so far, is.    *)
LEMMA NextOfDeclared ==
    ASSUME NEW declared \in Seq(CleanWords), NEW taken \in Seq(KeptWords),
           NEW words \in Seq(CleanWords), words # <<>>,
           NEW after, Agrees(declared, taken, words, after)
    PROVE  LET n == Len(taken) IN
           /\ n + 1 \in 1 .. Len(declared) /\ Head(words) = declared[n + 1]
           /\ Tail(words) \in Seq(CleanWords)
           /\ Tail(words) # <<>> => n + 2 \in 1 .. Len(declared)
           /\ \A start \in Starts(declared) :
                 ReadBy(declared, start) => (after = "nothing" <=> start[n + 1])
           /\ Head(words) \in KeptWords =>
                 LET more == Append(taken, Head(words)) IN
                 /\ Len(declared) = Len(more) + Len(Tail(words)) /\ Len(more) = n + 1
                 /\ \A i \in 1 .. Len(more) : more[i] = declared[i]
                 /\ \A i \in 1 .. Len(Tail(words)) : Tail(words)[i] = declared[Len(more) + i]
<1> DEFINE n == Len(taken)
           m == Len(words)
           more == Append(taken, Head(words))
<1>1. /\ n = Len(taken) /\ n \in Nat /\ m = Len(words) /\ m \in Nat \ {0}
      /\ Head(words) = words[1] /\ Tail(words) \in Seq(CleanWords)
      /\ Len(Tail(words)) = m - 1
      /\ \A i \in 1 .. m - 1 : Tail(words)[i] = words[i + 1]
  BY HeadTailProperties, SeqDomain
<1>2. /\ Len(declared) = n + m
      /\ \A i \in 1 .. n : taken[i] = declared[i]
      /\ \A i \in 1 .. m : words[i] = declared[n + i]
      /\ \A start \in Starts(declared) :
            ReadBy(declared, start) => (after = "nothing" <=> start[n + 1])
  BY DEF Agrees
<1>3. Tail(words) # <<>> => m > 1
  BY <1>1
<1>4. Head(words) \in KeptWords =>
          /\ Len(more) = n + 1 /\ more[n + 1] = Head(words)
          /\ \A i \in 1 .. n : more[i] = taken[i]
  BY AppendProperties
<1> HIDE DEF n, m, more
<1>5. n + 1 \in 1 .. Len(declared) /\ (m > 1 => n + 2 \in 1 .. Len(declared))
  BY <1>1, <1>2
<1>6. 1 \in 1 .. m /\ Head(words) = declared[n + 1]
  BY <1>1, <1>2
<1>7. ASSUME Head(words) \in KeptWords
      PROVE  /\ Len(declared) = Len(more) + Len(Tail(words)) /\ Len(more) = n + 1
             /\ \A i \in 1 .. Len(more) : more[i] = declared[i]
             /\ \A i \in 1 .. Len(Tail(words)) : Tail(words)[i] = declared[Len(more) + i]
  <2>1. Len(declared) = (n + 1) + (m - 1)
    BY <1>1, <1>2
  <2>2. ASSUME NEW i \in 1 .. n + 1 PROVE more[i] = declared[i]
    <3>1. i = n + 1 \/ i \in 1 .. n
      BY <1>1
    <3> QED
      BY <1>2, <1>4, <1>6, <1>7, <3>1
  <2>3. ASSUME NEW i \in 1 .. m - 1 PROVE Tail(words)[i] = declared[(n + 1) + i]
    <3>1. i + 1 \in 1 .. m /\ n + (i + 1) = (n + 1) + i
      BY <1>1
    <3> QED
      BY <1>1, <1>2, <3>1
  <2> QED
    BY <1>1, <1>4, <1>7, <2>1, <2>2, <2>3
<1> QED
  BY <1>1, <1>2, <1>3, <1>5, <1>6, <1>7 DEF n, more

LEMMA OptionAgrees ==
    ASSUME NEW declared \in Seq(CleanWords), NEW taken \in Seq(KeptWords),
           NEW words \in Seq(CleanWords), words # <<>>,
           Readable(declared), Agrees(declared, taken, words, "nothing")
    PROVE  /\ \E f \in Fields : Head(words) \in TakesOf(f)
           /\ \A f \in Fields : Head(words) \in TakesOf(f) =>
                 Agrees(declared, Append(taken, Head(words)), Tail(words), f)
<1> DEFINE n == Len(taken)
           word == Head(words)
           rest == Tail(words)
           more == Append(taken, word)
<1>1. n \in Nat /\ DOMAIN declared = 1 .. Len(declared) /\ Len(declared) \in Nat
  BY SeqDomain
<1>2. /\ n + 1 \in 1 .. Len(declared) /\ word = declared[n + 1]
      /\ rest # <<>> => n + 2 \in 1 .. Len(declared)
      /\ \A start \in Starts(declared) : ReadBy(declared, start) => start[n + 1]
      /\ word \in KeptWords =>
            /\ Len(declared) = Len(more) + Len(rest) /\ Len(more) = n + 1
            /\ \A i \in 1 .. Len(more) : more[i] = declared[i]
            /\ \A i \in 1 .. Len(rest) : rest[i] = declared[Len(more) + i]
  BY NextOfDeclared
<1> HIDE DEF n, word, rest, more
<1>3. \A start \in Starts(declared) : ReadBy(declared, start) =>
          /\ word \in UNION {TakesOf(f) : f \in Fields}
          /\ n + 1 < Len(declared) => (start[(n + 1) + 1] <=> word \in TakesOf("nothing"))
  BY <1>1, <1>2 DEF ReadBy, Fields
<1>4. \E f \in Fields : word \in TakesOf(f)
  <2>1. PICK start \in Starts(declared) : ReadBy(declared, start)
    BY DEF Readable, Starts
  <2> QED
    BY <1>3, <2>1
<1>5. ASSUME NEW f \in Fields, word \in TakesOf(f)
      PROVE  Agrees(declared, more, rest, f)
  <2>1. word \in KeptWords
    BY <1>5, KeptHas
  <2>2. ASSUME NEW start \in Starts(declared), ReadBy(declared, start), rest # <<>>
        PROVE  f = "nothing" <=> start[Len(more) + 1]
    <3>1. n + 2 \in 1 .. Len(declared) /\ Len(more) = n + 1
      BY <1>2, <2>1, <2>2
    <3>4. n + 1 < Len(declared)
      BY <1>1, <3>1
    <3>2. start[(n + 1) + 1] <=> word \in TakesOf("nothing")
      BY <1>3, <2>2, <3>4
    <3>3. word \in TakesOf("nothing") <=> f = "nothing"
      BY <1>5, OneField DEF Fields
    <3> QED
      BY <3>1, <3>2, <3>3
  <2> QED
    BY <1>2, <2>1, <2>2 DEF Agrees
<1> QED
  BY <1>4, <1>5 DEF word, rest, more

LEMMA ParameterAgrees ==
    ASSUME NEW declared \in Seq(CleanWords), NEW taken \in Seq(KeptWords),
           NEW words \in Seq(CleanWords), words # <<>>,
           NEW after \in {"number", "lang"},
           Readable(declared), Agrees(declared, taken, words, after),
           Len(taken) > 0, taken[Len(taken)] \in TakesOf(after)
    PROVE  /\ Fits(Head(words), after)
           /\ Agrees(declared, Append(taken, Head(words)), Tail(words), "nothing")
<1> DEFINE n == Len(taken)
           word == Head(words)
           rest == Tail(words)
           more == Append(taken, word)
<1>1. /\ n \in Nat \ {0} /\ DOMAIN declared = 1 .. Len(declared) /\ Len(declared) \in Nat
      /\ taken[n] \in TakesOf(after) /\ taken[n] = declared[n]
  <2>1. n \in Nat \ {0} /\ DOMAIN declared = 1 .. Len(declared) /\ Len(declared) \in Nat
    BY SeqDomain
  <2>2. n \in 1 .. n
    BY <2>1
  <2> QED
    BY <2>1, <2>2 DEF Agrees
<1>2. /\ n + 1 \in 1 .. Len(declared) /\ word = declared[n + 1]
      /\ rest # <<>> => n + 2 \in 1 .. Len(declared)
      /\ \A start \in Starts(declared) : ReadBy(declared, start) => ~start[n + 1]
      /\ word \in KeptWords =>
            /\ Len(declared) = Len(more) + Len(rest) /\ Len(more) = n + 1
            /\ \A i \in 1 .. Len(more) : more[i] = declared[i]
            /\ \A i \in 1 .. Len(rest) : rest[i] = declared[Len(more) + i]
  BY NextOfDeclared
<1> HIDE DEF n, word, rest, more
<1>3. Fits(word, after)
  <2>1. PICK start \in Starts(declared) : ReadBy(declared, start)
    BY DEF Readable, Starts
  <2>5. n + 1 \in DOMAIN declared /\ ~start[n + 1]
    BY <1>1, <1>2, <2>1
  <2>2. PICK f \in {"number", "lang"} : declared[(n + 1) - 1] \in TakesOf(f) /\ Fits(word, f)
    BY <1>2, <2>1, <2>5 DEF ReadBy
  <2>3. (n + 1) - 1 = n
    BY <1>1
  <2>4. f = after
    BY <1>1, <2>2, <2>3, OneField DEF Fields
  <2> QED
    BY <2>2, <2>4
<1>4. word \in KeptWords
  <2>1. word \in Numbers \cup Names
    BY <1>3 DEF Fits
  <2> QED
    BY ONLY <2>1, KeptHas
<1>5. ASSUME NEW start \in Starts(declared), ReadBy(declared, start), rest # <<>>
      PROVE  start[Len(more) + 1]
  <2>3. n + 2 \in 1 .. Len(declared) /\ Len(more) = n + 1
    BY <1>2, <1>4, <1>5
  <2>1. n + 2 \in DOMAIN declared /\ (n + 2) - 1 = n + 1 /\ Len(more) + 1 = n + 2
    BY <1>1, <2>3
  <2>2. ~start[n + 2] => start[(n + 2) - 1]
    BY <1>5, <2>1 DEF ReadBy
  <2> QED
    BY <1>2, <1>5, <2>1, <2>2
<1>6. Agrees(declared, more, rest, "nothing")
  BY <1>2, <1>4, <1>5 DEF Agrees
<1> QED
  BY <1>3, <1>6 DEF word, rest, more
-----------------------------------------------------------------------------
(* One thread filters a word; the words of the others stay.                 *)
LEMMA KeepKeepsFilter ==
    ASSUME OptionsType, FilterInv, NEW t \in Compilers,
           At(t, "filter"), compiler[t].words # <<>>,
           NEW taken \in Seq(KeptWords), NEW after \in Fields, Keep(t, taken, after),
           \E start \in Starts(taken) : Pending(taken, after, start),
           compiler[t].sure /\ Readable(compiler[t].declared) =>
               Agrees(compiler[t].declared, taken, Tail(compiler[t].words), after)
    PROVE  FilterInv'
<1> DEFINE c == compiler[t]
           d == compiler'[t]
<1>1. Filter(c) /\ c.pc = "filter"
  BY DEF FilterInv, At
<1>2. Tail(c.words) \in Seq(CleanWords)
  BY <1>1, HeadTailProperties DEF Filter
<1>3. /\ d = [c EXCEPT !.words = Tail(@), !.kept = taken, !.after = after]
      /\ \A u \in Compilers \ {t} : compiler'[u] = compiler[u]
  BY DEF Keep, OptionsType
<1> HIDE DEF c, d
<1>4. /\ FilterShape(d) /\ d.words = Tail(c.words) /\ d.kept = taken /\ d.after = after
      /\ d.declared = c.declared /\ d.pc = c.pc /\ d.sure = c.sure
  BY <1>1, <1>3 DEF Filter, FilterShape
<1>5. Filter(d)
  BY <1>1, <1>2, <1>4 DEF Filter, c
<1>6. \A u \in Compilers \ {t} : Filter(compiler'[u])
  BY <1>3 DEF FilterInv
<1> QED
  BY <1>5, <1>6 DEF FilterInv, d

LEMMA OptionKeepsFilter ==
    ASSUME OptionsInv, FilterInv, NEW t \in Compilers, Option(t) PROVE FilterInv'
<1> DEFINE c == compiler[t]
           word == Head(c.words)
           more == Append(c.kept, word)
<1>1. /\ OptionsType /\ TableSound /\ (c.sure => Whole /\ ~damaged) /\ Filter(c)
      /\ At(t, "filter") /\ c.words # <<>> /\ c.after = "nothing" /\ c.pc = "filter"
  BY DEF OptionsInv, FilterInv, Option, At
<1>2. PICK start \in Starts(c.kept) : Pending(c.kept, "nothing", start)
  BY <1>1 DEF Filter
<1>3. /\ c.declared \in Seq(CleanWords) /\ c.words \in Seq(CleanWords)
      /\ c.kept \in Seq(KeptWords)
      /\ c.sure /\ Readable(c.declared) => Agrees(c.declared, c.kept, c.words, "nothing")
  BY <1>1 DEF Filter
<1>4. c.sure /\ Readable(c.declared) =>
          /\ \E f \in Fields : word \in TakesOf(f)
          /\ \A f \in Fields : word \in TakesOf(f) => Agrees(c.declared, more, Tail(c.words), f)
  BY <1>1, <1>3, OptionAgrees
<1>5. ASSUME NEW f \in Fields, word \in table[f], Keep(t, more, f)
      PROVE  FilterInv'
  <2>1. word \in TakesOf(f)
    BY <1>1, <1>5 DEF TableSound
  <2>2. more \in Seq(KeptWords) /\ \E starts \in Starts(more) : Pending(more, f, starts)
    BY <1>2, <1>3, <2>1, OptionIsRead
  <2> QED
    BY <1>1, <1>4, <1>5, <2>1, <2>2, KeepKeepsFilter
<1>6. ASSUME c.sure, NEW sets \in Finds(word)
      PROVE  \A f \in Fields : word \in TakesOf(f) => f \in sets
  <2>1. \A u \in Compilers, f \in Fields : ~PutsNew(u, f)
    <3>1. ASSUME NEW u \in Compilers, NEW f \in Fields, PutsNew(u, f) PROVE FALSE
      <4>1. /\ compiler[u].line \in 1 .. Len(Help) /\ Gives(compiler[u].line, f)
            /\ LineOf(u).follows = f
        BY <3>1 DEF OptionsInv, Inserting, PutsNew, At
      <4>2. LineOf(u).names \subseteq TakesOf(f)
        BY <4>1, TakenFrom DEF LineOf
      <4> QED
        BY <1>1, <1>6, <3>1, <4>1, <4>2 DEF PutsNew, New, Whole
    <3> QED
      BY <3>1
  <2>2. DOMAIN table = Fields
    BY <1>1 DEF OptionsType
  <2> QED
    BY <1>1, <1>6, <2>1, <2>2 DEF Finds, Whole
<1>7. PICK sets \in Finds(word) :
          Keep(t, IF sets = {} THEN c.kept ELSE more,
               CASE sets = {} \/ "nothing" \in sets -> "nothing"
                 [] "number" \in sets \ {"nothing"} -> "number"
                 [] OTHER -> "lang")
  BY Zenon DEF Option
<1>8. \A f \in sets : f \in Fields /\ word \in table[f]
  BY <1>1 DEF Finds, OptionsType
<1> HIDE DEF more, word
<1>9. CASE sets = {}
  <2>1. ~(c.sure /\ Readable(c.declared))
    BY <1>4, <1>6, <1>9 DEF Fields
  <2>2. Keep(t, c.kept, "nothing")
    BY <1>7, <1>9
  <2> QED
    BY <1>1, <1>2, <1>3, <2>1, <2>2, KeepKeepsFilter DEF Fields
<1>10. CASE sets # {}
  <2>1. PICK f \in sets : Keep(t, more, f)
    BY <1>7, <1>8, <1>10 DEF Fields
  <2> QED
    BY <1>5, <1>8, <2>1
<1> QED
  BY <1>9, <1>10

LEMMA ParameterKeepsFilter ==
    ASSUME OptionsInv, FilterInv, NEW t \in Compilers, Parameter(t) PROVE FilterInv'
<1> DEFINE c == compiler[t]
           word == Head(c.words)
           more == Append(c.kept, word)
           less == Front(c.kept)
<1>1. /\ OptionsType /\ Filter(c)
      /\ At(t, "filter") /\ c.words # <<>> /\ c.after # "nothing" /\ c.pc = "filter"
  BY DEF OptionsInv, FilterInv, Parameter, At
<1>2. PICK start \in Starts(c.kept) : Pending(c.kept, c.after, start)
  BY <1>1 DEF Filter
<1>3. /\ c.declared \in Seq(CleanWords) /\ c.words \in Seq(CleanWords)
      /\ c.kept \in Seq(KeptWords) /\ c.after \in {"number", "lang"}
      /\ c.sure /\ Readable(c.declared) => Agrees(c.declared, c.kept, c.words, c.after)
  BY <1>1 DEF Filter, Fields
<1>4. Len(c.kept) > 0 /\ c.kept[Len(c.kept)] \in TakesOf(c.after)
  BY <1>1, <1>2 DEF Pending
<1>5. c.sure /\ Readable(c.declared) =>
          Fits(word, c.after) /\ Agrees(c.declared, more, Tail(c.words), "nothing")
  BY <1>1, <1>3, <1>4, ParameterAgrees
<1>6. CASE Fits(word, c.after)
  <2>1. Keep(t, more, "nothing")
    BY <1>6 DEF Parameter
  <2>2. more \in Seq(KeptWords) /\ \E starts \in Starts(more) : Pending(more, "nothing", starts)
    BY <1>2, <1>3, <1>6, ParameterIsRead
  <2> QED
    BY <1>1, <1>5, <2>1, <2>2, KeepKeepsFilter DEF Fields
<1>7. CASE ~Fits(word, c.after)
  <2>1. Keep(t, less, "nothing")
    BY <1>7 DEF Parameter
  <2>2. less \in Seq(KeptWords) /\ \E starts \in Starts(less) : Pending(less, "nothing", starts)
    BY <1>2, <1>3, DroppedIsRead
  <2>3. ~(c.sure /\ Readable(c.declared))
    BY <1>5, <1>7
  <2> QED
    BY <1>1, <2>1, <2>2, <2>3, KeepKeepsFilter DEF Fields
<1> QED
  BY <1>6, <1>7

(* The steps that do not read a word of the declaration.                    *)
LEMMA RestKeepsFilter ==
    ASSUME OptionsInv, FilterInv, NEW t \in Compilers, NEW d, Filter(d),
           compiler' = [compiler EXCEPT ![t] = d]
    PROVE  FilterInv'
<1>1. compiler'[t] = d /\ \A u \in Compilers \ {t} : compiler'[u] = compiler[u]
  BY DEF OptionsInv, OptionsType
<1> QED
  BY <1>1 DEF FilterInv

(* What is left of the words of a declaration: every one was cleaned.       *)
LEMMA ExtractIs == ASSUME NEW source \in Sources PROVE Extract(source) \in Seq(CleanWords)
<1> DEFINE declaring == {i \in DOMAIN source : i <= MaxLines /\ source[i].declares}
           first == CHOOSE i \in declaring : \A j \in declaring : i <= j
           words == source[first].words
           S == DOMAIN words
           V == Seq(CleanWords)
           Skips(x) == Clean[x] = ""
           h == [i \in S |-> [v \in V |-> IF Skips(words[i]) THEN v
                                          ELSE Append(v, Clean[words[i]])]]
           c == [s \in SUBSET S |-> Max(s)]
           Iterates(f) == f = [s \in SUBSET S |->
               IF s = {} THEN <<>>
               ELSE IF Skips(words[Max(s)]) THEN f[s \ {Max(s)}]
               ELSE Append(f[s \ {Max(s)}], Clean[words[Max(s)]])]
           iter == CHOOSE f : Iterates(f)
<1>1. CASE declaring = {}
  BY <1>1, EmptySeq DEF Extract
<1>2. CASE declaring # {}
  <2>1. words \in Seq(DOMAIN Clean)
    <3>1. declaring \in SUBSET Nat
      BY SourceAssumption, LenProperties
    <3>2. first \in declaring
      <4> HIDE DEF declaring
      <4> QED
        BY <1>2, <3>1, SmallestExists
    <3> HIDE DEF first
    <3> QED
      BY <3>2, SourceAssumption
  <2>2. /\ S = 1 .. Len(words) /\ Len(words) \in Nat /\ IsFiniteSet(S)
        /\ \A i \in S : words[i] \in DOMAIN Clean /\ Clean[words[i]] \in CleanWords
    <3> HIDE DEF words
    <3>1. S = 1 .. Len(words) /\ Len(words) \in Nat
      BY <2>1, LenProperties
    <3>2. \A i \in S : words[i] \in DOMAIN Clean
      BY <2>1, <3>1, ElementOfSeq
    <3> QED
      BY <3>1, <3>2, CountInterval DEF CleanWords, Range
  <2> HIDE DEF words
  <2>3. h \in [S -> [V -> V]]
    <3>1. \A i \in S : \A v \in V : (IF Skips(words[i]) THEN v ELSE Append(v, Clean[words[i]])) \in V
      BY <2>2, AppendProperties
    <3> HIDE DEF Skips, S, V
    <3> QED
      BY <3>1
  <2>4. \A s \in SUBSET S : s # {} => c[s] = Max(s) /\ c[s] \in s
    BY <2>2, GreatestExists
  <2>5. PICK g \in [SUBSET S -> V] : Folds(S, <<>>, h, c, g)
    <3>1. <<>> \in V
      OBVIOUS
    <3> HIDE DEF S, V, h, c
    <3> QED
      BY <2>2, <2>3, <2>4, <3>1, FoldsExist
  <2>6. ASSUME NEW f, NEW s \in SUBSET S, f[s \ {c[s]}] \in V
        PROVE  (IF s = {} THEN <<>> ELSE h[c[s]][f[s \ {c[s]}]])
               = IF s = {} THEN <<>>
                 ELSE IF Skips(words[Max(s)]) THEN f[s \ {Max(s)}]
                 ELSE Append(f[s \ {Max(s)}], Clean[words[Max(s)]])
    <3>1. CASE s = {}
      BY <3>1
    <3>2. CASE s # {}
      <4>1. c[s] = Max(s) /\ c[s] \in S
        BY <2>4, <3>2
      <4>2. h[c[s]] = [v \in V |-> IF Skips(words[c[s]]) THEN v
                                   ELSE Append(v, Clean[words[c[s]]])]
        BY <4>1
      <4> HIDE DEF h, c, Skips, S, V
      <4> QED
        BY <2>6, <3>2, <4>1, <4>2
    <3> QED
      BY <3>1, <3>2
  <2> HIDE DEF h, c
  <2>7. Iterates(g)
    <3>1. \A s \in SUBSET S : g[s \ {c[s]}] \in V
      BY <2>5
    <3>2. \A s \in SUBSET S :
            g[s] = IF s = {} THEN <<>>
                   ELSE IF Skips(words[Max(s)]) THEN g[s \ {Max(s)}]
                   ELSE Append(g[s \ {Max(s)}], Clean[words[Max(s)]])
      BY <2>5, <2>6, <3>1 DEF Folds
    <3> HIDE DEF S, V, Skips
    <3> QED
      BY <2>5, <3>2
  <2>8. Iterates(iter)
    <3> HIDE DEF Iterates
    <3> QED
      BY <2>7
  <2>9. Extract(source) = iter[S]
    BY <1>2 DEF Extract, FoldLeft, MapThenFoldSet, words
  <2> HIDE DEF iter
  <2>10. iter[S] = g[S]
    <3>1. ASSUME NEW s \in SUBSET S, s = {} \/ iter[s \ {c[s]}] = g[s \ {c[s]}]
          PROVE  iter[s] = g[s]
      <4>1. s # {} => c[s] = Max(s)
        BY <2>4
      <4>2. iter[s] = IF s = {} THEN <<>>
                      ELSE IF Skips(words[Max(s)]) THEN iter[s \ {Max(s)}]
                      ELSE Append(iter[s \ {Max(s)}], Clean[words[Max(s)]])
        <5> HIDE DEF S, Skips
        <5> QED
          BY <2>8
      <4>3. g[s] = IF s = {} THEN <<>>
                   ELSE IF Skips(words[Max(s)]) THEN g[s \ {Max(s)}]
                   ELSE Append(g[s \ {Max(s)}], Clean[words[Max(s)]])
        <5> HIDE DEF S, Skips
        <5> QED
          BY <2>7
      <4> HIDE DEF S, Skips
      <4> QED
        BY <3>1, <4>1, <4>2, <4>3
    <3>2. \A s \in SUBSET S : s = {} \/ iter[s \ {c[s]}] = g[s \ {c[s]}] => iter[s] = g[s]
      BY <3>1
    <3>3. IsFiniteSet(S) /\ \A s \in SUBSET S : s # {} => c[s] \in s
      BY <2>2, <2>4
    <3> DEFINE Bad == {s \in SUBSET S : iter[s] # g[s]}
    <3> SUFFICES ASSUME Bad # {} PROVE FALSE
      OBVIOUS
    <3>4. PICK m \in Bad : \A s \in Bad : ~(s \subseteq m /\ s # m)
      <4>1. Bad \in SUBSET SUBSET S
        OBVIOUS
      <4> HIDE DEF Bad, S
      <4> QED
        BY <3>3, <4>1, SmallestSet
    <3>5. m \in SUBSET S /\ iter[m] # g[m]
      BY <3>4
    <3> HIDE DEF S
    <3>6. m # {} /\ c[m] \in m
      BY <3>2, <3>3, <3>5
    <3>7. m \ {c[m]} \notin Bad /\ m \ {c[m]} \in SUBSET S
      <4> HIDE DEF Bad
      <4> QED
        BY <3>4, <3>5, <3>6
    <3>8. iter[m \ {c[m]}] = g[m \ {c[m]}]
      BY <3>7
    <3> QED
      BY <3>2, <3>5, <3>8
  <2> QED
    BY <2>5, <2>9, <2>10
<1> QED
  BY <1>1, <1>2

LEMMA EmptyIsRead ==
    ASSUME NEW declared \in Seq(CleanWords)
    PROVE  /\ <<>> \in Seq(KeptWords)
           /\ \E start \in Starts(<<>>) : Pending(<<>>, "nothing", start)
           /\ Readable(declared) => Agrees(declared, <<>>, declared, "nothing")
<1>1. <<>> \in Seq(KeptWords) /\ Len(<<>>) = 0 /\ DOMAIN <<>> = {}
  BY EmptySeq
<1>2. <<>> \in Starts(<<>>)
  BY <1>1 DEF Starts
<1>3. Pending(<<>>, "nothing", <<>>)
  BY <1>1 DEF Pending, ReadBy
<1>4. ASSUME NEW start \in Starts(declared), ReadBy(declared, start), declared # <<>>
      PROVE  start[0 + 1]
  <2>1. 1 \in DOMAIN declared
    BY <1>4, SeqDomain
  <2> QED
    BY <1>4, <2>1 DEF ReadBy
<1>5. Agrees(declared, <<>>, declared, "nothing")
  BY <1>1, <1>4, SeqDomain DEF Agrees
<1> QED
  BY <1>1, <1>2, <1>3, <1>5
LEMMA FilterInitInv == OptionsInit => FilterInv
<1> SUFFICES ASSUME OptionsInit, NEW t \in Compilers PROVE Filter(compiler[t])
  BY DEF FilterInv
<1>1. compiler[t] = Idle
  BY DEF OptionsInit
<1>2. <<>> \in Seq(CleanWords)
  BY EmptySeq
<1>3. Filter(Idle)
  BY <1>2, EmptyIsRead DEF Filter, FilterShape, Idle, Fields
<1> QED
  BY <1>1, <1>3

LEMMA StepKeepsFilter ==
    ASSUME OptionsInv, FilterInv, OptionsNext PROVE FilterInv'
<1> PICK t \in Compilers :
        \/ Declared(t) \/ TableFilled(t) \/ HelpRuns(t) \/ HelpFails(t)
        \/ ParseLine(t) \/ InsertBegins(t) \/ InsertEnds(t) \/ HelpParsed(t)
        \/ Parameter(t) \/ Option(t) \/ Filtered(t)
  BY DEF OptionsNext
<1> DEFINE c == compiler[t]
<1>1. Filter(c) /\ FilterShape(c) /\ compiler = [u \in Compilers |-> compiler[u]]
  BY DEF FilterInv, Filter, OptionsInv, OptionsType
<1>2. CASE Declared(t)
  <2>1. PICK source \in Sources :
            compiler' = [compiler EXCEPT ![t] =
                [Idle EXCEPT !.pc = "table", !.words = Extract(source),
                             !.declared = Extract(source)]]
    BY <1>2 DEF Declared
  <2> DEFINE words == Extract(source)
             d == [Idle EXCEPT !.pc = "table", !.words = words, !.declared = words]
  <2>2. words \in Seq(CleanWords)
    BY ExtractIs
  <2>3. compiler' = [compiler EXCEPT ![t] = d]
    BY <2>1
  <2> HIDE DEF words
  <2>4. Filter(d)
    BY <2>2, EmptyIsRead DEF Filter, FilterShape, Idle, Fields
  <2> QED
    BY <2>3, <2>4, RestKeepsFilter
\* The thread is at the table, or reads the help.
<1>3. ASSUME c.pc \in {"table", "help", "insert"}, NEW d,
             compiler' = [compiler EXCEPT ![t] = d],
             FilterShape(d), d.pc \in {"help", "insert", "filter"}, d.declared = c.declared,
             d.words = c.words, d.kept = c.kept, d.after = c.after
      PROVE  FilterInv'
  <2>1. c.kept = <<>> /\ c.after = "nothing" /\ c.words = c.declared
    BY <1>1, <1>3 DEF Filter
  <2>2. c.declared \in Seq(CleanWords)
    BY <1>1 DEF Filter
  <2>3. Filter(d)
    BY <1>3, <2>1, <2>2, EmptyIsRead DEF Filter, Fields
  <2> QED
    BY <1>3, <2>3, RestKeepsFilter
<1>4. CASE TableFilled(t)
  <2> DEFINE d == [c EXCEPT !.pc = "filter", !.sure = ~damaged]
  <2>1. compiler' = [compiler EXCEPT ![t] = d] /\ c.pc = "table"
    BY <1>1, <1>4 DEF TableFilled, At
  <2>2. /\ FilterShape(d) /\ d.pc = "filter" /\ d.declared = c.declared
        /\ d.words = c.words /\ d.kept = c.kept /\ d.after = c.after
    BY <1>1 DEF FilterShape
  <2> HIDE DEF d
  <2> QED
    BY <1>3, <2>1, <2>2
<1>5. CASE HelpRuns(t)
  <2> DEFINE d == [c EXCEPT !.pc = "help", !.line = 1]
  <2>1. compiler' = [compiler EXCEPT ![t] = d] /\ c.pc = "table"
    BY <1>1, <1>5 DEF HelpRuns, At
  <2> QED
    BY <1>1, <1>3, <2>1 DEF FilterShape
<1>6. CASE HelpFails(t)
  <2> DEFINE d == [c EXCEPT !.pc = "filter"]
  <2>1. compiler' = [compiler EXCEPT ![t] = d] /\ c.pc = "table"
    BY <1>1, <1>6 DEF HelpFails, At
  <2> QED
    BY <1>1, <1>3, <2>1 DEF FilterShape
<1>7. CASE ParseLine(t)
  <2> DEFINE code == CASE LineOf(t).kind = "code" -> TRUE
                       [] LineOf(t).kind = "title" -> FALSE
                       [] OTHER -> c.code
             d == [c EXCEPT !.line = @ + 1, !.code = code]
  <2>1. compiler' = [compiler EXCEPT ![t] = d] /\ c.pc = "help"
    BY <1>1, <1>7 DEF ParseLine, At
  <2> HIDE DEF code
  <2>2. /\ FilterShape(d) /\ d.pc = c.pc /\ d.declared = c.declared
        /\ d.words = c.words /\ d.kept = c.kept /\ d.after = c.after
    BY <1>1 DEF FilterShape
  <2> QED
    BY <1>3, <2>1, <2>2
<1>8. CASE HelpParsed(t)
  <2> DEFINE d == [c EXCEPT !.pc = "filter", !.sure = ~damaged]
  <2>1. compiler' = [compiler EXCEPT ![t] = d] /\ c.pc = "help"
    BY <1>1, <1>8 DEF HelpParsed, At
  <2> QED
    BY <1>1, <1>3, <2>1 DEF FilterShape
<1>9. CASE Filtered(t)
  <2> DEFINE d == [c EXCEPT !.pc = "done"]
  <2>1. compiler' = [compiler EXCEPT ![t] = d] /\ c.pc = "filter" /\ c.words = <<>>
    BY <1>1, <1>9 DEF Filtered, At
  <2>2. /\ FilterShape(d) /\ d.pc = "done" /\ d.declared = c.declared /\ d.sure = c.sure
        /\ d.words = c.words /\ d.kept = c.kept /\ d.after = c.after
    BY <1>1 DEF FilterShape
  <2> HIDE DEF d
  <2>3. Filter(d)
    BY <1>1, <2>1, <2>2 DEF Filter
  <2> QED
    BY <2>1, <2>3, RestKeepsFilter
<1>10. CASE InsertBegins(t)
  <2> DEFINE d == [c EXCEPT !.pc = "insert"]
  <2>1. compiler' = [compiler EXCEPT ![t] = d] /\ c.pc = "help"
    BY <1>1, <1>10 DEF InsertBegins, At
  <2> QED
    BY <1>1, <1>3, <2>1 DEF FilterShape
<1>11. CASE InsertEnds(t)
  <2> DEFINE d == [c EXCEPT !.pc = "help", !.line = c.line + 1]
  <2>1. compiler' = [compiler EXCEPT ![t] = d] /\ c.pc = "insert"
    BY <1>1, <1>11 DEF InsertEnds, At
  <2> QED
    BY <1>1, <1>3, <2>1 DEF FilterShape
<1> QED
  BY <1>2, <1>4, <1>5, <1>6, <1>7, <1>8, <1>9, <1>10, <1>11, OptionKeepsFilter, ParameterKeepsFilter

(* With any number of threads, any help and any declarations: the options   *)
(* that pass to the command line of faust are read one by one, whatever     *)
(* part of the table was there when each word was looked up; and with the   *)
(* whole table, options that faust reads pass unchanged.                    *)
THEOREM FilterIsReadable == OptionsSpec => []FilterReadable
<1>1. ASSUME FilterInv, NEW t \in Compilers, At(t, "done")
      PROVE  /\ Readable(compiler[t].kept)
             /\ compiler[t].sure /\ Readable(compiler[t].declared) =>
                    compiler[t].kept = compiler[t].declared
  <2> DEFINE c == compiler[t]
  <2>1. Filter(c) /\ c.pc = "done" /\ c.words = <<>>
    BY <1>1 DEF FilterInv, Filter, At
  <2>2. Readable(c.kept)
    BY <2>1 DEF Filter, Pending, Readable, Starts
  <2>3. ASSUME c.sure, Readable(c.declared) PROVE c.kept = c.declared
    <3>1. /\ c.kept \in Seq(KeptWords) /\ c.declared \in Seq(CleanWords)
          /\ Agrees(c.declared, c.kept, <<>>, c.after)
      BY <2>1, <2>3 DEF Filter
    <3>2. Len(c.kept) = Len(c.declared) /\ \A i \in 1 .. Len(c.kept) : c.kept[i] = c.declared[i]
      BY <3>1, SeqDomain DEF Agrees
    <3>3. /\ c.kept \in Seq(KeptWords \cup CleanWords)
          /\ c.declared \in Seq(KeptWords \cup CleanWords)
      BY <3>1
    <3> QED
      BY <3>2, <3>3, SeqEqual
  <2> QED
    BY <2>2, <2>3
<1>2. FilterInv => FilterReadable
  BY <1>1 DEF FilterReadable
<1>3. OptionsInv /\ FilterInv /\ [OptionsNext]_optionVars => FilterInv'
  <2> SUFFICES ASSUME OptionsInv, FilterInv, [OptionsNext]_optionVars PROVE FilterInv'
    OBVIOUS
  <2>1. CASE UNCHANGED optionVars
    BY <2>1 DEF optionVars, FilterInv
  <2> QED
    BY <2>1, StepKeepsFilter
<1> QED
  BY <1>2, <1>3, FilterInitInv, OptionsInvHolds, PTL DEF OptionsSpec

-----------------------------------------------------------------------------
(***************************************************************************)
(* Processes, for any number of threads that run programs at once, any     *)
(* length of the output and any capacity of the pipes.                     *)
(***************************************************************************)

Places == {"ready", "fork", "close", "read", "wait"}
Statuses == Endings \cup {"none", "-1"}
Alive == {"forked", "running"}

ProcessType ==
    /\ call \in [Callers -> [kind : {"none", "run", "capture"}, pc : Places,
                             got : Nat, status : Statuses]]
    /\ child \in [Callers -> {"none"} \cup Alive \cup Endings]
    /\ holders \in [Callers -> SUBSET (Callers \cup {"server"})]
    /\ pipe \in [Callers -> Nat]

(* A child has the pipe of its own call for as long as it lives, and what   *)
(* it wrote is read or in the pipe.  Nobody has the pipe of a call that     *)
(* reads no more, and the server has only those it has not closed.          *)
PipeOf(t) ==
    /\ call[t].pc \in {"ready", "wait"} => holders[t] = {} /\ pipe[t] = 0
    /\ call[t].pc \in {"ready", "fork"} => child[t] = "none"
    /\ call[t].pc = "fork" => pipe[t] = 0 /\ call[t].got = 0
    /\ call[t].pc = "fork" /\ call[t].kind = "capture" => "server" \in holders[t]
    /\ call[t].pc # "ready" => call[t].kind \in {"run", "capture"}
    /\ call[t].kind = "run" => holders[t] = {} /\ call[t].pc \notin {"close", "read"}
    /\ call[t].pc \in {"close", "read"} => child[t] # "none"
    /\ call[t].pc = "read" => "server" \notin holders[t]
    /\ call[t].kind = "capture" /\ child[t] \in Alive => t \in holders[t]
    /\ call[t].kind = "capture" /\ child[t] = "0" => WrittenBy(t) = Output

ProcessInv == ProcessType /\ \A t \in Callers : PipeOf(t)

USE DEF Places, Statuses, Alive, Endings, Ready, GoOn, WrittenBy

-----------------------------------------------------------------------------
LEMMA ProcessInitInv == ProcessInit => ProcessInv
BY DEF ProcessInit, ProcessInv, ProcessType, PipeOf

(* What the thread of t does.                                              *)
LEMMA CallerKeepsInv ==
    ASSUME ProcessInv, NEW t \in Callers, RunProgram(t) \/ CaptureProgram(t) \/ Caller(t)
    PROVE  ProcessInv'
<1> USE CallerAssumption, OutputAssumption DEF ProcessInv
<1>1. CASE RunProgram(t)
  <2>1. ProcessType'
    BY <1>1 DEF RunProgram, ProcessType
  <2>2. PipeOf(t)'
    BY <1>1 DEF RunProgram, ProcessType, PipeOf
  <2>3. ASSUME NEW u \in Callers \ {t} PROVE PipeOf(u)'
    BY <1>1 DEF RunProgram, ProcessType, PipeOf
  <2> QED
    BY <2>1, <2>2, <2>3
<1>2. CASE CaptureProgram(t)
  <2>1. ProcessType'
    BY <1>2 DEF CaptureProgram, ProcessType
  <2>2. PipeOf(t)'
    BY <1>2 DEF CaptureProgram, ProcessType, PipeOf
  <2>3. ASSUME NEW u \in Callers \ {t} PROVE PipeOf(u)'
    BY <1>2 DEF CaptureProgram, ProcessType, PipeOf
  <2> QED
    BY <2>1, <2>2, <2>3
<1>3. CASE Fork(t)
  <2>1. ProcessType'
    BY <1>3 DEF Fork, Inherits, ProcessType
  <2>2. PipeOf(t)'
    BY <1>3 DEF Fork, Inherits, ProcessType, PipeOf
  <2>3. ASSUME NEW u \in Callers \ {t} PROVE PipeOf(u)'
    BY <1>3 DEF Fork, Inherits, ProcessType, PipeOf
  <2> QED
    BY <2>1, <2>2, <2>3
<1>4. CASE CannotFork(t)
  BY <1>4 DEF CannotFork, Returned, ProcessType, PipeOf
<1>5. CASE CloseWriteEnd(t)
  BY <1>5 DEF CloseWriteEnd, ProcessType, PipeOf
<1>6. CASE Read(t)
  BY <1>6 DEF Read, ProcessType, PipeOf
<1>7. CASE EndOfFile(t)
  BY <1>7 DEF EndOfFile, ProcessType, PipeOf
<1>8. CASE WaitProgram(t)
  BY <1>8 DEF WaitProgram, Returned, ProcessType, PipeOf
<1> QED
  BY <1>1, <1>2, <1>3, <1>4, <1>5, <1>6, <1>7, <1>8 DEF Caller

(* What the child of t does.                                               *)
LEMMA ChildKeepsInv ==
    ASSUME ProcessInv, NEW t \in Callers, Child(t)
    PROVE  ProcessInv'
<1> USE CallerAssumption, OutputAssumption DEF ProcessInv
<1>1. CASE Exec(t)
  BY <1>1 DEF Exec, ProcessType, PipeOf
<1>2. CASE Writes(t)
  BY <1>2 DEF Writes, ProcessType, PipeOf
<1>3. ASSUME NEW how \in Endings, Ends(t, how), child[t] \in Alive,
             how = "0" /\ call[t].kind = "capture" => WrittenBy(t) = Output
      PROVE  ProcessInv'
  <2>1. ProcessType'
    BY <1>3 DEF Ends, ProcessType
  <2>2. PipeOf(t)'
    BY <1>3 DEF Ends, ProcessType, PipeOf
  <2>3. ASSUME NEW u \in Callers \ {t} PROVE PipeOf(u)'
    BY <1>3 DEF Ends, ProcessType, PipeOf
  <2> QED
    BY <2>1, <2>2, <2>3
<1>4. CASE CannotExec(t)
  BY <1>3, <1>4 DEF CannotExec
<1>5. CASE Succeeds(t)
  BY <1>3, <1>5 DEF Succeeds
<1>6. CASE Fails(t)
  BY <1>3, <1>6 DEF Fails
<1> QED
  BY <1>1, <1>2, <1>4, <1>5, <1>6 DEF Child, GoesOn

LEMMA ProcessInvHolds == ProcessSpec => []ProcessInv
<1>1. ProcessInv /\ [ProcessNext]_processVars => ProcessInv'
  <2> SUFFICES ASSUME ProcessInv, [ProcessNext]_processVars PROVE ProcessInv'
    OBVIOUS
  <2>1. CASE ProcessNext
    BY <2>1, CallerKeepsInv, ChildKeepsInv DEF ProcessNext
  <2>2. CASE UNCHANGED processVars
    BY <2>2 DEF processVars, ProcessInv, ProcessType, PipeOf
  <2> QED
    BY <2>1, <2>2
<1> QED
  BY <1>1, ProcessInitInv, PTL DEF ProcessSpec

-----------------------------------------------------------------------------
(* Whatever fails, a thread that runs no program has no pipe open and no    *)
(* child to wait for, however many threads fork at the same time.           *)
THEOREM NothingLeftOpen == ProcessSpec => []NoDescriptorLeft
<1>1. ProcessInv => NoDescriptorLeft
  BY DEF ProcessInv, PipeOf, NoDescriptorLeft
<1> QED
  BY <1>1, ProcessInvHolds, PTL

(* runProgram and captureProgram return the status of their own program,    *)
(* and captureProgram the whole output of one that succeeded, though the    *)
(* children of other threads have its pipe.                                 *)
THEOREM ResultIsOwn == ProcessSpec => OwnResult
<1> DEFINE Own(t) ==
      call[t].pc = "wait" /\ call'[t].pc = "ready" =>
          /\ call'[t].status = child[t]
          /\ call[t].kind = "capture" /\ child[t] = "0" => call[t].got = Output
<1>1. ASSUME ProcessInv, ProcessNext, NEW t \in Callers, call[t].pc = "wait",
             call'[t].pc = "ready"
      PROVE  WaitProgram(t)
  <2>1. PICK u \in Callers : RunProgram(u) \/ CaptureProgram(u) \/ Caller(u) \/ Child(u)
    BY <1>1 DEF ProcessNext
  <2>2. u = t
    BY <1>1, <2>1 DEF ProcessInv, ProcessType, RunProgram, CaptureProgram, Caller, Child, GoesOn,
          Fork, CannotFork, Returned, CloseWriteEnd, Read, EndOfFile, WaitProgram, Exec,
          Writes, Succeeds, CannotExec, Fails, Ends
  <2> QED
    BY <1>1, <2>1, <2>2 DEF ProcessInv, ProcessType, RunProgram, CaptureProgram, Caller, Child,
          GoesOn, Fork, CannotFork, Returned, CloseWriteEnd, Read, EndOfFile, Exec,
          Writes, Succeeds, CannotExec, Fails, Ends
<1>2. ASSUME ProcessInv, [ProcessNext]_processVars, NEW t \in Callers PROVE Own(t)
  <2>1. CASE ProcessNext
    <3> SUFFICES ASSUME call[t].pc = "wait", call'[t].pc = "ready"
                 PROVE  /\ call'[t].status = child[t]
                        /\ call[t].kind = "capture" /\ child[t] = "0" => call[t].got = Output
      OBVIOUS
    <3>1. WaitProgram(t)
      BY <1>1, <1>2, <2>1
    <3> QED
      BY <1>2, <3>1 DEF WaitProgram, Returned, ProcessInv, ProcessType, PipeOf
  <2>2. CASE UNCHANGED processVars
    BY <2>2 DEF processVars
  <2> QED
    BY <1>2, <2>1, <2>2
<1>3. ProcessInv /\ [ProcessNext]_processVars => [\A t \in Callers : Own(t)]_processVars
  BY <1>2
<1> QED
  BY <1>3, ProcessInvHolds, PTL DEF ProcessSpec, OwnResult

-----------------------------------------------------------------------------
(***************************************************************************)
(* TargetsJson, for any makefiles directory, and any point at which the     *)
(* transfer breaks.  At any moment there are a list of platforms, those     *)
(* with a makefile among the entries read, and the places in the text where *)
(* each one starts; the parser has read a prefix of it, up to its place.    *)
(***************************************************************************)

OsType == [name : STRING, architectures : Seq(STRING)]
MarkSet == {OpenBrace, CloseBrace, OpenBracket, CloseBracket, Colon, Comma}
Token == {Quoted(x) : x \in STRING} \cup MarkSet
Count(os) == Len(os.architectures)

(* The text out has the platform os from place s on.                       *)
PlatformAt(out, os, s) ==
    /\ s + 2 * Count(os) + 2 <= Len(out)
    /\ out[s] = Quoted(os.name) /\ out[s + 1] = Colon /\ out[s + 2] = OpenBracket
    /\ \A j \in 1 .. Count(os) : out[s + 1 + 2 * j] = Quoted(os.architectures[j])
    /\ \A j \in 1 .. Count(os) - 1 : out[s + 2 + 2 * j] = Comma
    /\ out[s + 2 + 2 * Count(os)] = CloseBracket

(* The text out has the platforms of list, the i-th at start[i].           *)
PrintedAs(out, list, start) ==
    /\ start \in [1 .. Len(list) + 1 -> Nat \ {0}] /\ start[1] = 2
    /\ out[1] = OpenBrace
    /\ \A i \in 1 .. Len(list) :
         start[i + 1] = start[i] + 2 * Count(list[i]) + 4 /\ PlatformAt(out, list[i], start[i])
    /\ \A i \in 1 .. Len(list) - 1 : out[start[i + 1] - 1] = Comma

(* Where the text of the platforms ends.                                   *)
EndOf(list, start) == IF Len(list) = 0 THEN 1 ELSE start[Len(list) + 1] - 2

ListType(list) ==
    /\ list \in Seq(OsType)
    /\ \A i \in 1 .. Len(list) : Count(list[i]) >= 1

Printed(list, start) ==
    /\ ListType(list) /\ PrintedAs(printed, list, start) /\ Advertises(dir, entries, list)
    /\ dir \in Seq(OsType) /\ entries \in 0 .. Len(dir)
    /\ printed \in Seq(Token)
    /\ state = "printing" =>
         Len(printed) = EndOf(list, start) /\ text = <<>> /\ next = 1 /\ found = <<>>
    /\ state # "printing" =>
         /\ entries = Len(dir)
         /\ Len(printed) = EndOf(list, start) + 1 /\ printed[Len(printed)] = CloseBrace

SameSoFar(list, m) == \A i \in 1 .. m : found[i] = list[i]

(* The last platform found has the first j architectures of its own.       *)
Partial(list, j) ==
    LET m == Len(found) IN
    /\ m >= 1 /\ SameSoFar(list, m - 1)
    /\ found[m].name = list[m].name
    /\ Count(found[m]) = j /\ j <= Count(list[m])
    /\ \A h \in 1 .. j : found[m].architectures[h] = list[m].architectures[h]

Parsed(list, start) ==
    LET m == Len(found)
        j == Count(found[m])
    IN
    /\ found \in Seq(OsType) /\ m <= Len(list)
    /\ text \in Seq(Token) /\ Len(text) <= Len(printed)
    /\ \A i \in 1 .. Len(text) : text[i] = printed[i]
    /\ next \in Nat /\ next >= 1
    /\ state \in {"printed", "{"} => next = 1 /\ m = 0
    /\ state = "platform" =>
         SameSoFar(list, m) /\ (text = <<>> \/ next = start[m + 1]) /\ (m < Len(list) \/ Len(list) = 0)
    /\ state = ":" => Partial(list, 0) /\ next = start[m] + 1
    /\ state = "[" => Partial(list, 0) /\ next = start[m] + 2
    /\ state = "architecture" =>
         Partial(list, j) /\ j < Count(list[m]) /\ next = start[m] + 3 + 2 * j
    /\ state \in {"more architectures", "]"} =>
         Partial(list, j) /\ j >= 1 /\ next = start[m] + 2 + 2 * j
    /\ state = "]" => j = Count(list[m]) \/ next > Len(text)
    /\ state \in {"more platforms", "}"} =>
         m >= 1 /\ SameSoFar(list, m) /\ next = start[m] + 3 + 2 * Count(list[m])
    /\ state = "}" => m = Len(list) \/ next > Len(text)
    /\ state = "parsed" => SameSoFar(list, m) /\ m = Len(list) /\ text = printed
    /\ state = "failed" => text # printed \/ Len(list) = 0

JsonInv == \E list, start : Printed(list, start) /\ Parsed(list, start)

LEMMA TokenTypes ==
    /\ \A x \in STRING : Quoted(x) \in Token
    /\ \A m \in MarkSet : m \in Token /\ ~m.quoted
    /\ \A x : Quoted(x).quoted /\ Quoted(x).text = x
<1>1. \A m \in MarkSet : ~m.quoted
  <2>1. ~OpenBrace.quoted /\ ~CloseBrace.quoted /\ ~Comma.quoted
    BY DEF OpenBrace, CloseBrace, Comma, Mark
  <2>2. ~OpenBracket.quoted /\ ~CloseBracket.quoted /\ ~Colon.quoted
    BY DEF OpenBracket, CloseBracket, Colon, Mark
  <2> QED
    BY <2>1, <2>2 DEF MarkSet
<1>2. \A x : Quoted(x).quoted /\ Quoted(x).text = x
  BY DEF Quoted
<1> QED
  BY <1>1, <1>2 DEF Token

LEMMA MarksDiffer ==
    /\ OpenBrace # CloseBrace
    /\ \A x : Comma \notin {CloseBrace, CloseBracket, Colon, OpenBracket, Quoted(x)}
<1>1. \A x : Comma # Quoted(x)
  BY DEF Comma, Quoted, Mark
<1>2. OpenBrace.text = "{" /\ CloseBrace.text = "}" /\ Comma.text = ","
      /\ CloseBracket.text = "]" /\ Colon.text = ":" /\ OpenBracket.text = "["
  BY DEF OpenBrace, CloseBrace, OpenBracket, CloseBracket, Colon, Comma, Mark
<1> QED
  BY <1>1, <1>2

LEMMA ListedTokens ==
    ASSUME NEW names \in Seq(STRING), Len(names) >= 1
    PROVE  /\ Listed(names) \in Seq(Token)
           /\ Len(Listed(names)) = 2 * Len(names) - 1
           /\ \A j \in 1 .. Len(names) : Listed(names)[2 * j - 1] = Quoted(names[j])
           /\ \A j \in 1 .. Len(names) - 1 : Listed(names)[2 * j] = Comma
<1> DEFINE n == Len(names)
<1>1. n \in Nat /\ DOMAIN names = 1 .. n /\ 2 * n - 1 \in Nat
  OBVIOUS
<1>2. \A i \in 1 .. 2 * n - 1 : i % 2 = 1 => (i + 1) \div 2 \in 1 .. n
  BY <1>1
<1>3. \A i \in 1 .. 2 * n - 1 : Listed(names)[i] \in Token
  <2> SUFFICES ASSUME NEW i \in 1 .. 2 * n - 1 PROVE Listed(names)[i] \in Token
    OBVIOUS
  <2>1. Listed(names)[i] = IF i % 2 = 1 THEN Quoted(names[(i + 1) \div 2]) ELSE Comma
    BY DEF Listed
  <2>2. i % 2 = 1 => names[(i + 1) \div 2] \in STRING
    BY <1>1, <1>2
  <2> QED
    BY <2>1, <2>2, TokenTypes DEF MarkSet
<1>4. Listed(names) \in [1 .. 2 * n - 1 -> Token] /\ DOMAIN Listed(names) = 1 .. 2 * n - 1
  BY <1>3 DEF Listed
<1>5. \A j \in 1 .. n : (2 * j - 1) % 2 = 1 /\ (2 * j - 1 + 1) \div 2 = j /\ 2 * j - 1 \in 1 .. 2 * n - 1
  BY <1>1
<1>6. \A j \in 1 .. n - 1 : (2 * j) % 2 = 0 /\ 2 * j \in 1 .. 2 * n - 1
  BY <1>1
<1>7. Listed(names) \in Seq(Token) /\ Len(Listed(names)) = 2 * n - 1
  <2> HIDE DEF n
  <2>1. Listed(names) \in Seq(Token)
    BY <1>1, <1>4, SeqDef
  <2> QED
    BY <1>1, <1>4, <2>1, LenProperties
<1>8. \A j \in 1 .. n : Listed(names)[2 * j - 1] = Quoted(names[j])
  BY <1>5 DEF Listed
<1>9. \A j \in 1 .. n - 1 : Listed(names)[2 * j] = Comma
  <2> SUFFICES ASSUME NEW j \in 1 .. n - 1 PROVE Listed(names)[2 * j] = Comma
    OBVIOUS
  <2>1. 2 * j \in 1 .. 2 * n - 1 /\ ~((2 * j) % 2 = 1)
    BY <1>6
  <2> QED
    BY <2>1 DEF Listed
<1> QED
  BY <1>7, <1>8, <1>9

LEMMA Joined ==
    ASSUME NEW s \in Seq(Token), NEW t \in Seq(Token)
    PROVE  /\ s \o t \in Seq(Token) /\ Len(s \o t) = Len(s) + Len(t)
           /\ Len(s) \in Nat /\ Len(t) \in Nat
           /\ \A i \in 1 .. Len(s) : (s \o t)[i] = s[i]
           /\ \A i \in 1 .. Len(t) : (s \o t)[Len(s) + i] = t[i]
BY ConcatProperties

LEMMA PlatformTokens ==
    ASSUME NEW os \in OsType, Count(os) >= 1
    PROVE  /\ Platform(os) \in Seq(Token)
           /\ Len(Platform(os)) = 2 * Count(os) + 3
           /\ Platform(os)[1] = Quoted(os.name)
           /\ Platform(os)[2] = Colon /\ Platform(os)[3] = OpenBracket
           /\ \A j \in 1 .. Count(os) : Platform(os)[2 + 2 * j] = Quoted(os.architectures[j])
           /\ \A j \in 1 .. Count(os) - 1 : Platform(os)[3 + 2 * j] = Comma
           /\ Platform(os)[2 * Count(os) + 3] = CloseBracket
<1> DEFINE n == Count(os)
          head == <<Quoted(os.name), Colon, OpenBracket>>
          list == Listed(os.architectures)
          last == <<CloseBracket>>
<1>1. os.architectures \in Seq(STRING) /\ os.name \in STRING /\ n \in Nat /\ n >= 1
  BY DEF OsType, Count
<1>2. /\ list \in Seq(Token) /\ Len(list) = 2 * n - 1
      /\ \A j \in 1 .. n : list[2 * j - 1] = Quoted(os.architectures[j])
      /\ \A j \in 1 .. n - 1 : list[2 * j] = Comma
  BY <1>1, ListedTokens DEF Count
<1>3. head \in Seq(Token) /\ last \in Seq(Token) /\ Len(head) = 3 /\ Len(last) = 1
  <2>1. Quoted(os.name) \in Token /\ \A m \in {Colon, OpenBracket, CloseBracket} : m \in Token
    BY <1>1, TokenTypes DEF MarkSet
  <2> QED
    BY <2>1
<1> DEFINE body == head \o list
<1> HIDE DEF head, list, last, n
<1>4. /\ body \in Seq(Token) /\ Len(body) = 2 * n + 2
      /\ \A i \in 1 .. 3 : body[i] = head[i]
      /\ \A i \in 1 .. 2 * n - 1 : body[3 + i] = list[i]
  <2>1. /\ body \in Seq(Token) /\ Len(body) = Len(head) + Len(list)
        /\ \A i \in 1 .. Len(head) : body[i] = head[i]
        /\ \A i \in 1 .. Len(list) : body[Len(head) + i] = list[i]
    BY <1>2, <1>3, Joined
  <2>2. Len(head) = 3 /\ Len(list) = 2 * n - 1
    BY <1>2, <1>3
  <2> HIDE DEF body
  <2> QED
    BY <1>1, <2>1, <2>2
<1>5. /\ body \o last \in Seq(Token) /\ Len(body \o last) = 2 * n + 3
      /\ \A i \in 1 .. 2 * n + 2 : (body \o last)[i] = body[i]
      /\ (body \o last)[2 * n + 3] = last[1]
  <2> HIDE DEF body
  <2>1. /\ body \o last \in Seq(Token) /\ Len(body \o last) = Len(body) + Len(last)
        /\ \A i \in 1 .. Len(body) : (body \o last)[i] = body[i]
        /\ \A i \in 1 .. Len(last) : (body \o last)[Len(body) + i] = last[i]
    BY <1>3, <1>4, Joined
  <2> QED
    BY <1>1, <1>3, <1>4, <2>1
<1> DEFINE whole == body \o last
<1>5a. /\ whole \in Seq(Token) /\ Len(whole) = 2 * n + 3
       /\ \A i \in 1 .. 2 * n + 2 : whole[i] = body[i]
       /\ whole[2 * n + 3] = last[1]
  BY <1>5
<1>6. Platform(os) = whole
  BY DEF Platform, head, list, last
<1> HIDE DEF body, whole
<1>7. whole[1] = head[1] /\ whole[2] = head[2] /\ whole[3] = head[3]
  BY <1>1, <1>4, <1>5a
<1>8. ASSUME NEW j \in 1 .. n PROVE whole[2 + 2 * j] = Quoted(os.architectures[j])
  <2>1. 2 * j - 1 \in 1 .. 2 * n - 1 /\ 3 + (2 * j - 1) = 2 + 2 * j /\ 2 + 2 * j \in 1 .. 2 * n + 2
    BY <1>1
  <2>2. body[2 + 2 * j] = list[2 * j - 1]
    BY <1>4, <2>1
  <2> QED
    BY <1>2, <1>5a, <2>1, <2>2
<1>9. ASSUME NEW j \in 1 .. n - 1 PROVE whole[3 + 2 * j] = Comma
  <2>1. 2 * j \in 1 .. 2 * n - 1 /\ 3 + 2 * j \in 1 .. 2 * n + 2
    BY <1>1
  <2>2. body[3 + 2 * j] = list[2 * j]
    BY <1>4, <2>1
  <2> QED
    BY <1>2, <1>5a, <2>1, <2>2
<1>10. /\ head[1] = Quoted(os.name) /\ head[2] = Colon /\ head[3] = OpenBracket
       /\ last[1] = CloseBracket
  BY DEF head, last
<1> QED
  BY <1>5a, <1>6, <1>7, <1>8, <1>9, <1>10 DEF n

LEMMA Numbered ==
    ASSUME NEW d \in Seq(OsType), NEW n \in Nat
    PROVE  /\ IsFiniteSet(WithMakefile(d, n)) /\ Cardinality(WithMakefile(d, n)) \in Nat
           /\ \A i \in WithMakefile(d, n) :
                Cardinality(WithMakefile(d, i)) \in 1 .. Cardinality(WithMakefile(d, n))
<1>1. \A i \in 0 .. n : IsFiniteSet(WithMakefile(d, i)) /\ WithMakefile(d, i) \subseteq WithMakefile(d, n)
  <2> SUFFICES ASSUME NEW i \in 0 .. n
               PROVE IsFiniteSet(WithMakefile(d, i)) /\ WithMakefile(d, i) \subseteq WithMakefile(d, n)
    OBVIOUS
  <2>1. IsFiniteSet(1 .. i) /\ WithMakefile(d, i) \subseteq 1 .. i
    BY CountInterval DEF WithMakefile
  <2> QED
    BY <2>1, FS_Subset DEF WithMakefile
<1>2. \A i \in 0 .. n : Cardinality(WithMakefile(d, i)) \in Nat
  BY <1>1, FS_CardinalityType
<1>3. ASSUME NEW i \in WithMakefile(d, n)
      PROVE  Cardinality(WithMakefile(d, i)) \in 1 .. Cardinality(WithMakefile(d, n))
  <2>1. i \in 1 .. n /\ i \in WithMakefile(d, i)
    BY DEF WithMakefile
  <2>2. Cardinality(WithMakefile(d, i)) # 0
    BY <1>1, <2>1, FS_EmptySet
  <2>3. Cardinality(WithMakefile(d, i)) <= Cardinality(WithMakefile(d, n))
    BY <1>1, <2>1, FS_Subset
  <2> QED
    BY <1>2, <2>1, <2>2, <2>3
<1> QED
  BY <1>1, <1>2, <1>3

LEMMA NextWithMakefile ==
    ASSUME NEW d \in Seq(OsType), NEW n \in Nat
    PROVE  /\ d[n + 1].architectures = <<>> => WithMakefile(d, n + 1) = WithMakefile(d, n)
           /\ d[n + 1].architectures # <<>> =>
                /\ WithMakefile(d, n + 1) = WithMakefile(d, n) \cup {n + 1}
                /\ Cardinality(WithMakefile(d, n + 1)) = Cardinality(WithMakefile(d, n)) + 1
<1>1. 1 .. n + 1 = (1 .. n) \cup {n + 1} /\ n + 1 \notin 1 .. n
  OBVIOUS
<1>2. n + 1 \notin WithMakefile(d, n)
  BY <1>1 DEF WithMakefile
<1>3. d[n + 1].architectures # <<>> => WithMakefile(d, n + 1) = WithMakefile(d, n) \cup {n + 1}
  BY <1>1 DEF WithMakefile
<1>4. d[n + 1].architectures = <<>> => WithMakefile(d, n + 1) = WithMakefile(d, n)
  BY <1>1 DEF WithMakefile
<1> QED
  BY <1>2, <1>3, <1>4, Numbered, FS_AddElement

LEMMA NextAdvertised ==
    ASSUME NEW d \in Seq(OsType), NEW n \in Nat, n < Len(d), NEW list \in Seq(OsType),
           Advertises(d, n, list)
    PROVE  /\ d[n + 1].architectures = <<>> => Advertises(d, n + 1, list)
           /\ d[n + 1].architectures # <<>> => Advertises(d, n + 1, Append(list, d[n + 1]))
<1>1. CASE d[n + 1].architectures = <<>>
  BY <1>1, NextWithMakefile DEF Advertises
<1>2. CASE d[n + 1].architectures # <<>>
  <2> DEFINE longer == Append(list, d[n + 1])
  <2>1. d[n + 1] \in OsType
    OBVIOUS
  <2>2. /\ Len(longer) = Len(list) + 1 /\ longer[Len(list) + 1] = d[n + 1]
        /\ \A h \in 1 .. Len(list) : longer[h] = list[h]
    BY <2>1, AppendProperties
  <2>3. /\ WithMakefile(d, n + 1) = WithMakefile(d, n) \cup {n + 1}
        /\ Cardinality(WithMakefile(d, n + 1)) = Len(list) + 1
    BY <1>2, NextWithMakefile DEF Advertises
  <2>4. \A i \in WithMakefile(d, n) :
           Cardinality(WithMakefile(d, i)) \in 1 .. Len(list)
    BY Numbered DEF Advertises
  <2> HIDE DEF longer
  <2>5. \A i \in WithMakefile(d, n + 1) : longer[Cardinality(WithMakefile(d, i))] = d[i]
    BY <2>2, <2>3, <2>4 DEF Advertises
  <2>6. Advertises(d, n + 1, longer)
    BY <2>2, <2>3, <2>5 DEF Advertises
  <2> QED
    BY <1>2, <2>6 DEF longer
<1> QED
  BY <1>1, <1>2

LEMMA JsonInitInv == JsonInit => JsonInv
<1> SUFFICES ASSUME JsonInit PROVE JsonInv
  OBVIOUS
<1> DEFINE start == [i \in 1 .. 1 |-> 2]
           list == <<>>
<1>1. dir \in Seq(OsType) /\ Len(dir) \in Nat
  BY MakefileAssumption DEF JsonInit, OsType
<1>2. list \in Seq(OsType) /\ Len(list) = 0 /\ 1 .. Len(list) = {}
  OBVIOUS
<1>3. start \in [1 .. Len(list) + 1 -> Nat \ {0}] /\ start[1] = 2
  OBVIOUS
<1>4. printed \in Seq(Token) /\ Len(printed) = 1 /\ printed[1] = OpenBrace
  BY TokenTypes DEF JsonInit, MarkSet
<1>5. WithMakefile(dir, 0) = {} /\ Cardinality(WithMakefile(dir, 0)) = 0
  BY FS_EmptySet DEF WithMakefile
<1>6. Advertises(dir, entries, list)
  BY <1>2, <1>5 DEF Advertises, JsonInit
<1>7. text = <<>> /\ text \in Seq(Token) /\ found = <<>> /\ found \in Seq(OsType) /\ Len(text) = 0 /\ Len(found) = 0
  BY DEF JsonInit
<1>8. entries \in 0 .. Len(dir) /\ state = "printing" /\ next = 1
  BY <1>1 DEF JsonInit
<1> HIDE DEF start, list
<1>9. Printed(list, start)
  BY <1>1, <1>2, <1>3, <1>4, <1>6, <1>7, <1>8 DEF Printed, ListType, PrintedAs, EndOf
<1>10. Parsed(list, start)
  BY <1>2, <1>4, <1>7, <1>8 DEF Parsed
<1> QED
  BY <1>9, <1>10 DEF JsonInv

LEMMA PlatformStays ==
    ASSUME NEW os, Count(os) \in Nat, Count(os) >= 1, NEW s \in Nat \ {0}, NEW out, NEW longer,
           Len(out) \in Nat, Len(longer) \in Nat, Len(out) <= Len(longer),
           \A i \in 1 .. Len(out) : longer[i] = out[i],
           PlatformAt(out, os, s)
    PROVE  PlatformAt(longer, os, s)
<1> DEFINE c == Count(os)
<1>1. c \in Nat /\ c >= 1 /\ s + 2 * c + 2 <= Len(out)
  BY DEF PlatformAt
<1>2. \A h \in Nat : h <= 2 * c + 2 => longer[s + h] = out[s + h]
  <2> SUFFICES ASSUME NEW h \in Nat, h <= 2 * c + 2 PROVE s + h \in 1 .. Len(out)
    OBVIOUS
  <2> HIDE DEF c
  <2> QED
    BY <1>1
<1>3. \A j \in 1 .. c : longer[s + (1 + 2 * j)] = out[s + (1 + 2 * j)]
  <2> SUFFICES ASSUME NEW j \in 1 .. c PROVE 1 + 2 * j \in Nat /\ 1 + 2 * j <= 2 * c + 2
    BY <1>2
  <2> QED
    BY <1>1
<1>4. \A j \in 1 .. c - 1 : longer[s + (2 + 2 * j)] = out[s + (2 + 2 * j)]
  <2> SUFFICES ASSUME NEW j \in 1 .. c - 1 PROVE 2 + 2 * j \in Nat /\ 2 + 2 * j <= 2 * c + 2
    BY <1>2
  <2> QED
    BY <1>1
<1>5. /\ longer[s + 0] = out[s + 0] /\ longer[s + 1] = out[s + 1] /\ longer[s + 2] = out[s + 2]
      /\ longer[s + (2 + 2 * c)] = out[s + (2 + 2 * c)]
  <2>1. 2 + 2 * c \in Nat /\ 2 + 2 * c <= 2 * c + 2 /\ 2 <= 2 * c + 2
    BY <1>1
  <2> HIDE DEF c
  <2> QED
    BY <1>1, <1>2, <2>1
<1>6. /\ longer[s] = Quoted(os.name) /\ longer[s + 1] = Colon /\ longer[s + 2] = OpenBracket
      /\ longer[s + 2 + 2 * c] = CloseBracket
  <2>1. s + 0 = s /\ s + (2 + 2 * c) = s + 2 + 2 * c
    BY <1>1
  <2> QED
    BY <1>5, <2>1 DEF PlatformAt
<1>7. \A j \in 1 .. c : longer[s + 1 + 2 * j] = Quoted(os.architectures[j])
  <2>1. \A j \in 1 .. c : s + (1 + 2 * j) = s + 1 + 2 * j
    BY <1>1
  <2> QED
    BY <1>3, <2>1 DEF PlatformAt
<1>8. \A j \in 1 .. c - 1 : longer[s + 2 + 2 * j] = Comma
  <2>1. \A j \in 1 .. c - 1 : s + (2 + 2 * j) = s + 2 + 2 * j
    BY <1>1
  <2> QED
    BY <1>4, <2>1 DEF PlatformAt
<1> QED
  BY <1>1, <1>6, <1>7, <1>8 DEF PlatformAt

LEMMA EntryPrinted ==
    ASSUME NEW list, NEW start, Printed(list, start), Parsed(list, start), PrintEntry
    PROVE  JsonInv'
<1> DEFINE os == dir[entries + 1]
           n == Count(os)
<1>1. /\ os \in OsType /\ os.architectures \in Seq(STRING) /\ n \in Nat
      /\ os.architectures # <<>> => n >= 1
      /\ entries \in Nat /\ entries < Len(dir) /\ dir \in Seq(OsType) /\ list \in Seq(OsType)
  <2>1. /\ dir \in Seq(OsType) /\ list \in Seq(OsType)
        /\ entries \in Nat /\ entries < Len(dir)
    BY DEF Printed, PrintEntry, ListType
  <2>2. os \in OsType
    BY <2>1
  <2>3. os.architectures \in Seq(STRING)
    BY <2>2 DEF OsType
  <2>4. n \in Nat /\ (os.architectures # <<>> => n >= 1)
    BY <2>3 DEF Count
  <2> QED
    BY <2>1, <2>2, <2>3, <2>4
<1>2. /\ state = "printing" /\ state' = state /\ text = <<>> /\ text' = <<>> /\ next' = 1
      /\ found = <<>> /\ found' = <<>> /\ dir' = dir /\ entries' = entries + 1
  BY DEF PrintEntry, Printed
<1>3. CASE os.architectures = <<>>
  <2>1. printed' = printed
    BY <1>3 DEF PrintEntry
  <2>2. Advertises(dir, entries', list)
    BY <1>1, <1>2, <1>3, NextAdvertised DEF Printed
  <2>3. Printed(list, start)'
    BY <1>1, <1>2, <2>1, <2>2 DEF Printed, PrintedAs, EndOf
  <2>4. Parsed(list, start)'
    BY <1>2, <2>1 DEF Parsed
  <2> QED
    BY <2>3, <2>4 DEF JsonInv
<1>4. CASE os.architectures # <<>>
  <2> DEFINE more == Append(list, os)
             k == Len(list)
             begin == start[k + 1]
             starts == [i \in 1 .. k + 2 |-> IF i = k + 2 THEN begin + 2 * n + 4 ELSE start[i]]
             base == printed \o Separator
             item == Platform(os)
  <2>1. /\ more \in Seq(OsType) /\ Len(more) = k + 1 /\ k \in Nat /\ more[k + 1] = os
        /\ \A i \in 1 .. k : more[i] = list[i]
    BY <1>1, AppendProperties
  <2>2. /\ Printed(list, start)
        /\ start \in [1 .. k + 1 -> Nat \ {0}] /\ begin \in Nat \ {0}
        /\ printed \in Seq(Token) /\ Len(printed) = EndOf(list, start)
    BY <1>2, <2>1 DEF Printed, PrintedAs, PlatformAt
  <2>3. \A i \in 1 .. k : Count(list[i]) \in Nat /\ Count(list[i]) >= 1 /\ start[i] \in Nat \ {0}
    <3> SUFFICES ASSUME NEW i \in 1 .. k
                 PROVE  Count(list[i]) \in Nat /\ Count(list[i]) >= 1 /\ start[i] \in Nat \ {0}
      OBVIOUS
    <3>1. list[i] \in OsType
      BY <1>1
    <3>2. list[i].architectures \in Seq(STRING)
      BY <3>1 DEF OsType
    <3>3. Count(list[i]) \in Nat
      BY <3>2 DEF Count
    <3> QED
      BY <2>1, <2>2, <3>3 DEF Printed, ListType
  <2>4. /\ base \in Seq(Token) /\ Len(base) = begin - 1
        /\ Len(printed) <= Len(base) /\ Len(printed) \in Nat \ {0}
        /\ \A i \in 1 .. Len(printed) : base[i] = printed[i]
        /\ k > 0 => base[begin - 1] = Comma
    <3>1. CASE k = 0
      <4>1. Len(printed) = 1 /\ begin = 2
        BY <2>2, <3>1 DEF EndOf, Printed, PrintedAs
      <4>2. Separator = <<>> /\ <<>> \in Seq(Token)
        BY <4>1 DEF Separator
      <4>3. /\ base \in Seq(Token) /\ Len(base) = Len(printed) + Len(<<>>)
            /\ \A i \in 1 .. Len(printed) : base[i] = printed[i]
        BY <2>2, <4>2, Joined
      <4> HIDE DEF base
      <4> QED
        BY <2>2, <3>1, <4>1, <4>3
    <3>2. CASE k > 0
      <4>1. Len(printed) = begin - 2
        BY <2>1, <2>2, <3>2 DEF EndOf
      <4>2. begin = start[k] + 2 * Count(list[k]) + 4 /\ k \in 1 .. k
        BY <2>1, <2>2, <3>2 DEF Printed, PrintedAs, PlatformAt
      <4>3. Len(printed) # 1
        BY <2>1, <2>2, <2>3, <4>1, <4>2
      <4>4. Separator = <<Comma>> /\ Separator \in Seq(Token) /\ Len(Separator) = 1
        BY <4>3, TokenTypes DEF Separator, MarkSet
      <4>5. /\ base \in Seq(Token) /\ Len(base) = Len(printed) + 1
            /\ \A i \in 1 .. Len(printed) : base[i] = printed[i]
            /\ base[Len(printed) + 1] = Separator[1]
        BY <2>2, <4>4, Joined
      <4>6. begin \in Nat /\ begin > 2
        BY <2>2, <2>3, <4>2
      <4>7. Separator[1] = Comma
        BY <4>4
      <4> HIDE DEF base, begin
      <4> QED
        BY <4>1, <4>5, <4>6, <4>7
    <3> HIDE DEF base
    <3> QED
      BY <2>1, <3>1, <3>2
  <2> HIDE DEF base
  <2>5. /\ item \in Seq(Token) /\ Len(item) = 2 * n + 3
        /\ item[1] = Quoted(os.name) /\ item[2] = Colon /\ item[3] = OpenBracket
        /\ \A j \in 1 .. n : item[2 + 2 * j] = Quoted(os.architectures[j])
        /\ \A j \in 1 .. n - 1 : item[3 + 2 * j] = Comma
        /\ item[2 * n + 3] = CloseBracket
    BY <1>1, <1>4, PlatformTokens
  <2>6. printed' = base \o item
    BY <1>4 DEF PrintEntry, base
  <2>num. n \in Nat /\ begin \in Nat \ {0} /\ k \in Nat
    BY <1>1, <2>1, <2>2
  <2> HIDE DEF item, os
  <2>7. /\ printed' \in Seq(Token) /\ Len(printed') = begin + 2 * n + 2
        /\ \A i \in 1 .. begin - 1 : printed'[i] = base[i]
        /\ \A i \in 1 .. 2 * n + 3 : printed'[begin - 1 + i] = item[i]
    <3>1. /\ printed' \in Seq(Token) /\ Len(printed') = Len(base) + Len(item)
          /\ \A i \in 1 .. Len(base) : printed'[i] = base[i]
          /\ \A i \in 1 .. Len(item) : printed'[Len(base) + i] = item[i]
      BY <2>4, <2>5, <2>6, Joined
    <3>2. Len(base) = begin - 1 /\ Len(item) = 2 * n + 3
      BY <2>4, <2>5
    <3>3. (begin - 1) + (2 * n + 3) = begin + 2 * n + 2
      BY <2>num
    <3> QED
      BY <3>1, <3>2, <3>3
  <2>8. \A i \in 1 .. Len(printed) : printed'[i] = printed[i]
    <3> SUFFICES ASSUME NEW i \in 1 .. Len(printed) PROVE printed'[i] = printed[i]
      OBVIOUS
    <3>1. i \in 1 .. begin - 1
      BY <2>2, <2>4
    <3> QED
      BY <2>4, <2>7, <3>1
  <2>9. \A i \in 1 .. k : more[i] = list[i] /\ starts[i] = start[i] /\ starts[i + 1] = start[i + 1]
    BY <2>1
  <2>10. more[k + 1] = os /\ starts[k + 1] = begin /\ starts[k + 2] = begin + 2 * n + 4
    BY <2>1
  <2>11. starts \in [1 .. Len(more) + 1 -> Nat \ {0}]
    <3> HIDE DEF begin, n
    <3>1. Len(more) + 1 = k + 2
      BY <2>1
    <3>2. begin + 2 * n + 4 \in Nat \ {0}
      BY <2>num
    <3>3. \A i \in 1 .. k + 2 : i # k + 2 => start[i] \in Nat \ {0}
      BY <2>2, <2>num
    <3> QED
      BY ONLY <3>1, <3>2, <3>3 DEF starts
  <2> HIDE DEF starts, more, begin, n
  <2>12. PrintedAs(printed', more, starts)
    <3>1. \A i \in 1 .. k : starts[i + 1] = start[i] + 2 * Count(list[i]) + 4
      BY <2>2, <2>9 DEF Printed, PrintedAs
    <3>2. ASSUME NEW i \in 1 .. k PROVE PlatformAt(printed', list[i], start[i])
      <4>1. PlatformAt(printed, list[i], start[i])
        BY <2>2 DEF Printed, PrintedAs
      <4> QED
        <5>1. Len(printed) <= Len(printed') /\ Len(printed') \in Nat
          BY <1>1, <2>2, <2>4, <2>7
        <5> QED
          BY <2>3, <2>4, <2>8, <4>1, <5>1, PlatformStays
    <3>3. PlatformAt(printed', os, begin)
      <4>1. /\ printed'[begin] = item[1] /\ printed'[begin + 1] = item[2]
            /\ printed'[begin + 2] = item[3]
            /\ printed'[begin + 2 + 2 * n] = item[2 * n + 3]
        <5>1. {1, 2, 3, 2 * n + 3} \subseteq 1 .. 2 * n + 3
          BY <2>num
        <5>2. \A i \in {1, 2, 3, 2 * n + 3} : printed'[begin - 1 + i] = item[i]
          BY ONLY <2>7, <5>1
        <5>3. /\ begin - 1 + 1 = begin /\ begin - 1 + 2 = begin + 1
              /\ begin - 1 + 3 = begin + 2 /\ begin - 1 + (2 * n + 3) = begin + 2 + 2 * n
          BY <2>num
        <5> HIDE DEF n
        <5> QED
          BY ONLY <5>2, <5>3
      <4>2. ASSUME NEW j \in 1 .. n PROVE printed'[begin + 1 + 2 * j] = item[2 + 2 * j]
        <5>1. 2 + 2 * j \in 1 .. 2 * n + 3 /\ begin - 1 + (2 + 2 * j) = begin + 1 + 2 * j
          BY <2>num
        <5> QED
          BY <2>7, <5>1
      <4>3. ASSUME NEW j \in 1 .. n - 1 PROVE printed'[begin + 2 + 2 * j] = item[3 + 2 * j]
        <5>1. 3 + 2 * j \in 1 .. 2 * n + 3 /\ begin - 1 + (3 + 2 * j) = begin + 2 + 2 * j
          BY <2>num
        <5> QED
          BY <2>7, <5>1
      <4> QED
        <5>1. /\ begin + 2 * n + 2 <= Len(printed')
              /\ printed'[begin] = Quoted(os.name) /\ printed'[begin + 1] = Colon
              /\ printed'[begin + 2] = OpenBracket
              /\ printed'[begin + 2 + 2 * n] = CloseBracket
          BY <2>num, <2>5, <2>7, <4>1
        <5>2. /\ \A j \in 1 .. n : printed'[begin + 1 + 2 * j] = Quoted(os.architectures[j])
              /\ \A j \in 1 .. n - 1 : printed'[begin + 2 + 2 * j] = Comma
          BY <2>5, <4>2, <4>3
        <5> QED
          BY <5>1, <5>2 DEF PlatformAt, n
    <3>4. ASSUME NEW i \in 1 .. k PROVE printed'[starts[i + 1] - 1] = Comma
      <4>1. CASE i < k
        <5>1. printed[start[i + 1] - 1] = Comma /\ i + 1 \in 1 .. k
          BY <2>1, <2>2, <4>1 DEF Printed, PrintedAs
        <5>2. start[i + 1] - 1 \in 1 .. Len(printed)
          <6>1. start[i + 1] <= Len(printed) /\ start[i + 1] - 1 >= 1
            <7>1. PlatformAt(printed, list[i + 1], start[i + 1])
              BY <2>2, <5>1 DEF Printed, PrintedAs
            <7>2. start[i + 1] + 2 * Count(list[i + 1]) + 2 <= Len(printed)
              BY <7>1 DEF PlatformAt
            <7>3. start[i + 1] = start[i] + 2 * Count(list[i]) + 4
              BY <2>2 DEF Printed, PrintedAs
            <7>4. /\ start[i] \in Nat \ {0} /\ start[i + 1] \in Nat \ {0}
                  /\ Count(list[i]) \in Nat /\ Count(list[i + 1]) \in Nat
              BY <2>3, <5>1
            <7>5. Len(printed) \in Nat
              BY <2>4
            <7> DEFINE s0 == start[i]
                       s1 == start[i + 1]
                       c0 == Count(list[i])
                       c1 == Count(list[i + 1])
                       total == Len(printed)
            <7>6. /\ s1 + 2 * c1 + 2 <= total /\ s1 = s0 + 2 * c0 + 4
                  /\ s0 \in Nat /\ s1 \in Nat /\ c0 \in Nat /\ c1 \in Nat /\ total \in Nat
              BY <7>2, <7>3, <7>4, <7>5
            <7> HIDE DEF s0, s1, c0, c1, total
            <7>7. s1 <= total /\ s1 - 1 >= 1
              BY ONLY <7>6
            <7> QED
              BY <7>7 DEF s1, total
          <6> QED
            BY <2>2, <2>3, <2>4, <5>1, <6>1
        <5> QED
          BY <2>8, <2>9, <5>1, <5>2
      <4>2. CASE i = k
        <5>1. begin - 1 \in 1 .. begin - 1 /\ k > 0
          BY <2>1, <2>2, <2>4, <4>2
        <5> QED
          BY <2>4, <2>7, <2>10, <4>2, <5>1
      <4> QED
        BY <2>1, <4>1, <4>2
    <3>5. starts[1] = 2 /\ printed'[1] = OpenBrace
      <4>1. 1 \in 1 .. Len(printed)
        BY <2>4
      <4> QED
        BY <2>2, <2>8, <2>9, <2>10, <4>1 DEF Printed, PrintedAs, begin
    <3>6. \A i \in 1 .. Len(more) :
            starts[i + 1] = starts[i] + 2 * Count(more[i]) + 4 /\ PlatformAt(printed', more[i], starts[i])
      <4> SUFFICES ASSUME NEW i \in 1 .. Len(more)
                   PROVE  /\ starts[i + 1] = starts[i] + 2 * Count(more[i]) + 4
                          /\ PlatformAt(printed', more[i], starts[i])
        OBVIOUS
      <4>1. CASE i \in 1 .. k
        BY <2>9, <3>1, <3>2, <4>1
      <4>2. CASE i = k + 1
        BY <2>1, <2>10, <3>3, <4>2 DEF n
      <4> QED
        BY <2>1, <4>1, <4>2
    <3>7. \A i \in 1 .. Len(more) - 1 : printed'[starts[i + 1] - 1] = Comma
      BY <2>1, <3>4
    <3> QED
      BY <2>11, <3>5, <3>6, <3>7 DEF PrintedAs
  <2> PICK list2, start2 : list2 = more /\ start2 = starts
    OBVIOUS
  <2>13. Printed(list2, start2)'
    <3>1. ListType(more)
      <4>1. \A i \in 1 .. Len(more) : i \in 1 .. k \/ i = k + 1
        BY <2>1
      <4>2. \A i \in 1 .. Len(more) : Count(more[i]) >= 1
        BY <1>1, <1>4, <2>1, <2>3, <2>10, <4>1 DEF n, os
      <4> QED
        BY <2>1, <4>2 DEF ListType
    <3>2. Advertises(dir, entries + 1, more)
      BY <1>1, <1>4, NextAdvertised DEF Printed, more, os
    <3>3. Len(printed') = EndOf(more, starts)
      <4>1. Len(more) = k + 1 /\ starts[k + 2] = begin + 2 * n + 4
        BY <2>1, <2>10
      <4>2. k + 1 # 0 /\ k + 1 + 1 = k + 2 /\ begin + 2 * n + 4 - 2 = begin + 2 * n + 2
        BY <2>num
      <4>0. Len(more) # 0
        BY ONLY <4>1, <4>2
      <4>3. EndOf(more, starts) = starts[Len(more) + 1] - 2
        BY ONLY <4>0, Zenon DEF EndOf
      <4>4. starts[Len(more) + 1] = begin + 2 * n + 4
        BY ONLY <4>1, <4>2, Zenon
      <4>5. EndOf(more, starts) = begin + 2 * n + 2
        BY ONLY <2>num, <4>2, <4>3, <4>4
      <4> QED
        BY ONLY <2>7, <4>5, Zenon
    <3>4. dir' \in Seq(OsType) /\ entries' \in 0 .. Len(dir')
      BY <1>1, <1>2
    <3>5. Len(printed)' = EndOf(list2, start2)' /\ Advertises(dir, entries, list2)'
      BY <1>2, <3>2, <3>3 DEF EndOf, Advertises
    <3>6. ListType(list2)' /\ PrintedAs(printed, list2, start2)'
      BY <2>12, <3>1 DEF ListType, PrintedAs
    <3> QED
      BY <1>2, <2>7, <3>4, <3>5, <3>6 DEF Printed
  <2>14. Parsed(list2, start2)'
    BY <1>2, <2>1, <2>7 DEF Parsed
  <2> QED
    BY <2>13, <2>14 DEF JsonInv
<1> QED
  BY <1>3, <1>4

LEMMA ListFacts ==
    ASSUME NEW list, NEW start, Printed(list, start)
    PROVE  /\ list \in Seq(OsType) /\ Len(list) \in Nat
           /\ start[1] = 2 /\ printed[1] = OpenBrace /\ Len(printed) \in Nat
           /\ \A i \in 1 .. Len(list) :
                /\ list[i] \in OsType /\ Count(list[i]) \in Nat \ {0} /\ start[i] \in Nat \ {0}
                /\ start[i + 1] = start[i] + 2 * Count(list[i]) + 4
                /\ PlatformAt(printed, list[i], start[i])
                /\ i < Len(list) => printed[start[i + 1] - 1] = Comma
<1>1. list \in Seq(OsType) /\ Len(list) \in Nat /\ printed \in Seq(Token) /\ Len(printed) \in Nat
  BY DEF Printed, ListType
<1>2. ASSUME NEW i \in 1 .. Len(list)
      PROVE  list[i] \in OsType /\ Count(list[i]) \in Nat \ {0}
  <2>1. list[i] \in OsType
    BY <1>1
  <2>2. list[i].architectures \in Seq(STRING)
    BY <2>1 DEF OsType
  <2> QED
    BY <2>1, <2>2 DEF Printed, ListType, Count
<1>3. ASSUME NEW i \in 1 .. Len(list), i < Len(list) PROVE i \in 1 .. Len(list) - 1
  BY <1>1, <1>3
<1>4. PrintedAs(printed, list, start)
  BY DEF Printed
<1>5. \A i \in 1 .. Len(list) : i \in 1 .. Len(list) + 1
  BY <1>1
<1>6. /\ start[1] = 2 /\ printed[1] = OpenBrace
      /\ \A i \in 1 .. Len(list) :
           /\ start[i] \in Nat \ {0}
           /\ start[i + 1] = start[i] + 2 * Count(list[i]) + 4
           /\ PlatformAt(printed, list[i], start[i])
      /\ \A i \in 1 .. Len(list) - 1 : printed[start[i + 1] - 1] = Comma
  BY <1>4, <1>5 DEF PrintedAs
<1> QED
  BY <1>1, <1>2, <1>3, <1>6

LEMMA EndPrinted ==
    ASSUME NEW list, NEW start, Printed(list, start), Parsed(list, start), PrintEnd
    PROVE  JsonInv'
<1> DEFINE out == Append(printed, CloseBrace)
           n == Len(printed)
<1>1. /\ state = "printing" /\ state' = "printed" /\ printed' = out /\ entries = Len(dir)
      /\ dir' = dir /\ entries' = entries /\ text' = text /\ next' = next /\ found' = found
      /\ printed \in Seq(Token) /\ CloseBrace \in Token
  BY TokenTypes DEF PrintEnd, Printed, MarkSet
<1>2. /\ out \in Seq(Token) /\ Len(out) = n + 1 /\ n \in Nat
      /\ \A i \in 1 .. n : out[i] = printed[i]
      /\ out[n + 1] = CloseBrace
  BY <1>1, AppendProperties
<1> HIDE DEF out
<1>3. /\ \A i \in 1 .. Len(list) : PlatformAt(out, list[i], start[i])
      /\ \A i \in 1 .. Len(list) - 1 : start[i + 1] - 1 \in 1 .. n
      /\ n >= 1
  <2>1. ASSUME NEW i \in 1 .. Len(list) PROVE PlatformAt(out, list[i], start[i])
    <3>1. /\ Count(list[i]) \in Nat /\ Count(list[i]) >= 1 /\ start[i] \in Nat \ {0}
          /\ PlatformAt(printed, list[i], start[i])
      BY ListFacts
    <3>2. Len(printed) \in Nat /\ Len(out) \in Nat /\ Len(printed) <= Len(out)
      BY <1>2
    <3> QED
      BY <1>2, <3>1, <3>2, PlatformStays
  <2>2. ASSUME NEW i \in 1 .. Len(list) - 1 PROVE start[i + 1] - 1 \in 1 .. n
    <3>1. i \in 1 .. Len(list) /\ i + 1 \in 1 .. Len(list)
      BY ListFacts
    <3>2. /\ start[i + 1] + 2 * Count(list[i + 1]) + 2 <= n
          /\ Count(list[i + 1]) \in Nat /\ start[i + 1] \in Nat
      BY <3>1, ListFacts DEF PlatformAt
    <3>3. start[i + 1] = start[i] + 2 * Count(list[i]) + 4 /\ start[i] \in Nat /\ Count(list[i]) \in Nat
      BY <3>1, ListFacts
    <3> DEFINE s == start[i]
               e == start[i + 1]
               c == Count(list[i])
               c2 == Count(list[i + 1])
    <3>4. s \in Nat /\ e \in Nat /\ c \in Nat /\ c2 \in Nat /\ n \in Nat
          /\ e + 2 * c2 + 2 <= n /\ e = s + 2 * c + 4
      BY <1>2, <3>2, <3>3
    <3> HIDE DEF s, e, c, c2, n
    <3>5. e - 1 \in 1 .. n
      BY <3>4
    <3> QED
      BY <3>5 DEF e
  <2>3. n >= 1
    <3>1. n = EndOf(list, start) /\ Len(list) \in Nat
      BY <1>1, ListFacts DEF Printed
    <3>2. CASE Len(list) = 0
      BY <3>1, <3>2 DEF EndOf
    <3>3. CASE Len(list) # 0
      <4>1. Len(list) \in 1 .. Len(list)
        BY <3>1, <3>3
      <4>2. /\ start[Len(list) + 1] = start[Len(list)] + 2 * Count(list[Len(list)]) + 4
            /\ start[Len(list)] \in Nat /\ Count(list[Len(list)]) \in Nat
        BY <4>1, ListFacts
      <4> QED
        BY <3>1, <3>3, <4>2 DEF EndOf
    <3> QED
      BY <3>2, <3>3
  <2> QED
    BY <2>1, <2>2, <2>3
<1>4. PrintedAs(out, list, start)
  <2>1. PrintedAs(printed, list, start)
    BY DEF Printed
  <2>2. 1 \in 1 .. n
    BY <1>2, <1>3
  <2> QED
    BY <1>2, <1>3, <2>1, <2>2 DEF PrintedAs
<1>5. Printed(list, start)'
  BY <1>1, <1>2, <1>4 DEF Printed, EndOf, Advertises
<1>6. Parsed(list, start)'
  <2>1. text = <<>> /\ next = 1 /\ found = <<>>
    BY <1>1 DEF Printed
  <2> QED
    BY <1>1, <1>2, <2>1 DEF Parsed
<1> QED
  BY <1>5, <1>6 DEF JsonInv

LEMMA ParserKeepsPrinting ==
    ASSUME NEW list, NEW start, Printed(list, start), state # "printing", state' # "printing",
           UNCHANGED <<dir, entries, printed>>
    PROVE  Printed(list, start)'
BY DEF Printed, Advertises

LEMMA TransferKeepsInv ==
    ASSUME NEW list, NEW start, Printed(list, start), Parsed(list, start), Transfer
    PROVE  JsonInv'
<1>1. Printed(list, start)'
  BY ParserKeepsPrinting DEF Transfer
<1>2. PICK n \in 0 .. Len(printed) : text' = SubSeq(printed, 1, n)
  BY DEF Transfer
<1>3. printed \in Seq(Token) /\ printed' = printed /\ Len(printed) \in Nat
  <2>1. state # "printing" /\ printed' = printed
    BY DEF Transfer
  <2> QED
    BY <2>1, ListFacts DEF Printed
<1>4. /\ text' \in Seq(Token) /\ Len(text') = n
      /\ \A i \in 1 .. n : text'[i] = printed[i]
  BY <1>2, <1>3
<1>5. Parsed(list, start)'
  <2>0. n <= Len(printed)
    BY <1>3
  <2>1. /\ state = "printed" /\ state' = "{" /\ next' = next /\ found' = found
    BY DEF Transfer
  <2>2. next = 1 /\ Len(found) = 0 /\ found \in Seq(OsType) /\ Len(found) <= Len(list)
    BY <2>1 DEF Parsed
  <2> QED
    BY <1>3, <1>4, <2>0, <2>1, <2>2 DEF Parsed
<1> QED
  BY <1>1, <1>5 DEF JsonInv
LEMMA TextFacts ==
    ASSUME NEW list, NEW start, Printed(list, start), Parsed(list, start), state # "printing"
    PROVE  /\ text \in Seq(Token) /\ Len(text) \in Nat /\ Len(text) <= Len(printed)
           /\ \A p \in Nat \ {0} : p <= Len(text) => text[p] = printed[p]
           /\ next \in Nat \ {0}
           /\ found \in Seq(OsType) /\ Len(found) \in Nat /\ Len(found) <= Len(list)
           /\ \A i \in 1 .. Len(found) : i \in 1 .. Len(list) /\ Count(found[i]) \in Nat
           /\ Len(found) >= 1 => Len(found) \in 1 .. Len(list) /\ Len(found) \in 1 .. Len(found)
           /\ list \in Seq(OsType) /\ Len(list) \in Nat
           /\ printed \in Seq(Token) /\ Len(printed) \in Nat
           /\ Len(printed) = EndOf(list, start) + 1 /\ printed[Len(printed)] = CloseBrace
<1>1. /\ text \in Seq(Token) /\ Len(text) <= Len(printed) /\ next \in Nat /\ next >= 1
      /\ \A i \in 1 .. Len(text) : text[i] = printed[i]
      /\ found \in Seq(OsType) /\ Len(found) <= Len(list)
  BY DEF Parsed
<1>2. Len(text) \in Nat /\ Len(found) \in Nat /\ Len(list) \in Nat /\ next \in Nat \ {0}
  BY <1>1, ListFacts
<1>3. ASSUME NEW i \in 1 .. Len(found) PROVE i \in 1 .. Len(list) /\ Count(found[i]) \in Nat
  <2>1. found[i] \in OsType
    BY <1>1
  <2>2. found[i].architectures \in Seq(STRING)
    BY <2>1 DEF OsType
  <2> QED
    BY <1>1, <1>2, <2>2 DEF Count
<1>4. \A p \in Nat \ {0} : p <= Len(text) => p \in 1 .. Len(text)
  BY <1>2
<1>5. /\ Len(printed) = EndOf(list, start) + 1 /\ printed[Len(printed)] = CloseBrace
      /\ printed \in Seq(Token)
  BY DEF Printed
<1>6. Len(found) >= 1 => Len(found) \in 1 .. Len(list) /\ Len(found) \in 1 .. Len(found)
  BY <1>1, <1>2
<1>7. list \in Seq(OsType) /\ Len(printed) \in Nat
  BY ListFacts
<1> QED
  BY <1>1, <1>2, <1>3, <1>4, <1>5, <1>6, <1>7

(* Where the tokens of the platform that is parsed are.                    *)
PlatformTokensAt(list, start, m) ==
    /\ Count(list[m]) \in Nat \ {0} /\ start[m] \in Nat \ {0}
    /\ start[m] + 2 * Count(list[m]) + 2 <= Len(printed)
    /\ printed[start[m]] = Quoted(list[m].name)
    /\ printed[start[m] + 1] = Colon /\ printed[start[m] + 2] = OpenBracket
    /\ \A j \in Nat \ {0} : j < Count(list[m]) => printed[start[m] + 2 + 2 * j] = Comma
    /\ printed[start[m] + 2 + 2 * Count(list[m])] = CloseBracket
    /\ m < Len(list) => /\ printed[start[m] + 3 + 2 * Count(list[m])] = Comma
                       /\ start[m] + 3 + 2 * Count(list[m]) < Len(printed)
    /\ start[m + 1] = start[m] + 2 * Count(list[m]) + 4

LEMMA PlatformFacts ==
    ASSUME NEW list, NEW start, Printed(list, start), NEW m \in 1 .. Len(list)
    PROVE  PlatformTokensAt(list, start, m)
<1> DEFINE c == Count(list[m])
           s == start[m]
<1>1. /\ c \in Nat \ {0} /\ s \in Nat \ {0} /\ PlatformAt(printed, list[m], s)
      /\ start[m + 1] = s + 2 * c + 4 /\ Len(printed) \in Nat /\ Len(list) \in Nat
      /\ m < Len(list) => printed[start[m + 1] - 1] = Comma
  BY ListFacts
<1>2. /\ s + 2 * c + 2 <= Len(printed)
      /\ printed[s] = Quoted(list[m].name)
      /\ printed[s + 1] = Colon /\ printed[s + 2] = OpenBracket
      /\ \A j \in 1 .. c - 1 : printed[s + 2 + 2 * j] = Comma
      /\ printed[s + 2 + 2 * c] = CloseBracket
  BY <1>1 DEF PlatformAt
<1>3. m < Len(list) => printed[s + 3 + 2 * c] = Comma /\ s + 3 + 2 * c < Len(printed)
  <2> SUFFICES ASSUME m < Len(list)
               PROVE  printed[s + 3 + 2 * c] = Comma /\ s + 3 + 2 * c < Len(printed)
    OBVIOUS
  <2>1. m + 1 \in 1 .. Len(list)
    BY <1>1
  <2>2. /\ start[m + 1] + 2 * Count(list[m + 1]) + 2 <= Len(printed)
        /\ Count(list[m + 1]) \in Nat /\ start[m + 1] \in Nat
    BY <2>1, ListFacts DEF PlatformAt
  <2> DEFINE e == start[m + 1]
             c2 == Count(list[m + 1])
             n == Len(printed)
  <2>3. /\ e \in Nat /\ c2 \in Nat /\ n \in Nat /\ s \in Nat /\ c \in Nat
        /\ e + 2 * c2 + 2 <= n /\ e = s + 2 * c + 4
        /\ printed[e - 1] = Comma
    BY <1>1, <2>2
  <2> HIDE DEF s, e, c, c2, n
  <2>4. e - 1 = s + 3 + 2 * c /\ s + 3 + 2 * c < n
    BY <2>3
  <2> QED
    BY <2>3, <2>4 DEF n
<1>5. ASSUME NEW j \in Nat \ {0}, j < c PROVE printed[s + 2 + 2 * j] = Comma
  <2> HIDE DEF s, c
  <2>1. j \in 1 .. c - 1
    BY <1>1, <1>5
  <2> QED
    BY <1>2, <2>1
<1> QED
  BY <1>1, <1>2, <1>3, <1>5 DEF PlatformTokensAt

(* A token that is not the one expected is behind the end of the text.     *)
LEMMA NotReached ==
    ASSUME NEW list, NEW start, Printed(list, start), Parsed(list, start), state # "printing",
           NEW token, next <= Len(printed), printed[next] = token, ~Is(token)
    PROVE  next > Len(text) /\ text # printed
<1>1. /\ next \in Nat \ {0} /\ Len(text) \in Nat
      /\ \A p \in Nat \ {0} : p <= Len(text) => text[p] = printed[p]
  BY TextFacts
<1>2. ~(next <= Len(text))
  BY <1>1 DEF Is
<1>3. next > Len(text)
  BY <1>1, <1>2
<1> QED
  BY <1>2, <1>3

LEMMA ArchitectureAt ==
    ASSUME NEW list, NEW start, Printed(list, start), NEW m \in 1 .. Len(list),
           NEW j \in Nat, j < Count(list[m])
    PROVE  printed[start[m] + 3 + 2 * j] = Quoted(list[m].architectures[j + 1])
<1> DEFINE c == Count(list[m])
           s == start[m]
<1>1. /\ c \in Nat \ {0} /\ s \in Nat \ {0} /\ j < c
      /\ PlatformAt(printed, list[m], s)
  BY ListFacts
<1>2. \A h \in 1 .. c : printed[s + 1 + 2 * h] = Quoted(list[m].architectures[h])
  BY <1>1 DEF PlatformAt
<1> HIDE DEF s, c
<1>3. j + 1 \in 1 .. c /\ s + 1 + 2 * (j + 1) = s + 3 + 2 * j
  BY <1>1
<1>4. printed[s + 3 + 2 * j] = Quoted(list[m].architectures[j + 1])
  BY <1>2, <1>3
<1> QED
  BY <1>4 DEF s

LEMMA FailureKeeps ==
    ASSUME NEW list, NEW start, Printed(list, start), Parsed(list, start), state # "printing",
           state' = "failed", UNCHANGED <<dir, entries, printed, text, next, found>>,
           text # printed \/ Len(list) = 0
    PROVE  Parsed(list, start)'
<1>1. /\ found' \in Seq(OsType) /\ Len(found') <= Len(list)
      /\ text' \in Seq(Token) /\ Len(text') <= Len(printed')
      /\ \A i \in 1 .. Len(text') : text'[i] = printed'[i]
      /\ next' \in Nat /\ next' >= 1
  BY DEF Parsed
<1>2. state' = "failed" /\ (text' # printed' \/ Len(list) = 0)
  OBVIOUS
<1> QED
  BY <1>1, <1>2 DEF Parsed

LEMMA BeginKeeps ==
    ASSUME NEW list, NEW start, Printed(list, start), Parsed(list, start), Begin
    PROVE  Parsed(list, start)'
<1>0. /\ state # "printing"
      /\ next' = IF Is(OpenBrace) THEN next + 1 ELSE next
  BY DEF Begin
<1>1. /\ state' = "platform" /\ next = 1 /\ Len(found) = 0
      /\ UNCHANGED <<dir, entries, printed, text, found>>
  BY DEF Begin, Parsed
<1>2. start[1] = 2 /\ printed[1] = OpenBrace /\ Len(list) \in Nat
  BY ListFacts
<1>3. /\ text \in Seq(Token) /\ Len(text) \in Nat
      /\ 1 <= Len(text) => text[1] = printed[1]
  BY <1>0, TextFacts
<1>4. text = <<>> \/ next' = start[Len(found) + 1]
  <2>1. CASE Len(text) = 0
    BY <1>3, <2>1
  <2>2. CASE Len(text) # 0
    <3>1. Is(OpenBrace)
      BY <1>1, <1>2, <1>3, <2>2 DEF Is
    <3>2. next' = 2
      BY <1>0, <1>1, <3>1
    <3> QED
      BY <1>1, <1>2, <3>2
  <2> QED
    BY <2>1, <2>2
<1>5. next' \in Nat /\ next' >= 1
  BY <1>0, <1>1
<1>6. SameSoFar(list, Len(found))'
  BY <1>1 DEF SameSoFar
<1>7. /\ found' \in Seq(OsType) /\ Len(found') <= Len(list)
      /\ text' \in Seq(Token) /\ Len(text') <= Len(printed')
      /\ \A i \in 1 .. Len(text') : text'[i] = printed'[i]
  BY <1>1 DEF Parsed
<1>8. Len(found) < Len(list) \/ Len(list) = 0
  BY <1>1, <1>2
<1> QED
  BY <1>1, <1>4, <1>5, <1>6, <1>7, <1>8 DEF Parsed

LEMMA ParsePlatformKeeps ==
    ASSUME NEW list, NEW start, Printed(list, start), Parsed(list, start), ParsePlatform
    PROVE  Parsed(list, start)'
<1> PICK m : m = Len(found)
  OBVIOUS
<1>1. /\ state = "platform" /\ UNCHANGED <<dir, entries, printed, text>>
      /\ SameSoFar(list, m) /\ (text = <<>> \/ next = start[m + 1]) /\ (m < Len(list) \/ Len(list) = 0)
  BY DEF ParsePlatform, Parsed
<1>2. /\ text \in Seq(Token) /\ Len(text) \in Nat /\ Len(text) <= Len(printed)
      /\ m \in Nat /\ m <= Len(list) /\ Len(list) \in Nat
      /\ next \in Nat \ {0} /\ found \in Seq(OsType) /\ list \in Seq(OsType)
      /\ next <= Len(text) => text[next] = printed[next]
      /\ Len(printed) = EndOf(list, start) + 1 /\ printed[Len(printed)] = CloseBrace
      /\ start[1] = 2
  BY <1>1, TextFacts, ListFacts
<1>3. CASE IsString
  <2>1. next <= Len(text) /\ text[next].quoted
    BY <1>3 DEF IsString
  <2>2. next = start[m + 1] /\ text[next] = printed[next]
    BY <1>1, <1>2, <2>1
  <2>3. Len(list) # 0
    <3> SUFFICES ASSUME Len(list) = 0 PROVE FALSE
      OBVIOUS
    <3>1. Len(printed) = 2 /\ next = 2
      BY <1>2, <2>2 DEF EndOf
    <3>2. ~printed[next].quoted
      BY <1>2, <3>1, TokenTypes DEF MarkSet
    <3> QED
      BY <2>1, <2>2, <3>2
  <2>4. m + 1 \in 1 .. Len(list)
    BY <1>1, <1>2, <2>3
  <2>5. text[next] = Quoted(list[m + 1].name)
    <3>1. PlatformTokensAt(list, start, m + 1)
      BY <2>4, PlatformFacts, Zenon
    <3>2. printed[start[m + 1]] = Quoted(list[m + 1].name)
      BY ONLY <3>1 DEF PlatformTokensAt
    <3> QED
      BY <2>2, <3>2
  <2> DEFINE one == [name |-> text[next].text, architectures |-> <<>>]
  <2>6. one.name = list[m + 1].name /\ one.architectures = <<>> /\ one \in OsType
    <3>1. text[next].text = list[m + 1].name
      BY <2>5, TokenTypes
    <3>2. list[m + 1] \in OsType
      BY <1>2, <2>4
    <3>3. list[m + 1].name \in STRING /\ <<>> \in Seq(STRING)
      BY <3>2 DEF OsType
    <3> QED
      BY <3>1, <3>3 DEF OsType
  <2>7. found' = Append(found, one) /\ next' = next + 1 /\ state' = ":"
    BY <1>3 DEF ParsePlatform
  <2> HIDE DEF one
  <2>8. /\ found' \in Seq(OsType) /\ Len(found') = m + 1 /\ found'[m + 1] = one
        /\ \A i \in 1 .. m : found'[i] = found[i]
    BY <1>2, <2>6, <2>7, AppendProperties
  <2>9. Count(one) = 0
    BY <2>6 DEF Count
  <2>10. Partial(list, 0)'
    <3>1. SameSoFar(list, m)'
      BY <1>1, <1>2, <2>8 DEF SameSoFar
    <3>2. Len(found') - 1 = m /\ Len(found') >= 1
      BY <1>2, <2>8
    <3>3. Count(list[m + 1]) \in Nat
      BY <2>4, ListFacts
    <3>4. 0 <= Count(list[m + 1]) /\ 1 .. 0 = {}
      BY <3>3
    <3> QED
      BY <2>6, <2>8, <2>9, <3>1, <3>2, <3>4 DEF Partial, SameSoFar, Count
  <2>11. /\ text' \in Seq(Token) /\ Len(text') <= Len(printed')
         /\ \A i \in 1 .. Len(text') : text'[i] = printed'[i]
         /\ next' \in Nat /\ next' >= 1 /\ next' = start[Len(found')] + 1
         /\ Len(found') <= Len(list)
    BY <1>1, <1>2, <2>2, <2>4, <2>7, <2>8 DEF Parsed
  <2> QED
    BY <2>7, <2>8, <2>10, <2>11 DEF Parsed
<1>4. CASE ~IsString
  <2>1. state' = "failed" /\ UNCHANGED <<next, found>>
    BY <1>4 DEF ParsePlatform
  <2>2. text # printed \/ Len(list) = 0
    <3> SUFFICES ASSUME text = printed, Len(list) # 0 PROVE FALSE
      OBVIOUS
    <3>1. m + 1 \in 1 .. Len(list)
      BY <1>1, <1>2
    <3>2. /\ printed[start[m + 1]] = Quoted(list[m + 1].name)
          /\ start[m + 1] + 2 * Count(list[m + 1]) + 2 <= Len(printed)
          /\ start[m + 1] \in Nat \ {0} /\ Count(list[m + 1]) \in Nat \ {0}
      <4>at. PlatformTokensAt(list, start, m + 1)
        BY <3>1, PlatformFacts, Zenon
      <4> QED
        BY ONLY <4>at DEF PlatformTokensAt
    <3>3. start[m + 1] <= Len(printed) /\ Len(printed) # 0
      BY <1>2, <3>2
    <3>4. next = start[m + 1]
      BY <1>1, <3>3
    <3>5. text[next].quoted
      BY <3>2, <3>4, TokenTypes
    <3> QED
      BY <1>4, <3>3, <3>4, <3>5 DEF IsString
  <2> QED
    BY <1>1, <2>1, <2>2, FailureKeeps
<1> QED
  BY <1>3, <1>4

LEMMA ExpectKeeps ==
    ASSUME NEW list, NEW start, Printed(list, start), Parsed(list, start),
           ParseColon \/ OpenArchitectures
    PROVE  Parsed(list, start)'
<1> PICK m : m = Len(found)
  OBVIOUS
<1>0. /\ state # "printing" /\ Partial(list, 0)
      /\ m >= 1 /\ Count(found[m]) = 0
      /\ UNCHANGED <<dir, entries, printed, text, found>>
  BY DEF ParseColon, OpenArchitectures, Expect, Parsed, Partial
<1>1. /\ text \in Seq(Token) /\ Len(text) \in Nat /\ Len(text) <= Len(printed)
      /\ \A p \in Nat \ {0} : p <= Len(text) => text[p] = printed[p]
      /\ m \in 1 .. Len(list) /\ Len(list) \in Nat /\ Len(printed) \in Nat
      /\ next \in Nat \ {0} /\ found \in Seq(OsType) /\ Len(found) <= Len(list)
  BY <1>0, TextFacts
<1>2. /\ Count(list[m]) \in Nat \ {0} /\ start[m] \in Nat \ {0}
      /\ start[m] + 2 * Count(list[m]) + 2 <= Len(printed)
      /\ printed[start[m] + 1] = Colon /\ printed[start[m] + 2] = OpenBracket
  <2>1. m \in 1 .. Len(list)
    BY <1>1
  <2>2. PlatformTokensAt(list, start, m)
    BY <2>1, PlatformFacts, Zenon
  <2> QED
    BY ONLY <2>2 DEF PlatformTokensAt
<1>3. /\ text' \in Seq(Token) /\ Len(text') <= Len(printed')
      /\ \A i \in 1 .. Len(text') : text'[i] = printed'[i]
      /\ found' \in Seq(OsType) /\ Len(found') <= Len(list) /\ Len(found') = m
      /\ Partial(list, 0)' /\ found'[m] = found[m]
  BY <1>0, <1>1 DEF Partial, SameSoFar, Parsed
<1>6. start[m] \in Nat /\ start[m] + 1 <= Len(printed) /\ start[m] + 2 <= Len(printed)
  <2> DEFINE c == Count(list[m])
             s == start[m]
             length == Len(printed)
  <2>1. c \in Nat /\ s \in Nat /\ length \in Nat /\ s + 2 * c + 2 <= length
    BY <1>1, <1>2
  <2> HIDE DEF c, s, length
  <2>2. s + 1 <= length /\ s + 2 <= length
    BY ONLY <2>1
  <2> QED
    BY <2>1, <2>2 DEF s, length
<1>4. CASE ParseColon
  <2>1. next = start[m] + 1 /\ next <= Len(printed)
    BY <1>6, <1>4 DEF ParseColon, OpenArchitectures, Expect, Parsed
  <2>2. CASE Is(Colon)
    <3>1. next' = next + 1 /\ state' = "["
      BY <1>4, <2>2 DEF ParseColon, OpenArchitectures, Expect
    <3>2. next' \in Nat /\ next' >= 1 /\ next' = start[m] + 2
      BY <1>6, <2>1, <3>1
    <3> QED
      BY <1>3, <3>1, <3>2 DEF Parsed
  <2>3. CASE ~Is(Colon)
    <3>1. state' = "failed" /\ UNCHANGED next
      BY <1>4, <2>3 DEF ParseColon, OpenArchitectures, Expect
    <3>2. text # printed
      BY <1>0, <1>2, <1>6, <2>1, <2>3, NotReached, Zenon
    <3> QED
      BY <1>0, <3>1, <3>2, FailureKeeps
  <2> QED
    BY <2>2, <2>3
<1>5. CASE OpenArchitectures
  <2>1. next = start[m] + 2 /\ next <= Len(printed)
    BY <1>6, <1>5 DEF ParseColon, OpenArchitectures, Expect, Parsed
  <2>2. CASE Is(OpenBracket)
    <3>1. next' = next + 1 /\ state' = "architecture"
      BY <1>5, <2>2 DEF ParseColon, OpenArchitectures, Expect
    <3>2. next' \in Nat /\ next' >= 1 /\ next' = start[m] + 3 + 2 * 0
      BY <1>6, <2>1, <3>1
    <3>3. Count(found'[m]) = 0 /\ 0 < Count(list[m])
      BY <1>0, <1>2, <1>3
    <3> QED
      BY <1>3, <3>1, <3>2, <3>3 DEF Parsed
  <2>3. CASE ~Is(OpenBracket)
    <3>1. state' = "failed" /\ UNCHANGED next
      BY <1>5, <2>3 DEF ParseColon, OpenArchitectures, Expect
    <3>2. text # printed
      BY <1>0, <1>2, <1>6, <2>1, <2>3, NotReached, Zenon
    <3> QED
      BY <1>0, <3>1, <3>2, FailureKeeps
  <2> QED
    BY <2>2, <2>3
<1> QED
  BY <1>4, <1>5

LEMMA ParseArchitectureKeeps ==
    ASSUME NEW list, NEW start, Printed(list, start), Parsed(list, start), ParseArchitecture
    PROVE  Parsed(list, start)'
<1> PICK m, j : m = Len(found) /\ j = Count(found[m])
  OBVIOUS
<1>0. /\ state = "architecture" /\ Partial(list, j) /\ j < Count(list[m])
      /\ next = start[m] + 3 + 2 * j /\ m >= 1
      /\ UNCHANGED <<dir, entries, printed, text>>
  BY DEF ParseArchitecture, Parsed, Partial
<1>1. /\ text \in Seq(Token) /\ Len(text) \in Nat /\ Len(text) <= Len(printed)
      /\ \A p \in Nat \ {0} : p <= Len(text) => text[p] = printed[p]
      /\ m \in 1 .. Len(list) /\ Len(list) \in Nat /\ Len(printed) \in Nat
      /\ next \in Nat \ {0} /\ found \in Seq(OsType) /\ list \in Seq(OsType)
  BY <1>0, TextFacts
<1>2. m \in 1 .. Len(found) /\ j \in Nat
  <2>1. state # "printing" /\ m \in 1 .. Len(found)
    BY <1>0, <1>1
  <2> QED
    BY <2>1, TextFacts
<1>3. /\ Count(list[m]) \in Nat \ {0} /\ start[m] \in Nat \ {0}
      /\ start[m] + 2 * Count(list[m]) + 2 <= Len(printed)
      /\ printed[start[m] + 3 + 2 * j] = Quoted(list[m].architectures[j + 1])
  <2>1. m \in 1 .. Len(list) /\ j \in Nat /\ j < Count(list[m])
    BY <1>0, <1>1, <1>2
  <2>2. /\ Count(list[m]) \in Nat \ {0} /\ start[m] \in Nat \ {0}
        /\ start[m] + 2 * Count(list[m]) + 2 <= Len(printed)
    <3>at. PlatformTokensAt(list, start, m)
      BY <2>1, PlatformFacts, Zenon
    <3> QED
      BY ONLY <3>at DEF PlatformTokensAt
  <2>3. printed[start[m] + 3 + 2 * j] = Quoted(list[m].architectures[j + 1])
    BY <2>1, ArchitectureAt
  <2> QED
    BY <2>1, <2>2, <2>3
<1>4. next <= Len(printed)
  BY <1>0, <1>1, <1>2, <1>3, SMTT(30)
<1>5. CASE IsString
  <2>1. next <= Len(text) /\ text[next].quoted
    BY <1>5 DEF IsString
  <2>2. text[next].text = list[m].architectures[j + 1]
    BY <1>0, <1>1, <1>3, <2>1, TokenTypes
  <2> DEFINE arch == list[m].architectures[j + 1]
             names == found[m].architectures
             os == [found[m] EXCEPT !.architectures = Append(@, arch)]
  <2>3. /\ found' = [found EXCEPT ![m] = os]
        /\ next' = next + 1 /\ state' = "more architectures"
    BY <1>5, <2>2 DEF ParseArchitecture
  <2>4. found[m] \in OsType /\ list[m] \in OsType
    BY <1>1, <1>2
  <2>5. names \in Seq(STRING) /\ Len(names) = j /\ list[m].architectures \in Seq(STRING)
    BY <2>4 DEF OsType, Count
  <2>6. j + 1 \in 1 .. Count(list[m])
    BY <1>0, <1>2, <1>3
  <2>7. arch \in STRING
    BY <2>5, <2>6 DEF Count
  <2> HIDE DEF arch
  <2>8. /\ Append(names, arch) \in Seq(STRING) /\ Len(Append(names, arch)) = j + 1
        /\ Append(names, arch)[j + 1] = arch
        /\ \A h \in 1 .. j : Append(names, arch)[h] = names[h]
    BY <2>5, <2>7, AppendProperties
  <2>9. /\ os \in OsType /\ os.name = found[m].name
        /\ os.architectures = Append(names, arch)
    BY <2>4, <2>8 DEF OsType
  <2>10. Count(os) = j + 1
    BY <2>8, <2>9 DEF Count
  <2> HIDE DEF os
  <2>11. /\ found' \in Seq(OsType) /\ Len(found') = m /\ found'[m] = os
         /\ \A i \in 1 .. m - 1 : found'[i] = found[i]
    <3>1. found \in Seq(OsType) /\ m \in 1 .. Len(found) /\ os \in OsType /\ m = Len(found)
      BY <1>1, <1>2, <2>9
    <3> DEFINE after == [found EXCEPT ![m] = os]
    <3>2. /\ after \in Seq(OsType) /\ Len(after) = Len(found)
          /\ \A i \in 1 .. Len(found) : after[i] = IF i = m THEN os ELSE found[i]
      BY <3>1, ExceptSeq
    <3>3. found' = after
      BY <2>3
    <3> HIDE DEF after
    <3> QED
      BY <3>1, <3>2, <3>3
  <2>12. Partial(list, j + 1)'
    <3>1. SameSoFar(list, m - 1) /\ found[m].name = list[m].name
          /\ \A h \in 1 .. j : names[h] = list[m].architectures[h]
      BY <1>0 DEF Partial
    <3>2. \A h \in 1 .. j + 1 : os.architectures[h] = list[m].architectures[h]
      <4> HIDE DEF names
      <4>1. ASSUME NEW h \in 1 .. j + 1 PROVE os.architectures[h] = list[m].architectures[h]
        <5>1. CASE h \in 1 .. j
          BY <2>8, <2>9, <3>1, <5>1
        <5>2. CASE h = j + 1
          BY <2>8, <2>9, <5>2 DEF arch
        <5> QED
          BY <1>2, <5>1, <5>2
      <4> QED
        BY <4>1
    <3>3. \A i \in 1 .. m - 1 : found'[i] = list[i]
      BY <2>11, <3>1 DEF SameSoFar
    <3>4. /\ Len(found') = m /\ found'[m] = os /\ os.name = list[m].name
          /\ list' = list /\ Count(os) = j + 1 /\ m >= 1 /\ j + 1 <= Count(list[m])
      BY <1>0, <2>6, <2>9, <2>10, <2>11, <3>1
    <3> QED
      BY ONLY <3>2, <3>3, <3>4 DEF Partial, SameSoFar, Count
  <2>13. /\ text' \in Seq(Token) /\ Len(text') <= Len(printed')
         /\ \A i \in 1 .. Len(text') : text'[i] = printed'[i]
    BY <1>0 DEF Parsed
  <2>14. /\ next' \in Nat /\ next' >= 1 /\ next' = start[m] + 2 + 2 * (j + 1)
    <3>1. next' = start[m] + 3 + 2 * j + 1
      BY <1>0, <2>3
    <3>2. start[m] \in Nat /\ j \in Nat
      BY <1>2, <1>3
    <3> QED
      BY ONLY <3>1, <3>2
  <2>16. j + 1 >= 1 /\ Count(found'[m]) = j + 1
    BY <1>2, <2>10, <2>11
  <2>15. Len(found') <= Len(list)
    BY <1>1, <2>11
  <2> QED
    BY <2>3, <2>11, <2>12, <2>13, <2>14, <2>15, <2>16 DEF Parsed
<1>6. CASE ~IsString
  <2>1. state' = "failed" /\ UNCHANGED <<next, found>>
    BY <1>6 DEF ParseArchitecture
  <2>2. text # printed
    BY <1>0, <1>1, <1>3, <1>4, <1>6, TokenTypes DEF IsString
  <2> QED
    BY <1>0, <2>1, <2>2, FailureKeeps
<1> QED
  BY <1>5, <1>6

LEMMA SameRecord ==
    ASSUME NEW r \in OsType, NEW s \in OsType, r.name = s.name, Count(r) = Count(s),
           \A h \in 1 .. Count(s) : r.architectures[h] = s.architectures[h]
    PROVE  r = s
<1>1. /\ r.architectures \in Seq(STRING) /\ s.architectures \in Seq(STRING)
      /\ r = [name |-> r.name, architectures |-> r.architectures]
      /\ s = [name |-> s.name, architectures |-> s.architectures]
  BY DEF OsType
<1>2. r.architectures = s.architectures
  BY <1>1, SeqEqual DEF Count
<1> QED
  BY <1>1, <1>2

LEMMA MoreArchitecturesKeeps ==
    ASSUME NEW list, NEW start, Printed(list, start), Parsed(list, start),
           MoreArchitectures
    PROVE  Parsed(list, start)'
<1> PICK m, j : m = Len(found) /\ j = Count(found[m])
  OBVIOUS
<1>0. /\ state # "printing" /\ Partial(list, j) /\ j >= 1
      /\ next = start[m] + 2 + 2 * j /\ m >= 1 /\ j <= Count(list[m])
      /\ UNCHANGED <<dir, entries, printed, text, found>>
  BY DEF MoreArchitectures, TryComma, Parsed, Partial
<1>1. /\ text \in Seq(Token) /\ Len(text) \in Nat /\ Len(text) <= Len(printed)
      /\ \A p \in Nat \ {0} : p <= Len(text) => text[p] = printed[p]
      /\ m \in 1 .. Len(list) /\ m \in 1 .. Len(found)
      /\ next \in Nat \ {0} /\ found \in Seq(OsType) /\ Len(found) <= Len(list)
  BY <1>0, TextFacts
<1>2. j \in Nat \ {0}
  BY <1>0, <1>1, TextFacts
<1>3. Count(list[m]) \in Nat \ {0} /\ start[m] \in Nat \ {0}
  <2>at. PlatformTokensAt(list, start, m)
    BY <1>1, PlatformFacts, Zenon
  <2> QED
    BY ONLY <2>at DEF PlatformTokensAt
<1>4. /\ text' \in Seq(Token) /\ Len(text') <= Len(printed')
      /\ \A i \in 1 .. Len(text') : text'[i] = printed'[i]
      /\ found' \in Seq(OsType) /\ Len(found') <= Len(list) /\ Len(found') = m
      /\ Partial(list, j)' /\ found'[m] = found[m] /\ Count(found'[m]) = j
  BY <1>0, <1>1 DEF Partial, SameSoFar, Parsed
<1>5. CASE Is(Comma)
  <2>1. next' = next + 1 /\ state' = "architecture"
    BY <1>5 DEF MoreArchitectures, TryComma
  <2>2. j # Count(list[m])
    <3> SUFFICES ASSUME j = Count(list[m]) PROVE FALSE
      OBVIOUS
    <3>1. printed[start[m] + 2 + 2 * Count(list[m])] = CloseBracket
      <4>at. PlatformTokensAt(list, start, m)
        BY <1>1, PlatformFacts, Zenon
      <4> QED
        BY ONLY <4>at DEF PlatformTokensAt
    <3>2. text[next] = CloseBracket /\ text[next] = Comma
      BY <1>0, <1>1, <1>5, <3>1 DEF Is
    <3> QED
      BY <3>2, MarksDiffer
  <2>3. j < Count(list[m])
    BY <1>0, <1>2, <1>3, <2>2
  <2>4. next' \in Nat /\ next' >= 1 /\ next' = start[m] + 3 + 2 * j
    BY <1>0, <1>2, <1>3, <2>1, SMTT(30)
  <2> QED
    BY <1>4, <2>1, <2>3, <2>4 DEF Parsed
<1>6. CASE ~Is(Comma)
  <2>1. next' = next /\ state' = "]"
    BY <1>6 DEF MoreArchitectures, TryComma
  <2>2. j = Count(list[m]) \/ next > Len(text)
    <3> SUFFICES ASSUME j # Count(list[m]), ~(next > Len(text)) PROVE FALSE
      OBVIOUS
    <3>1. j < Count(list[m]) /\ next <= Len(text)
      BY <1>0, <1>1, <1>2, <1>3, SMTT(30)
    <3>2. \A i \in Nat \ {0} : i < Count(list[m]) => printed[start[m] + 2 + 2 * i] = Comma
      <4>at. PlatformTokensAt(list, start, m)
        BY <1>1, PlatformFacts, Zenon
      <4> QED
        BY ONLY <4>at DEF PlatformTokensAt
    <3>3. text[next] = Comma
      BY <1>0, <1>1, <1>2, <3>1, <3>2
    <3> QED
      BY <1>6, <3>1, <3>3 DEF Is
  <2>3. next' \in Nat /\ next' >= 1 /\ next' = start[m] + 2 + 2 * j
        /\ (j = Count(list[m]) \/ next' > Len(text'))
    BY <1>0, <1>1, <2>1, <2>2
  <2> QED
    BY <1>0, <1>4, <2>1, <2>3 DEF Parsed
<1> QED
  BY <1>5, <1>6

LEMMA CloseBracketKeeps ==
    ASSUME NEW list, NEW start, Printed(list, start), Parsed(list, start),
           CloseArchitectures
    PROVE  Parsed(list, start)'
<1> PICK m, j : m = Len(found) /\ j = Count(found[m])
  OBVIOUS
<1>0. /\ state # "printing" /\ Partial(list, j) /\ j >= 1
      /\ next = start[m] + 2 + 2 * j /\ m >= 1 /\ j <= Count(list[m])
      /\ j = Count(list[m]) \/ next > Len(text)
      /\ UNCHANGED <<dir, entries, printed, text, found>>
  BY DEF CloseArchitectures, Expect, Parsed, Partial
<1>1. /\ text \in Seq(Token) /\ Len(text) \in Nat /\ Len(text) <= Len(printed)
      /\ \A p \in Nat \ {0} : p <= Len(text) => text[p] = printed[p]
      /\ m \in 1 .. Len(list) /\ m \in 1 .. Len(found)
      /\ next \in Nat \ {0} /\ found \in Seq(OsType) /\ Len(found) <= Len(list)
      /\ list \in Seq(OsType)
  BY <1>0, TextFacts
<1>2. j \in Nat \ {0}
  BY <1>0, <1>1, TextFacts
<1>3. /\ Count(list[m]) \in Nat \ {0} /\ start[m] \in Nat \ {0} /\ Len(printed) \in Nat
      /\ start[m] + 2 * Count(list[m]) + 2 <= Len(printed)
      /\ printed[start[m] + 2 + 2 * Count(list[m])] = CloseBracket
  <2>1. Len(printed) \in Nat
    BY <1>0, TextFacts
  <2>2. PlatformTokensAt(list, start, m)
    BY <1>1, PlatformFacts, Zenon
  <2> QED
    BY ONLY <2>1, <2>2 DEF PlatformTokensAt
<1>4. CASE Is(CloseBracket)
  <2>0. next' = next + 1 /\ state' = "more platforms"
    BY <1>4 DEF CloseArchitectures, Expect
  <2>1. next' = next + 1 /\ next <= Len(text)
    BY <1>4, <2>0 DEF Is
  <2>2. j = Count(list[m])
    <3>1. ~(next > Len(text))
      BY <1>1, <2>1
    <3> QED
      BY <1>0, <3>1
  <2>3. found[m] = list[m]
    <3>1. found[m] \in OsType /\ list[m] \in OsType
      BY <1>1
    <3>2. found[m].name = list[m].name
          /\ \A h \in 1 .. j : found[m].architectures[h] = list[m].architectures[h]
      BY <1>0 DEF Partial
    <3> QED
      BY <2>2, <3>1, <3>2, SameRecord
  <2>4. SameSoFar(list, m)
    <3>1. \A i \in 1 .. m : i \in 1 .. m - 1 \/ i = m
      BY <1>1
    <3> QED
      BY <1>0, <2>3, <3>1 DEF Partial, SameSoFar
  <2>5. /\ text' \in Seq(Token) /\ Len(text') <= Len(printed')
        /\ \A i \in 1 .. Len(text') : text'[i] = printed'[i]
        /\ found' \in Seq(OsType) /\ Len(found') <= Len(list) /\ Len(found') = m /\ m >= 1
        /\ SameSoFar(list, m)'
    BY <1>0, <1>1, <2>4 DEF Parsed, SameSoFar
  <2>6. next' \in Nat /\ next' >= 1 /\ next' = start[m] + 3 + 2 * Count(list[m])
    <3>1. next = start[m] + 2 + 2 * j
      BY <1>0
    <3> DEFINE c == Count(list[m])
               s == start[m]
    <3>2. c \in Nat /\ s \in Nat /\ next = s + 2 + 2 * c /\ next' = next + 1
      BY <1>3, <2>1, <2>2, <3>1
    <3> HIDE DEF c, s
    <3>3. next' \in Nat /\ next' >= 1 /\ next' = s + 3 + 2 * c
      BY <3>2
    <3> QED
      BY <3>3 DEF c, s
  <2> QED
    BY <2>0, <2>5, <2>6 DEF Parsed
<1>5. CASE ~Is(CloseBracket)
  <2>1. state' = "failed" /\ UNCHANGED next
    BY <1>5 DEF CloseArchitectures, Expect
  <2>2. next > Len(text)
    <3> SUFFICES ASSUME next <= Len(text) PROVE FALSE
      BY <1>1
    <3>1. j = Count(list[m])
      BY <1>0, <1>1
    <3>2. text[next] = CloseBracket
      BY <1>0, <1>1, <1>3, <3>1
    <3> QED
      BY <1>5, <3>2 DEF Is
  <2>3. next <= Len(printed)
    BY <1>0, <1>2, <1>3
  <2>4. text # printed
    BY <1>1, <2>2, <2>3
  <2> QED
    BY <1>0, <2>1, <2>4, FailureKeeps
<1> QED
  BY <1>4, <1>5

LEMMA MorePlatformsKeeps ==
    ASSUME NEW list, NEW start, Printed(list, start), Parsed(list, start), MorePlatforms
    PROVE  Parsed(list, start)'
<1> PICK m : m = Len(found)
  OBVIOUS
<1>0. /\ state # "printing" /\ m >= 1 /\ SameSoFar(list, m)
      /\ next = start[m] + 3 + 2 * Count(list[m])
      /\ UNCHANGED <<dir, entries, printed, text, found>>
  BY DEF MorePlatforms, TryComma, Parsed
<1>1. /\ text \in Seq(Token) /\ Len(text) \in Nat /\ Len(text) <= Len(printed)
      /\ \A p \in Nat \ {0} : p <= Len(text) => text[p] = printed[p]
      /\ m \in 1 .. Len(list) /\ Len(list) \in Nat
      /\ next \in Nat \ {0} /\ found \in Seq(OsType) /\ Len(found) <= Len(list)
      /\ Len(printed) = EndOf(list, start) + 1 /\ printed[Len(printed)] = CloseBrace
  BY <1>0, TextFacts
<1>2. /\ Count(list[m]) \in Nat \ {0} /\ start[m] \in Nat \ {0}
      /\ start[m + 1] = start[m] + 2 * Count(list[m]) + 4
      /\ m < Len(list) => printed[start[m] + 3 + 2 * Count(list[m])] = Comma
  <2>1. PlatformTokensAt(list, start, m)
    BY <1>1, PlatformFacts, Zenon
  <2> QED
    BY ONLY <2>1 DEF PlatformTokensAt
<1>3. /\ text' \in Seq(Token) /\ Len(text') <= Len(printed')
      /\ \A i \in 1 .. Len(text') : text'[i] = printed'[i]
      /\ found' \in Seq(OsType) /\ Len(found') <= Len(list) /\ Len(found') = m
      /\ SameSoFar(list, m)'
  BY <1>0, <1>1 DEF SameSoFar, Parsed
<1>4. CASE Is(Comma)
  <2>1. next' = next + 1
    BY <1>4 DEF MorePlatforms, TryComma
  <2>2. state' = "platform"
    BY <1>4 DEF MorePlatforms, TryComma
  <2>3. m # Len(list)
    <3> SUFFICES ASSUME m = Len(list) PROVE FALSE
      OBVIOUS
    <3>1. Len(printed) = start[m + 1] - 1
      BY <1>1, <1>2 DEF EndOf
    <3>2. next = Len(printed)
      <4> DEFINE c == Count(list[m])
                 s == start[m]
                 e == start[m + 1]
      <4>1. /\ c \in Nat /\ s \in Nat /\ e = s + 2 * c + 4
            /\ next = s + 3 + 2 * c /\ Len(printed) = e - 1
        BY <1>0, <1>2, <3>1
      <4> HIDE DEF c, s, e
      <4> QED
        BY ONLY <4>1
    <3>3. text[next] = Comma /\ text[next] = CloseBrace
      BY <1>1, <1>4, <3>2 DEF Is
    <3> QED
      BY <3>3, MarksDiffer
  <2>4. m < Len(list)
    BY <1>1, <2>3
  <2>5. next' \in Nat /\ next' >= 1 /\ next' = start[m + 1]
    <3> DEFINE c == Count(list[m])
               s == start[m]
               e == start[m + 1]
    <3>1. /\ c \in Nat /\ s \in Nat /\ e = s + 2 * c + 4
          /\ next = s + 3 + 2 * c /\ next' = next + 1
      BY <1>0, <1>2, <2>1
    <3> HIDE DEF c, s, e
    <3>2. next' \in Nat /\ next' >= 1 /\ next' = e
      BY ONLY <3>1
    <3> QED
      BY <3>2 DEF e
  <2> QED
    BY <1>3, <2>2, <2>4, <2>5 DEF Parsed
<1>5. CASE ~Is(Comma)
  <2>1. next' = next
    BY <1>5 DEF MorePlatforms, TryComma
  <2>2. state' = "}"
    BY <1>5 DEF MorePlatforms, TryComma
  <2>3. m = Len(list) \/ next > Len(text)
    <3> SUFFICES ASSUME m # Len(list), ~(next > Len(text)) PROVE FALSE
      OBVIOUS
    <3>1. m < Len(list) /\ next <= Len(text)
      BY <1>1
    <3>2. text[next] = Comma
      BY <1>0, <1>1, <1>2, <3>1
    <3> QED
      BY <1>5, <3>1, <3>2 DEF Is
  <2>4. /\ next' \in Nat /\ next' >= 1 /\ m >= 1
        /\ next' = start[m] + 3 + 2 * Count(list[m])
        /\ (m = Len(list) \/ next' > Len(text'))
    BY <1>0, <1>1, <2>1, <2>3
  <2> QED
    BY <1>3, <2>2, <2>4 DEF Parsed
<1> QED
  BY <1>4, <1>5

LEMMA EndKeeps ==
    ASSUME NEW list, NEW start, Printed(list, start), Parsed(list, start), End
    PROVE  Parsed(list, start)'
<1> PICK m : m = Len(found)
  OBVIOUS
<1>0. /\ state # "printing" /\ m >= 1 /\ SameSoFar(list, m)
      /\ next = start[m] + 3 + 2 * Count(list[m])
      /\ m = Len(list) \/ next > Len(text)
      /\ UNCHANGED <<dir, entries, printed, text, found>>
  BY DEF End, Expect, Parsed
<1>1. /\ text \in Seq(Token) /\ Len(text) \in Nat /\ Len(text) <= Len(printed)
      /\ \A p \in Nat \ {0} : p <= Len(text) => text[p] = printed[p]
      /\ m \in 1 .. Len(list) /\ Len(list) \in Nat
      /\ next \in Nat \ {0} /\ found \in Seq(OsType) /\ Len(found) <= Len(list)
      /\ Len(printed) = EndOf(list, start) + 1 /\ printed[Len(printed)] = CloseBrace
      /\ printed \in Seq(Token) /\ Len(printed) \in Nat
  BY <1>0, TextFacts
<1>2. /\ Count(list[m]) \in Nat \ {0} /\ start[m] \in Nat \ {0}
      /\ start[m + 1] = start[m] + 2 * Count(list[m]) + 4
      /\ m < Len(list) => start[m] + 3 + 2 * Count(list[m]) < Len(printed)
  <2>1. m \in 1 .. Len(list)
    BY <1>1
  <2>2. PlatformTokensAt(list, start, m)
    BY <2>1, PlatformFacts, Zenon
  <2> QED
    BY ONLY <2>2 DEF PlatformTokensAt
<1>3. m = Len(list) => next = Len(printed)
  <2> SUFFICES ASSUME m = Len(list) PROVE next = Len(printed)
    OBVIOUS
  <2>1. Len(printed) = start[m + 1] - 1
    BY <1>1, <1>2 DEF EndOf
  <2> QED
    BY <1>0, <1>2, <2>1
<1>4. next <= Len(printed)
  BY <1>0, <1>1, <1>2, <1>3
<1>5. CASE Is(CloseBrace)
  <2>1. next' = next + 1
    BY <1>5 DEF End, Expect
  <2>2. state' = "parsed"
    BY <1>5 DEF End, Expect
  <2>3. next <= Len(text)
    BY <1>5 DEF Is
  <2>4. m = Len(list) /\ Len(text) = Len(printed)
    BY <1>0, <1>1, <1>3, <2>3
  <2>5. text = printed
    <3>1. \A i \in 1 .. Len(text) : text[i] = printed[i]
      BY DEF Parsed
    <3> QED
      BY <1>1, <2>4, <3>1, SeqEqual
  <2>6. /\ text' \in Seq(Token) /\ Len(text') <= Len(printed')
        /\ \A i \in 1 .. Len(text') : text'[i] = printed'[i]
        /\ found' \in Seq(OsType) /\ Len(found') <= Len(list) /\ Len(found') = m
        /\ SameSoFar(list, m)' /\ text' = printed'
    BY <1>0, <1>1, <2>5 DEF SameSoFar, Parsed
  <2>7. next' \in Nat /\ next' >= 1
    BY <1>1, <2>1
  <2> QED
    BY <2>2, <2>4, <2>6, <2>7 DEF Parsed
<1>6. CASE ~Is(CloseBrace)
  <2>1. state' = "failed" /\ UNCHANGED next
    BY <1>6 DEF End, Expect
  <2>2. next > Len(text)
    <3> SUFFICES ASSUME next <= Len(text) PROVE FALSE
      BY <1>1
    <3>1. ~(next > Len(text))
      BY <1>1
    <3>2. text[next] = CloseBrace
      BY <1>0, <1>1, <1>3, <3>1
    <3> QED
      BY <1>6, <3>2 DEF Is
  <2>3. text # printed
    BY <1>1, <1>4, <2>2
  <2> QED
    BY <1>0, <2>1, <2>3, FailureKeeps
<1> QED
  BY <1>5, <1>6

LEMMA JsonInvHolds == JsonSpec => []JsonInv
<1>1. JsonInv /\ [JsonNext]_jsonVars => JsonInv'
  <2> SUFFICES ASSUME JsonInv, [JsonNext]_jsonVars PROVE JsonInv'
    OBVIOUS
  <2>1. PICK list, start : Printed(list, start) /\ Parsed(list, start)
    BY DEF JsonInv
  <2>2. CASE PrintEntry \/ PrintEnd \/ Transfer
    BY <2>1, <2>2, EntryPrinted, EndPrinted, TransferKeepsInv
  <2> DEFINE Parse == \/ Begin \/ ParsePlatform \/ ParseColon
                      \/ OpenArchitectures \/ ParseArchitecture \/ MoreArchitectures
                      \/ CloseArchitectures \/ MorePlatforms \/ End
  <2>3. CASE Parse
    <3>1. Parsed(list, start)'
      BY <2>1, <2>3, BeginKeeps, ParsePlatformKeeps, ExpectKeeps, ParseArchitectureKeeps,
         MoreArchitecturesKeeps, CloseBracketKeeps, MorePlatformsKeeps, EndKeeps
    <3>2. state # "printing" /\ state' # "printing" /\ UNCHANGED <<dir, entries, printed>>
      BY <2>3 DEF Begin, ParsePlatform, ParseArchitecture, ParseColon, OpenArchitectures,
         MoreArchitectures, CloseArchitectures, MorePlatforms, End, Expect, TryComma
    <3> QED
      BY <2>1, <3>1, <3>2, ParserKeepsPrinting DEF JsonInv
  <2>4. CASE UNCHANGED jsonVars
    <3>1. UNCHANGED <<dir, entries, printed, text, next, state, found>>
      BY <2>4 DEF jsonVars
    <3>2. Printed(list, start)'
      BY <2>1, <3>1 DEF Printed
    <3>3. /\ \A m : SameSoFar(list, m)' <=> SameSoFar(list, m)
          /\ \A j : Partial(list, j)' <=> Partial(list, j)
      BY <3>1 DEF SameSoFar, Partial
    <3>4. Parsed(list, start)
      BY <2>1
    <3>5. Parsed(list, start)'
      BY ONLY <3>1, <3>3, <3>4, ZenonT(60) DEF Parsed
    <3> QED
      BY <3>2, <3>5 DEF JsonInv
  <2> QED
    BY <2>2, <2>3, <2>4 DEF JsonNext
<1> QED
  BY <1>1, JsonInitInv, PTL DEF JsonSpec

THEOREM ListParsesWhole == JsonSpec => []ParsesWhole
<1>1. JsonInv => ParsesWhole
  <2> SUFFICES ASSUME JsonInv PROVE ParsesWhole
    OBVIOUS
  <2>1. PICK list, start : Printed(list, start) /\ Parsed(list, start)
    BY DEF JsonInv
  <2>2. ASSUME state = "parsed" PROVE text = printed /\ Advertises(dir, Len(dir), found)
    <3>1. /\ text = printed /\ SameSoFar(list, Len(found)) /\ Len(found) = Len(list)
          /\ found \in Seq(OsType) /\ list \in Seq(OsType)
          /\ entries = Len(dir) /\ Advertises(dir, entries, list)
      BY <2>1, <2>2 DEF Parsed, Printed, ListType
    <3>2. found = list
      BY <3>1, SeqEqual DEF SameSoFar
    <3> QED
      BY <3>1, <3>2
  <2>3. ASSUME state = "failed" PROVE text # printed \/ WithMakefile(dir, Len(dir)) = {}
    <3>1. /\ text # printed \/ Len(list) = 0
          /\ entries = Len(dir) /\ Advertises(dir, entries, list)
          /\ dir \in Seq(OsType)
      BY <2>1, <2>3 DEF Parsed, Printed
    <3>2. CASE Len(list) = 0
      <4>1. Cardinality(WithMakefile(dir, Len(dir))) = 0 /\ Len(dir) \in Nat
        BY <3>1, <3>2 DEF Advertises
      <4> QED
        BY <3>1, <4>1, Numbered, FS_EmptySet
    <3> QED
      BY <3>1, <3>2
  <2> QED
    BY <2>2, <2>3 DEF ParsesWhole
<1> QED
  BY <1>1, JsonInvHolds, PTL

-----------------------------------------------------------------------------
(***************************************************************************)
(* Routes, for any names of platforms, diagrams and files.  A URL is sent  *)
(* to the first route that matches: a lemma for each kind of route says    *)
(* which URLs no other route takes, a lemma for each kind of request that  *)
(* its URL is one of them.                                                 *)
(***************************************************************************)

UrlType == Seq(DOMAIN Length) \ {<<>>}
Cost(u) == [i \in DOMAIN u |-> Length[u[i]] + 1]

LEMMA UrlFacts ==
    ASSUME NEW u \in UrlType
    PROVE  /\ Len(u) \in Nat \ {0} /\ DOMAIN u = 1 .. Len(u) /\ u # <<>>
           /\ Last(u) = u[Len(u)] /\ u \in Seq(DOMAIN Length)
           /\ \A i \in 1 .. Len(u) : u[i] \in DOMAIN Length /\ Length[u[i]] \in Nat
<1>1. u \in Seq(DOMAIN Length) /\ u # <<>>
  BY DEF UrlType
<1>2. Len(u) \in Nat /\ DOMAIN u = 1 .. Len(u) /\ Len(u) # 0
  BY <1>1, LenProperties, EmptySeq
<1>3. \A i \in 1 .. Len(u) : u[i] \in DOMAIN Length
  BY <1>1, <1>2, ElementOfSeq
<1> QED
  BY <1>1, <1>2, <1>3, ComponentAssumption DEF Last

\* What each character counts for does not depend on the order in which they are counted.
LEMMA CharactersIsSum ==
    ASSUME NEW u \in UrlType
    PROVE  /\ IsFiniteSet(DOMAIN u) /\ Cost(u) \in [DOMAIN u -> Nat]
           /\ \E g : Sums(Cost(u), DOMAIN u, g) /\ Characters(u) = g[DOMAIN u]
<1> DEFINE S == DOMAIN u
           h == Cost(u)
           Iterates(f) == f = [s \in SUBSET S |->
               IF s = {} THEN IF u = <<>> THEN 1 ELSE 0
               ELSE Length[u[CHOOSE x \in s : TRUE]] + 1 + f[s \ {CHOOSE x \in s : TRUE}]]
           iter == CHOOSE f : Iterates(f)
<1>1. S = 1 .. Len(u) /\ Len(u) \in Nat /\ IsFiniteSet(S)
  BY UrlFacts, CountInterval
<1>2. h \in [S -> Nat] /\ \A i \in S : h[i] = Length[u[i]] + 1
  BY UrlFacts DEF Cost
<1>3. PICK g : Sums(h, S, g)
  <2> HIDE DEF h, S
  <2> QED
    BY <1>1, <1>2, SumsExist
<1>4. u # <<>>
  BY UrlFacts
<1>5. Iterates(g)
  <2>1. g = [s \in SUBSET S |-> g[s]]
    BY <1>3 DEF Sums
  <2>2. \A s \in SUBSET S : g[s] = IF s = {} THEN 0 ELSE h[First(s)] + g[s \ {First(s)}]
    BY <1>3 DEF Sums
  <2>3. \A s \in SUBSET S : s # {} => First(s) \in S
    BY FirstIsElement
  <2>4. \A s \in SUBSET S : g[s] = IF s = {} THEN 0 ELSE Length[u[First(s)]] + 1 + g[s \ {First(s)}]
    BY <1>2, <2>2, <2>3
  <2> HIDE DEF S, h
  <2> QED
    BY <1>4, <2>1, <2>4 DEF First
<1>6. Iterates(iter)
  <2> HIDE DEF Iterates
  <2> QED
    BY <1>5
<1>7. iter = [s \in SUBSET S |->
                IF s = {} THEN 0 ELSE Length[u[First(s)]] + 1 + iter[s \ {First(s)}]]
  <2> HIDE DEF iter, S
  <2> QED
    BY <1>4, <1>6 DEF First
<1>8. Characters(u) = iter[S]
  BY DEF Characters, FoldSeq, FoldFunction, FoldFunctionOnSet, MapThenFoldSet
<1> HIDE DEF iter
<1>9. iter[S] = g[S]
  <2> DEFINE Bad == {r \in SUBSET S : iter[r] # g[r]}
  <2> SUFFICES ASSUME Bad # {} PROVE FALSE
    OBVIOUS
  <2>1. PICK m \in Bad : \A r \in Bad : ~(r \subseteq m /\ r # m)
    <3>1. Bad \in SUBSET SUBSET S
      OBVIOUS
    <3>2. IsFiniteSet(S)
      BY <1>1
    <3> HIDE DEF Bad, S
    <3> QED
      BY <3>1, <3>2, SmallestSet
  <2>2. m \in SUBSET S /\ iter[m] # g[m]
    BY <2>1
  <2>3. /\ iter[m] = IF m = {} THEN 0 ELSE Length[u[First(m)]] + 1 + iter[m \ {First(m)}]
        /\ g[m] = IF m = {} THEN 0 ELSE h[First(m)] + g[m \ {First(m)}]
    <3> HIDE DEF S, h
    <3> QED
      BY <1>3, <1>7, <2>2 DEF Sums
  <2>4. m # {}
    BY <2>2, <2>3
  <2>5. First(m) \in m
    BY <2>4, FirstIsElement
  <2>6. iter[m \ {First(m)}] = g[m \ {First(m)}]
    BY <2>1, <2>5
  <2>7. h[First(m)] = Length[u[First(m)]] + 1
    BY <1>2, <2>2, <2>5
  <2> HIDE DEF h
  <2> QED
    BY <2>2, <2>3, <2>4, <2>6, <2>7
<1> QED
  BY <1>1, <1>2, <1>3, <1>8, <1>9

LEMMA CharactersCount ==
    ASSUME NEW u \in UrlType, NEW i \in 1 .. Len(u)
    PROVE  /\ Characters(u) \in Nat /\ Characters(u) >= Length[u[i]] + 1
           /\ Len(u) = 2 => Characters(u) = Length[u[1]] + Length[u[2]] + 2
<1> DEFINE S == DOMAIN u
           h == Cost(u)
<1>1. /\ S = 1 .. Len(u) /\ Len(u) \in Nat \ {0} /\ IsFiniteSet(S) /\ h \in [S -> Nat]
      /\ \A j \in S : h[j] = Length[u[j]] + 1 /\ Length[u[j]] \in Nat
  BY UrlFacts, CharactersIsSum DEF Cost
<1>2. PICK g : Sums(h, S, g) /\ Characters(u) = g[S]
  BY CharactersIsSum
<1> HIDE DEF h, S
<1>3. \A s \in SUBSET S : g[s] \in Nat
  BY <1>2 DEF Sums
<1>4. \A s \in SUBSET S : \A j \in s : g[s] = h[j] + g[s \ {j}]
  <2> SUFFICES ASSUME NEW s \in SUBSET S, NEW j \in s PROVE g[s] = h[j] + g[s \ {j}]
    OBVIOUS
  <2>1. IsFiniteSet(S) /\ h \in [S -> Nat] /\ Sums(h, S, g)
    BY <1>1, <1>2
  <2> QED
    BY <2>1, SumOfRest
<1>5. i \in S /\ S \in SUBSET S /\ S \ {i} \in SUBSET S
  BY <1>1
<1>6. Characters(u) \in Nat /\ Characters(u) >= Length[u[i]] + 1
  <2>1. g[S] = h[i] + g[S \ {i}] /\ g[S \ {i}] \in Nat
    BY <1>3, <1>4, <1>5
  <2> QED
    BY <1>1, <1>2, <1>5, <2>1
<1>7. ASSUME Len(u) = 2 PROVE Characters(u) = Length[u[1]] + Length[u[2]] + 2
  <2>1. S = {1, 2} /\ S \ {1} = {2} /\ {2} \ {2} = {} /\ {2} \in SUBSET S
    BY <1>1, <1>7
  <2>2. g[S] = h[1] + g[{2}] /\ g[{2}] = h[2] + g[{}]
    BY <1>4, <1>5, <2>1
  <2>3. g[{}] = 0
    BY <1>2 DEF Sums
  <2>4. 1 \in S /\ 2 \in S
    BY <2>1
  <2>5. /\ h[1] = Length[u[1]] + 1 /\ Length[u[1]] \in Nat
        /\ h[2] = Length[u[2]] + 1 /\ Length[u[2]] \in Nat
    BY <1>1, <2>4
  <2>6. g[S] = h[1] + (h[2] + 0)
    BY <2>2, <2>3
  <2> DEFINE a == Length[u[1]]
             b == Length[u[2]]
  <2>7. g[S] = a + b + 2
    <3>1. a \in Nat /\ b \in Nat /\ g[S] = (a + 1) + ((b + 1) + 0)
      BY <2>5, <2>6
    <3> HIDE DEF a, b
    <3> QED
      BY <3>1
  <2> QED
    BY <1>2, <2>7
<1> QED
  BY <1>6, <1>7
-----------------------------------------------------------------------------
LEMMA ConcatHas ==
    ASSUME NEW S, NEW s \in Seq(S), NEW t \in Seq(S)
    PROVE  /\ s \o t \in Seq(S)
           /\ Range(s \o t) = Range(s) \cup Range(t)
<1>1. /\ s \o t \in Seq(S) /\ Len(s \o t) = Len(s) + Len(t)
      /\ \A i \in 1 .. Len(s) : (s \o t)[i] = s[i]
      /\ \A i \in 1 .. Len(t) : (s \o t)[Len(s) + i] = t[i]
      /\ Len(s) \in Nat /\ Len(t) \in Nat
  BY ConcatProperties
<1>2. /\ DOMAIN s = 1 .. Len(s) /\ DOMAIN t = 1 .. Len(t)
      /\ DOMAIN (s \o t) = 1 .. Len(s) + Len(t)
  BY <1>1, LenProperties
<1> DEFINE c == s \o t
<1>3. ASSUME NEW i \in DOMAIN c PROVE c[i] \in Range(s) \cup Range(t)
  <2>1. CASE i \in 1 .. Len(s)
    BY <1>1, <1>2, <2>1 DEF Range
  <2>2. CASE i \notin 1 .. Len(s)
    <3>1. i - Len(s) \in 1 .. Len(t) /\ Len(s) + (i - Len(s)) = i
      BY <1>1, <1>2, <1>3, <2>2
    <3>2. c[i] = t[i - Len(s)]
      BY <1>1, <3>1
    <3> QED
      BY <1>2, <3>1, <3>2 DEF Range
  <2> QED
    BY <2>1, <2>2
<1>4. ASSUME NEW x \in Range(s) \cup Range(t) PROVE x \in Range(c)
  <2>1. ASSUME NEW i \in DOMAIN s, x = s[i] PROVE x \in Range(c)
    <3>1. i \in DOMAIN c /\ c[i] = x
      BY <1>1, <1>2, <2>1
    <3> QED
      BY <3>1 DEF Range
  <2>2. ASSUME NEW i \in DOMAIN t, x = t[i] PROVE x \in Range(c)
    <3>1. Len(s) + i \in DOMAIN c /\ c[Len(s) + i] = x
      BY <1>1, <1>2, <2>2
    <3> QED
      BY <3>1 DEF Range
  <2> QED
    BY <2>1, <2>2 DEF Range
<1>5. Range(c) = Range(s) \cup Range(t)
  <2> HIDE DEF c
  <2> QED
    BY <1>3, <1>4 DEF Range
<1> QED
  BY <1>1, <1>5

LEMMA PairThen ==
    ASSUME NEW S, NEW a \in S, NEW b \in S, NEW c \in S
    PROVE  <<a, b>> \o <<c>> = <<a, b, c>>
<1> DEFINE s == <<a, b>>
           t == <<c>>
           v == <<a, b, c>>
<1>1. /\ s \in Seq(S) /\ t \in Seq(S) /\ v \in Seq(S) /\ Len(s) = 2 /\ Len(t) = 1 /\ Len(v) = 3
      /\ s[1] = a /\ s[2] = b /\ t[1] = c /\ v[1] = a /\ v[2] = b /\ v[3] = c
  OBVIOUS
<1> HIDE DEF s, t, v
<1>2. s \o t \in Seq(S) /\ Len(s \o t) = 3 /\ (s \o t)[1] = a /\ (s \o t)[2] = b /\ (s \o t)[3] = c
  <2>1. /\ s \o t \in Seq(S) /\ Len(s \o t) = Len(s) + Len(t)
        /\ \A i \in 1 .. Len(s) + Len(t) :
             (s \o t)[i] = IF i <= Len(s) THEN s[i] ELSE t[i - Len(s)]
    <3>1. s \in Seq(S) /\ t \in Seq(S)
      BY <1>1
    <3> QED
      BY ONLY <3>1, ConcatProperties, Zenon
  <2>2. /\ (s \o t)[1] = IF 1 <= 2 THEN s[1] ELSE t[1 - 2]
        /\ (s \o t)[2] = IF 2 <= 2 THEN s[2] ELSE t[2 - 2]
        /\ (s \o t)[3] = IF 3 <= 2 THEN s[3] ELSE t[3 - 2]
    <3>1. 1 \in 1 .. 2 + 1 /\ 2 \in 1 .. 2 + 1 /\ 3 \in 1 .. 2 + 1
      OBVIOUS
    <3>2. Len(s) = 2 /\ Len(t) = 1
      BY <1>1
    <3> QED
      BY ONLY <2>1, <3>1, <3>2, Zenon
  <2> QED
    BY <1>1, <2>1, <2>2
<1>3. \A i \in 1 .. 3 : i = 1 \/ i = 2 \/ i = 3
  OBVIOUS
<1>4. s \o t = v
  BY <1>1, <1>2, <1>3, SeqEqual
<1> QED
  BY <1>4 DEF s, t, v

(* The routes before those of sessions have one component at most.         *)
Short(page) == Route(<<page>>, "", page)
ShortRoutes ==
    {Route(<<>>, "", "ask"), Route(<<"targets">>, "", "targets"),
     Route(<<"version">>, "", "version"), Short("app"), Short("verbosity0"),
     Short("verbosity1"), Short("verbosity2")}

LEMMA ShortPatterns == \A r \in ShortRoutes : Len(r.pattern) \in {0, 1}
<1>1. \A x, h : Len(Route(<<x>>, "", h).pattern) = 1
  BY DEF Route
<1>2. Len(Route(<<>>, "", "ask").pattern) = 0
  BY DEF Route
<1>3. \A r \in ShortRoutes : r = Route(<<>>, "", "ask") \/ \E x, h : r = Route(<<x>>, "", h)
  BY DEF ShortRoutes, Short
<1>4. ASSUME NEW r, NEW x, NEW h, r = Route(<<x>>, "", h) PROVE Len(r.pattern) = 1
  BY <1>1, <1>4
<1>5. ASSUME NEW r, r = Route(<<>>, "", "ask") PROVE Len(r.pattern) = 0
  BY <1>2, <1>5
<1> QED
  BY <1>3, <1>4, <1>5

LEMMA ServerRoutesAreShort ==
    ServerRoutes \in Seq(ShortRoutes)
<1> DEFINE A == <<Route(<<>>, "", "ask"), Route(<<"targets">>, "", "targets"),
                  Route(<<"version">>, "", "version")>>
           D1 == Debug("app")
           D2 == Debug("verbosity0")
           D3 == Debug("verbosity1")
           D4 == Debug("verbosity2")
<1>1. A \in Seq(ShortRoutes)
  BY DEF ShortRoutes
<1>2. /\ D1 \in Seq(ShortRoutes) /\ D2 \in Seq(ShortRoutes)
      /\ D3 \in Seq(ShortRoutes) /\ D4 \in Seq(ShortRoutes)
  <2>1. /\ Short("app") \in ShortRoutes /\ Short("verbosity0") \in ShortRoutes
        /\ Short("verbosity1") \in ShortRoutes /\ Short("verbosity2") \in ShortRoutes
    BY DEF ShortRoutes
  <2>2. ASSUME NEW r \in ShortRoutes PROVE <<r>> \in Seq(ShortRoutes) /\ <<>> \in Seq(ShortRoutes)
    OBVIOUS
  <2> QED
    BY <2>1, <2>2 DEF Debug, Short
<1>3. ServerRoutes = (((A \o D1) \o D2) \o D3) \o D4
  BY DEF ServerRoutes
<1> HIDE DEF A, D1, D2, D3, D4
<1> QED
  BY <1>1, <1>2, <1>3, ConcatHas
Made == {"installer.sh", "binary.zip", "precompile", "binary.apk"}
Kept == {"generated.cpp", "errors.log", "filename", "svg.zip", "webapp.zip"}
AnswerOf(f) ==
    IF f \in {"svg.zip", "webapp.zip"} THEN "zip"
    ELSE IF f = "filename" THEN "filename.txt" ELSE f
OfMade(f) == Route(<<"*", "*", "*", f>>, "", "make")
OfKept(f) == Route(<<"*", f>>, "", AnswerOf(f))
OfImage(d) == Route(<<"*", d, "*">>, ".svg", d)
AllRoutes ==
    ShortRoutes \cup {OfMade(f) : f \in Made} \cup {OfKept(f) : f \in Kept}
    \cup {OfImage(d) : d \in {"diagram", "svg"}}

LEMMA SessionRoutesAre ==
    /\ SessionRoutes \in Seq(AllRoutes)
    /\ AllRoutes \subseteq ShortRoutes \cup Range(SessionRoutes)
<1> DEFINE s == SessionRoutes
<1>1. /\ s[1] = OfMade("installer.sh") /\ s[2] = OfMade("binary.zip")
      /\ s[3] = OfMade("precompile") /\ s[4] = OfMade("binary.apk")
  BY DEF SessionRoutes, OfMade
<1>2. s[5] = OfImage("diagram") /\ s[11] = OfImage("svg")
  BY DEF SessionRoutes, OfImage
<1>3. /\ s[6] = OfKept("generated.cpp") /\ s[7] = OfKept("errors.log")
      /\ s[8] = OfKept("filename") /\ s[9] = OfKept("svg.zip") /\ s[10] = OfKept("webapp.zip")
  BY DEF SessionRoutes, OfKept, AnswerOf
<1>4. Len(s) = 11 /\ DOMAIN s = 1 .. 11 /\ s = [i \in 1 .. 11 |-> s[i]]
  BY DEF SessionRoutes
<1> HIDE DEF s
<1>5. \A i \in 1 .. 11 : s[i] \in AllRoutes
  <2>1. \A f \in Made : OfMade(f) \in AllRoutes
    BY DEF AllRoutes
  <2>2. \A f \in Kept : OfKept(f) \in AllRoutes
    BY DEF AllRoutes
  <2>3. \A d \in {"diagram", "svg"} : OfImage(d) \in AllRoutes
    BY DEF AllRoutes
  <2>4. s[1] \in AllRoutes /\ s[2] \in AllRoutes /\ s[3] \in AllRoutes /\ s[4] \in AllRoutes
    BY <1>1, <2>1 DEF Made
  <2>5. s[5] \in AllRoutes /\ s[11] \in AllRoutes
    BY <1>2, <2>3
  <2>6. /\ s[6] \in AllRoutes /\ s[7] \in AllRoutes /\ s[8] \in AllRoutes
        /\ s[9] \in AllRoutes /\ s[10] \in AllRoutes
    BY <1>3, <2>2 DEF Kept
  <2> QED
    BY <2>4, <2>5, <2>6
<1>6. s \in Seq(AllRoutes)
  <2>1. s \in [1 .. 11 -> AllRoutes]
    BY <1>4, <1>5
  <2> QED
    BY <2>1, SeqDef
<1>7. AllRoutes \subseteq ShortRoutes \cup Range(s)
  <2>1. \A i \in 1 .. 11 : s[i] \in Range(s)
    BY <1>4 DEF Range
  <2>2. \A f \in Made : OfMade(f) \in Range(s)
    <3>1. s[1] \in Range(s) /\ s[2] \in Range(s) /\ s[3] \in Range(s) /\ s[4] \in Range(s)
      BY <2>1
    <3> QED
      BY <1>1, <3>1 DEF Made
  <2>3. \A f \in Kept : OfKept(f) \in Range(s)
    <3>1. /\ s[6] \in Range(s) /\ s[7] \in Range(s) /\ s[8] \in Range(s)
          /\ s[9] \in Range(s) /\ s[10] \in Range(s)
      BY <2>1
    <3> QED
      BY <1>3, <3>1 DEF Kept
  <2>4. \A d \in {"diagram", "svg"} : OfImage(d) \in Range(s)
    <3>1. s[5] \in Range(s) /\ s[11] \in Range(s)
      BY <2>1
    <3> QED
      BY <1>2, <3>1
  <2> QED
    BY <2>2, <2>3, <2>4 DEF AllRoutes
<1> QED
  BY <1>6, <1>7 DEF s

LEMMA FirstRoutesAre ==
    /\ Len(FirstRoutes) \in Nat /\ DOMAIN FirstRoutes = 1 .. Len(FirstRoutes)
    /\ \A i \in DOMAIN FirstRoutes : FirstRoutes[i] \in AllRoutes
    /\ \A r \in AllRoutes \ ShortRoutes : \E i \in DOMAIN FirstRoutes : FirstRoutes[i] = r
<1>1. SessionRoutes \in Seq(AllRoutes) /\ ServerRoutes \in Seq(AllRoutes)
  <2>1. ShortRoutes \subseteq AllRoutes
    BY DEF AllRoutes
  <2> QED
    BY <2>1, SessionRoutesAre, ServerRoutesAreShort
<1>2. FirstRoutes \in Seq(AllRoutes) /\ Range(FirstRoutes) = Range(ServerRoutes) \cup Range(SessionRoutes)
  BY <1>1, ConcatHas DEF FirstRoutes
<1>3. Len(FirstRoutes) \in Nat /\ DOMAIN FirstRoutes = 1 .. Len(FirstRoutes)
  BY <1>2, LenProperties
<1>4. \A i \in DOMAIN FirstRoutes : FirstRoutes[i] \in AllRoutes
  BY <1>2, <1>3, ElementOfSeq
<1>5. \A r \in AllRoutes \ ShortRoutes : \E i \in DOMAIN FirstRoutes : FirstRoutes[i] = r
  BY <1>2, SessionRoutesAre DEF Range
<1> QED
  BY <1>3, <1>4, <1>5

(* Which URLs each of them is for.                                         *)
LEMMA RouteUrls ==
    ASSUME NEW u \in UrlType
    PROVE  /\ \A f \in Made : Applies(OfMade(f), u) <=> Len(u) = 4 /\ u[4] = f
           /\ \A f \in Kept : Applies(OfKept(f), u) <=> Len(u) = 2 /\ u[2] = f
           /\ \A d \in {"diagram", "svg"} :
                Applies(OfImage(d), u) <=>
                    Len(u) = 3 /\ u[2] = d /\ Extension[Last(u)] = ".svg"
           /\ \A r \in ShortRoutes : Applies(r, u) => Len(u) = 1
<1>1. Len(u) \in Nat \ {0} /\ DOMAIN u = 1 .. Len(u) /\ u # <<>>
  BY UrlFacts
<1>2. ASSUME NEW f \in Made PROVE Applies(OfMade(f), u) <=> Len(u) = 4 /\ u[4] = f
  <2>1. OfMade(f).pattern = <<"*", "*", "*", f>> /\ OfMade(f).extension = "" /\ f # "*"
    BY DEF OfMade, Route, Made
  <2>2. Applies(OfMade(f), u) <=>
          Len(u) = 4 /\ \A i \in 1 .. 4 : <<"*", "*", "*", f>>[i] \in {"*", u[i]}
    BY <1>1, <2>1 DEF Applies, MatchURL, Same
  <2>3. (\A i \in 1 .. 4 : <<"*", "*", "*", f>>[i] \in {"*", u[i]}) <=> u[4] = f
    <3> DEFINE q == <<"*", "*", "*", f>>
    <3>1. \A i \in 1 .. 4 : i \in {1, 2, 3, 4}
      OBVIOUS
    <3>2. q[1] = "*" /\ q[2] = "*" /\ q[3] = "*" /\ q[4] = f
      OBVIOUS
    <3> HIDE DEF q
    <3>3. (\A i \in 1 .. 4 : q[i] \in {"*", u[i]}) => u[4] = f
      <4>1. q[4] \in {"*", u[4]} => u[4] = f
        BY <2>1, <3>2
      <4> QED
        BY <4>1
    <3>4. u[4] = f => \A i \in 1 .. 4 : q[i] \in {"*", u[i]}
      BY <3>1, <3>2
    <3> QED
      BY <3>3, <3>4 DEF q
  <2> QED
    BY <2>2, <2>3
<1>3. ASSUME NEW f \in Kept PROVE Applies(OfKept(f), u) <=> Len(u) = 2 /\ u[2] = f
  <2>1. OfKept(f).pattern = <<"*", f>> /\ OfKept(f).extension = "" /\ f # "*"
    BY DEF OfKept, Route, Kept
  <2>2. Applies(OfKept(f), u) <=>
          Len(u) = 2 /\ \A i \in 1 .. 2 : <<"*", f>>[i] \in {"*", u[i]}
    BY <1>1, <2>1 DEF Applies, MatchURL, Same
  <2>3. (\A i \in 1 .. 2 : <<"*", f>>[i] \in {"*", u[i]}) <=> u[2] = f
    <3> DEFINE q == <<"*", f>>
    <3>1. \A i \in 1 .. 2 : i = 1 \/ i = 2
      OBVIOUS
    <3>2. q[1] = "*" /\ q[2] = f
      OBVIOUS
    <3> HIDE DEF q
    <3>3. (\A i \in 1 .. 2 : q[i] \in {"*", u[i]}) => u[2] = f
      <4>1. q[2] \in {"*", u[2]} => u[2] = f
        BY <2>1, <3>2
      <4> QED
        BY <4>1
    <3>4. u[2] = f => \A i \in 1 .. 2 : q[i] \in {"*", u[i]}
      BY <3>1, <3>2
    <3> QED
      BY <3>3, <3>4 DEF q
  <2> QED
    BY <2>2, <2>3
<1>4. ASSUME NEW d \in {"diagram", "svg"}
      PROVE  Applies(OfImage(d), u) <=>
                 Len(u) = 3 /\ u[2] = d /\ Extension[Last(u)] = ".svg"
  <2>1. OfImage(d).pattern = <<"*", d, "*">> /\ OfImage(d).extension = ".svg" /\ d # "*"
    BY DEF OfImage, Route
  <2>2. Applies(OfImage(d), u) <=>
          /\ Len(u) = 3 /\ \A i \in 1 .. 3 : <<"*", d, "*">>[i] \in {"*", u[i]}
          /\ Extension[Last(u)] = ".svg"
    BY <1>1, <2>1 DEF Applies, MatchURL, MatchExtension, Same
  <2>3. (\A i \in 1 .. 3 : <<"*", d, "*">>[i] \in {"*", u[i]}) <=> u[2] = d
    BY <2>1
  <2> QED
    BY <2>2, <2>3
<1>5. ASSUME NEW r \in ShortRoutes, Applies(r, u) PROVE Len(u) = 1
  <2>1. Len(u) = Len(r.pattern)
    BY <1>5 DEF Applies, MatchURL
  <2> QED
    BY <1>1, <2>1, ShortPatterns
<1> QED
  BY <1>2, <1>3, <1>4, <1>5

(* The answer when no route but those of the files of applications, and the *)
(* last ones, is for the URL.                                              *)
Later(u) ==
    IF MatchBeginURL(u, <<"*", "web", "pwa">>)
    \/ MatchBeginURL(u, <<"*", "web", "pwa-poly">>) THEN Makes(u)
    ELSE IF MatchURL(u, <<"*", "signals.svg">>) \/ MatchURL(u, <<"*", "tasks.svg">>)
         THEN Sends("made", u)
    ELSE IF MatchURL(u, <<"*", "webapp">>) THEN Sends("made", u \o <<"index.html">>)
    ELSE IF WebappAt(u) # {} /\ Characters(u) > 40 THEN Asset(u)
    ELSE IF \E i \in DOMAIN u : u[i] \in Web THEN Direct(u)
    ELSE LastRoutes(u)

Accepted(u) == u \in UrlType /\ Extension[Last(u)] # ".php" /\ ~TooLong(u) /\ Len(u) >= 2

LEMMA SmallestIsIn == ASSUME NEW S \in SUBSET Nat, S # {} PROVE Min(S) \in S
<1>1. \E m \in S : \A n \in S : m <= n
  BY SmallestExists
<1> QED
  BY <1>1 DEF Min

\* The first route that matches decides: enough that all that match answer the same.
LEMMA RouteAnswers ==
    ASSUME NEW u, Accepted(u), NEW x, NEW r \in AllRoutes \ ShortRoutes, Applies(r, u),
           \A q \in AllRoutes \ ShortRoutes : Applies(q, u) => Handled(q, u) = x
    PROVE  Served(u) = x
<1> DEFINE first == {i \in DOMAIN FirstRoutes : Applies(FirstRoutes[i], u)}
<1>1. ~MatchExtension(u, ".php") /\ ~TooLong(u)
  BY DEF Accepted, MatchExtension
<1>2. first # {} /\ first \in SUBSET Nat
  BY FirstRoutesAre
<1>3. Min(first) \in first
  <2> HIDE DEF first
  <2> QED
    BY <1>2, SmallestIsIn
<1>4. FirstRoutes[Min(first)] \in AllRoutes /\ Applies(FirstRoutes[Min(first)], u)
  BY <1>3, FirstRoutesAre
<1>5. FirstRoutes[Min(first)] \notin ShortRoutes
  <2>1. u \in UrlType /\ Len(u) # 1
    BY UrlFacts DEF Accepted
  <2> QED
    BY <1>4, <2>1, RouteUrls
<1>6. Served(u) = Handled(FirstRoutes[Min(first)], u)
  BY <1>1, <1>2 DEF Served
<1> HIDE DEF first
<1> QED
  BY <1>4, <1>5, <1>6

\* What none of the first routes is for goes on to the last ones.
LEMMA OthersServed ==
    ASSUME NEW u, Accepted(u), ~(Len(u) = 4 /\ u[4] \in Made),
           ~(Len(u) = 2 /\ u[2] \in Kept),
           ~(Len(u) = 3 /\ u[2] \in {"diagram", "svg"} /\ Extension[Last(u)] = ".svg")
    PROVE  Served(u) = Later(u)
<1> DEFINE first == {i \in DOMAIN FirstRoutes : Applies(FirstRoutes[i], u)}
<1>1. ~MatchExtension(u, ".php") /\ ~TooLong(u) /\ u \in UrlType /\ Len(u) # 1
  BY UrlFacts DEF Accepted, MatchExtension
<1>2. \A r \in AllRoutes : ~Applies(r, u)
  <2>1. \A f \in Made : ~Applies(OfMade(f), u)
    BY <1>1, RouteUrls
  <2>2. \A f \in Kept : ~Applies(OfKept(f), u)
    BY <1>1, RouteUrls
  <2>3. \A d \in {"diagram", "svg"} : ~Applies(OfImage(d), u)
    BY <1>1, RouteUrls
  <2>4. \A r \in ShortRoutes : ~Applies(r, u)
    BY <1>1, RouteUrls
  <2> QED
    BY <2>1, <2>2, <2>3, <2>4 DEF AllRoutes
<1>3. first = {}
  BY <1>2, FirstRoutesAre
<1> QED
  BY <1>1, <1>3 DEF Served, Later

LEMMA MadeServed ==
    ASSUME NEW u, Accepted(u), Len(u) = 4, u[4] \in Made
    PROVE  Served(u) = Makes(u)
<1>1. u \in UrlType
  BY DEF Accepted
<1>2. OfMade(u[4]) \in AllRoutes \ ShortRoutes /\ Applies(OfMade(u[4]), u)
  <2>1. Applies(OfMade(u[4]), u)
    BY <1>1, RouteUrls
  <2>2. OfMade(u[4]) \notin ShortRoutes
    BY <1>1, <2>1, RouteUrls
  <2> QED
    BY <2>1, <2>2 DEF AllRoutes
<1>3. ASSUME NEW q \in AllRoutes \ ShortRoutes, Applies(q, u) PROVE Handled(q, u) = Makes(u)
  <2>1. CASE \E f \in Made : q = OfMade(f)
    <3>0. PICK f \in Made : q = OfMade(f)
      BY <2>1
    <3>1. q.handler = "make"
      BY <3>0 DEF OfMade, Route
    <3> QED
      BY <3>1 DEF Handled
  <2>2. CASE \E f \in Kept : q = OfKept(f)
    BY <1>1, <1>3, <2>2, RouteUrls
  <2>3. CASE \E d \in {"diagram", "svg"} : q = OfImage(d)
    BY <1>1, <1>3, <2>3, RouteUrls
  <2> QED
    BY <2>1, <2>2, <2>3 DEF AllRoutes
<1> QED
  BY <1>2, <1>3, RouteAnswers

LEMMA KeptServed ==
    ASSUME NEW u, Accepted(u), Len(u) = 2, u[2] \in Kept
    PROVE  Served(u) = IF AnswerOf(u[2]) = "zip" THEN Sends("zip", <<u[1], u[2]>>)
                       ELSE Sends("file", <<u[1], AnswerOf(u[2])>>)
<1> DEFINE x == IF AnswerOf(u[2]) = "zip" THEN Sends("zip", <<u[1], u[2]>>)
                ELSE Sends("file", <<u[1], AnswerOf(u[2])>>)
<1>1. u \in UrlType
  BY DEF Accepted
<1>2. OfKept(u[2]) \in AllRoutes \ ShortRoutes /\ Applies(OfKept(u[2]), u)
  <2>1. Applies(OfKept(u[2]), u)
    BY <1>1, RouteUrls
  <2>2. OfKept(u[2]) \notin ShortRoutes
    BY <1>1, <2>1, RouteUrls
  <2> QED
    BY <2>1, <2>2 DEF AllRoutes
<1>3. ASSUME NEW q \in AllRoutes \ ShortRoutes, Applies(q, u) PROVE Handled(q, u) = x
  <2>1. CASE \E f \in Made : q = OfMade(f)
    BY <1>1, <1>3, <2>1, RouteUrls
  <2>2. CASE \E f \in Kept : q = OfKept(f)
    <3>1. q = OfKept(u[2])
      BY <1>1, <1>3, <2>2, RouteUrls
    <3>2. q.handler = AnswerOf(u[2])
      BY <3>1 DEF OfKept, Route
    <3>3. AnswerOf(u[2]) \in {"zip", "generated.cpp", "errors.log", "filename.txt"}
      BY DEF AnswerOf, Kept
    <3> HIDE DEF AnswerOf
    <3> QED
      BY <3>2, <3>3 DEF Handled
  <2>3. CASE \E d \in {"diagram", "svg"} : q = OfImage(d)
    BY <1>1, <1>3, <2>3, RouteUrls
  <2> QED
    BY <2>1, <2>2, <2>3 DEF AllRoutes
<1> HIDE DEF x
<1>4. Served(u) = x
  BY <1>2, <1>3, RouteAnswers
<1> QED
  BY <1>4 DEF x

LEMMA ImageServed ==
    ASSUME NEW u, Accepted(u), Len(u) = 3, u[2] \in {"diagram", "svg"},
           Extension[Last(u)] = ".svg"
    PROVE  Served(u) = Sends("file", <<u[1], "svg", u[3]>>)
<1> DEFINE x == Sends("file", <<u[1], "svg", u[3]>>)
<1>1. u \in UrlType
  BY DEF Accepted
<1>2. OfImage(u[2]) \in AllRoutes \ ShortRoutes /\ Applies(OfImage(u[2]), u)
  <2>1. Applies(OfImage(u[2]), u)
    BY <1>1, RouteUrls
  <2>2. OfImage(u[2]) \notin ShortRoutes
    BY <1>1, <2>1, RouteUrls
  <2> QED
    BY <2>1, <2>2 DEF AllRoutes
<1>3. ASSUME NEW q \in AllRoutes \ ShortRoutes, Applies(q, u) PROVE Handled(q, u) = x
  <2>1. CASE \E f \in Made : q = OfMade(f)
    BY <1>1, <1>3, <2>1, RouteUrls
  <2>2. CASE \E f \in Kept : q = OfKept(f)
    BY <1>1, <1>3, <2>2, RouteUrls
  <2>3. CASE \E d \in {"diagram", "svg"} : q = OfImage(d)
    BY <2>3 DEF OfImage, Route, Handled
  <2> QED
    BY <2>1, <2>2, <2>3 DEF AllRoutes
<1> HIDE DEF x
<1>4. Served(u) = x
  BY <1>2, <1>3, RouteAnswers
<1> QED
  BY <1>4 DEF x

MakesWeb(u) == Len(u) >= 3 /\ u[2] = "web" /\ u[3] \in {"pwa", "pwa-poly"}
Viewed(u) == Len(u) = 2 /\ u[2] \in {"signals.svg", "tasks.svg"}
ViewsApp(u) == Len(u) = 2 /\ u[2] = "webapp"

LEMMA LaterUrls ==
    ASSUME NEW u \in UrlType
    PROVE  /\ MakesWeb(u) => Later(u) = Makes(u)
           /\ ~MakesWeb(u) =>
                /\ Viewed(u) => Later(u) = Sends("made", u)
                /\ ~Viewed(u) =>
                     /\ ViewsApp(u) => Later(u) = Sends("made", u \o <<"index.html">>)
                     /\ ~ViewsApp(u) =>
                          Later(u) = IF WebappAt(u) # {} /\ Characters(u) > 40 THEN Asset(u)
                                     ELSE IF \E i \in DOMAIN u : u[i] \in Web THEN Direct(u)
                                     ELSE LastRoutes(u)
<1>1. Len(u) \in Nat \ {0} /\ DOMAIN u = 1 .. Len(u) /\ u # <<>>
  BY UrlFacts
<1>2. ASSUME NEW y, NEW a, y # "*", a # "*"
      PROVE  MatchBeginURL(u, <<"*", a, y>>) <=> Len(u) >= 3 /\ u[2] = a /\ u[3] = y
  <2> DEFINE q == <<"*", a, y>>
  <2>1. Len(q) = 3 /\ DOMAIN q = {1, 2, 3} /\ q[1] = "*" /\ q[2] = a /\ q[3] = y
    OBVIOUS
  <2> HIDE DEF q
  <2>2. MatchBeginURL(u, q) <=> 3 <= Len(u) /\ \A i \in {1, 2, 3} : q[i] \in {"*", u[i]}
    BY <2>1 DEF MatchBeginURL, Same
  <2>3. (\A i \in {1, 2, 3} : q[i] \in {"*", u[i]}) <=> u[2] = a /\ u[3] = y
    BY <1>2, <2>1
  <2> QED
    BY <1>1, <2>2, <2>3 DEF q
<1>3. ASSUME NEW y, y # "*"
      PROVE  MatchURL(u, <<"*", y>>) <=> Len(u) = 2 /\ u[2] = y
  <2> DEFINE q == <<"*", y>>
  <2>1. Len(q) = 2 /\ q[1] = "*" /\ q[2] = y
    OBVIOUS
  <2> HIDE DEF q
  <2>2. MatchURL(u, q) <=> Len(u) = 2 /\ \A i \in 1 .. Len(u) : q[i] \in {"*", u[i]}
    BY <1>1, <2>1 DEF MatchURL, Same
  <2>3. Len(u) = 2 => 1 .. Len(u) = {1, 2}
    BY <1>1
  <2>4. (\A i \in {1, 2} : q[i] \in {"*", u[i]}) <=> u[2] = y
    BY <1>3, <2>1
  <2> QED
    BY <2>2, <2>3, <2>4 DEF q
<1> DEFINE m1 == MatchBeginURL(u, <<"*", "web", "pwa">>)
           m2 == MatchBeginURL(u, <<"*", "web", "pwa-poly">>)
           m3 == MatchURL(u, <<"*", "signals.svg">>)
           m4 == MatchURL(u, <<"*", "tasks.svg">>)
           m5 == MatchURL(u, <<"*", "webapp">>)
<1>4. Later(u) =
        IF m1 \/ m2 THEN Makes(u)
        ELSE IF m3 \/ m4 THEN Sends("made", u)
        ELSE IF m5 THEN Sends("made", u \o <<"index.html">>)
        ELSE IF WebappAt(u) # {} /\ Characters(u) > 40 THEN Asset(u)
        ELSE IF \E i \in DOMAIN u : u[i] \in Web THEN Direct(u)
        ELSE LastRoutes(u)
  BY DEF Later
<1>5. /\ m1 <=> Len(u) >= 3 /\ u[2] = "web" /\ u[3] = "pwa"
      /\ m2 <=> Len(u) >= 3 /\ u[2] = "web" /\ u[3] = "pwa-poly"
      /\ m3 <=> Len(u) = 2 /\ u[2] = "signals.svg"
      /\ m4 <=> Len(u) = 2 /\ u[2] = "tasks.svg"
      /\ m5 <=> Len(u) = 2 /\ u[2] = "webapp"
  BY <1>2, <1>3
<1> HIDE DEF m1, m2, m3, m4, m5
<1>6. (m1 \/ m2 <=> MakesWeb(u)) /\ (m3 \/ m4 <=> Viewed(u)) /\ (m5 <=> ViewsApp(u))
  BY <1>5 DEF MakesWeb, Viewed, ViewsApp
<1> QED
  BY <1>4, <1>6

-----------------------------------------------------------------------------
InTime(u) == Characters(u) <= 100 \/ "webapp" \in Range(u)

\* The URLs of the interface are not refused for their length or as scripts.
LEMMA InTimeIsAccepted ==
    ASSUME NEW u \in UrlType, Len(u) >= 2, InTime(u), Last(u) # "webapp",
           Extension[Last(u)] # ".php"
    PROVE  Accepted(u)
<1>1. Len(u) \in Nat \ {0} /\ DOMAIN u = 1 .. Len(u) /\ Last(u) = u[Len(u)]
  BY UrlFacts
<1>2. 1 \in 1 .. Len(u)
  BY <1>1
<1>3. Characters(u) \in Nat
  BY <1>2, CharactersCount
<1>4. ASSUME Characters(u) > 100 PROVE WebappAt(u) # {}
  <2>1. PICK i \in 1 .. Len(u) : u[i] = "webapp"
    BY <1>1, <1>3, <1>4 DEF InTime, Range
  <2>2. i < Len(u)
    BY <1>1, <2>1
  <2> QED
    BY <1>1, <2>1, <2>2 DEF WebappAt
<1> QED
  BY <1>4 DEF Accepted, TooLong

LEMMA NameFacts ==
    /\ \A f \in Ordinary : f \in DOMAIN Length \ Web /\ Extension[f] \notin Assets \cup {".php"}
    /\ Made \subseteq Ordinary /\ Kept \subseteq Ordinary
    /\ "webapp" \in Ordinary /\ "user_code.dsp" \in Ordinary /\ "index.html" \in Ordinary
    /\ "" \in Ordinary /\ "webapp" \notin Made \cup Kept
    /\ Length["webapp"] = 6
BY NameAssumption DEF Ordinary, Made, Kept

LEMMA TwoParts ==
    ASSUME NEW k \in Hashes, NEW f \in DOMAIN Length, NEW u, u = <<k, f>>
    PROVE  /\ u \in UrlType /\ Len(u) = 2 /\ u[1] = k /\ u[2] = f /\ Last(u) = f
           /\ WebappAt(u) = {}
<1>1. k \in DOMAIN Length /\ k # "webapp"
  BY HashAssumption
<1>2. u \in Seq(DOMAIN Length) /\ Len(u) = 2 /\ u[1] = k /\ u[2] = f /\ u # <<>>
  BY <1>1
<1>3. Last(u) = f /\ DOMAIN u = 1 .. 2
  BY <1>2 DEF Last
<1>4. WebappAt(u) = {}
  BY <1>1, <1>2, <1>3 DEF WebappAt
<1> QED
  BY <1>2, <1>3, <1>4 DEF UrlType

LEMMA KeptApi ==
    ASSUME NEW k \in Hashes, NEW f \in Kept, NEW u, u = <<k, f>>, InTime(u)
    PROVE  Served(u) = IF AnswerOf(f) = "zip" THEN Sends("zip", u)
                       ELSE Sends("file", <<k, AnswerOf(f)>>)
<1>1. f \in DOMAIN Length /\ Extension[f] # ".php" /\ f # "webapp"
  BY NameFacts
<1>2. u \in UrlType /\ Len(u) = 2 /\ u[1] = k /\ u[2] = f /\ Last(u) = f
  BY <1>1, TwoParts
<1>3. Accepted(u)
  BY <1>1, <1>2, InTimeIsAccepted
<1> QED
  BY <1>2, <1>3, KeptServed

LEMMA ViewApi ==
    ASSUME NEW k \in Hashes, NEW f \in {"signals.svg", "tasks.svg"}, NEW u, u = <<k, f>>, InTime(u)
    PROVE  Served(u) = Sends("made", u)
<1>1. f \in DOMAIN Length /\ Extension[f] = ".svg" /\ f # "webapp" /\ f \notin Kept
  BY NameAssumption DEF Kept
<1>2. u \in UrlType /\ Len(u) = 2 /\ u[1] = k /\ u[2] = f /\ Last(u) = f
  BY <1>1, TwoParts
<1>3. Accepted(u)
  BY <1>1, <1>2, InTimeIsAccepted
<1>4. Served(u) = Later(u)
  BY <1>1, <1>2, <1>3, OthersServed
<1>5. ~MakesWeb(u) /\ Viewed(u)
  BY <1>2 DEF MakesWeb, Viewed
<1> QED
  BY <1>2, <1>4, <1>5, LaterUrls

LEMMA ProgramApi ==
    ASSUME NEW k \in Hashes, NEW u, u = <<k, "user_code.dsp">>, InTime(u)
    PROVE  Served(u) = Sends("file", u)
<1> PICK f : f = "user_code.dsp"
  OBVIOUS
<1>1. /\ f \in DOMAIN Length /\ f \notin Web /\ Extension[f] # ".php"
      /\ f # "webapp" /\ f # "list" /\ f \notin Kept \cup {"signals.svg", "tasks.svg"}
  BY NameFacts DEF Kept
<1>2. /\ u \in UrlType /\ Len(u) = 2 /\ u[1] = k /\ u[2] = f /\ Last(u) = f /\ WebappAt(u) = {}
      /\ DOMAIN u = 1 .. 2
  BY <1>1, TwoParts, UrlFacts
<1>3. Accepted(u)
  BY <1>1, <1>2, InTimeIsAccepted
<1>4. Served(u) = Later(u)
  BY <1>1, <1>2, <1>3, OthersServed
<1>5. ~MakesWeb(u) /\ ~Viewed(u) /\ ~ViewsApp(u)
  BY <1>1, <1>2 DEF MakesWeb, Viewed, ViewsApp
<1>6. \A i \in DOMAIN u : u[i] \notin Web
  BY <1>1, <1>2, HashAssumption
<1>7. Later(u) = LastRoutes(u)
  BY <1>2, <1>5, <1>6, LaterUrls
<1>8. ~MatchURL(u, <<"sessions", "list">>)
  <2> DEFINE q == <<"sessions", "list">>
  <2>1. q[2] = "list"
    OBVIOUS
  <2> HIDE DEF q
  <2>2. MatchURL(u, q) => q[2] \in {"*", u[2]}
    BY <1>2 DEF MatchURL, Same
  <2> QED
    BY <1>1, <1>2, <2>1, <2>2 DEF q
<1>9. MatchURL(u, <<"*", "user_code.dsp">>)
  BY <1>2 DEF MatchURL, Same
<1> QED
  BY <1>4, <1>7, <1>8, <1>9 DEF LastRoutes

LEMMA ImageApi ==
    ASSUME NEW k \in Hashes, NEW d \in {"svg", "diagram"}, NEW f \in Svgs,
           NEW u, u = <<k, d, f>>, InTime(u)
    PROVE  Served(u) = Sends("file", <<k, "svg", f>>)
<1>1. /\ k \in DOMAIN Length /\ f \in DOMAIN Length /\ d \in DOMAIN Length
      /\ Extension[f] = ".svg" /\ f # "webapp"
  BY HashAssumption, SvgAssumption, NameAssumption, NameFacts DEF Assets
<1>2. /\ u \in Seq(DOMAIN Length) /\ Len(u) = 3 /\ u # <<>>
      /\ u[1] = k /\ u[2] = d /\ u[3] = f
  BY <1>1
<1>3. u \in UrlType /\ Last(u) = f
  BY <1>2 DEF UrlType, Last
<1>4. Accepted(u)
  <2>1. Extension[Last(u)] # ".php" /\ Last(u) # "webapp" /\ Len(u) >= 2
    BY <1>1, <1>2, <1>3
  <2> QED
    BY <1>3, <2>1, InTimeIsAccepted
<1> QED
  BY <1>1, <1>2, <1>3, <1>4, ImageServed

LEMMA AppApi ==
    ASSUME NEW k \in Hashes, NEW u, u = <<k, "webapp">>
    PROVE  Served(u) = Sends("made", <<k, "webapp", "index.html">>)
<1> PICK f : f = "webapp"
  OBVIOUS
<1>1. /\ f \in DOMAIN Length /\ Extension[f] # ".php" /\ f \notin Kept \cup {"signals.svg", "tasks.svg"}
      /\ Length[f] = 6 /\ Length[k] = 40
  BY NameFacts, HashAssumption DEF Kept
<1>2. u \in UrlType /\ Len(u) = 2 /\ u[1] = k /\ u[2] = f /\ Last(u) = f
  BY <1>1, TwoParts
<1>3. Characters(u) = 48
  <2>1. 1 \in 1 .. Len(u)
    BY <1>2
  <2>2. Characters(u) = Length[u[1]] + Length[u[2]] + 2
    BY <1>2, <2>1, CharactersCount
  <2> QED
    BY <1>1, <1>2, <2>2
<1>4. Accepted(u)
  BY <1>1, <1>2, <1>3 DEF Accepted, TooLong
<1>5. Served(u) = Later(u)
  BY <1>1, <1>2, <1>4, OthersServed
<1>6. ~MakesWeb(u) /\ ~Viewed(u) /\ ViewsApp(u)
  BY <1>1, <1>2 DEF MakesWeb, Viewed, ViewsApp
<1>7. Later(u) = Sends("made", u \o <<"index.html">>)
  BY <1>2, <1>6, LaterUrls
<1>8. u \o <<"index.html">> = <<k, "webapp", "index.html">>
  <2> PICK g : g = "index.html"
    OBVIOUS
  <2>1. k \in DOMAIN Length /\ f \in DOMAIN Length /\ g \in DOMAIN Length
    BY NameFacts, HashAssumption
  <2>2. <<k, f>> \o <<g>> = <<k, f, g>>
    BY <2>1, PairThen
  <2> QED
    BY <2>2
<1> QED
  BY <1>5, <1>7, <1>8

(* A file of an application.                                               *)
LEMMA PageFacts ==
    ASSUME NEW p \in Pages
    PROVE  /\ p \in UrlType /\ Len(p) \in Nat \ {0}
           /\ Last(p) \in DOMAIN Length /\ Last(p) = p[Len(p)]
           /\ Last(p) \notin Made \cup Kept \cup {"", "webapp", "user_code.dsp"}
           /\ Extension[Last(p)] # ".php"
           /\ Last(p) = "index.html" \/ Extension[Last(p)] \in Assets
           /\ Last(p) \in Web => Extension[Last(p)] # ".svg" /\ Last(p) \notin Ordinary
<1>1. p \in UrlType
  BY PageAssumption DEF UrlType
<1>2. Len(p) \in Nat \ {0} /\ Last(p) \in DOMAIN Length /\ Last(p) = p[Len(p)]
  BY <1>1, UrlFacts
<1>3. Last(p) = "index.html" \/ Extension[Last(p)] \in Assets
  BY PageAssumption
<1>4. Last(p) \in Ordinary => Last(p) = "index.html"
  BY <1>3, NameFacts
<1>5. Last(p) \notin Made \cup Kept \cup {"", "webapp", "user_code.dsp"}
  <2>1. "index.html" \notin Made \cup Kept \cup {"", "webapp", "user_code.dsp"}
    BY DEF Made, Kept
  <2>2. Made \cup Kept \cup {"", "webapp", "user_code.dsp"} \subseteq Ordinary
    BY NameFacts
  <2> QED
    BY <1>4, <2>1, <2>2
<1>6. Extension[Last(p)] # ".php"
  BY <1>3, NameFacts DEF Assets
<1>7. Last(p) \in Web => Extension[Last(p)] # ".svg" /\ Last(p) \notin Ordinary
  BY PageAssumption, NameFacts
<1> QED
  BY <1>1, <1>2, <1>3, <1>5, <1>6, <1>7

LEMMA After ==
    ASSUME NEW s \in UrlType, NEW p \in UrlType, NEW u, u = s \o p
    PROVE  /\ u \in UrlType /\ Len(u) = Len(s) + Len(p) /\ Last(u) = Last(p)
           /\ \A i \in 1 .. Len(s) : u[i] = s[i]
           /\ \A i \in 1 .. Len(p) : u[Len(s) + i] = p[i]
           /\ SubSeq(u, Len(s) + 1, Len(u)) = p
<1>1. /\ Len(s) \in Nat \ {0} /\ Len(p) \in Nat \ {0} /\ Last(p) = p[Len(p)]
      /\ s \in Seq(DOMAIN Length) /\ p \in Seq(DOMAIN Length)
  BY UrlFacts
<1>2. /\ u \in Seq(DOMAIN Length) /\ Len(u) = Len(s) + Len(p)
      /\ \A i \in 1 .. Len(s) : u[i] = s[i]
      /\ \A i \in 1 .. Len(p) : u[Len(s) + i] = p[i]
  BY <1>1, ConcatProperties
<1>3. u \in UrlType
  BY <1>1, <1>2, EmptySeq DEF UrlType
<1>4. Last(u) = Last(p)
  <2>1. Len(p) \in 1 .. Len(p)
    BY <1>1
  <2>2. Last(u) = u[Len(s) + Len(p)]
    BY <1>2, <1>3, UrlFacts
  <2> QED
    BY <1>1, <1>2, <2>1, <2>2
<1>5. SubSeq(u, Len(s) + 1, Len(u)) = p
  <2> DEFINE t == SubSeq(u, Len(s) + 1, Len(u))
  <2>1. /\ t \in Seq(DOMAIN Length) /\ Len(t) = Len(p)
        /\ \A i \in 1 .. Len(p) : t[i] = u[Len(s) + i]
    <3>1. t = [i \in 1 .. Len(u) - (Len(s) + 1) + 1 |-> u[(Len(s) + 1) + i - 1]]
      OBVIOUS
    <3>2. Len(u) - (Len(s) + 1) + 1 = Len(p) /\ \A i \in 1 .. Len(p) : (Len(s) + 1) + i - 1 = Len(s) + i
      BY <1>1, <1>2
    <3>3. t = [i \in 1 .. Len(p) |-> u[(Len(s) + 1) + i - 1]]
      BY <3>1, <3>2
    <3>4. \A i \in 1 .. Len(p) : t[i] = u[Len(s) + i] /\ u[Len(s) + i] \in DOMAIN Length
      <4>1. \A i \in 1 .. Len(p) : p[i] \in DOMAIN Length
        BY UrlFacts
      <4> QED
        BY <1>2, <3>2, <3>3, <4>1
    <3> HIDE DEF t
    <3>5. t \in [1 .. Len(p) -> DOMAIN Length]
      BY <3>3, <3>4
    <3>6. t \in Seq(DOMAIN Length)
      <4> PICK n : n = Len(p)
        OBVIOUS
      <4>1. n \in Nat /\ t \in [1 .. n -> DOMAIN Length]
        BY <1>1, <3>5
      <4> QED
        BY <4>1, SeqDef, SMTT(30)
    <3> QED
      BY <1>1, <3>4, <3>5, <3>6, LenProperties
  <2> HIDE DEF t
  <2>2. t = p
    BY <1>1, <1>2, <2>1, SeqEqual
  <2> QED
    BY <2>2 DEF t
<1> QED
  BY <1>2, <1>3, <1>4, <1>5

LEMMA ConcatIs ==
    ASSUME NEW S, NEW s \in Seq(S), NEW t \in Seq(S), NEW v \in Seq(S),
           Len(v) = Len(s) + Len(t), \A i \in 1 .. Len(s) : v[i] = s[i],
           \A i \in 1 .. Len(t) : v[Len(s) + i] = t[i]
    PROVE  s \o t = v
<1>1. /\ s \o t \in Seq(S) /\ Len(s \o t) = Len(s) + Len(t)
      /\ \A i \in 1 .. Len(s) : (s \o t)[i] = s[i]
      /\ \A i \in 1 .. Len(t) : (s \o t)[Len(s) + i] = t[i]
      /\ Len(s) \in Nat /\ Len(t) \in Nat
  BY ConcatProperties
<1>2. ASSUME NEW i \in 1 .. Len(v) PROVE (s \o t)[i] = v[i]
  <2>1. CASE i \in 1 .. Len(s)
    BY <1>1, <2>1
  <2>2. CASE i \notin 1 .. Len(s)
    <3>1. i - Len(s) \in 1 .. Len(t) /\ Len(s) + (i - Len(s)) = i
      BY <1>1, <1>2, <2>2
    <3> QED
      BY <1>1, <3>1
  <2> QED
    BY <2>1, <2>2
<1> QED
  BY <1>1, <1>2, SeqEqual

LEMMA SmallestIs ==
    ASSUME NEW S \in SUBSET Nat, NEW m \in S, \A n \in S : m <= n
    PROVE  Min(S) = m
<1>1. Min(S) \in S /\ \A n \in S : Min(S) <= n
  BY DEF Min
<1> PICK x : x = Min(S)
  OBVIOUS
<1>2. x <= m /\ m <= x /\ x \in Nat /\ m \in Nat
  BY <1>1
<1>3. x = m
  BY <1>2
<1> QED
  BY <1>3

LEMMA AfterTwo ==
    ASSUME NEW s \in UrlType, NEW p \in UrlType, NEW u, u = s \o p
    PROVE  /\ u \in UrlType /\ Last(u) = Last(p)
           /\ Len(s) = 2 =>
                /\ Len(u) = 2 + Len(p)
                /\ u[1] = s[1] /\ u[2] = s[2] /\ SubSeq(u, 3, Len(u)) = p
<1>1. u \in UrlType /\ Len(u) = Len(s) + Len(p) /\ Last(u) = Last(p)
  BY After
<1>2. \A i \in 1 .. Len(s) : u[i] = s[i]
  BY After
<1>3. SubSeq(u, Len(s) + 1, Len(u)) = p
  BY After
<1>4. ASSUME Len(s) = 2
      PROVE  /\ Len(u) = 2 + Len(p)
             /\ u[1] = s[1] /\ u[2] = s[2] /\ SubSeq(u, 3, Len(u)) = p
  <2>1. 1 \in 1 .. Len(s) /\ 2 \in 1 .. Len(s) /\ Len(s) + 1 = 3
    BY <1>4
  <2> QED
    BY <1>1, <1>2, <1>3, <1>4, <2>1
<1> QED
  BY <1>1, <1>4

LEMMA UnderWebapp ==
    ASSUME NEW k \in Hashes, NEW p \in Pages, NEW w, w = "webapp",
           NEW s \in UrlType, s = <<k, w>>, NEW u, u = s \o p
    PROVE  Served(u) = Sends("file", u)
<1>1. w \in DOMAIN Length /\ k \in DOMAIN Length /\ k # w
  BY NameFacts, HashAssumption
<1>2. s \in UrlType /\ Len(s) = 2 /\ s[1] = k /\ s[2] = w
  OBVIOUS
<1>3. Last(p) \notin Made \cup Kept \cup {"", w} /\ Extension[Last(p)] # ".php"
  BY PageFacts
<1>4. p \in UrlType /\ Len(p) \in Nat \ {0} /\ u = s \o p
  BY PageFacts
<1>5. /\ u \in UrlType /\ Len(u) = 2 + Len(p) /\ Last(u) = Last(p)
      /\ u[1] = k /\ u[2] = w /\ SubSeq(u, 3, Len(u)) = p
  <2>1. /\ u \in UrlType /\ Len(u) = 2 + Len(p) /\ Last(u) = Last(p)
        /\ u[1] = s[1] /\ u[2] = s[2] /\ SubSeq(u, 3, Len(u)) = p
    <3>1. u \in UrlType /\ Last(u) = Last(p)
      <4>1. s \in UrlType /\ p \in UrlType /\ u = s \o p
        BY <1>4
      <4> QED
        BY ONLY <4>1, AfterTwo, Zenon
    <3>2. Len(s) = 2 => Len(u) = 2 + Len(p)
      BY <1>4, AfterTwo, ZenonT(30)
    <3>3. Len(s) = 2 => u[1] = s[1] /\ u[2] = s[2]
      BY <1>4, AfterTwo, ZenonT(30)
    <3>4. Len(s) = 2 => SubSeq(u, 3, Len(u)) = p
      BY <1>4, AfterTwo, ZenonT(30)
    <3> QED
      BY <1>2, <3>1, <3>2, <3>3, <3>4
  <2> QED
    BY <1>2, <2>1
<1>6. DOMAIN u = 1 .. Len(u) /\ Len(u) >= 3 /\ Last(u) = u[Len(u)]
  <2>1. u \in UrlType
    BY <1>5
  <2>2. DOMAIN u = 1 .. Len(u) /\ Last(u) = u[Len(u)]
    BY <2>1, UrlFacts
  <2>3. Len(u) >= 3
    BY <1>4, <1>5
  <2> QED
    BY <2>2, <2>3
<1>7. WebappAt(u) \in SUBSET Nat /\ 2 \in WebappAt(u) /\ \A i \in WebappAt(u) : 2 <= i
  BY <1>1, <1>5, <1>6 DEF WebappAt
<1>8. Min(WebappAt(u)) = 2
  BY <1>7, SmallestIs
<1>9. Characters(u) > 40
  <2>1. 1 \in 1 .. Len(u)
    BY <1>6
  <2>2. Characters(u) \in Nat /\ Characters(u) >= Length[u[1]] + 1
    BY <1>5, <2>1, CharactersCount
  <2> QED
    <3>1. Length[k] = 40
      BY HashAssumption
    <3>2. u[1] = k
      BY <1>5
    <3>3. Characters(u) \in Nat /\ Characters(u) >= 40 + 1
      BY <2>2, <3>1, <3>2
    <3> PICK c : c = Characters(u)
      OBVIOUS
    <3>4. c > 40
      BY ONLY <3>3, c = Characters(u)
    <3> QED
      BY <3>4
<1>10. Accepted(u)
  <2>1. ~TooLong(u)
    BY <1>7 DEF TooLong
  <2>2. Extension[Last(u)] # ".php" /\ u \in UrlType
    BY <1>3, <1>5
  <2>3. Len(u) >= 2
    BY <1>4, <1>5
  <2> QED
    BY <2>1, <2>2, <2>3 DEF Accepted
<1>11. Served(u) = Later(u)
  BY <1>1, <1>3, <1>5, <1>6, <1>10, OthersServed
<1>12. ~MakesWeb(u) /\ ~Viewed(u) /\ ~ViewsApp(u)
  BY <1>1, <1>5, <1>6 DEF MakesWeb, Viewed, ViewsApp
<1>13. Later(u) = Asset(u)
  BY <1>5, <1>7, <1>9, <1>12, LaterUrls
<1>14. p # <<"">>
  <2>1. Last(<<"">>) = ""
    BY DEF Last
  <2> QED
    BY <1>3, <2>1
<1>15. SubSeq(u, 1, 1) = <<k>>
  <2>1. SubSeq(u, 1, 1) = [i \in 1 .. 1 |-> u[i]]
    BY <1>5
  <2>2. [i \in 1 .. 1 |-> u[i]] = <<u[1]>>
    OBVIOUS
  <2> QED
    BY <1>5, <2>1, <2>2
<1>16. <<k>> \o <<w>> = s
  <2> DEFINE a == <<k>>
             b == <<w>>
             S == DOMAIN Length
  <2>1. /\ a \in Seq(S) /\ b \in Seq(S) /\ s \in Seq(S) /\ Len(a) = 1 /\ Len(b) = 1
        /\ a[1] = k /\ b[1] = w
    BY <1>1, <1>2 DEF UrlType
  <2> HIDE DEF a, b, S
  <2>2. Len(s) = Len(a) + Len(b)
    BY <1>2, <2>1
  <2>3. \A i \in 1 .. Len(a) : s[i] = a[i]
    BY <1>2, <2>1
  <2>4. \A i \in 1 .. Len(b) : s[Len(a) + i] = b[i]
    BY <1>2, <2>1
  <2>5. a \o b = s
    BY <2>1, <2>2, <2>3, <2>4, ConcatIs, ZenonT(30)
  <2> QED
    BY <2>5 DEF a, b
<1>17. Asset(u) = Sends("file", (SubSeq(u, 1, 2 - 1) \o <<"webapp">>) \o SubSeq(u, 2 + 1, Len(u)))
  <2>1. SubSeq(u, 2 + 1, Len(u)) = p
    BY <1>5
  <2>2. 2 # 1
    OBVIOUS
  <2> QED
    BY <1>8, <1>14, <2>1, <2>2, Zenon DEF Asset
<1>18. 2 - 1 = 1 /\ 2 + 1 = 3
  OBVIOUS
<1>19. (SubSeq(u, 1, 2 - 1) \o <<"webapp">>) \o SubSeq(u, 2 + 1, Len(u)) = u
  BY <1>4, <1>5, <1>15, <1>16, <1>18
<1> QED
  BY <1>11, <1>13, <1>17, <1>19

LEMMA OwnPageApi ==
    ASSUME NEW k \in Hashes, NEW p \in Pages, NEW u, u = <<k, "webapp">> \o p
    PROVE  Served(u) = Sends("file", u)
<1>1. ASSUME NEW w, w = "webapp" PROVE <<k, w>> \in UrlType
  <2>1. w \in DOMAIN Length /\ k \in DOMAIN Length
    BY <1>1, NameFacts, HashAssumption
  <2> QED
    BY <2>1 DEF UrlType
<1> QED
  BY <1>1, UnderWebapp

LEMMA AfterOne ==
    ASSUME NEW s \in UrlType, NEW p \in UrlType, NEW u, u = s \o p
    PROVE  Len(s) = 1 =>
             /\ Len(u) = 1 + Len(p) /\ u[1] = s[1]
             /\ \A i \in 1 .. Len(p) : u[1 + i] = p[i]
<1>1. Len(u) = Len(s) + Len(p)
  BY After
<1>2. \A i \in 1 .. Len(s) : u[i] = s[i]
  BY After
<1>3. \A i \in 1 .. Len(p) : u[Len(s) + i] = p[i]
  BY After
<1>4. Len(s) = 1 => 1 \in 1 .. Len(s)
  OBVIOUS
<1> QED
  BY <1>1, <1>2, <1>3, <1>4

LEMMA FrontHas ==
    ASSUME NEW p \in UrlType, NEW i \in 1 .. Len(p), i # Len(p)
    PROVE  p[i] \in Range(Front(p))
<1> DEFINE f == Front(p)
<1>1. Len(p) \in Nat /\ i \in 1 .. Len(p) - 1
  BY UrlFacts
<1>2. p \in Seq(DOMAIN Length)
  BY UrlFacts
<1>3. f = [j \in 1 .. Len(p) - 1 |-> p[j]]
  BY <1>1, <1>2 DEF Front
<1> HIDE DEF f
<1>4. i \in DOMAIN f /\ f[i] = p[i]
  BY <1>1, <1>3
<1>5. f[i] \in Range(f)
  BY <1>4 DEF Range
<1> QED
  BY <1>4, <1>5 DEF f

LEMMA NoDirectory ==
    ASSUME NEW k \in Hashes, NEW p \in UrlType, "webapp" \notin Range(Front(p)),
           NEW s \in UrlType, s = <<k>>, NEW u, u = s \o p
    PROVE  WebappAt(u) = {}
<1>1. Len(s) = 1 /\ s[1] = k
  OBVIOUS
<1>2. Len(u) = 1 + Len(p) /\ u[1] = s[1] /\ \A i \in 1 .. Len(p) : u[1 + i] = p[i]
  BY <1>1, AfterOne
<1>3. u \in UrlType
  BY After
<1>4. DOMAIN u = 1 .. Len(u) /\ Len(p) \in Nat
  BY <1>3, UrlFacts
<1>5. ASSUME NEW i \in DOMAIN u, i < Len(u) PROVE u[i] # "webapp"
  <2>1. CASE i = 1
    BY <1>1, <1>2, <2>1, HashAssumption
  <2>2. CASE i # 1
    <3>1. i - 1 \in 1 .. Len(p) /\ i - 1 # Len(p) /\ 1 + (i - 1) = i
      BY <1>2, <1>4, <1>5, <2>2
    <3>2. p[i - 1] \in Range(Front(p))
      BY <3>1, FrontHas
    <3>3. u[i] = p[i - 1]
      BY <1>2, <3>1
    <3> QED
      BY <3>2, <3>3
  <2> QED
    BY <2>1, <2>2
<1> QED
  BY <1>5 DEF WebappAt

LEMMA TailAfterOne ==
    ASSUME NEW s \in UrlType, NEW p \in UrlType, NEW u, u = s \o p
    PROVE  Len(s) = 1 => Tail(u) = p
<1> SUFFICES ASSUME Len(s) = 1 PROVE Tail(u) = p
  OBVIOUS
<1>1. Len(u) = 1 + Len(p) /\ \A i \in 1 .. Len(p) : u[1 + i] = p[i]
  BY AfterOne
<1>2. u \in UrlType
  BY After
<1>3. Len(p) \in Nat /\ p \in Seq(DOMAIN Length) /\ u \in Seq(DOMAIN Length) /\ u # <<>>
  BY <1>2, UrlFacts
<1>4. /\ Tail(u) \in Seq(DOMAIN Length) /\ Len(Tail(u)) = Len(u) - 1
      /\ \A i \in 1 .. Len(u) - 1 : Tail(u)[i] = u[i + 1]
  BY <1>3, HeadTailProperties
<1>5. Len(u) - 1 = Len(p) /\ \A i \in 1 .. Len(p) : 1 + i = i + 1
  BY <1>1, <1>3
<1> QED
  BY <1>1, <1>3, <1>4, <1>5, SeqEqual

LEMMA BesidePage ==
    ASSUME NEW k \in Hashes, NEW p \in Pages, Last(p) \in Web, Head(p) # "web",
           "webapp" \notin Range(Front(p)),
           NEW s \in UrlType, s = <<k>>, NEW u, u = s \o p, InTime(u)
    PROVE  Served(u) = Sends("file", <<k, "webapp">> \o p)
<1>1. Len(s) = 1 /\ s[1] = k
  OBVIOUS
<1>2. p \in UrlType /\ Len(p) \in Nat \ {0} /\ Last(p) = p[Len(p)]
  BY PageFacts
<1>3. Last(p) \notin Made \cup Kept \cup {"webapp"} /\ Extension[Last(p)] \notin {".php", ".svg"}
  BY PageFacts
<1>4. Len(u) = 1 + Len(p) /\ u[1] = k /\ \A i \in 1 .. Len(p) : u[1 + i] = p[i]
  <2>1. u = s \o p
    OBVIOUS
  <2> QED
    BY <1>1, <1>2, <2>1, AfterOne
<1>5. u \in UrlType /\ Last(u) = Last(p)
  <2>1. s \in UrlType /\ u = s \o p
    OBVIOUS
  <2> QED
    BY ONLY <1>2, <2>1, After, Zenon
<1>6. DOMAIN u = 1 .. Len(u) /\ Last(u) = u[Len(u)]
  BY <1>5, UrlFacts
<1>7. Len(u) \in Nat /\ Len(u) >= 2 /\ Len(u) \in DOMAIN u
  BY <1>2, <1>4, <1>6
<1>8. u[2] # "web"
  <2>1. Head(p) = p[1]
    OBVIOUS
  <2>2. 1 \in 1 .. Len(p) /\ 1 + 1 = 2
    BY <1>2
  <2>3. u[2] = p[1]
    BY <1>4, <2>2
  <2> QED
    BY <2>1, <2>3
<1>9. WebappAt(u) = {}
  BY <1>2, NoDirectory
<1>10. Accepted(u)
  BY <1>3, <1>5, <1>7, InTimeIsAccepted
<1>11. Served(u) = Later(u)
  BY <1>3, <1>5, <1>6, <1>10, OthersServed
<1>12. ~MakesWeb(u) /\ ~Viewed(u) /\ ~ViewsApp(u)
  <2>1. Last(u) \notin {"signals.svg", "tasks.svg", "webapp"}
    BY <1>3, <1>5, NameAssumption
  <2> QED
    BY <1>6, <1>8, <2>1 DEF MakesWeb, Viewed, ViewsApp
<1>13. u[Len(u)] \in Web
  BY <1>5, <1>6
<1>14. Later(u) = Direct(u)
  BY <1>5, <1>7, <1>9, <1>12, <1>13, LaterUrls
<1>15. Tail(u) = p
  <2>1. s \in UrlType /\ u = s \o p
    OBVIOUS
  <2> QED
    BY ONLY <1>1, <1>2, <2>1, TailAfterOne, Zenon
<1> QED
  BY <1>4, <1>11, <1>14, <1>15 DEF Direct

LEMMA AfterThree ==
    ASSUME NEW s \in UrlType, NEW p \in UrlType, NEW u, u = s \o p
    PROVE  Len(s) = 3 =>
             /\ Len(u) = 3 + Len(p)
             /\ u[1] = s[1] /\ u[2] = s[2] /\ u[3] = s[3] /\ SubSeq(u, 4, Len(u)) = p
<1>1. Len(u) = Len(s) + Len(p)
  BY After
<1>2. \A i \in 1 .. Len(s) : u[i] = s[i]
  BY After
<1>3. SubSeq(u, Len(s) + 1, Len(u)) = p
  BY After
<1>4. Len(s) = 3 => {1, 2, 3} \subseteq 1 .. Len(s) /\ Len(s) + 1 = 4
  OBVIOUS
<1> QED
  BY <1>1, <1>2, <1>3, <1>4

LEMMA PwaPage ==
    ASSUME NEW k \in Hashes, NEW p \in Pages, NEW w, w = "web", NEW a \in {"pwa", "pwa-poly"},
           NEW s \in UrlType, s = <<k, w, a>>, NEW u, u = s \o p, InTime(u)
    PROVE  Served(u) = Sends(IF Last(p) = "index.html" THEN "make" ELSE "file",
                             <<k, "targets", w, a>> \o p)
<1>1. Len(s) = 3 /\ s[1] = k /\ s[2] = w /\ s[3] = a
  OBVIOUS
<1>2. p \in UrlType /\ Len(p) \in Nat \ {0}
  BY PageFacts
<1>3. Last(p) \notin Made \cup Kept \cup {"webapp"} /\ Extension[Last(p)] # ".php"
  BY PageFacts
<1>4. /\ Len(u) = 3 + Len(p) /\ u[1] = k /\ u[2] = w /\ u[3] = a
      /\ SubSeq(u, 4, Len(u)) = p
  <2>1. s \in UrlType /\ u = s \o p
    OBVIOUS
  <2>2. /\ Len(u) = 3 + Len(p)
        /\ u[1] = s[1] /\ u[2] = s[2] /\ u[3] = s[3] /\ SubSeq(u, 4, Len(u)) = p
    BY ONLY <1>1, <1>2, <2>1, AfterThree, ZenonT(30)
  <2> QED
    BY <1>1, <2>2
<1>5. u \in UrlType /\ Last(u) = Last(p)
  <2>1. s \in UrlType /\ u = s \o p
    OBVIOUS
  <2> QED
    BY ONLY <1>2, <2>1, After, Zenon
<1>6. DOMAIN u = 1 .. Len(u) /\ Last(u) = u[Len(u)]
  BY <1>5, UrlFacts
<1>7. Len(u) \in Nat /\ Len(u) > 3 /\ Len(u) >= 2
  BY <1>2, <1>4
<1>8. Accepted(u)
  BY <1>3, <1>5, <1>7, InTimeIsAccepted
<1>9. Served(u) = Later(u)
  <2>1. ~(Len(u) = 4 /\ u[4] \in Made)
    BY <1>3, <1>5, <1>6
  <2>2. ~(Len(u) = 2 /\ u[2] \in Kept)
    BY <1>7
  <2>3. ~(Len(u) = 3 /\ u[2] \in {"diagram", "svg"} /\ Extension[Last(u)] = ".svg")
    BY <1>7
  <2> QED
    BY <1>8, <2>1, <2>2, <2>3, OthersServed
<1>10. MakesWeb(u)
  BY <1>4, <1>7 DEF MakesWeb
<1>11. Later(u) = Makes(u)
  BY <1>5, <1>10, LaterUrls
<1>12. Last(u) = "index.html" \/ Extension[Last(u)] \in Assets
  BY <1>5, PageFacts
<1>13. Last(u) = "index.html" => Extension[Last(u)] \notin Assets
  BY NameFacts
<1>14. Len(u) >= 3 /\ u[2] \notin {"diagram", "svg"} /\ u[2] = "web" /\ u[3] \in {"pwa", "pwa-poly"}
  BY <1>4, <1>7
<1>15. Last(u) = "index.html" => p # <<"precompile">>
  <2>1. Last(<<"precompile">>) = "precompile"
    BY DEF Last
  <2> QED
    BY <1>5, <2>1
<1>16. <<u[1], "targets", u[2], u[3]>> = <<k, "targets", w, a>>
  BY <1>4
<1> DEFINE place == <<u[1], "targets", u[2], u[3]>>
<1>17. CASE Extension[Last(u)] \in Assets
  <2>1. Last(u) # "index.html"
    BY <1>13, <1>17
  <2>2. Makes(u) = Sends("file", place \o p)
    BY <1>4, <1>7, <1>14, <1>17 DEF Makes
  <2> QED
    BY <1>5, <1>9, <1>11, <1>16, <2>1, <2>2
<1>18. CASE Extension[Last(u)] \notin Assets
  <2>1. Last(u) = "index.html" /\ p # <<"precompile">>
    BY <1>12, <1>15, <1>18
  <2>2. Makes(u) = Sends("make", place \o p)
    BY <1>4, <1>7, <1>14, <1>18, <2>1 DEF Makes
  <2> QED
    BY <1>5, <1>9, <1>11, <1>16, <2>1, <2>2
<1> QED
  BY <1>17, <1>18

(* The targets of a session, asked for with GET and with POST.             *)
LEMMA OneThenThree ==
    ASSUME NEW S, NEW k \in S, NEW a \in S, NEW b \in S, NEW f \in S
    PROVE  <<k>> \o <<a, b, f>> = <<k, a, b, f>>
<1> DEFINE s == <<k>>
           t == <<a, b, f>>
           v == <<k, a, b, f>>
<1>1. s \in Seq(S) /\ t \in Seq(S) /\ v \in Seq(S) /\ Len(s) = 1 /\ Len(t) = 3 /\ Len(v) = 4
  OBVIOUS
<1>2. s[1] = k /\ t[1] = a /\ t[2] = b /\ t[3] = f
  OBVIOUS
<1>3. v[1] = k /\ v[2] = a /\ v[3] = b /\ v[4] = f
  OBVIOUS
<1> HIDE DEF s, t, v
<1>4. \A i \in 1 .. Len(s) : v[i] = s[i]
  BY <1>1, <1>2, <1>3
<1>5. \A i \in 1 .. Len(t) : v[Len(s) + i] = t[i]
  <2>1. \A i \in 1 .. 3 : i = 1 \/ i = 2 \/ i = 3
    OBVIOUS
  <2> QED
    BY <1>1, <1>2, <1>3, <2>1
<1>6. Len(v) = Len(s) + Len(t)
  BY <1>1
<1>7. s \o t = v
  BY <1>1, <1>4, <1>5, <1>6, ConcatIs
<1> QED
  BY <1>7 DEF s, t, v

LEMMA TwoThenTwo ==
    ASSUME NEW S, NEW k \in S, NEW d \in S, NEW a \in S, NEW b \in S
    PROVE  <<k, d>> \o <<a, b>> = <<k, d, a, b>> /\ <<k>> \o <<a, b>> = <<k, a, b>>
<1> DEFINE s == <<k, d>>
           t == <<a, b>>
           v == <<k, d, a, b>>
           r == <<k>>
           w == <<k, a, b>>
<1>1. /\ s \in Seq(S) /\ t \in Seq(S) /\ v \in Seq(S) /\ r \in Seq(S) /\ w \in Seq(S)
      /\ Len(s) = 2 /\ Len(t) = 2 /\ Len(v) = 4 /\ Len(r) = 1 /\ Len(w) = 3
  OBVIOUS
<1>2. /\ s[1] = k /\ s[2] = d /\ t[1] = a /\ t[2] = b /\ r[1] = k
      /\ w[1] = k /\ w[2] = a /\ w[3] = b
  OBVIOUS
<1>3. v[1] = k /\ v[2] = d /\ v[3] = a /\ v[4] = b
  OBVIOUS
<1> HIDE DEF s, t, v, r, w
<1>4. \A i \in 1 .. 2 : i = 1 \/ i = 2
  OBVIOUS
<1>5. (\A i \in 1 .. Len(s) : v[i] = s[i]) /\ \A i \in 1 .. Len(r) : w[i] = r[i]
  BY <1>1, <1>2, <1>3, <1>4
<1>6. /\ \A i \in 1 .. Len(t) : v[Len(s) + i] = t[i]
      /\ \A i \in 1 .. Len(t) : w[Len(r) + i] = t[i]
  BY <1>1, <1>2, <1>3, <1>4
<1>7. Len(v) = Len(s) + Len(t) /\ Len(w) = Len(r) + Len(t)
  BY <1>1
<1>8. s \o t = v
  BY <1>1, <1>5, <1>6, <1>7, ConcatIs
<1>9. r \o t = w
  BY <1>1, <1>5, <1>6, <1>7, ConcatIs
<1> QED
  BY <1>8, <1>9 DEF s, t, v, r, w

LEMMA ThreeThenOne ==
    ASSUME NEW S, NEW a \in S, NEW b \in S, NEW c \in S, NEW d \in S
    PROVE  <<a, b, c>> \o <<d>> = <<a, b, c, d>>
<1> DEFINE s == <<a, b, c>>
           t == <<d>>
           v == <<a, b, c, d>>
<1>1. s \in Seq(S) /\ t \in Seq(S) /\ v \in Seq(S) /\ Len(s) = 3 /\ Len(t) = 1 /\ Len(v) = 4
  OBVIOUS
<1>2. s[1] = a /\ s[2] = b /\ s[3] = c /\ t[1] = d
  OBVIOUS
<1>3. v[1] = a /\ v[2] = b /\ v[3] = c /\ v[4] = d
  OBVIOUS
<1> HIDE DEF s, t, v
<1>4. \A i \in 1 .. Len(s) : v[i] = s[i]
  <2>1. \A i \in 1 .. 3 : i = 1 \/ i = 2 \/ i = 3
    OBVIOUS
  <2> QED
    BY <1>1, <1>2, <1>3, <2>1
<1>5. \A i \in 1 .. Len(t) : v[Len(s) + i] = t[i]
  BY <1>1, <1>2, <1>3
<1>6. Len(v) = Len(s) + Len(t)
  BY <1>1
<1>7. s \o t = v
  BY <1>1, <1>4, <1>5, <1>6, ConcatIs
<1> QED
  BY <1>7 DEF s, t, v

LEMMA TargetFacts ==
    ASSUME NEW t \in Targets
    PROVE  /\ t = <<t[1], t[2]>> /\ t[1] \in DOMAIN Length /\ t[2] \in DOMAIN Length
           /\ t[1] \notin {"diagram", "svg"}
<1>1. t \in (DOMAIN Length \ {"diagram", "svg"}) \X DOMAIN Length
  BY TargetAssumption
<1> PICK A, B : A = DOMAIN Length \ {"diagram", "svg"} /\ B = DOMAIN Length
  OBVIOUS
<1>2. t \in A \X B
  BY <1>1
<1>3. t = <<t[1], t[2]>> /\ t[1] \in A /\ t[2] \in B
  BY <1>2
<1> QED
  BY <1>3

\* GET and POST both end in makeAndSendResourceFile with these URLs.
LEMMA MadeUrl ==
    ASSUME NEW k \in Hashes, NEW t \in Targets, NEW f \in Made \ {"precompile"},
           NEW u, u = <<k, t[1], t[2], f>>
    PROVE  Makes(u) = Sends("make", <<k, "targets", t[1], t[2]>> \o <<f>>)
<1>1. Extension[f] \notin Assets /\ f # "precompile"
  BY NameFacts
<1>2. Len(u) = 4 /\ u[1] = k /\ u[2] = t[1] /\ u[3] = t[2] /\ u[4] = f
  OBVIOUS
<1>3. u[2] \notin {"diagram", "svg"}
  BY <1>2, TargetFacts
<1>4. Last(u) = f
  BY <1>2 DEF Last
<1>5. SubSeq(u, 4, Len(u)) = <<f>>
  <2>1. SubSeq(u, 4, 4) = [i \in 1 .. 1 |-> u[4 + i - 1]]
    BY <1>2
  <2>2. [i \in 1 .. 1 |-> u[4 + i - 1]] = <<u[4]>>
    OBVIOUS
  <2> QED
    BY <1>2, <2>1, <2>2
<1>6. <<f>> # <<"precompile">>
  BY <1>1
<1>7. <<u[1], "targets", u[2], u[3]>> = <<k, "targets", t[1], t[2]>>
  BY <1>2
<1>8. Len(u) >= 3
  BY <1>2
<1> QED
  BY <1>1, <1>3, <1>4, <1>5, <1>6, <1>7, <1>8, Zenon DEF Makes

LEMMA OnlyMadeUrl ==
    ASSUME NEW k \in Hashes, NEW t \in Targets, NEW f, f = "precompile",
           NEW u, u = <<k, t[1], t[2], f>>
    PROVE  Makes(u) = Sends("make only", <<k, "targets", t[1], t[2]>> \o <<Artifact[t]>>)
<1>1. Extension[f] \notin Assets
  BY NameFacts DEF Made
<1>2. Len(u) = 4 /\ u[1] = k /\ u[2] = t[1] /\ u[3] = t[2] /\ u[4] = f
  OBVIOUS
<1>3. u[2] \notin {"diagram", "svg"}
  BY <1>2, TargetFacts
<1>4. Last(u) = f
  BY <1>2 DEF Last
<1>5. SubSeq(u, 4, Len(u)) = <<f>>
  <2>1. SubSeq(u, 4, 4) = [i \in 1 .. 1 |-> u[4 + i - 1]]
    BY <1>2
  <2>2. [i \in 1 .. 1 |-> u[4 + i - 1]] = <<u[4]>>
    OBVIOUS
  <2> QED
    BY <1>2, <2>1, <2>2
<1>6. <<u[2], u[3]>> = t
  BY <1>2, TargetFacts
<1>7. <<u[1], "targets", u[2], u[3]>> = <<k, "targets", t[1], t[2]>>
  BY <1>2
<1>8. Len(u) >= 3
  BY <1>2
<1> QED
  BY <1>1, <1>3, <1>4, <1>5, <1>6, <1>7, <1>8, Zenon DEF Makes

LEMMA TargetNames ==
    ASSUME NEW k \in Hashes, NEW t \in Targets, NEW f \in DOMAIN Length, NEW x
    PROVE  /\ OfTarget(k, t, x) = <<k, "targets", t[1], t[2]>> \o <<x>>
           /\ <<k>> \o t \o <<f>> = <<k, t[1], t[2], f>>
<1> PICK d : d = "targets"
  OBVIOUS
<1> DEFINE S == DOMAIN Length \cup {d}
<1>1. /\ t = <<t[1], t[2]>> /\ k \in S /\ d \in S /\ t[1] \in S /\ t[2] \in S /\ f \in S
  BY TargetFacts, HashAssumption
<1> HIDE DEF S
<1> PICK a, b : a = t[1] /\ b = t[2]
  OBVIOUS
<1>2. a \in S /\ b \in S /\ t = <<a, b>>
  BY <1>1
<1>3. <<k, d>> \o <<a, b>> = <<k, d, a, b>> /\ <<k>> \o <<a, b>> = <<k, a, b>>
  BY ONLY <1>1, <1>2, TwoThenTwo
<1>4. <<k, a, b>> \o <<f>> = <<k, a, b, f>>
  BY ONLY <1>1, <1>2, ThreeThenOne
<1>5. OfTarget(k, t, x) = (<<k, d>> \o t) \o <<x>>
  BY DEF OfTarget
<1> QED
  BY <1>2, <1>3, <1>4, <1>5, Zenon

LEMMA TargetServed ==
    ASSUME NEW k \in Hashes, NEW t \in Targets, NEW f \in Made,
           NEW u, u = <<k, t[1], t[2], f>>, InTime(u)
    PROVE  Served(u) = Makes(u)
<1>1. /\ k \in DOMAIN Length /\ t[1] \in DOMAIN Length /\ t[2] \in DOMAIN Length
      /\ f \in DOMAIN Length
  BY TargetFacts, HashAssumption, NameFacts
<1>2. Extension[f] # ".php" /\ f # "webapp"
  BY NameFacts
<1>3. u \in Seq(DOMAIN Length) /\ Len(u) = 4 /\ u # <<>> /\ u[4] = f
  <2> PICK a, b : a = t[1] /\ b = t[2]
    OBVIOUS
  <2> PICK S : S = DOMAIN Length
    OBVIOUS
  <2>1. u = <<k, a, b, f>> /\ k \in S /\ a \in S /\ b \in S /\ f \in S
    BY <1>1
  <2> QED
    BY ONLY <2>1, S = DOMAIN Length
<1>4. u \in UrlType /\ Last(u) = f
  BY <1>3 DEF UrlType, Last
<1>5. Accepted(u)
  <2>1. Len(u) >= 2
    BY <1>3
  <2> QED
    BY <1>2, <1>4, <2>1, InTimeIsAccepted
<1> QED
  BY <1>3, <1>5, MadeServed

LEMMA TargetGet ==
    ASSUME NEW k \in Hashes, NEW t \in Targets, NEW f \in Made,
           NEW u, u = <<k>> \o t \o <<f>>, InTime(u)
    PROVE  Served(u) = IF f = "precompile"
                       THEN Sends("make only", OfTarget(k, t, Artifact[t]))
                       ELSE Sends("make", OfTarget(k, t, f))
<1>1. f \in DOMAIN Length
  BY NameFacts
<1>2. u = <<k, t[1], t[2], f>>
  BY <1>1, TargetNames
<1>3. Served(u) = Makes(u)
  BY <1>2, TargetServed, Zenon
<1>4. CASE f = "precompile"
  <2>1. Makes(u) = Sends("make only", <<k, "targets", t[1], t[2]>> \o <<Artifact[t]>>)
    BY <1>2, <1>4, OnlyMadeUrl, Zenon
  <2>2. OfTarget(k, t, Artifact[t]) = <<k, "targets", t[1], t[2]>> \o <<Artifact[t]>>
    BY <1>1, TargetNames, ZenonT(40)
  <2> QED
    BY <1>3, <1>4, <2>1, <2>2, Zenon
<1>5. CASE f # "precompile"
  <2>1. f \in Made \ {"precompile"}
    BY <1>5
  <2>2. Makes(u) = Sends("make", <<k, "targets", t[1], t[2]>> \o <<f>>)
    BY <1>2, <2>1, MadeUrl, Zenon
  <2>3. OfTarget(k, t, f) = <<k, "targets", t[1], t[2]>> \o <<f>>
    BY <1>1, TargetNames, ZenonT(40)
  <2> QED
    BY <1>3, <1>5, <2>2, <2>3, Zenon
<1> QED
  BY <1>4, <1>5

LEMMA TargetPosted ==
    ASSUME NEW k \in Hashes, NEW t \in Targets, NEW f \in Made \ {"precompile"},
           NEW u, u = <<"compile">> \o t \o <<f>>
    PROVE  Posted(k, u) = Sends("make", OfTarget(k, t, f))
<1> PICK c : c = "compile"
  OBVIOUS
<1> DEFINE S == DOMAIN Length \cup {c}
<1>1. f \in DOMAIN Length
  BY NameFacts
<1>2. t = <<t[1], t[2]>> /\ k \in S /\ c \in S /\ t[1] \in S /\ t[2] \in S /\ f \in S
  BY <1>1, TargetFacts, HashAssumption
<1> HIDE DEF S
<1> PICK a, b : a = t[1] /\ b = t[2]
  OBVIOUS
<1>3. a \in S /\ b \in S /\ t = <<a, b>>
  BY <1>2
<1>4. <<c>> \o <<a, b>> = <<c, a, b>>
  <2>1. <<c, k>> \o <<a, b>> = <<c, k, a, b>> /\ <<c>> \o <<a, b>> = <<c, a, b>>
    BY ONLY <1>2, <1>3, TwoThenTwo
  <2> QED
    BY <2>1
<1>5. <<c, a, b>> \o <<f>> = <<c, a, b, f>>
  BY ONLY <1>2, <1>3, ThreeThenOne
<1>6. u = <<c, a, b, f>>
  BY <1>3, <1>4, <1>5, Zenon
<1>7. MatchURL(u, <<"compile", "*", "*", "*">>)
  <2> DEFINE q == <<"compile", "*", "*", "*">>
  <2>1. Len(q) = 4 /\ q[1] = c /\ q[2] = "*" /\ q[3] = "*" /\ q[4] = "*"
    OBVIOUS
  <2> HIDE DEF q
  <2>2. Len(u) = 4 /\ DOMAIN u = 1 .. 4 /\ u[1] = c
    BY ONLY <1>6
  <2>3. \A i \in 1 .. 4 : i = 1 \/ i = 2 \/ i = 3 \/ i = 4
    OBVIOUS
  <2>4. q[1] \in {"*", u[1]} /\ q[2] \in {"*", u[2]} /\ q[3] \in {"*", u[3]} /\ q[4] \in {"*", u[4]}
    BY <2>1, <2>2
  <2>5. \A i \in 1 .. 4 : q[i] \in {"*", u[i]}
    BY <2>3, <2>4
  <2>6. MatchURL(u, q)
    BY <2>1, <2>2, <2>5 DEF MatchURL, Same
  <2> QED
    BY <2>6 DEF q
<1>8. Tail(u) = <<a, b, f>>
  BY ONLY <1>6
<1>9. <<k>> \o Tail(u) = <<k, a, b, f>>
  <2>1. <<k>> \o <<a, b, f>> = <<k, a, b, f>>
    BY ONLY <1>2, <1>3, OneThenThree
  <2> QED
    BY <1>8, <2>1
<1> PICK v : v = <<k>> \o Tail(u)
  OBVIOUS
<1>10. v = <<k, t[1], t[2], f>>
  BY <1>9
<1>11. Posted(k, u) = Makes(v)
  BY <1>7 DEF Posted
<1>12. Makes(v) = Sends("make", <<k, "targets", t[1], t[2]>> \o <<f>>)
  BY <1>10, MadeUrl, Zenon
<1>13. OfTarget(k, t, f) = <<k, "targets", t[1], t[2]>> \o <<f>>
  BY <1>1, TargetNames, ZenonT(40)
<1> QED
  BY <1>11, <1>12, <1>13, Zenon

LEMMA KeyPosted ==
    ASSUME NEW k, NEW u, u = <<"filepost">> PROVE Posted(k, u) = Sends("key", <<k>>)
<1>1. Len(u) = 1 /\ Len(<<"compile", "*", "*", "*">>) = 4
  OBVIOUS
<1> QED
  BY <1>1 DEF Posted, MatchURL

(* A request that is answered as it expects.                               *)
Right(r) ==
    InTime(r.asked.url) =>
        r.sends = IF r.asked.method = "GET" THEN Served(r.asked.url)
                  ELSE Posted(r.asked.key, r.asked.url)

LEMMA GetRight == ASSUME NEW u, NEW x, InTime(u) => Served(u) = x PROVE Right(Get(u, x))
<1> DEFINE r == Get(u, x)
<1>1. r.asked.url = u /\ r.asked.method = "GET" /\ r.sends = x
  BY DEF Get
<1> HIDE DEF r
<1>2. Right(r)
  BY <1>1 DEF Right
<1> QED
  BY <1>2 DEF r

LEMMA PostRight == ASSUME NEW k, NEW u, NEW x, Posted(k, u) = x PROVE Right(Post(k, u, x))
<1> DEFINE r == Post(k, u, x)
<1>1. r.asked.url = u /\ r.asked.method = "POST" /\ r.asked.key = k /\ r.sends = x
  BY DEF Post
<1> HIDE DEF r
<1>2. r.asked.method # "GET"
  BY <1>1
<1>3. Right(r)
  BY <1>1, <1>2, Zenon DEF Right
<1> QED
  BY <1>3 DEF r

LEMMA SessionRight == \A k \in Hashes : \A r \in SessionApi(k) : Right(r)
<1> SUFFICES ASSUME NEW k \in Hashes PROVE \A r \in SessionApi(k) : Right(r)
  OBVIOUS
<1>1. ASSUME NEW f \in {"generated.cpp", "errors.log", "user_code.dsp"}
      PROVE  Right(Get(<<k, f>>, Sends("file", <<k, f>>)))
  <2>1. InTime(<<k, f>>) => Served(<<k, f>>) = Sends("file", <<k, f>>)
    <3> SUFFICES ASSUME InTime(<<k, f>>) PROVE Served(<<k, f>>) = Sends("file", <<k, f>>)
      OBVIOUS
    <3>1. CASE f = "user_code.dsp"
      BY <3>1, ProgramApi
    <3>2. CASE f # "user_code.dsp"
      <4>1. f \in Kept /\ f \notin {"svg.zip", "webapp.zip", "filename", "zip"}
        BY <3>2 DEF Kept
      <4>2. AnswerOf(f) = f /\ AnswerOf(f) # "zip"
        BY <4>1 DEF AnswerOf
      <4> QED
        BY <4>1, <4>2, KeptApi, Zenon
    <3> QED
      BY <3>1, <3>2
  <2> QED
    BY <2>1, GetRight, Zenon
<1>2. ASSUME NEW f \in {"signals.svg", "tasks.svg"}
      PROVE  Right(Get(<<k, f>>, Sends("made", <<k, f>>)))
  <2>1. InTime(<<k, f>>) => Served(<<k, f>>) = Sends("made", <<k, f>>)
    BY ViewApi
  <2> QED
    BY <2>1, GetRight, Zenon
<1>3. ASSUME NEW f \in {"svg.zip", "webapp.zip"}
      PROVE  Right(Get(<<k, f>>, Sends("zip", <<k, f>>)))
  <2>1. f \in Kept /\ AnswerOf(f) = "zip"
    BY DEF Kept, AnswerOf
  <2>2. InTime(<<k, f>>) => Served(<<k, f>>) = Sends("zip", <<k, f>>)
    BY <2>1, KeptApi, Zenon
  <2> QED
    BY <2>2, GetRight, Zenon
<1>4. ASSUME NEW d \in {"svg", "diagram"}, NEW f \in Svgs
      PROVE  Right(Get(<<k, d, f>>, Sends("file", <<k, "svg", f>>)))
  <2>1. InTime(<<k, d, f>>) => Served(<<k, d, f>>) = Sends("file", <<k, "svg", f>>)
    BY ImageApi, Zenon
  <2> QED
    BY <2>1, GetRight, Zenon
<1>5. Right(Get(<<k, "filename">>, Sends("file", <<k, "filename.txt">>)))
  <2> PICK f : f = "filename"
    OBVIOUS
  <2>1. f \in Kept /\ AnswerOf(f) = "filename.txt" /\ AnswerOf(f) # "zip"
    BY DEF Kept, AnswerOf
  <2>2. InTime(<<k, f>>) => Served(<<k, f>>) = Sends("file", <<k, "filename.txt">>)
    BY <2>1, KeptApi, Zenon
  <2> QED
    BY <2>2, GetRight, Zenon
<1> DEFINE R1 == {Get(<<k, f>>, Sends("file", <<k, f>>)) :
                     f \in {"generated.cpp", "errors.log", "user_code.dsp"}}
           R2 == {Get(<<k, f>>, Sends("made", <<k, f>>)) : f \in {"signals.svg", "tasks.svg"}}
           R3 == {Get(<<k, f>>, Sends("zip", <<k, f>>)) : f \in {"svg.zip", "webapp.zip"}}
           R4 == {Get(<<k, d, f>>, Sends("file", <<k, "svg", f>>)) :
                     d \in {"svg", "diagram"}, f \in Svgs}
           R5 == {Get(<<k, "filename">>, Sends("file", <<k, "filename.txt">>))}
<1>10. \A r \in R1 : Right(r)
  BY <1>1, Zenon
<1>11. \A r \in R2 : Right(r)
  BY <1>2, Zenon
<1>12. \A r \in R3 : Right(r)
  BY <1>3, Zenon
<1>13. \A r \in R4 : Right(r)
  <2>1. ASSUME NEW r \in R4 PROVE Right(r)
    <3>1. PICK d \in {"svg", "diagram"}, f \in Svgs :
            r = Get(<<k, d, f>>, Sends("file", <<k, "svg", f>>))
      OBVIOUS
    <3> PICK x : x = Get(<<k, d, f>>, Sends("file", <<k, "svg", f>>))
      OBVIOUS
    <3>2. d \in {"svg", "diagram"} /\ f \in Svgs
      BY <3>1
    <3>3. Right(x)
      BY <1>4, <3>2
    <3>4. r = x
      BY <3>1
    <3> QED
      BY <3>3, <3>4
  <2> HIDE DEF R4
  <2> QED
    BY <2>1
<1>14. \A r \in R5 : Right(r)
  BY <1>5, Zenon
<1>15. SessionApi(k) = R1 \cup R2 \cup R3 \cup R4 \cup R5
  BY DEF SessionApi
<1> HIDE DEF R1, R2, R3, R4, R5
<1> QED
  BY <1>10, <1>11, <1>12, <1>13, <1>14, <1>15

LEMMA ApplicationRight == \A k \in Hashes : \A r \in ApplicationApi(k) : Right(r)
<1> SUFFICES ASSUME NEW k \in Hashes PROVE \A r \in ApplicationApi(k) : Right(r)
  OBVIOUS
<1>0. k \in DOMAIN Length
  BY HashAssumption
<1>1. Right(Get(<<k, "webapp">>, Sends("made", <<k, "webapp", "index.html">>)))
  BY AppApi, GetRight, Zenon
<1>2. ASSUME NEW p \in Pages
      PROVE  Right(Get(<<k, "webapp">> \o p, Sends("file", <<k, "webapp">> \o p)))
  BY OwnPageApi, GetRight, Zenon
<1>3. ASSUME NEW p \in {q \in Pages :
                 Last(q) \in Web /\ Head(q) # "web" /\ "webapp" \notin Range(Front(q))}
      PROVE  Right(Get(<<k>> \o p, Sends("file", <<k, "webapp">> \o p)))
  <2>1. <<k>> \in UrlType
    BY <1>0 DEF UrlType
  <2>2. /\ p \in Pages /\ Last(p) \in Web /\ Head(p) # "web"
        /\ "webapp" \notin Range(Front(p))
    BY <1>3
  <2>3. InTime(<<k>> \o p) => Served(<<k>> \o p) = Sends("file", <<k, "webapp">> \o p)
    BY <2>1, <2>2, BesidePage, Zenon
  <2> QED
    BY <2>3, GetRight, Zenon
<1>4. ASSUME NEW a \in {"pwa", "pwa-poly"}, NEW p \in Pages
      PROVE  Right(Get(<<k, "web", a>> \o p, Sends(IF Last(p) = "index.html" THEN "make" ELSE "file",
                                        <<k, "targets", "web", a>> \o p)))
  <2>1. ASSUME NEW w, w = "web" PROVE <<k, w, a>> \in UrlType
    <3>1. w \in DOMAIN Length /\ a \in DOMAIN Length
      BY <2>1, NameAssumption
    <3> QED
      BY <1>0, <3>1 DEF UrlType
  <2>2. InTime(<<k, "web", a>> \o p) =>
          Served(<<k, "web", a>> \o p) =
            Sends(IF Last(p) = "index.html" THEN "make" ELSE "file",
                  <<k, "targets", "web", a>> \o p)
    BY <2>1, PwaPage, ZenonT(40)
  <2> QED
    BY <2>2, GetRight, Zenon
<1> DEFINE R1 == {Get(<<k, "webapp">>, Sends("made", <<k, "webapp", "index.html">>))}
           R2 == {Get(<<k, "webapp">> \o p, Sends("file", <<k, "webapp">> \o p)) : p \in Pages}
           R3 == {Get(<<k>> \o p, Sends("file", <<k, "webapp">> \o p)) :
                     p \in {q \in Pages :
                         Last(q) \in Web /\ Head(q) # "web" /\ "webapp" \notin Range(Front(q))}}
           R4 == {Get(<<k, "web", a>> \o p, Sends(IF Last(p) = "index.html" THEN "make" ELSE "file",
                                                  <<k, "targets", "web", a>> \o p)) :
                     a \in {"pwa", "pwa-poly"}, p \in Pages}
<1>10. \A r \in R1 : Right(r)
  BY <1>1, Zenon
<1>11. \A r \in R2 : Right(r)
  BY <1>2, Zenon
<1>12. \A r \in R3 : Right(r)
  BY <1>3, Zenon
<1>13. \A r \in R4 : Right(r)
  BY <1>4
<1>14. ApplicationApi(k) = R1 \cup R2 \cup R3 \cup R4
  BY DEF ApplicationApi
<1> HIDE DEF R1, R2, R3, R4
<1> QED
  BY <1>10, <1>11, <1>12, <1>13, <1>14

LEMMA TargetRight == \A k \in Hashes : \A r \in TargetApi(k) : Right(r)
<1> SUFFICES ASSUME NEW k \in Hashes PROVE \A r \in TargetApi(k) : Right(r)
  OBVIOUS
<1>1. ASSUME NEW t \in Targets, NEW f \in {"binary.zip", "binary.apk", "installer.sh"}
      PROVE  Right(Get(<<k>> \o t \o <<f>>, Sends("make", OfTarget(k, t, f))))
  <2>1. f \in Made /\ f # "precompile"
    BY DEF Made
  <2>2. InTime(<<k>> \o t \o <<f>>) =>
          Served(<<k>> \o t \o <<f>>) = Sends("make", OfTarget(k, t, f))
    BY <2>1, TargetGet, Zenon
  <2> QED
    BY <2>2, GetRight, Zenon
<1>2. ASSUME NEW t \in Targets
      PROVE  Right(Get(<<k>> \o t \o <<"precompile">>,
                       Sends("make only", OfTarget(k, t, Artifact[t]))))
  <2> PICK f : f = "precompile"
    OBVIOUS
  <2>1. f \in Made
    BY DEF Made
  <2>2. InTime(<<k>> \o t \o <<f>>) =>
          Served(<<k>> \o t \o <<f>>) = Sends("make only", OfTarget(k, t, Artifact[t]))
    BY <2>1, TargetGet, Zenon
  <2> QED
    BY <2>2, GetRight, Zenon
<1>3. ASSUME NEW t \in Targets, NEW f \in {"binary.zip", "binary.apk"}
      PROVE  Right(Post(k, <<"compile">> \o t \o <<f>>, Sends("make", OfTarget(k, t, f))))
  <2>1. f \in Made \ {"precompile"}
    BY DEF Made
  <2>2. Posted(k, <<"compile">> \o t \o <<f>>) = Sends("make", OfTarget(k, t, f))
    BY <2>1, TargetPosted, Zenon
  <2> QED
    BY <2>2, PostRight, Zenon
<1>4. Right(Post(k, <<"filepost">>, Sends("key", <<k>>)))
  BY KeyPosted, PostRight, Zenon
<1> DEFINE R1 == {Get(<<k>> \o t \o <<f>>, Sends("make", OfTarget(k, t, f))) :
                     t \in Targets, f \in {"binary.zip", "binary.apk", "installer.sh"}}
           R2 == {Get(<<k>> \o t \o <<"precompile">>, Sends("make only", OfTarget(k, t, Artifact[t]))) :
                     t \in Targets}
           R3 == {Post(k, <<"compile">> \o t \o <<f>>, Sends("make", OfTarget(k, t, f))) :
                     t \in Targets, f \in {"binary.zip", "binary.apk"}}
           R4 == {Post(k, <<"filepost">>, Sends("key", <<k>>))}
<1>10. \A r \in R1 : Right(r)
  BY <1>1
<1>11. \A r \in R2 : Right(r)
  BY <1>2, Zenon
<1>12. \A r \in R3 : Right(r)
  BY <1>3
<1>13. \A r \in R4 : Right(r)
  BY <1>4, Zenon
<1>14. TargetApi(k) = R1 \cup R2 \cup R3 \cup R4
  BY DEF TargetApi
<1> HIDE DEF R1, R2, R3, R4
<1> QED
  BY <1>10, <1>11, <1>12, <1>13, <1>14

LEMMA RequestsRight ==
    \A k \in Hashes : \A r \in SessionApi(k) \cup ApplicationApi(k) \cup TargetApi(k) : Right(r)
BY SessionRight, ApplicationRight, TargetRight, Zenon

(* No route is for the URLs of README.md:45-46: they are longer than those  *)
(* of the first routes, and "web" is not where the routes look for it.      *)
LEMMA ReadmePageLost ==
    ASSUME NEW k \in Hashes, NEW t \in Targets, t[1] # "web", NEW a \in {"pwa", "pwa-poly"},
           NEW p \in Pages, NEW u, u = <<k, t[1], t[2], "web", a>> \o p
    PROVE  \/ Served(u) \in {NotFound, Direct(u)}
           \/ WebappAt(u) # {} /\ Served(u) = Asset(u)
<1>1. u \in UrlType /\ Len(u) >= 6 /\ u[2] = t[1]
  <2> PICK w : w = "web"
    OBVIOUS
  <2> PICK S, b, c : S = DOMAIN Length /\ b = t[1] /\ c = t[2]
    OBVIOUS
  <2> DEFINE s == <<k, b, c, w, a>>
  <2>1. k \in S /\ b \in S /\ c \in S /\ w \in S /\ a \in S
    BY TargetFacts, HashAssumption, NameAssumption
  <2>2. p \in Seq(S) /\ p # <<>>
    BY PageAssumption
  <2>3. s \in Seq(S) /\ Len(s) = 5 /\ s[2] = b
    BY ONLY <2>1
  <2>4. u = s \o p
    OBVIOUS
  <2> HIDE DEF s
  <2>5. Len(p) \in Nat \ {0}
    BY ONLY <2>2, LenProperties, EmptySeq
  <2>6. /\ u \in Seq(S) /\ Len(u) = 5 + Len(p)
        /\ \A i \in 1 .. 5 : u[i] = s[i]
    <3>1. /\ s \o p \in Seq(S) /\ Len(s \o p) = Len(s) + Len(p)
          /\ \A i \in 1 .. Len(s) + Len(p) :
               (s \o p)[i] = IF i <= Len(s) THEN s[i] ELSE p[i - Len(s)]
      BY ONLY <2>2, <2>3, ConcatProperties, Zenon
    <3> QED
      BY ONLY <2>3, <2>4, <2>5, <3>1
  <2>7. Len(u) >= 6 /\ u[2] = b /\ u # <<>>
    BY ONLY <2>3, <2>5, <2>6
  <2> QED
    BY <2>6, <2>7 DEF UrlType
<1>2. CASE ~Accepted(u)
  <2>1. MatchExtension(u, ".php") \/ TooLong(u)
    BY <1>1, <1>2, UrlFacts DEF Accepted, MatchExtension
  <2> QED
    BY <2>1 DEF Served
<1>3. CASE Accepted(u)
  <2>1. Len(u) \notin {2, 3, 4} /\ ~MakesWeb(u) /\ ~Viewed(u) /\ ~ViewsApp(u)
    BY <1>1, UrlFacts DEF MakesWeb, Viewed, ViewsApp
  <2>2. Served(u) = Later(u)
    BY <1>3, <2>1, OthersServed
  <2>3. Later(u) = IF WebappAt(u) # {} /\ Characters(u) > 40 THEN Asset(u)
                   ELSE IF \E i \in DOMAIN u : u[i] \in Web THEN Direct(u)
                   ELSE LastRoutes(u)
    BY <1>1, <2>1, LaterUrls
  <2>4. LastRoutes(u) = NotFound
    <3>1. Len(<<"sessions", "list">>) = 2 /\ Len(<<"*", "user_code.dsp">>) = 2
      OBVIOUS
    <3> QED
      BY <2>1, <3>1 DEF LastRoutes, MatchURL
  <2> QED
    BY <2>2, <2>3, <2>4
<1> QED
  BY <1>2, <1>3

(* Whatever the platforms, the architectures, the diagrams and the files of *)
(* the applications are called, as long as the names of the interface and   *)
(* the 40 digits of a session mean what they do, every URL of the interface *)
(* that the routes serve reaches the handler it is for, which looks for the *)
(* file where the session has it (dispatchGETConnections,                   *)
(* dispatchPOSTConnections): no route that is tried earlier takes it.  The   *)
(* URLs that README.md:45-46 gives for the pages of web/pwa are not served. *)
THEOREM ApiIsServed == RouteSpec => []ApiServed
<1> DEFINE AskedInv == \E r \in Requests : asked = r.asked /\ expected = r.sends
<1>1. RouteInit => AskedInv
  BY DEF RouteInit
<1>2. AskedInv /\ [RouteNext]_routeVars => AskedInv'
  BY DEF RouteNext, routeVars
<1>3. AskedInv => ApiServed
  <2> SUFFICES ASSUME NEW r \in Requests, asked = r.asked, expected = r.sends
               PROVE  ApiServed
    OBVIOUS
  <2>1. CASE asked \in ReadmePages
    <3>1. PICK k \in Hashes, t \in {target \in Targets : target[1] # "web"},
               a \in {"pwa", "pwa-poly"}, p \in Pages : asked = ReadmePage(k, t, a, p)
      BY <2>1 DEF ReadmePages
    <3>2. asked.method = "GET" /\ asked.url = <<k, t[1], t[2], "web", a>> \o p
      <4> PICK u : u = <<k, t[1], t[2], "web", a>> \o p
        OBVIOUS
      <4>1. asked = [method |-> "GET", key |-> "", url |-> u]
        BY <3>1, Zenon DEF ReadmePage
      <4>2. asked.method = "GET" /\ asked.url = u
        BY ONLY <4>1
      <4> QED
        BY <4>2
    <3>3. t \in Targets /\ t[1] # "web"
      OBVIOUS
    <3>4. \/ Served(asked.url) \in {NotFound, Direct(asked.url)}
          \/ WebappAt(asked.url) # {} /\ Served(asked.url) = Asset(asked.url)
      BY <3>2, <3>3, ReadmePageLost
    <3> QED
      BY <2>1, <3>2, <3>4, Zenon DEF ApiServed, Answered
  <2>2. CASE asked \notin ReadmePages
    <3>1. \E k \in Hashes : r \in SessionApi(k) \cup ApplicationApi(k) \cup TargetApi(k)
      <4>1. ASSUME NEW q \in ReadmePages, r = [asked |-> q, sends |-> NotFound] PROVE FALSE
        BY <2>2, <4>1
      <4>2. r \in UNION {SessionApi(k) \cup ApplicationApi(k) \cup TargetApi(k) : k \in Hashes}
        BY <4>1, Zenon DEF Requests
      <4> QED
        BY <4>2, Zenon
    <3>2. Right(r)
      BY <3>1, RequestsRight, Zenon
    <3> QED
      BY <2>2, <3>2, Zenon DEF Right, InTime, ApiServed, Answered
  <2> QED
    BY <2>1, <2>2
<1> QED
  BY <1>1, <1>2, <1>3, PTL DEF RouteSpec
=============================================================================
