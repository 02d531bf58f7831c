-------------------------- MODULE SessionGetsProofs --------------------------
(***************************************************************************)
(* Proofs about SessionGets: what concurrent GET requests do to the files  *)
(* of a session, for any number of threads and sessions, any number of     *)
(* writes that make a file, and programs that may fail.                    *)
(***************************************************************************)
EXTENDS SessionGets, KeyListProofs

(* What is true of a thread, wherever it is.                               *)
Shape(th) ==
    th = [pc |-> th.pc, request |-> th.request, key |-> th.key, fd |-> th.fd,
          at |-> th.at, size |-> th.size, good |-> th.good, lost |-> th.lost,
          alone |-> th.alone, answer |-> th.answer]

Holding == {"read", "write", "faust", "dot", "unlink", "sending"}
DotPlaces == {"sources", "runfaust", "faust", "rundot", "dot", "undot", "undotfailed", "made"}
ZipPlaces == {"zip", "read", "write", "unlink"}
WebPlaces == {"index", "runweb", "webwrite", "webmade"}

ThreadOK(th) ==
    /\ Shape(th)
    /\ th.fd \in Nodes \cup {0}
    /\ th.pc \notin Holding => th.fd = 0
    /\ th.pc # "idle" => th.key \in Keys /\ th.request \in AllRequests
    /\ th.pc \in DotPlaces => th.request \in Diagrams
    /\ th.pc \in ZipPlaces => th.request \in Zips
    /\ th.pc \in WebPlaces => th.request \in {"webapp", "webapp.zip"}
    /\ th.pc = "find" => th.request \in Diagrams \cup {"webapp", "webapp.zip"}
    /\ th.pc = "webdir" => th.request = "webapp.zip"
    /\ th.pc = "sending" => th.request \in Diagrams \cup Zips

ThreadType ==
    /\ thread = [t \in Threads |-> thread[t]]
    /\ \A t \in Threads : ThreadOK(thread[t])

FileType ==
    /\ mix \subseteq AllRequests
    /\ stage \in [Keys -> {"none", "empty", "ready"}]
    /\ name \in [Keys -> [MadeNames -> Nodes \cup {0}]]
    /\ node \in [Nodes -> [Piece -> {"hole", "ok", "bad"}]]
    /\ webapp \in [Keys -> SUBSET Piece]

(* Every file is in a session that exists, those of programs in one that   *)
(* is complete, and two names never stand for one node.                    *)
Programmed == Diagrams \cup {DotFile(r) : r \in Diagrams}
FileInv ==
    /\ \A k \in Keys, n \in MadeNames : name[k][n] # 0 =>
         /\ stage[k] # "none"
         /\ n \in Programmed => stage[k] = "ready"
         /\ \A j \in Keys, m \in MadeNames : name[j][m] = name[k][n] => j = k /\ m = n
    /\ \A k \in Keys : webapp[k] # {} => stage[k] = "ready"
    /\ \A t \in Threads :
         At(t, "webwrite") /\ ~thread[t].lost => stage[Key(t)] = "ready"

(* The file that a request writes or sends, in its session: no other kind  *)
(* of request has it open, and no other session.                           *)
FileAt(location, request) ==
    IF location \in {"faust", "rundot"} THEN DotFile(request)
    ELSE IF request \in Zips THEN TempZip(request) ELSE request
FileOf(th) == FileAt(th.pc, th.request)

OwnInv ==
    \A t \in Threads : thread[t].fd # 0 =>
      /\ \A k \in Keys, n \in MadeNames :
           name[k][n] = thread[t].fd => k = Key(t) /\ n = FileOf(thread[t])
      /\ \A u \in Threads : thread[u].fd = thread[t].fd =>
           Key(u) = Key(t) /\ Request(u) = Request(t)

(* Who will remove a temporary file that is there.                         *)
Dotting == {"faust", "rundot", "dot", "undot", "undotfailed"}
Zipping == {"read", "write", "send", "unlink"}
LeftInv ==
    \A k \in Keys :
      /\ \A r \in Diagrams : name[k][DotFile(r)] # 0 =>
           \E t \in Threads : thread[t].pc \in Dotting /\ Key(t) = k /\ Request(t) = r
      /\ \A r \in Zips : name[k][TempZip(r)] # 0 =>
           \/ <<k, TempZip(r)>> \in leftover
           \/ \E t \in Threads : thread[t].pc \in Zipping /\ Key(t) = k /\ Request(t) = r

(* A request that is alone shares no file with another.                    *)
ApartInv ==
    \A t, u \in Threads :
      t # u /\ Busy(t) /\ Busy(u) /\ thread[t].alone /\ Key(t) = Key(u) =>
        Artefact(Request(t)) \cap Artefact(Request(u)) = {}

(* How far a request that is alone has come.                               *)
Prefix(pieces, n) == \A i \in Piece : pieces[i] = IF i <= n THEN "ok" ELSE "hole"

Ready == {"zip", "read", "write", "unlink", "runfaust", "faust", "rundot", "dot", "undot",
          "made", "runweb", "webwrite", "webmade", "webdir", "send", "sending"}
Writing == {"read", "write", "faust", "dot"}

Going(th) ==
    LET k == th.key  r == th.request  l == th.pc  f == FileOf(th) IN
    /\ ~th.lost
    /\ l # "undotfailed"
    /\ l = "begin" => ~Spoiled(k, r)
    /\ l \in Ready => stage[k] = "ready"
    /\ l \in {"index", "find"} => stage[k] # "none"
    /\ l = "index" => webapp[k] \in {{}, Piece}
    /\ l \in {"find", "runweb"} /\ r \notin Diagrams => webapp[k] = {}
    /\ l \in {"webmade", "webdir"} => webapp[k] = Piece
    /\ l \in {"zip", "read"} /\ r = "webapp.zip" => webapp[k] = Piece
    /\ l = "send" /\ r \in {"webapp", "asset"} => webapp[k] = Piece
    /\ l \in {"sources", "find", "runfaust"} /\ r \in Diagrams => name[k][r] = 0
    /\ l \in Writing =>
         /\ th.fd # 0 /\ name[k][f] = th.fd /\ th.good /\ th.at \in 0 .. Pieces - 1
         /\ Prefix(node[th.fd], th.at)
    /\ l \in {"rundot", "undot", "made"} \/ (l = "send" /\ r \in Diagrams \cup Zips) =>
         name[k][f] # 0 /\ node[name[k][f]] = Whole
    /\ l \in {"unlink", "sending"} =>
         th.fd # 0 /\ th.size = Pieces /\ node[th.fd] = Whole

AloneInv == \A t \in Threads : Busy(t) /\ thread[t].alone => Going(thread[t])

IInv == ThreadType /\ FileType /\ FileInv /\ OwnInv /\ LeftInv /\ ApartInv /\ AloneInv

-----------------------------------------------------------------------------
(* The names of files.                                                     *)

LEMMA FilesDiffer ==
    /\ MadeNames = {"signals.svg", "tasks.svg", "main.dsp-sig.dot", "main.dsp.dot",
                    "temp_svg.zip", "temp_webapp.zip"}
    /\ \A r \in Diagrams : DotFile(r) = IF r = "signals.svg" THEN "main.dsp-sig.dot"
                                        ELSE "main.dsp.dot"
    /\ \A r \in Zips : TempZip(r) = IF r = "svg.zip" THEN "temp_svg.zip"
                                    ELSE "temp_webapp.zip"
BY DEF MadeNames, Diagrams, Zips, DotFile, TempZip

FilesOf(request) ==
    IF request \in Diagrams THEN {DotFile(request), request}
    ELSE IF request \in Zips THEN {TempZip(request)} ELSE {}

LEMMA FileTells ==
    /\ \A r, s \in AllRequests : FilesOf(r) \cap FilesOf(s) # {} => r = s
    /\ \A r \in AllRequests : FilesOf(r) \subseteq MadeNames
    /\ \A r \in AllRequests : FilesOf(r) # {} => r \in Artefact(r)
    /\ \A r \in {"webapp", "webapp.zip", "asset"}, s \in {"webapp", "webapp.zip"} :
         "webapp" \in Artefact(r) \cap Artefact(s)
<1>1. \A r \in AllRequests :
        FilesOf(r) = CASE r = "signals.svg" -> {"main.dsp-sig.dot", "signals.svg"}
                       [] r = "tasks.svg" -> {"main.dsp.dot", "tasks.svg"}
                       [] r = "svg.zip" -> {"temp_svg.zip"}
                       [] r = "webapp.zip" -> {"temp_webapp.zip"}
                       [] OTHER -> {}
  BY DEF FilesOf, AllRequests, Diagrams, Zips, DotFile, TempZip
<1>2. \A r \in AllRequests :
        Artefact(r) = CASE r \in {"webapp", "asset"} -> {"webapp"}
                        [] r = "webapp.zip" -> {"webapp", "webapp.zip"}
                        [] r = "generated.cpp" -> {}
                        [] OTHER -> {r}
  BY DEF Artefact
<1>3. AllRequests = {"svg.zip", "webapp.zip", "signals.svg", "tasks.svg", "webapp",
                     "asset", "generated.cpp"}
  BY DEF AllRequests
<1>4. \A r, s \in AllRequests : FilesOf(r) \cap FilesOf(s) # {} => r = s
  BY <1>1, <1>3
<1>5. \A r \in AllRequests : FilesOf(r) \subseteq MadeNames
  BY <1>1, <1>3, FilesDiffer
<1>6. \A r \in AllRequests : FilesOf(r) # {} => r \in Artefact(r)
  BY <1>1, <1>2, <1>3
<1>7. \A r \in {"webapp", "webapp.zip", "asset"}, s \in {"webapp", "webapp.zip"} :
         "webapp" \in Artefact(r) \cap Artefact(s)
  BY <1>2, <1>3
<1> QED
  BY <1>4, <1>5, <1>6, <1>7

(* A request has open, or writes, one of its own files.                    *)
LEMMA FileIsOwn ==
    ASSUME NEW th, ThreadOK(th),
           \/ th.pc \in Holding \cup {"rundot", "undot", "made"}
           \/ th.pc = "send" /\ th.request \in Diagrams \cup Zips
    PROVE  FileOf(th) \in FilesOf(th.request) /\ FileOf(th) \in MadeNames
<1>1. th.request \in Diagrams \cup Zips /\ (th.pc \in {"faust", "rundot"} => th.request \in Diagrams)
  BY DEF ThreadOK, Holding, DotPlaces, ZipPlaces
<1>2. \A r \in Diagrams : r \notin Zips
  BY DEF Diagrams, Zips
<1>3. FileOf(th) \in FilesOf(th.request)
  BY <1>1, <1>2 DEF FileOf, FileAt, FilesOf
<1>4. \A r \in Diagrams \cup Zips : r \in AllRequests
  BY DEF Diagrams, Zips, AllRequests
<1> QED
  BY <1>1, <1>3, <1>4, FileTells

-----------------------------------------------------------------------------
(* There is always a node that nothing stands for.                         *)

LEMMA ImageCount ==
    ASSUME NEW S, IsFiniteSet(S), NEW f, NEW T, T = {f[x] : x \in S}
    PROVE  IsFiniteSet(T) /\ Cardinality(T) <= Cardinality(S)
<1> DEFINE g == [x \in S |-> f[x]]
<1>1. g \in [S -> T] /\ \A y \in T : \E x \in S : g[x] = y
  OBVIOUS
<1>2. g \in Surjection(S, T)
  BY <1>1 DEF Surjection
<1> HIDE DEF g
<1> QED
  BY <1>2, FS_Surjection

LEMMA FreeNodeIs ==
    ASSUME ThreadType, NEW t \in Threads, thread[t].fd = 0,
           NEW k \in Keys, NEW n \in MadeNames, name[k][n] = 0
    PROVE  FreeNode \in Nodes /\ FreeNode \notin Held \cup Linked
<1> DEFINE P == Keys \X MadeNames
           Q == P \ {<<k, n>>}
           U == Threads \ {t}
           h == [u \in Threads |-> thread[u].fd]
           l == [p \in P |-> name[p[1]][p[2]]]
           H == {h[u] : u \in U}
           L == {l[p] : p \in Q}
           M == Cardinality(MadeNames) * Cardinality(Keys)
<1>1. IsFiniteSet(MadeNames)
  <2>1. IsFiniteSet({}) /\ \A S, x : IsFiniteSet(S) => IsFiniteSet(S \cup {x})
    BY FS_EmptySet, FS_AddElement
  <2>2. MadeNames = {} \cup {"signals.svg"} \cup {"tasks.svg"} \cup {"main.dsp-sig.dot"}
           \cup {"main.dsp.dot"} \cup {"temp_svg.zip"} \cup {"temp_webapp.zip"}
    BY FilesDiffer
  <2> QED
    BY <2>1, <2>2
<1>2. /\ IsFiniteSet(P) /\ Cardinality(P) = M /\ M \in Nat
      /\ Cardinality(Threads) \in Nat
  <2>1. /\ IsFiniteSet(P)
        /\ Cardinality(P) = Cardinality(Keys) * Cardinality(MadeNames)
    BY <1>1, FiniteAssumption, FS_Product
  <2>2. Cardinality(Keys) \in Nat /\ Cardinality(MadeNames) \in Nat
        /\ Cardinality(Threads) \in Nat
    BY <1>1, FiniteAssumption, FS_CardinalityType
  <2>3. \A a, b \in Nat : a * b = b * a /\ a * b \in Nat
    OBVIOUS
  <2> QED
    BY <2>1, <2>2, <2>3
<1>3. <<k, n>> \in P
  OBVIOUS
<1>4. IsFiniteSet(Q) /\ Cardinality(Q) = M - 1
  <2> HIDE DEF P, M
  <2> QED
    BY <1>2, <1>3, FS_RemoveElement
<1>5. IsFiniteSet(U) /\ Cardinality(U) = Cardinality(Threads) - 1
  BY FiniteAssumption, FS_RemoveElement
<1>6. IsFiniteSet(H) /\ Cardinality(H) <= Cardinality(U)
  <2> HIDE DEF U, h
  <2> QED
    BY <1>5, ImageCount
<1>7. IsFiniteSet(L) /\ Cardinality(L) <= Cardinality(Q)
  <2> HIDE DEF Q, l
  <2> QED
    BY <1>4, ImageCount
<1>8. IsFiniteSet(H \cup L) /\ Cardinality(H \cup L) <= M + Cardinality(Threads) - 2
  <2> HIDE DEF H, L, M, U, Q
  <2>1. IsFiniteSet(H \cap L) /\ Cardinality(H \cap L) \in Nat
        /\ Cardinality(H) \in Nat /\ Cardinality(L) \in Nat
    BY <1>6, <1>7, FS_Intersection, FS_CardinalityType
  <2>2. /\ IsFiniteSet(H \cup L)
        /\ Cardinality(H \cup L) = Cardinality(H) + Cardinality(L) - Cardinality(H \cap L)
    BY <1>6, <1>7, FS_Union
  <2> QED
    BY <1>2, <1>4, <1>5, <1>6, <1>7, <2>1, <2>2
<1>9. IsFiniteSet(Nodes) /\ Cardinality(Nodes) = M + Cardinality(Threads) /\ Nodes \subseteq Nat
  <2>1. Nodes = 1 .. (M + Cardinality(Threads))
    BY DEF Nodes
  <2> HIDE DEF M
  <2>2. M + Cardinality(Threads) \in Nat
    BY <1>2
  <2>3. 1 .. (M + Cardinality(Threads)) \subseteq Nat
    OBVIOUS
  <2> QED
    BY <2>1, <2>2, <2>3, CountInterval
<1>10. ~(Nodes \subseteq H \cup L)
  <2> HIDE DEF H, L, M
  <2> SUFFICES ASSUME Nodes \subseteq H \cup L PROVE FALSE
    OBVIOUS
  <2>1. Cardinality(Nodes) <= Cardinality(H \cup L) /\ Cardinality(H \cup L) \in Nat
    BY <1>8, FS_Subset, FS_CardinalityType
  <2> QED
    BY <1>2, <1>8, <1>9, <2>1
<1>11. Held \subseteq H \cup {0}
  BY DEF Held
<1>12. Linked \subseteq L \cup {0}
  <2>1. ASSUME NEW j \in Keys, NEW m \in MadeNames PROVE name[j][m] \in L \cup {0}
    <3>1. CASE <<j, m>> = <<k, n>>
      BY <3>1
    <3>2. CASE <<j, m>> # <<k, n>>
      <4>1. <<j, m>> \in Q /\ l[<<j, m>>] = name[j][m]
        BY <3>2
      <4> HIDE DEF Q, l
      <4> QED
        BY <4>1
    <3> QED
      BY <3>1, <3>2
  <2> HIDE DEF L
  <2> QED
    BY <2>1 DEF Linked
<1>13. 0 \notin Nodes
  BY DEF Nodes
<1> DEFINE F == Nodes \ (Held \cup Linked)
<1>14. F # {} /\ F \in SUBSET Nat
  <2> HIDE DEF H, L, M
  <2> QED
    BY <1>9, <1>10, <1>11, <1>12, <1>13
<1>15. \E m \in F : \A i \in F : m <= i
  <2> HIDE DEF F
  <2> QED
    BY <1>14, SmallestExists
<1>16. FreeNode \in F
  BY <1>15 DEF FreeNode, Min
<1> QED
  BY <1>16

-----------------------------------------------------------------------------
(* What a step of a request may change.                                    *)

OthersSame(t) == \A u \in Threads : u # t => thread'[u] = thread[u]

\* The thread stays in its request, or ends it.
Stays(t) ==
    /\ Busy(t) /\ OthersSame(t)
    /\ thread' = [u \in Threads |-> thread'[u]] /\ ThreadOK(thread'[t])
    /\ thread'[t].pc # "idle" =>
         /\ thread'[t].key = Key(t) /\ thread'[t].request = Request(t)
         /\ thread'[t].lost = thread[t].lost
         /\ thread'[t].alone => thread[t].alone
    /\ thread'[t].pc = "webwrite" => At(t, "webwrite") \/ stage[Key(t)] = "ready"

\* It has open what it had, or one of its own files.
FdFrom(t) ==
    \/ thread'[t].fd = 0
    \/ thread'[t].fd = thread[t].fd /\ FileOf(thread'[t]) = FileOf(thread[t])
    \/ thread'[t].fd = name'[Key(t)][FileOf(thread'[t])]

\* A file of its own is removed, or created as a node nobody had.
NamesFrom(t) ==
    \A k \in Keys, n \in MadeNames : name'[k][n] # name[k][n] =>
      /\ k = Key(t) /\ n \in FilesOf(Request(t))
      /\ \/ name'[k][n] = 0
         \/ /\ name'[k][n] \notin Held \cup Linked
            /\ name'[k][n] = thread'[t].fd /\ n = FileOf(thread'[t])
            /\ thread'[t].pc \in {"read", "faust", "dot"}
            /\ stage[k] # "none" /\ (n \in Programmed => stage[k] = "ready")

NodesFrom(t) ==
    \A n \in Nodes : node'[n] # node[n] =>
      \/ n \in {thread[t].fd, thread'[t].fd}
      \/ /\ \A u \in Threads : thread'[u].fd # n
         /\ \A k \in Keys, m \in MadeNames : name'[k][m] # n

WebFrom(t) ==
    \A k \in Keys : webapp'[k] # webapp[k] =>
      k = Key(t) /\ Request(t) \in {"webapp", "webapp.zip"} /\ stage[k] = "ready"

\* It does not leave its temporary files behind, or says so.
LeftFrom(t) ==
    LET k == Key(t)  r == Request(t) IN
    /\ thread[t].pc \in Dotting =>
         thread'[t].pc \in Dotting \/ name'[k][DotFile(r)] = 0
    /\ thread[t].pc \in Zipping /\ r \in Zips =>
         \/ thread'[t].pc \in Zipping
         \/ name'[k][TempZip(r)] = 0
         \/ <<k, TempZip(r)>> \in leftover'
    /\ \A j \in Keys, n \in MadeNames :
         <<j, n>> \in leftover /\ <<j, n>> \notin leftover' => name'[j][n] = 0

Moves(t) ==
    /\ Stays(t) /\ FdFrom(t) /\ NamesFrom(t) /\ NodesFrom(t) /\ WebFrom(t) /\ LeftFrom(t)
    /\ FileType' /\ stage' = stage

LEMMA MovesThreads ==
    ASSUME ThreadType, NEW t \in Threads, Moves(t) PROVE ThreadType'
BY DEF ThreadType, Moves, Stays, OthersSame

LEMMA MovesFiles ==
    ASSUME ThreadType, FileType, FileInv, NEW t \in Threads, Moves(t) PROVE FileInv'
<1>1. ASSUME NEW k \in Keys, NEW n \in MadeNames, name'[k][n] # 0
      PROVE  /\ stage[k] # "none" /\ (n \in Programmed => stage[k] = "ready")
             /\ \A j \in Keys, m \in MadeNames : name'[j][m] = name'[k][n] => j = k /\ m = n
  <2>1. stage[k] # "none" /\ (n \in Programmed => stage[k] = "ready")
    BY <1>1 DEF FileInv, Moves, NamesFrom
  <2>2. ASSUME NEW j \in Keys, NEW m \in MadeNames, name'[j][m] = name'[k][n]
        PROVE  j = k /\ m = n
    <3>1. \A i \in Keys, o \in MadeNames : name[i][o] \in Linked
      BY DEF Linked
    <3>2. CASE name'[j][m] = name[j][m] /\ name'[k][n] = name[k][n]
      <4>1. name[k][n] # 0 /\ name[j][m] = name[k][n]
        BY <1>1, <2>2, <3>2
      <4> QED
        BY <4>1 DEF FileInv
    <3>3. CASE name'[j][m] # name[j][m] \/ name'[k][n] # name[k][n]
      BY <1>1, <2>2, <3>1, <3>3 DEF Moves, NamesFrom
    <3> QED
      BY <3>2, <3>3
  <2> QED
    BY <2>1, <2>2
<1>2. \A k \in Keys : webapp'[k] # {} => stage[k] = "ready"
  BY DEF FileInv, Moves, WebFrom
<1>3. ASSUME NEW u \in Threads, thread'[u].pc = "webwrite", ~thread'[u].lost
      PROVE  stage[thread'[u].key] = "ready"
  <2>1. CASE u = t
    BY <1>3, <2>1 DEF FileInv, Moves, Stays, At
  <2>2. CASE u # t
    BY <1>3, <2>2 DEF FileInv, Moves, Stays, OthersSame, At, Key
  <2> QED
    BY <2>1, <2>2
<1> QED
  BY <1>1, <1>2, <1>3 DEF FileInv, Moves, At, Key

LEMMA MovesOwn ==
    ASSUME ThreadType, FileType, FileInv, OwnInv, NEW t \in Threads, Moves(t) PROVE OwnInv'
<1> PICK th : th = thread'[t]
  OBVIOUS
<1>1. ThreadOK(th) /\ Busy(t) /\ Key(t) \in Keys /\ Request(t) \in AllRequests
  BY DEF Moves, Stays, ThreadType, ThreadOK, Busy, Key, Request
<1>2. /\ \A u \in Threads : thread[u].fd \in Held
      /\ \A k \in Keys, n \in MadeNames : name[k][n] \in Linked
  BY DEF Held, Linked
\* What is open belongs to one request of one session.
<1>3. ASSUME NEW u \in Threads, thread[u].fd # 0
      PROVE  FileOf(thread[u]) \in FilesOf(Request(u)) /\ Request(u) \in AllRequests
  <2>1. ThreadOK(thread[u]) /\ thread[u].pc \in Holding
    BY <1>3 DEF ThreadType, ThreadOK
  <2>2. Request(u) \in AllRequests
    BY <2>1 DEF ThreadOK, Holding, Request
  <2> QED
    BY <2>1, <2>2, FileIsOwn DEF Request
<1>4. ASSUME th.fd # 0
      PROVE  /\ th.key = Key(t) /\ th.request = Request(t)
             /\ FileOf(th) \in FilesOf(Request(t)) /\ FileOf(th) \in MadeNames
  <2>1. th.pc \in Holding
    BY <1>1, <1>4 DEF ThreadOK
  <2>2. th.key = Key(t) /\ th.request = Request(t)
    BY <2>1 DEF Moves, Stays, Holding
  <2> QED
    BY <1>1, <2>1, <2>2, FileIsOwn
\* The names of what t has open are its own.
<1>5. ASSUME th.fd # 0, NEW k \in Keys, NEW n \in MadeNames, name'[k][n] = th.fd
      PROVE  k = Key(t) /\ n = FileOf(th)
  <2>1. FileOf(th) \in MadeNames
    BY <1>4, <1>5
  <2>2. CASE th.fd = thread[t].fd /\ FileOf(th) = FileOf(thread[t])
    <3>1. name'[k][n] = name[k][n]
      BY <1>2, <1>5, <2>2 DEF Moves, NamesFrom
    <3> QED
      BY <1>5, <2>2, <3>1 DEF OwnInv
  <2>3. CASE th.fd = name'[Key(t)][FileOf(th)]
    <3>1. FileInv'
      BY MovesFiles
    <3> QED
      BY <1>1, <1>5, <2>1, <2>3, <3>1 DEF FileInv
  <2> QED
    BY <1>5, <2>2, <2>3 DEF Moves, FdFrom
\* Another thread that has the same open does so for the same request.
<1>6. ASSUME th.fd # 0, NEW u \in Threads, u # t, thread[u].fd = th.fd
      PROVE  Key(u) = Key(t) /\ Request(u) = Request(t)
  <2>1. CASE th.fd = thread[t].fd
    BY <1>6, <2>1 DEF OwnInv
  <2>2. CASE th.fd = name'[Key(t)][FileOf(th)]
    <3>1. name[Key(t)][FileOf(th)] = thread[u].fd
      BY <1>1, <1>2, <1>4, <1>6, <2>2 DEF Moves, NamesFrom
    <3>2. Key(t) = Key(u) /\ FileOf(th) = FileOf(thread[u])
      BY <1>1, <1>4, <1>6, <3>1 DEF OwnInv
    <3> QED
      BY <1>1, <1>3, <1>4, <1>6, <3>2, FileTells
  <2> QED
    BY <1>6, <2>1, <2>2 DEF Moves, FdFrom
<1>7. ASSUME NEW u \in Threads, u # t, thread[u].fd # 0,
             NEW k \in Keys, NEW n \in MadeNames, name'[k][n] = thread[u].fd
      PROVE  k = Key(u) /\ n = FileOf(thread[u])
  <2>1. name'[k][n] = name[k][n]
    BY <1>2, <1>7 DEF Moves, NamesFrom
  <2> QED
    BY <1>7, <2>1 DEF OwnInv
<1>8. \A u \in Threads : u # t => thread'[u] = thread[u]
  BY DEF Moves, Stays, OthersSame
<1> SUFFICES ASSUME NEW u \in Threads, thread'[u].fd # 0
             PROVE  /\ \A k \in Keys, n \in MadeNames : name'[k][n] = thread'[u].fd =>
                         k = thread'[u].key /\ n = FileOf(thread'[u])
                    /\ \A v \in Threads : thread'[v].fd = thread'[u].fd =>
                         /\ thread'[v].key = thread'[u].key
                         /\ thread'[v].request = thread'[u].request
  BY DEF OwnInv, Key, Request
<1>9. CASE u = t
  BY <1>4, <1>5, <1>6, <1>8, <1>9 DEF Key, Request
<1>10. CASE u # t
  <2>1. \A k \in Keys, n \in MadeNames : name'[k][n] = thread'[u].fd =>
          k = thread'[u].key /\ n = FileOf(thread'[u])
    BY <1>7, <1>8, <1>10 DEF Key
  <2>2. ASSUME NEW v \in Threads, thread'[v].fd = thread'[u].fd
        PROVE  thread'[v].key = thread'[u].key /\ thread'[v].request = thread'[u].request
    <3>1. CASE v = t
      BY <1>4, <1>6, <1>8, <1>10, <2>2, <3>1 DEF Key, Request
    <3>2. CASE v # t
      BY <1>8, <1>10, <2>2, <3>2 DEF OwnInv, Key, Request
    <3> QED
      BY <3>1, <3>2
  <2> QED
    BY <2>1, <2>2
<1> QED
  BY <1>9, <1>10

LEMMA MovesLeft ==
    ASSUME ThreadType, FileType, LeftInv, NEW t \in Threads, Moves(t) PROVE LeftInv'
<1>1. \A u \in Threads : u # t => thread'[u] = thread[u]
  BY DEF Moves, Stays, OthersSame
<1>2. ThreadOK(thread[t]) /\ ThreadOK(thread'[t])
  BY DEF Moves, Stays, ThreadType
<1>3. Key(t) \in Keys /\ Request(t) \in AllRequests
  BY DEF Moves, Stays, ThreadType, ThreadOK, Busy, Key, Request
<1>4. ASSUME NEW k \in Keys, NEW r \in Diagrams, name'[k][DotFile(r)] # 0
      PROVE  \E u \in Threads : /\ thread'[u].pc \in Dotting
                                /\ thread'[u].key = k /\ thread'[u].request = r
  <2> PICK n : n = DotFile(r)
    OBVIOUS
  <2>1. n \in MadeNames
    BY FilesDiffer
  <2>2. CASE name'[k][n] = name[k][n]
    <3>1. PICK u \in Threads : thread[u].pc \in Dotting /\ Key(u) = k /\ Request(u) = r
      BY <1>4, <2>2 DEF LeftInv
    <3>2. CASE u = t
      <4>1. thread'[t].pc \in Dotting
        BY <1>4, <3>1, <3>2 DEF Moves, LeftFrom
      <4>2. thread'[t].key = k /\ thread'[t].request = r
        BY <3>1, <3>2, <4>1 DEF Moves, Stays, Dotting
      <4> QED
        BY <4>1, <4>2
    <3>3. CASE u # t
      BY <1>1, <3>1, <3>3 DEF Key, Request
    <3> QED
      BY <3>2, <3>3
  <2>3. CASE name'[k][n] # name[k][n]
    <3>1. /\ k = Key(t) /\ n = FileOf(thread'[t])
          /\ thread'[t].pc \in {"read", "faust", "dot"}
      BY <1>4, <2>1, <2>3 DEF Moves, NamesFrom
    <3>2. thread'[t].key = k /\ thread'[t].request = Request(t)
      BY <3>1 DEF Moves, Stays
    <3>3. thread'[t].pc = "faust" /\ thread'[t].request = r
      <4>1. thread'[t].request \in Diagrams \cup Zips
        BY <1>2, <3>1 DEF ThreadOK, DotPlaces, ZipPlaces
      <4>2. FileAt(thread'[t].pc, thread'[t].request) = DotFile(r)
        BY <3>1 DEF FileOf
      <4>3. thread'[t].pc = "faust" => thread'[t].request \in Diagrams
        BY <1>2 DEF ThreadOK, DotPlaces
      <4> QED
        BY <3>1, <4>1, <4>2, <4>3, FilesDiffer DEF FileAt, Diagrams, Zips
    <3> QED
      BY <3>2, <3>3 DEF Dotting
  <2> QED
    BY <2>2, <2>3
<1>5. ASSUME NEW k \in Keys, NEW r \in Zips, name'[k][TempZip(r)] # 0
      PROVE  \/ <<k, TempZip(r)>> \in leftover'
             \/ \E u \in Threads : /\ thread'[u].pc \in Zipping
                                   /\ thread'[u].key = k /\ thread'[u].request = r
  <2> PICK n : n = TempZip(r)
    OBVIOUS
  <2>1. n \in MadeNames
    BY FilesDiffer
  <2>2. CASE name'[k][n] = name[k][n]
    <3>1. CASE <<k, n>> \in leftover
      BY <1>5, <2>1, <3>1 DEF Moves, LeftFrom
    <3>2. CASE <<k, n>> \notin leftover
      <4>1. PICK u \in Threads : thread[u].pc \in Zipping /\ Key(u) = k /\ Request(u) = r
        BY <1>5, <2>2, <3>2 DEF LeftInv
      <4>2. CASE u = t
        <5>1. CASE thread'[t].pc \in Zipping
          <6>1. thread'[t].key = k /\ thread'[t].request = r
            BY <4>1, <4>2, <5>1 DEF Moves, Stays, Zipping
          <6> QED
            BY <5>1, <6>1
        <5>2. CASE thread'[t].pc \notin Zipping
          BY <1>5, <4>1, <4>2, <5>2 DEF Moves, LeftFrom
        <5> QED
          BY <5>1, <5>2
      <4>3. CASE u # t
        BY <1>1, <4>1, <4>3 DEF Key, Request
      <4> QED
        BY <4>2, <4>3
    <3> QED
      BY <3>1, <3>2
  <2>3. CASE name'[k][n] # name[k][n]
    <3>1. /\ k = Key(t) /\ n = FileOf(thread'[t])
          /\ thread'[t].pc \in {"read", "faust", "dot"}
      BY <1>5, <2>1, <2>3 DEF Moves, NamesFrom
    <3>2. thread'[t].key = k /\ thread'[t].request = Request(t)
      BY <3>1 DEF Moves, Stays
    <3>3. thread'[t].pc = "read" /\ thread'[t].request = r
      <4>1. thread'[t].pc = "read" => thread'[t].request \in Zips
        BY <1>2 DEF ThreadOK, ZipPlaces
      <4>2. FileAt(thread'[t].pc, thread'[t].request) = TempZip(r)
        BY <3>1 DEF FileOf
      <4>3. thread'[t].pc \in {"faust", "dot"} => thread'[t].request \in Diagrams
        BY <1>2 DEF ThreadOK, DotPlaces
      <4> QED
        BY <3>1, <4>1, <4>2, <4>3, FilesDiffer DEF FileAt, Diagrams, Zips
    <3> QED
      BY <3>2, <3>3 DEF Zipping
  <2> QED
    BY <2>2, <2>3
<1> QED
  BY <1>4, <1>5 DEF LeftInv, Key, Request

LEMMA MovesApart ==
    ASSUME ApartInv, NEW t \in Threads, Moves(t) PROVE ApartInv'
<1>1. \A u \in Threads : thread'[u].pc # "idle" =>
        /\ Busy(u) /\ thread'[u].key = Key(u) /\ thread'[u].request = Request(u)
        /\ thread'[u].alone => thread[u].alone
  BY DEF Moves, Stays, OthersSame, Busy, Key, Request
<1> QED
  BY <1>1 DEF ApartInv, Busy, Key, Request

(* What a request that is alone relies on, no other request changes.       *)
LEMMA MovesOthers ==
    ASSUME IInv, NEW t \in Threads, Moves(t), NEW u \in Threads, u # t, Busy(u),
           thread[u].alone
    PROVE  Going(thread[u])'
<1> PICK th, k, r, f :
       th = thread[u] /\ k = Key(u) /\ r = Request(u) /\ f = FileOf(thread[u])
  OBVIOUS
<1>1. thread'[u] = thread[u] /\ Going(th) /\ ThreadOK(th) /\ ThreadOK(thread[t])
  BY DEF IInv, AloneInv, ThreadType, Moves, Stays, OthersSame
<1>2. /\ k = th.key /\ r = th.request /\ f = FileOf(th)
      /\ k \in Keys /\ r \in AllRequests /\ Key(t) \in Keys /\ Request(t) \in AllRequests
  BY <1>1 DEF ThreadOK, Moves, Stays, Busy, Key, Request
<1>3. Key(t) = k => Artefact(r) \cap Artefact(Request(t)) = {}
  BY DEF IInv, ApartInv, Moves, Stays
<1>4. stage' = stage
  BY DEF Moves
<1>5. r \in {"webapp", "webapp.zip", "asset"} => webapp'[k] = webapp[k]
  BY <1>2, <1>3, FileTells DEF Moves, WebFrom
<1>6. Key(t) = k => FilesOf(r) \cap FilesOf(Request(t)) = {}
  <2> SUFFICES ASSUME Key(t) = k, FilesOf(r) \cap FilesOf(Request(t)) # {} PROVE FALSE
    OBVIOUS
  <2>1. r = Request(t) /\ r \in Artefact(r)
    BY <1>2, FileTells
  <2> QED
    BY <1>3, <2>1
<1>7. ASSUME NEW n \in FilesOf(r)
      PROVE  n \in MadeNames /\ name'[k][n] = name[k][n]
  <2>1. n \in MadeNames
    BY <1>2, <1>7, FileTells
  <2> QED
    BY <1>2, <1>6, <1>7, <2>1 DEF Moves, NamesFrom
\* What the step writes to is no node of this request.
<1>8. ASSUME NEW n \in FilesOf(r), name[k][n] # 0
      PROVE  node'[name[k][n]] = node[name[k][n]]
  <2>1. n \in MadeNames /\ name'[k][n] = name[k][n] /\ name[k][n] \in Nodes
    BY <1>2, <1>7, <1>8 DEF IInv, FileType
  <2>2. name[k][n] # thread[t].fd
    <3> SUFFICES ASSUME name[k][n] = thread[t].fd PROVE FALSE
      OBVIOUS
    <3>1. k = Key(t) /\ n = FileOf(thread[t])
      BY <1>2, <1>8, <2>1 DEF IInv, OwnInv
    <3>2. n \in FilesOf(Request(t))
      BY <1>1, <1>8, <3>1, FileIsOwn DEF ThreadOK, Request
    <3> QED
      BY <1>6, <3>1, <3>2
  <2>3. name[k][n] # thread'[t].fd
    <3> SUFFICES ASSUME name'[k][n] = thread'[t].fd PROVE FALSE
      BY <2>1
    <3>1. OwnInv' /\ ThreadOK(thread'[t]) /\ thread'[t].fd # 0
      BY <1>8, <2>1, MovesOwn DEF IInv, Moves, Stays
    <3>2. k = thread'[t].key /\ n = FileOf(thread'[t])
      BY <1>2, <2>1, <3>1 DEF OwnInv, Key
    <3>3. n \in FilesOf(thread'[t].request) /\ thread'[t].pc \in Holding
      BY <3>1, <3>2, FileIsOwn DEF ThreadOK
    <3>4. k = Key(t) /\ n \in FilesOf(Request(t))
      BY <3>2, <3>3 DEF Moves, Stays, Holding
    <3> QED
      BY <1>6, <3>4
  <2> QED
    BY <1>2, <2>1, <2>2, <2>3 DEF Moves, NodesFrom
<1>9. ASSUME th.fd # 0
      PROVE  node'[th.fd] = node[th.fd]
  <2>1. th.fd \in Nodes /\ thread'[u].fd = th.fd
    BY <1>1, <1>9 DEF ThreadOK
  <2>2. FilesOf(r) # {}
    BY <1>1, <1>2, <1>9, FileIsOwn DEF ThreadOK
  <2>3. ~(k = Key(t) /\ r = Request(t))
    BY <1>6, <2>2
  <2>4. thread[t].fd # th.fd
    BY <1>9, <2>3 DEF IInv, OwnInv
  <2>5. thread'[t].fd # th.fd
    <3> SUFFICES ASSUME thread'[t].fd = th.fd PROVE FALSE
      OBVIOUS
    <3>1. OwnInv' /\ ThreadOK(thread'[t])
      BY MovesOwn DEF IInv, Moves, Stays
    <3>2. thread'[t].key = k /\ thread'[t].request = r
      BY <1>1, <1>2, <1>9, <3>1 DEF OwnInv, Key, Request
    <3>3. thread'[t].pc \in Holding
      BY <1>9, <3>1 DEF ThreadOK
    <3>4. thread'[t].key = Key(t) /\ thread'[t].request = Request(t)
      BY <3>3 DEF Moves, Stays, Holding
    <3> QED
      BY <2>3, <3>2, <3>4
  <2> QED
    BY <2>1, <2>4, <2>5 DEF Moves, NodesFrom
<1>10. ASSUME th.pc = "begin" PROVE ~Spoiled(k, r)'
  <2>1. ~Spoiled(k, r)
    BY <1>1, <1>2, <1>10 DEF Going
  <2>2. r \in Diagrams => r \in FilesOf(r)
    BY DEF FilesOf
  <2>3. "webapp" \in Artefact(r) => r \in {"webapp", "webapp.zip", "asset"}
    BY <1>2 DEF Artefact, AllRequests
  <2>4. CASE r \in Diagrams
    BY <1>5, <1>7, <1>8, <2>1, <2>2, <2>3, <2>4 DEF Spoiled
  <2>5. CASE r \notin Diagrams
    BY <1>5, <2>1, <2>3, <2>5 DEF Spoiled
  <2> QED
    BY <2>4, <2>5
<1>11. /\ th.pc = "index" => webapp'[k] \in {{}, Piece}
       /\ th.pc \in {"find", "runweb"} /\ r \notin Diagrams => webapp'[k] = {}
       /\ th.pc \in {"webmade", "webdir"} => webapp'[k] = Piece
       /\ th.pc \in {"zip", "read"} /\ r = "webapp.zip" => webapp'[k] = Piece
       /\ th.pc = "send" /\ r \in {"webapp", "asset"} => webapp'[k] = Piece
  <2>1. /\ th.pc \in {"index", "webmade", "runweb"} => r \in {"webapp", "webapp.zip"}
        /\ th.pc = "find" /\ r \notin Diagrams => r \in {"webapp", "webapp.zip"}
        /\ th.pc = "webdir" => r = "webapp.zip"
    BY <1>1, <1>2 DEF ThreadOK, WebPlaces
  <2> QED
    BY <1>1, <1>2, <1>5, <2>1 DEF Going
<1>12. th.pc \in {"sources", "find", "runfaust"} /\ r \in Diagrams => name'[k][r] = 0
  <2>1. r \in Diagrams => r \in FilesOf(r)
    BY DEF FilesOf
  <2> QED
    BY <1>1, <1>2, <1>7, <2>1 DEF Going
<1>13. ASSUME th.pc \in Writing
       PROVE  /\ th.fd # 0 /\ name'[k][f] = th.fd /\ th.good /\ th.at \in 0 .. Pieces - 1
              /\ Prefix(node'[th.fd], th.at)
  <2>1. f \in FilesOf(r)
    BY <1>1, <1>2, <1>13, FileIsOwn DEF Writing, Holding
  <2>2. /\ th.fd # 0 /\ name[k][f] = th.fd /\ th.good /\ th.at \in 0 .. Pieces - 1
        /\ Prefix(node[th.fd], th.at)
    BY <1>1, <1>2, <1>13 DEF Going
  <2> QED
    BY <1>7, <1>9, <2>1, <2>2
<1>14. ASSUME \/ th.pc \in {"rundot", "undot", "made"}
              \/ th.pc = "send" /\ r \in Diagrams \cup Zips
       PROVE  name'[k][f] # 0 /\ node'[name'[k][f]] = Whole
  <2>1. f \in FilesOf(r)
    BY <1>1, <1>2, <1>14, FileIsOwn
  <2>2. name[k][f] # 0 /\ node[name[k][f]] = Whole
    BY <1>1, <1>2, <1>14 DEF Going
  <2> QED
    BY <1>7, <1>8, <2>1, <2>2
<1>15. th.pc \in {"unlink", "sending"} =>
         th.fd # 0 /\ th.size = Pieces /\ node'[th.fd] = Whole
  BY <1>1, <1>9 DEF Going
<1>16. /\ ~th.lost /\ th.pc # "undotfailed"
       /\ th.pc \in Ready => stage'[k] = "ready"
       /\ th.pc \in {"index", "find"} => stage'[k] # "none"
  BY <1>1, <1>2, <1>4 DEF Going
<1> HIDE DEF Ready, Writing
<1> QED
  BY <1>1, <1>2, <1>10, <1>11, <1>12, <1>13, <1>14, <1>15, <1>16 DEF Going

LEMMA MovesInv ==
    ASSUME IInv, NEW t \in Threads, Moves(t),
           thread'[t].pc # "idle" /\ thread'[t].alone => Going(thread[t])'
    PROVE  IInv'
<1>1. AloneInv'
  <2> SUFFICES ASSUME NEW u \in Threads, thread'[u].pc # "idle", thread'[u].alone
               PROVE  Going(thread[u])'
    BY DEF AloneInv, Busy
  <2>1. CASE u = t
    BY <2>1
  <2>2. CASE u # t
    <3>1. Busy(u) /\ thread[u].alone
      BY <2>2 DEF Moves, Stays, OthersSame, Busy
    <3> QED
      BY <2>2, <3>1, MovesOthers
  <2> QED
    BY <2>1, <2>2
<1>2. ThreadType' /\ FileType' /\ FileInv' /\ OwnInv' /\ LeftInv' /\ ApartInv'
  BY MovesThreads, MovesFiles, MovesOwn, MovesLeft, MovesApart DEF IInv, Moves
<1> QED
  BY <1>1, <1>2 DEF IInv

-----------------------------------------------------------------------------
(* What each kind of step does to its thread.                              *)

LEMMA GoneTo ==
    ASSUME ThreadType, NEW t \in Threads, NEW location, Goto(t, location)
    PROVE  /\ thread' = [u \in Threads |-> thread'[u]] /\ OthersSame(t)
           /\ Shape(thread'[t])
           /\ thread'[t].pc = location /\ thread'[t].fd = thread[t].fd
           /\ thread'[t].at = thread[t].at /\ thread'[t].size = thread[t].size
           /\ thread'[t].good = thread[t].good /\ thread'[t].lost = thread[t].lost
           /\ thread'[t].alone = thread[t].alone /\ thread'[t].key = thread[t].key
           /\ thread'[t].request = thread[t].request
<1>1. thread'[t] = [pc |-> location, request |-> thread[t].request, key |-> thread[t].key,
                    fd |-> thread[t].fd, at |-> thread[t].at, size |-> thread[t].size,
                    good |-> thread[t].good, lost |-> thread[t].lost,
                    alone |-> thread[t].alone, answer |-> thread[t].answer]
  BY DEF Goto, ThreadType, ThreadOK, Shape
<1>2. thread' = [u \in Threads |-> thread'[u]] /\ OthersSame(t)
  BY DEF Goto, ThreadType, OthersSame
<1> QED
  BY <1>1, <1>2 DEF Shape

LEMMA IsAnswered ==
    ASSUME ThreadType, NEW t \in Threads, NEW code, Answer(t, code)
    PROVE  /\ thread' = [u \in Threads |-> thread'[u]] /\ OthersSame(t)
           /\ Shape(thread'[t]) /\ thread'[t].pc = "idle" /\ thread'[t].fd = 0
           /\ thread'[t].answer = code
<1>1. thread'[t] = [pc |-> "idle", request |-> "none", key |-> "none", fd |-> 0, at |-> 0,
                    size |-> 0, good |-> TRUE, lost |-> FALSE, alone |-> TRUE,
                    answer |-> code]
  BY DEF Answer, ThreadType, Idle
<1>2. thread' = [u \in Threads |-> thread'[u]] /\ OthersSame(t)
  BY DEF Answer, ThreadType, OthersSame
<1> QED
  BY <1>1, <1>2 DEF Shape

(* The updates of a thread.                                                *)
Opens(t, l, n, g) ==
    thread' = [thread EXCEPT ![t].pc = l, ![t].fd = n, ![t].at = 0, ![t].good = g]
Advances(t, i) ==
    thread' = [thread EXCEPT ![t].at = i]
Closes(t, l) ==
    thread' = [thread EXCEPT ![t].pc = l, ![t].at = 0, ![t].fd = 0, ![t].good = TRUE]
OpensToSend(t, l, n, s) ==
    thread' = [thread EXCEPT ![t].pc = l, ![t].fd = n, ![t].size = s]
Fails(t, l) ==
    thread' = [thread EXCEPT ![t].pc = l, ![t].fd = 0, ![t].at = 0, ![t].alone = FALSE]
Lists(t, l, g) ==
    thread' = [thread EXCEPT ![t].pc = l, ![t].good = g]

LEMMA Opened ==
    ASSUME ThreadType, NEW t \in Threads, NEW l, NEW n, NEW g,
           Opens(t, l, n, g)
    PROVE  /\ thread' = [u \in Threads |-> thread'[u]] /\ OthersSame(t) /\ Shape(thread'[t])
           /\ thread'[t].pc = l
           /\ thread'[t].request = thread[t].request
           /\ thread'[t].key = thread[t].key
           /\ thread'[t].fd = n
           /\ thread'[t].at = 0
           /\ thread'[t].size = thread[t].size
           /\ thread'[t].good = g
           /\ thread'[t].lost = thread[t].lost
           /\ thread'[t].alone = thread[t].alone
<1>1. thread'[t] = [pc |-> l, request |-> thread[t].request, key |-> thread[t].key,
                    fd |-> n, at |-> 0, size |-> thread[t].size, good |-> g,
                    lost |-> thread[t].lost, alone |-> thread[t].alone,
                    answer |-> thread[t].answer]
  <2> DEFINE one == [thread EXCEPT ![t].pc = l]
             two == [one EXCEPT ![t].fd = n]
             three == [two EXCEPT ![t].at = 0]
  <2>1. one = [u \in Threads |-> one[u]]
        /\ one[t] = [pc |-> l, request |-> thread[t].request, key |-> thread[t].key,
                     fd |-> thread[t].fd, at |-> thread[t].at,
                     size |-> thread[t].size, good |-> thread[t].good,
                     lost |-> thread[t].lost, alone |-> thread[t].alone,
                     answer |-> thread[t].answer]
    BY DEF ThreadType, ThreadOK, Shape
  <2> HIDE DEF one, Opens
  <2>2. two = [u \in Threads |-> two[u]]
        /\ two[t] = [pc |-> l, request |-> thread[t].request, key |-> thread[t].key,
                     fd |-> n, at |-> thread[t].at, size |-> thread[t].size,
                     good |-> thread[t].good, lost |-> thread[t].lost,
                     alone |-> thread[t].alone, answer |-> thread[t].answer]
    BY <2>1
  <2> HIDE DEF two
  <2>3. three = [u \in Threads |-> three[u]]
        /\ three[t] = [pc |-> l, request |-> thread[t].request, key |-> thread[t].key,
                       fd |-> n, at |-> 0, size |-> thread[t].size,
                       good |-> thread[t].good, lost |-> thread[t].lost,
                       alone |-> thread[t].alone, answer |-> thread[t].answer]
    BY <2>2
  <2> HIDE DEF three
  <2>4. thread' = [three EXCEPT ![t].good = g]
    BY DEF one, two, three, Opens
  <2>9. t \in Threads
    OBVIOUS
  <2> QED
    BY ONLY <2>3, <2>4, <2>9
<1>2. thread' = [u \in Threads |-> thread'[u]] /\ OthersSame(t)
  BY DEF ThreadType, OthersSame, Opens
<1> QED
  BY <1>1, <1>2 DEF Shape

LEMMA Advanced ==
    ASSUME ThreadType, NEW t \in Threads, NEW i, Advances(t, i)
    PROVE  /\ thread' = [u \in Threads |-> thread'[u]] /\ OthersSame(t) /\ Shape(thread'[t])
           /\ thread'[t].pc = thread[t].pc
           /\ thread'[t].request = thread[t].request
           /\ thread'[t].key = thread[t].key
           /\ thread'[t].fd = thread[t].fd
           /\ thread'[t].at = i
           /\ thread'[t].size = thread[t].size
           /\ thread'[t].good = thread[t].good
           /\ thread'[t].lost = thread[t].lost
           /\ thread'[t].alone = thread[t].alone
<1>1. thread'[t] = [pc |-> thread[t].pc, request |-> thread[t].request,
                    key |-> thread[t].key, fd |-> thread[t].fd, at |-> i,
                    size |-> thread[t].size, good |-> thread[t].good,
                    lost |-> thread[t].lost, alone |-> thread[t].alone,
                    answer |-> thread[t].answer]
  BY DEF ThreadType, ThreadOK, Shape, Advances
<1>2. thread' = [u \in Threads |-> thread'[u]] /\ OthersSame(t)
  BY DEF ThreadType, OthersSame, Advances
<1> QED
  BY <1>1, <1>2 DEF Shape

LEMMA Closed ==
    ASSUME ThreadType, NEW t \in Threads, NEW l,
           Closes(t, l)
    PROVE  /\ thread' = [u \in Threads |-> thread'[u]] /\ OthersSame(t) /\ Shape(thread'[t])
           /\ thread'[t].pc = l
           /\ thread'[t].request = thread[t].request
           /\ thread'[t].key = thread[t].key
           /\ thread'[t].fd = 0
           /\ thread'[t].at = 0
           /\ thread'[t].size = thread[t].size
           /\ thread'[t].good = TRUE
           /\ thread'[t].lost = thread[t].lost
           /\ thread'[t].alone = thread[t].alone
<1>0. PICK yes : yes = TRUE
  OBVIOUS
<1>1. thread'[t] = [pc |-> l, request |-> thread[t].request, key |-> thread[t].key,
                    fd |-> 0, at |-> 0, size |-> thread[t].size, good |-> yes,
                    lost |-> thread[t].lost, alone |-> thread[t].alone,
                    answer |-> thread[t].answer]
  <2> DEFINE one == [thread EXCEPT ![t].pc = l]
             two == [one EXCEPT ![t].at = 0]
             three == [two EXCEPT ![t].fd = 0]
  <2>1. one = [u \in Threads |-> one[u]]
        /\ one[t] = [pc |-> l, request |-> thread[t].request, key |-> thread[t].key,
                     fd |-> thread[t].fd, at |-> thread[t].at,
                     size |-> thread[t].size, good |-> thread[t].good,
                     lost |-> thread[t].lost, alone |-> thread[t].alone,
                     answer |-> thread[t].answer]
    BY DEF ThreadType, ThreadOK, Shape
  <2> HIDE DEF one, Closes
  <2>2. two = [u \in Threads |-> two[u]]
        /\ two[t] = [pc |-> l, request |-> thread[t].request, key |-> thread[t].key,
                     fd |-> thread[t].fd, at |-> 0, size |-> thread[t].size,
                     good |-> thread[t].good, lost |-> thread[t].lost,
                     alone |-> thread[t].alone, answer |-> thread[t].answer]
    BY <2>1
  <2> HIDE DEF two
  <2>3. three = [u \in Threads |-> three[u]]
        /\ three[t] = [pc |-> l, request |-> thread[t].request, key |-> thread[t].key,
                       fd |-> 0, at |-> 0, size |-> thread[t].size,
                       good |-> thread[t].good, lost |-> thread[t].lost,
                       alone |-> thread[t].alone, answer |-> thread[t].answer]
    BY <2>2
  <2> HIDE DEF three
  <2>4. thread' = [three EXCEPT ![t].good = yes]
    BY <1>0 DEF one, two, three, Closes
  <2>9. t \in Threads
    OBVIOUS
  <2> QED
    BY ONLY <2>3, <2>4, <2>9
<1>2. thread' = [u \in Threads |-> thread'[u]] /\ OthersSame(t)
  BY DEF ThreadType, OthersSame, Closes
<1>3. Shape(thread'[t])
  BY ONLY <1>1 DEF Shape
<1> QED
  BY <1>0, <1>1, <1>2, <1>3

LEMMA OpenedToSend ==
    ASSUME ThreadType, NEW t \in Threads, NEW l, NEW n, NEW s,
           OpensToSend(t, l, n, s)
    PROVE  /\ thread' = [u \in Threads |-> thread'[u]] /\ OthersSame(t) /\ Shape(thread'[t])
           /\ thread'[t].pc = l
           /\ thread'[t].request = thread[t].request
           /\ thread'[t].key = thread[t].key
           /\ thread'[t].fd = n
           /\ thread'[t].at = thread[t].at
           /\ thread'[t].size = s
           /\ thread'[t].good = thread[t].good
           /\ thread'[t].lost = thread[t].lost
           /\ thread'[t].alone = thread[t].alone
<1>1. thread'[t] = [pc |-> l, request |-> thread[t].request, key |-> thread[t].key,
                    fd |-> n, at |-> thread[t].at, size |-> s,
                    good |-> thread[t].good, lost |-> thread[t].lost,
                    alone |-> thread[t].alone, answer |-> thread[t].answer]
  <2> DEFINE one == [thread EXCEPT ![t].pc = l]
             two == [one EXCEPT ![t].fd = n]
  <2>1. one = [u \in Threads |-> one[u]]
        /\ one[t] = [pc |-> l, request |-> thread[t].request, key |-> thread[t].key,
                     fd |-> thread[t].fd, at |-> thread[t].at,
                     size |-> thread[t].size, good |-> thread[t].good,
                     lost |-> thread[t].lost, alone |-> thread[t].alone,
                     answer |-> thread[t].answer]
    BY DEF ThreadType, ThreadOK, Shape
  <2> HIDE DEF one, OpensToSend
  <2>2. two = [u \in Threads |-> two[u]]
        /\ two[t] = [pc |-> l, request |-> thread[t].request, key |-> thread[t].key,
                     fd |-> n, at |-> thread[t].at, size |-> thread[t].size,
                     good |-> thread[t].good, lost |-> thread[t].lost,
                     alone |-> thread[t].alone, answer |-> thread[t].answer]
    BY <2>1
  <2> HIDE DEF two
  <2>3. thread' = [two EXCEPT ![t].size = s]
    BY DEF one, two, OpensToSend
  <2>9. t \in Threads
    OBVIOUS
  <2> QED
    BY ONLY <2>2, <2>3, <2>9
<1>2. thread' = [u \in Threads |-> thread'[u]] /\ OthersSame(t)
  BY DEF ThreadType, OthersSame, OpensToSend
<1>3. Shape(thread'[t])
  BY ONLY <1>1 DEF Shape
<1> QED
  BY ONLY <1>1, <1>2, <1>3

LEMMA Failed ==
    ASSUME ThreadType, NEW t \in Threads, NEW l,
           Fails(t, l)
    PROVE  /\ thread' = [u \in Threads |-> thread'[u]] /\ OthersSame(t) /\ Shape(thread'[t])
           /\ thread'[t].pc = l
           /\ thread'[t].request = thread[t].request
           /\ thread'[t].key = thread[t].key
           /\ thread'[t].fd = 0
           /\ thread'[t].at = 0
           /\ thread'[t].size = thread[t].size
           /\ thread'[t].good = thread[t].good
           /\ thread'[t].lost = thread[t].lost
           /\ thread'[t].alone = FALSE
<1>0. PICK no : no = FALSE
  OBVIOUS
<1>1. thread'[t] = [pc |-> l, request |-> thread[t].request, key |-> thread[t].key,
                    fd |-> 0, at |-> 0, size |-> thread[t].size,
                    good |-> thread[t].good, lost |-> thread[t].lost,
                    alone |-> no, answer |-> thread[t].answer]
  <2> DEFINE one == [thread EXCEPT ![t].pc = l]
             two == [one EXCEPT ![t].fd = 0]
             three == [two EXCEPT ![t].at = 0]
  <2>1. one = [u \in Threads |-> one[u]]
        /\ one[t] = [pc |-> l, request |-> thread[t].request, key |-> thread[t].key,
                     fd |-> thread[t].fd, at |-> thread[t].at,
                     size |-> thread[t].size, good |-> thread[t].good,
                     lost |-> thread[t].lost, alone |-> thread[t].alone,
                     answer |-> thread[t].answer]
    BY DEF ThreadType, ThreadOK, Shape
  <2> HIDE DEF one, Fails
  <2>2. two = [u \in Threads |-> two[u]]
        /\ two[t] = [pc |-> l, request |-> thread[t].request, key |-> thread[t].key,
                     fd |-> 0, at |-> thread[t].at, size |-> thread[t].size,
                     good |-> thread[t].good, lost |-> thread[t].lost,
                     alone |-> thread[t].alone, answer |-> thread[t].answer]
    BY <2>1
  <2> HIDE DEF two
  <2>3. three = [u \in Threads |-> three[u]]
        /\ three[t] = [pc |-> l, request |-> thread[t].request, key |-> thread[t].key,
                       fd |-> 0, at |-> 0, size |-> thread[t].size,
                       good |-> thread[t].good, lost |-> thread[t].lost,
                       alone |-> thread[t].alone, answer |-> thread[t].answer]
    BY <2>2
  <2> HIDE DEF three
  <2>4. thread' = [three EXCEPT ![t].alone = no]
    BY <1>0 DEF one, two, three, Fails
  <2>9. t \in Threads
    OBVIOUS
  <2> QED
    BY ONLY <2>3, <2>4, <2>9
<1>2. thread' = [u \in Threads |-> thread'[u]] /\ OthersSame(t)
  BY DEF ThreadType, OthersSame, Fails
<1>3. Shape(thread'[t])
  BY ONLY <1>1 DEF Shape
<1> QED
  BY <1>0, <1>1, <1>2, <1>3

LEMMA Listed ==
    ASSUME ThreadType, NEW t \in Threads, NEW l, NEW g,
           Lists(t, l, g)
    PROVE  /\ thread' = [u \in Threads |-> thread'[u]] /\ OthersSame(t) /\ Shape(thread'[t])
           /\ thread'[t].pc = l
           /\ thread'[t].request = thread[t].request
           /\ thread'[t].key = thread[t].key
           /\ thread'[t].fd = thread[t].fd
           /\ thread'[t].at = thread[t].at
           /\ thread'[t].size = thread[t].size
           /\ thread'[t].good = g
           /\ thread'[t].lost = thread[t].lost
           /\ thread'[t].alone = thread[t].alone
<1>1. thread'[t] = [pc |-> l, request |-> thread[t].request, key |-> thread[t].key,
                    fd |-> thread[t].fd, at |-> thread[t].at,
                    size |-> thread[t].size, good |-> g, lost |-> thread[t].lost,
                    alone |-> thread[t].alone, answer |-> thread[t].answer]
  <2> DEFINE one == [thread EXCEPT ![t].pc = l]
  <2>1. one = [u \in Threads |-> one[u]]
        /\ one[t] = [pc |-> l, request |-> thread[t].request, key |-> thread[t].key,
                     fd |-> thread[t].fd, at |-> thread[t].at,
                     size |-> thread[t].size, good |-> thread[t].good,
                     lost |-> thread[t].lost, alone |-> thread[t].alone,
                     answer |-> thread[t].answer]
    BY DEF ThreadType, ThreadOK, Shape
  <2> HIDE DEF one, Lists
  <2>2. thread' = [one EXCEPT ![t].good = g]
    BY DEF one, Lists
  <2>9. t \in Threads
    OBVIOUS
  <2> QED
    BY ONLY <2>1, <2>2, <2>9
<1>2. thread' = [u \in Threads |-> thread'[u]] /\ OthersSame(t)
  BY DEF ThreadType, OthersSame, Lists
<1> QED
  BY <1>1, <1>2 DEF Shape

-----------------------------------------------------------------------------
(* Steps that change nothing but how far the request is.                   *)

\* What a step of a request does to the invariant and to its client.
Keeps(t) ==
    /\ Moves(t)
    /\ thread'[t].pc # "idle" /\ thread'[t].alone => Going(thread[t])'
    /\ thread[t].alone /\ thread'[t].pc = "idle" => Expected(t, thread'[t].answer)

Quiet == UNCHANGED <<mix, stage, name, node, webapp, leftover>>

\* Which requests come to a place.
Suits(l, r) ==
    /\ l \in DotPlaces => r \in Diagrams
    /\ l \in ZipPlaces => r \in Zips
    /\ l \in WebPlaces => r \in {"webapp", "webapp.zip"}
    /\ l = "find" => r \in Diagrams \cup {"webapp", "webapp.zip"}
    /\ l = "webdir" => r = "webapp.zip"
    /\ l = "sending" => r \in Diagrams \cup Zips

LEMMA QuietFiles ==
    ASSUME IInv, NEW t \in Threads, Quiet
    PROVE  NamesFrom(t) /\ NodesFrom(t) /\ WebFrom(t) /\ FileType' /\ stage' = stage
<1>1. NamesFrom(t)
  BY DEF Quiet, NamesFrom
<1>2. NodesFrom(t)
  BY DEF Quiet, NodesFrom
<1>3. WebFrom(t)
  BY DEF Quiet, WebFrom
<1>4. FileType'
  BY DEF Quiet, IInv, FileType
<1> QED
  BY <1>1, <1>2, <1>3, <1>4 DEF Quiet

LEMMA AnswerKeeps ==
    ASSUME IInv, NEW t \in Threads, Busy(t), Quiet, NEW code, Answer(t, code),
           thread[t].pc \notin Dotting, thread[t].pc \in Zipping => Request(t) \notin Zips,
           thread[t].alone => Expected(t, code)
    PROVE  Keeps(t)
<1>1. /\ thread' = [u \in Threads |-> thread'[u]] /\ OthersSame(t)
      /\ Shape(thread'[t]) /\ thread'[t].pc = "idle" /\ thread'[t].fd = 0
      /\ thread'[t].answer = code
  BY IsAnswered DEF IInv
<1>2. ThreadOK(thread'[t])
  BY <1>1 DEF ThreadOK, DotPlaces, ZipPlaces, WebPlaces
<1>3. Stays(t)
  BY <1>1, <1>2 DEF Stays
<1>4. FdFrom(t)
  BY <1>1 DEF FdFrom
<1>5. LeftFrom(t)
  BY DEF LeftFrom, Quiet, Request
<1> QED
  BY <1>1, <1>3, <1>4, <1>5, QuietFiles DEF Keeps, Moves

LEMMA GotoKeeps ==
    ASSUME IInv, NEW t \in Threads, Busy(t), Quiet, NEW l, l # "idle", Goto(t, l),
           thread[t].fd = 0, Suits(l, Request(t)),
           thread[t].pc \in Dotting => l \in Dotting,
           thread[t].pc \in Zipping /\ Request(t) \in Zips => l \in Zipping,
           l = "webwrite" => stage[Key(t)] = "ready",
           thread[t].alone => Going(thread[t])'
    PROVE  Keeps(t)
<1>1. /\ thread' = [u \in Threads |-> thread'[u]] /\ OthersSame(t)
      /\ Shape(thread'[t])
      /\ thread'[t].pc = l /\ thread'[t].fd = 0 /\ thread'[t].lost = thread[t].lost
      /\ thread'[t].alone = thread[t].alone /\ thread'[t].key = thread[t].key
      /\ thread'[t].request = thread[t].request
  BY GoneTo DEF IInv
<1>2. ThreadOK(thread'[t])
  <2>1. thread[t].key \in Keys /\ thread[t].request \in AllRequests
    BY DEF IInv, ThreadType, ThreadOK, Busy
  <2> QED
    BY <1>1, <2>1 DEF ThreadOK, Suits, Request
<1>3. Stays(t)
  BY <1>1, <1>2 DEF Stays, Key, Request
<1>4. FdFrom(t)
  BY <1>1 DEF FdFrom
<1>5. LeftFrom(t)
  BY <1>1 DEF LeftFrom, Quiet, Request
<1> QED
  BY <1>1, <1>3, <1>4, <1>5, QuietFiles DEF Keeps, Moves

LEMMA ThreadIs ==
    ASSUME IInv, NEW t \in Threads
    PROVE  /\ ThreadOK(thread[t])
           /\ Busy(t) => Key(t) \in Keys /\ Request(t) \in AllRequests
           /\ Busy(t) /\ thread[t].alone => Going(thread[t])
<1>1. ThreadOK(thread[t])
  BY DEF IInv, ThreadType
<1> QED
  BY <1>1 DEF IInv, ThreadOK, AloneInv, Busy, Key, Request

\* Where the file of a request does not matter, neither do its pieces.
Plain == {"sources", "find", "runfaust", "index", "runweb", "webwrite", "webmade", "webdir",
          "zip", "undotfailed"}

LEMMA GoingPlain ==
    ASSUME NEW t \in Threads, Quiet, NEW l \in Plain, Goto(t, l), ThreadType,
           LET k == Key(t)  r == Request(t) IN
           /\ l # "undotfailed"
           /\ l \in {"zip", "runfaust", "runweb", "webwrite", "webmade", "webdir"} =>
                stage[k] = "ready"
           /\ l \in {"index", "find"} => stage[k] # "none"
           /\ l = "index" => webapp[k] \in {{}, Piece}
           /\ l \in {"find", "runweb"} /\ r \notin Diagrams => webapp[k] = {}
           /\ l \in {"webmade", "webdir"} => webapp[k] = Piece
           /\ l = "zip" /\ r = "webapp.zip" => webapp[k] = Piece
           /\ l \in {"sources", "find", "runfaust"} /\ r \in Diagrams => name[k][r] = 0,
           ~thread[t].lost
    PROVE  Going(thread[t])'
<1>1. /\ thread'[t].pc = l /\ thread'[t].lost = thread[t].lost
      /\ thread'[t].key = Key(t) /\ thread'[t].request = Request(t)
  BY GoneTo DEF Key, Request
<1>2. l \notin Writing \cup {"rundot", "undot", "made", "send", "unlink", "sending", "begin"}
  BY DEF Plain, Writing
<1>3. l \in Ready => l \in {"zip", "runfaust", "runweb", "webwrite", "webmade", "webdir"}
  BY DEF Plain, Ready
<1> DEFINE k == Key(t)
           r == Request(t)
           f == FileOf(thread'[t])
<1>4. /\ l \in Ready => stage'[k] = "ready"
      /\ l \in {"index", "find"} => stage'[k] # "none"
      /\ l = "index" => webapp'[k] \in {{}, Piece}
      /\ l \in {"find", "runweb"} /\ r \notin Diagrams => webapp'[k] = {}
      /\ l \in {"webmade", "webdir"} => webapp'[k] = Piece
      /\ l \in {"zip", "read"} /\ r = "webapp.zip" => webapp'[k] = Piece
      /\ l \in {"sources", "find", "runfaust"} /\ r \in Diagrams => name'[k][r] = 0
  BY <1>2, <1>3 DEF Quiet, Writing
<1> HIDE DEF Plain, Ready, Writing, k, r, f
<1>5. thread'[t].key = k /\ thread'[t].request = r
  BY <1>1 DEF k, r
<1> QED
  BY <1>1, <1>2, <1>4, <1>5 DEF Going, f

LEMMA BeginKeeps ==
    ASSUME IInv, NEW t \in Threads, Begin(t), mix' = mix PROVE Keeps(t)
<1> DEFINE k == Key(t)
           r == Request(t)
<1>1. /\ Quiet /\ At(t, "begin") /\ Busy(t) /\ thread[t].fd = 0 /\ k \in Keys
      /\ r \in AllRequests /\ ThreadType
  BY ThreadIs DEF Begin, Quiet, At, Busy, IInv, ThreadOK, Holding
<1>2. thread[t].alone => ~Spoiled(k, r) /\ ~thread[t].lost
  BY <1>1, ThreadIs DEF Going, Key, Request, At
<1>3. thread[t].pc \notin Dotting \cup Zipping
  BY <1>1 DEF At, Dotting, Zipping
<1>4. CASE r = "svg.zip"
  <2>1. CASE stage[k] = "ready"
    <3>1. Goto(t, "zip")
      BY <1>4, <2>1 DEF Begin, Diagrams
    <3>2. Suits("zip", r) /\ "zip" \in Plain
      BY <1>4 DEF Suits, Zips, ZipPlaces, DotPlaces, WebPlaces, Plain
    <3>3. thread[t].alone => Going(thread[t])'
      BY <1>1, <1>2, <1>4, <2>1, <3>1, <3>2, GoingPlain
    <3> QED
      BY <1>1, <1>3, <3>1, <3>2, <3>3, GotoKeeps
  <2>2. CASE stage[k] # "ready"
    <3>1. Answer(t, "404")
      BY <1>4, <2>2 DEF Begin, Diagrams
    <3> QED
      BY <1>1, <1>3, <2>2, <3>1, AnswerKeeps DEF Expected
  <2> QED
    BY <2>1, <2>2
<1>5. CASE r \in {"webapp", "webapp.zip"}
  <2>1. CASE stage[k] = "none"
    <3>1. Answer(t, "404")
      BY <1>5, <2>1 DEF Begin, Diagrams
    <3> QED
      BY <1>1, <1>3, <2>1, <3>1, AnswerKeeps DEF Expected
  <2>2. CASE stage[k] # "none"
    <3>1. Goto(t, "index")
      BY <1>5, <2>2 DEF Begin, Diagrams
    <3>2. Suits("index", r) /\ "index" \in Plain
      BY <1>5 DEF Suits, ZipPlaces, DotPlaces, WebPlaces, Plain
    <3>3. thread[t].alone => webapp[k] \in {{}, Piece}
      BY <1>2, <1>5 DEF Spoiled, Artefact
    <3>4. thread[t].alone => Going(thread[t])'
      BY <1>1, <1>2, <2>2, <3>1, <3>2, <3>3, GoingPlain
    <3> QED
      BY <1>1, <1>3, <3>1, <3>2, <3>4, GotoKeeps
  <2> QED
    BY <2>1, <2>2
<1>6. CASE r \in Diagrams
  <2>0. r \in MadeNames /\ r \notin Zips
    BY <1>6, FilesDiffer DEF Diagrams, Zips
  <2>1. CASE name[k][r] # 0
    <3>1. Goto(t, "send")
      BY <1>6, <2>1 DEF Begin, Diagrams
    <3>2. Suits("send", r)
      BY DEF Suits, ZipPlaces, DotPlaces, WebPlaces
    <3>3. thread[t].alone => Going(thread[t])'
      <4>1. /\ thread'[t].pc = "send" /\ thread'[t].lost = thread[t].lost
            /\ thread'[t].key = k /\ thread'[t].request = r
        BY <1>1, <3>1, GoneTo DEF Key, Request
      <4>2. FileOf(thread'[t]) = r
        BY <2>0, <4>1 DEF FileOf, FileAt
      <4>3. stage[k] = "ready"
        BY <1>1, <1>6, <2>0, <2>1 DEF IInv, FileInv, Programmed
      <4>4. thread[t].alone => node[name[k][r]] = Whole
        BY <1>2, <1>6, <2>1 DEF Spoiled
      <4>5. r \notin {"webapp", "asset"}
        BY <1>6 DEF Diagrams
      <4> HIDE DEF k, r
      <4> QED
        BY <1>1, <1>2, <2>1, <4>1, <4>2, <4>3, <4>4, <4>5 DEF Going, Quiet, Writing
    <3> QED
      BY <1>1, <1>3, <3>1, <3>2, <3>3, GotoKeeps
  <2>2. CASE name[k][r] = 0
    <3>1. Goto(t, "sources")
      BY <1>6, <2>2 DEF Begin, Diagrams
    <3>2. Suits("sources", r) /\ "sources" \in Plain
      BY <1>6 DEF Suits, ZipPlaces, DotPlaces, WebPlaces, Plain
    <3>3. thread[t].alone => Going(thread[t])'
      BY <1>1, <1>2, <2>2, <3>1, <3>2, GoingPlain
    <3> QED
      BY <1>1, <1>3, <3>1, <3>2, <3>3, GotoKeeps
  <2> QED
    BY <2>1, <2>2
<1>7. CASE r = "asset"
  <2>1. CASE webapp[k] # {}
    <3>1. Goto(t, "send")
      BY <1>7, <2>1 DEF Begin, Diagrams
    <3>2. Suits("send", r)
      BY DEF Suits, ZipPlaces, DotPlaces, WebPlaces
    <3>3. thread[t].alone => Going(thread[t])'
      <4>1. /\ thread'[t].pc = "send" /\ thread'[t].lost = thread[t].lost
            /\ thread'[t].key = k /\ thread'[t].request = r
        BY <1>1, <3>1, GoneTo DEF Key, Request
      <4>2. stage[k] = "ready"
        BY <1>1, <2>1 DEF IInv, FileInv
      <4>3. thread[t].alone => webapp[k] = Piece
        BY <1>2, <1>7, <2>1 DEF Spoiled, Artefact
      <4>4. r \notin Diagrams \cup Zips
        BY <1>7 DEF Diagrams, Zips
      <4> HIDE DEF k, r
      <4> QED
        BY <1>1, <1>2, <4>1, <4>2, <4>3, <4>4 DEF Going, Quiet, Writing
    <3> QED
      BY <1>1, <1>3, <3>1, <3>2, <3>3, GotoKeeps
  <2>2. CASE webapp[k] = {}
    <3>1. Answer(t, "404")
      BY <1>7, <2>2 DEF Begin, Diagrams
    <3> QED
      BY <1>1, <1>3, <1>7, <2>2, <3>1, AnswerKeeps DEF Expected
  <2> QED
    BY <2>1, <2>2
<1>8. CASE r = "generated.cpp"
  <2>1. CASE stage[k] = "ready"
    <3>1. Goto(t, "send")
      BY <1>8, <2>1 DEF Begin, Diagrams
    <3>2. Suits("send", r)
      BY DEF Suits, ZipPlaces, DotPlaces, WebPlaces
    <3>3. thread[t].alone => Going(thread[t])'
      <4>1. /\ thread'[t].pc = "send" /\ thread'[t].lost = thread[t].lost
            /\ thread'[t].key = k /\ thread'[t].request = r
        BY <1>1, <3>1, GoneTo DEF Key, Request
      <4>2. r \notin Diagrams \cup Zips \cup {"webapp", "asset"}
        BY <1>8 DEF Diagrams, Zips
      <4> HIDE DEF k, r
      <4> QED
        BY <1>1, <1>2, <2>1, <4>1, <4>2 DEF Going, Quiet, Writing
    <3> QED
      BY <1>1, <1>3, <3>1, <3>2, <3>3, GotoKeeps
  <2>2. CASE stage[k] # "ready"
    <3>1. Answer(t, "404")
      BY <1>8, <2>2 DEF Begin, Diagrams
    <3> QED
      BY <1>1, <1>3, <2>2, <3>1, AnswerKeeps DEF Expected
  <2> QED
    BY <2>1, <2>2
<1>9. r \in {"svg.zip", "webapp", "webapp.zip", "asset", "generated.cpp"} \cup Diagrams
  BY <1>1 DEF AllRequests, Diagrams
<1> QED
  BY <1>4, <1>5, <1>6, <1>7, <1>8, <1>9

LEMMA SendFileKeeps ==
    ASSUME IInv, NEW t \in Threads, SendFile(t), mix' = mix PROVE Keeps(t)
<1> DEFINE k == Key(t)
           r == Request(t)
<1>1. /\ Quiet /\ At(t, "send") /\ Busy(t) /\ r \in AllRequests
      /\ r \notin Diagrams \cup Zips /\ thread[t].pc \notin Dotting
  BY ThreadIs DEF SendFile, Quiet, At, Busy, Dotting
<1>2. thread[t].alone =>
        stage[k] = "ready" /\ (r \in {"webapp", "asset"} => webapp[k] = Piece)
  BY <1>1, ThreadIs DEF Going, Key, Request, At, Ready
<1>3. 1 \in Piece
  BY PieceAssumption DEF Piece
<1>4. PICK answer : /\ Answer(t, answer)
                    /\ thread[t].alone => answer = "200"
  <2> DEFINE there == CASE r = "webapp" -> 1 \in webapp[k]
                        [] r = "asset" -> webapp[k] # {}
                        [] OTHER -> stage[k] = "ready"
  <2>1. Answer(t, IF there THEN "200" ELSE "400")
    BY DEF SendFile
  <2>2. thread[t].alone => there
    BY <1>2, <1>3
  <2> HIDE DEF there
  <2> QED
    BY <2>1, <2>2
<1>5. thread[t].alone => Expected(t, answer)
  BY <1>2, <1>4 DEF Expected
<1> QED
  BY <1>1, <1>4, <1>5, AnswerKeeps

LEMMA FindSourcesKeeps ==
    ASSUME IInv, NEW t \in Threads, FindSources(t), mix' = mix PROVE Keeps(t)
<1> DEFINE k == Key(t)
           r == Request(t)
<1>1. /\ Quiet /\ At(t, "sources") /\ Busy(t) /\ r \in Diagrams /\ thread[t].fd = 0
      /\ ThreadType /\ thread[t].pc \notin Dotting \cup Zipping
  BY ThreadIs DEF FindSources, Quiet, At, Busy, Dotting, Zipping, IInv, ThreadOK, DotPlaces,
                  Holding, Request
<1>2. thread[t].alone => name[k][r] = 0 /\ ~thread[t].lost
  BY <1>1, ThreadIs DEF Going, Key, Request, At
<1>3. CASE stage[k] = "none"
  <2>1. Answer(t, "404")
    BY <1>3 DEF FindSources
  <2> QED
    BY <1>1, <1>3, <2>1, AnswerKeeps DEF Expected
<1>4. CASE stage[k] # "none"
  <2>1. Goto(t, "find") /\ Suits("find", r) /\ "find" \in Plain
    BY <1>1, <1>4 DEF FindSources, Suits, DotPlaces, ZipPlaces, WebPlaces, Plain
  <2>2. thread[t].alone => Going(thread[t])'
    BY <1>1, <1>2, <1>4, <2>1, GoingPlain
  <2> QED
    BY <1>1, <2>1, <2>2, GotoKeeps
<1> QED
  BY <1>3, <1>4

LEMMA FindDspKeeps ==
    ASSUME IInv, NEW t \in Threads, FindDsp(t), mix' = mix PROVE Keeps(t)
<1> DEFINE k == Key(t)
           r == Request(t)
<1>1. /\ Quiet /\ At(t, "find") /\ Busy(t) /\ k \in Keys /\ thread[t].fd = 0
      /\ r \in Diagrams \cup {"webapp", "webapp.zip"}
      /\ ThreadType /\ thread[t].pc \notin Dotting \cup Zipping
  BY ThreadIs DEF FindDsp, Quiet, At, Busy, Dotting, Zipping, IInv, ThreadOK, Holding,
                  Request
<1>2. thread[t].alone => /\ ~thread[t].lost /\ stage[k] # "none"
                         /\ r \in Diagrams => name[k][r] = 0
                         /\ r \notin Diagrams => webapp[k] = {}
  BY <1>1, ThreadIs DEF Going, Key, Request, At
<1>3. CASE stage[k] = "none"
  <2>1. Answer(t, "400")
    BY <1>3 DEF FindDsp
  <2> QED
    BY <1>1, <1>2, <1>3, <2>1, AnswerKeeps
<1>4. CASE stage[k] = "empty"
  <2>1. Answer(t, "404")
    BY <1>4 DEF FindDsp
  <2> QED
    BY <1>1, <1>4, <2>1, AnswerKeeps DEF Expected
<1>5. CASE stage[k] = "ready"
  <2> DEFINE l == IF r \in Diagrams THEN "runfaust" ELSE "runweb"
  <2>1. Goto(t, l)
    BY <1>5 DEF FindDsp
  <2>2. Suits(l, r) /\ l \in Plain /\ l \in {"runfaust", "runweb"}
    BY <1>1 DEF Suits, DotPlaces, ZipPlaces, WebPlaces, Plain
  <2>3. (l = "runweb" <=> r \notin Diagrams) /\ (l = "runfaust" <=> r \in Diagrams)
    OBVIOUS
  <2> HIDE DEF l
  <2>4. thread[t].alone => Going(thread[t])'
    BY <1>1, <1>2, <1>5, <2>1, <2>2, <2>3, GoingPlain
  <2> QED
    BY <1>1, <2>1, <2>2, <2>4, GotoKeeps
<1> QED
  BY <1>1, <1>3, <1>4, <1>5 DEF IInv, FileType

LEMMA MadeKeeps ==
    ASSUME IInv, NEW t \in Threads, Made(t), mix' = mix PROVE Keeps(t)
<1> DEFINE k == Key(t)
           r == Request(t)
<1>1. /\ Quiet /\ At(t, "made") /\ Busy(t) /\ r \in Diagrams /\ thread[t].fd = 0
      /\ ThreadType /\ thread[t].pc \notin Dotting \cup Zipping
  BY ThreadIs DEF Made, Quiet, At, Busy, Dotting, Zipping, IInv, ThreadOK, DotPlaces,
                  Holding, Request
<1>2. r \notin Zips /\ r \notin {"webapp", "asset"}
  BY <1>1 DEF Diagrams, Zips
<1>3. FileOf(thread[t]) = r
  BY <1>1, <1>2 DEF FileOf, FileAt, At, Request
<1>4. thread[t].alone => /\ ~thread[t].lost /\ stage[k] = "ready"
                         /\ name[k][r] # 0 /\ node[name[k][r]] = Whole
  BY <1>1, <1>3, ThreadIs DEF Going, Key, Request, At, Ready
<1>5. CASE name[k][r] = 0
  <2>1. Answer(t, "500")
    BY <1>5 DEF Made
  <2> QED
    BY <1>1, <1>4, <1>5, <2>1, AnswerKeeps
<1>6. CASE name[k][r] # 0
  <2>1. Goto(t, "send") /\ Suits("send", r)
    BY <1>6 DEF Made, Suits, DotPlaces, ZipPlaces, WebPlaces
  <2>2. thread[t].alone => Going(thread[t])'
    <3>1. /\ thread'[t].pc = "send" /\ thread'[t].lost = thread[t].lost
          /\ thread'[t].key = k /\ thread'[t].request = r
      BY <1>1, <2>1, GoneTo DEF Key, Request
    <3>2. FileOf(thread'[t]) = r
      BY <1>2, <3>1 DEF FileOf, FileAt
    <3> HIDE DEF k, r
    <3> QED
      BY <1>1, <1>2, <1>4, <3>1, <3>2 DEF Going, Quiet, Writing
  <2> QED
    BY <1>1, <2>1, <2>2, GotoKeeps
<1> QED
  BY <1>5, <1>6

\* The application is there: it is sent, or archived.
LEMMA HasWebappKeeps ==
    ASSUME IInv, NEW t \in Threads, Quiet, Busy(t), HasWebapp(t), thread[t].fd = 0,
           thread[t].pc \notin Dotting \cup Zipping, Request(t) \in {"webapp", "webapp.zip"},
           thread[t].alone => /\ ~thread[t].lost /\ webapp[Key(t)] = Piece
                              /\ stage[Key(t)] = "ready"
    PROVE  Keeps(t)
<1> DEFINE k == Key(t)
           r == Request(t)
<1>0. ThreadType
  BY DEF IInv
<1>1. CASE r = "webapp"
  <2>1. Goto(t, "send") /\ Suits("send", r)
    BY <1>1 DEF HasWebapp, Suits, DotPlaces, ZipPlaces, WebPlaces
  <2>2. thread[t].alone => Going(thread[t])'
    <3>1. /\ thread'[t].pc = "send" /\ thread'[t].lost = thread[t].lost
          /\ thread'[t].key = k /\ thread'[t].request = r
      BY <1>0, <2>1, GoneTo DEF Key, Request
    <3>2. r \notin Diagrams \cup Zips
      BY <1>1 DEF Diagrams, Zips
    <3>3. thread[t].alone => /\ ~thread[t].lost /\ webapp[k] = Piece /\ stage[k] = "ready"
      OBVIOUS
    <3> HIDE DEF k, r
    <3> QED
      BY <3>1, <3>2, <3>3 DEF Going, Quiet, Writing
  <2> QED
    BY <2>1, <2>2, GotoKeeps
<1>2. CASE r = "webapp.zip"
  <2>1. Goto(t, "webdir") /\ Suits("webdir", r) /\ "webdir" \in Plain
    BY <1>2 DEF HasWebapp, Suits, DotPlaces, ZipPlaces, WebPlaces, Plain
  <2>2. thread[t].alone => Going(thread[t])'
    BY <1>0, <2>1, GoingPlain
  <2> QED
    BY <2>1, <2>2, GotoKeeps
<1> QED
  BY <1>1, <1>2

LEMMA WebFacts ==
    ASSUME IInv, NEW t \in Threads, thread[t].pc \in WebPlaces
    PROVE  /\ Busy(t) /\ Key(t) \in Keys /\ thread[t].fd = 0 /\ ThreadType
           /\ Request(t) \in {"webapp", "webapp.zip"} /\ Request(t) \notin Diagrams
           /\ thread[t].pc \notin Dotting \cup Zipping
           /\ 1 \in Piece
BY ThreadIs, PieceAssumption
   DEF Busy, Dotting, Zipping, IInv, ThreadOK, WebPlaces, Holding, Request, Diagrams, Piece

LEMMA FindIndexKeeps ==
    ASSUME IInv, NEW t \in Threads, FindIndex(t), mix' = mix PROVE Keeps(t)
<1> DEFINE k == Key(t)
<1>1. Quiet /\ At(t, "index") /\ thread[t].pc \in WebPlaces
  BY DEF FindIndex, Quiet, At, WebPlaces
<1>2. thread[t].alone => /\ ~thread[t].lost /\ stage[k] # "none"
                         /\ webapp[k] \in {{}, Piece}
  BY <1>1, WebFacts, ThreadIs DEF Going, Key, At
<1>3. webapp[k] # {} => stage[k] = "ready"
  BY <1>1, WebFacts DEF IInv, FileInv
<1>4. CASE 1 \in webapp[k]
  <2>1. HasWebapp(t)
    BY <1>4 DEF FindIndex
  <2> QED
    BY <1>1, <1>2, <1>3, <1>4, <2>1, WebFacts, HasWebappKeeps
<1>5. CASE 1 \notin webapp[k]
  <2>1. Goto(t, "find") /\ Suits("find", Request(t)) /\ "find" \in Plain
    BY <1>1, <1>5, WebFacts DEF FindIndex, Suits, DotPlaces, ZipPlaces, WebPlaces, Plain
  <2>2. thread[t].alone => webapp[k] = {}
    BY <1>1, <1>2, <1>5, WebFacts
  <2>3. thread[t].alone => Going(thread[t])'
    BY <1>1, <1>2, <2>1, <2>2, WebFacts, GoingPlain
  <2> QED
    BY <1>1, <2>1, <2>3, WebFacts, GotoKeeps
<1> QED
  BY <1>4, <1>5

LEMMA RunWebappKeeps ==
    ASSUME IInv, NEW t \in Threads, RunWebapp(t), mix' = mix PROVE Keeps(t)
<1> DEFINE k == Key(t)
<1>1. Quiet /\ At(t, "runweb") /\ thread[t].pc \in WebPlaces
  BY DEF RunWebapp, Quiet, At, WebPlaces
<1>2. thread[t].alone => ~thread[t].lost /\ stage[k] = "ready"
  BY <1>1, WebFacts, ThreadIs DEF Going, Key, At, Ready
<1>3. CASE stage[k] = "ready"
  <2>1. Goto(t, "webwrite") /\ Suits("webwrite", Request(t)) /\ "webwrite" \in Plain
    BY <1>1, <1>3, WebFacts DEF RunWebapp, Suits, DotPlaces, ZipPlaces, WebPlaces, Plain
  <2>2. thread[t].alone => Going(thread[t])'
    BY <1>1, <1>2, <2>1, WebFacts, GoingPlain
  <2> QED
    BY <1>1, <1>3, <2>1, <2>2, WebFacts, GotoKeeps
<1>4. CASE stage[k] # "ready"
  <2>1. Answer(t, "500")
    BY <1>4 DEF RunWebapp
  <2> QED
    BY <1>1, <1>2, <1>4, <2>1, WebFacts, AnswerKeeps
<1> QED
  BY <1>3, <1>4

LEMMA EndWebappKeeps ==
    ASSUME IInv, NEW t \in Threads, EndWebapp(t), mix' = mix PROVE Keeps(t)
<1>1. /\ Quiet /\ At(t, "webwrite") /\ thread[t].pc \in WebPlaces
      /\ ~thread[t].lost /\ webapp[Key(t)] = Piece
  BY DEF EndWebapp, Quiet, At, WebPlaces
<1>2. stage[Key(t)] = "ready"
  BY <1>1 DEF IInv, FileInv
<1>3. Goto(t, "webmade") /\ Suits("webmade", Request(t)) /\ "webmade" \in Plain
  BY <1>1, WebFacts DEF EndWebapp, Suits, DotPlaces, ZipPlaces, WebPlaces, Plain
<1>4. thread[t].alone => Going(thread[t])'
  BY <1>1, <1>2, <1>3, WebFacts, GoingPlain
<1> QED
  BY <1>1, <1>3, <1>4, WebFacts, GotoKeeps

LEMMA WebappFailsKeeps ==
    ASSUME IInv, NEW t \in Threads, WebappFails(t), mix' = mix PROVE Keeps(t)
<1>1. /\ Quiet /\ At(t, "webwrite") /\ thread[t].pc \in WebPlaces /\ Answer(t, "500")
  BY DEF WebappFails, Quiet, At, WebPlaces
<1> QED
  BY <1>1, WebFacts, AnswerKeeps DEF Expected

LEMMA WebappMadeKeeps ==
    ASSUME IInv, NEW t \in Threads, WebappMade(t), mix' = mix PROVE Keeps(t)
<1> DEFINE k == Key(t)
<1>1. Quiet /\ At(t, "webmade") /\ thread[t].pc \in WebPlaces
  BY DEF WebappMade, Quiet, At, WebPlaces
<1>2. thread[t].alone => ~thread[t].lost /\ stage[k] = "ready" /\ webapp[k] = Piece
  BY <1>1, WebFacts, ThreadIs DEF Going, Key, At, Ready
<1>3. CASE 1 \in webapp[k]
  <2>1. HasWebapp(t)
    BY <1>3 DEF WebappMade
  <2> QED
    BY <1>1, <1>2, <2>1, WebFacts, HasWebappKeeps
<1>4. CASE 1 \notin webapp[k]
  <2>1. Answer(t, "500")
    BY <1>4 DEF WebappMade
  <2> QED
    BY <1>1, <1>2, <1>4, <2>1, WebFacts, AnswerKeeps
<1> QED
  BY <1>3, <1>4

LEMMA FindWebappKeeps ==
    ASSUME IInv, NEW t \in Threads, FindWebapp(t), mix' = mix PROVE Keeps(t)
<1> DEFINE k == Key(t)
<1>1. /\ Quiet /\ At(t, "webdir") /\ Busy(t) /\ Key(t) \in Keys /\ thread[t].fd = 0
      /\ ThreadType /\ Request(t) = "webapp.zip" /\ thread[t].pc \notin Dotting \cup Zipping
  BY ThreadIs DEF FindWebapp, Quiet, At, Busy, Dotting, Zipping, IInv, ThreadOK, Holding,
                  Request
<1>2. thread[t].alone => ~thread[t].lost /\ stage[k] = "ready" /\ webapp[k] = Piece
  BY <1>1, ThreadIs DEF Going, Key, At, Ready
<1>3. 1 \in Piece
  BY PieceAssumption DEF Piece
<1>4. CASE webapp[k] # {}
  <2>1. Goto(t, "zip") /\ Suits("zip", Request(t)) /\ "zip" \in Plain
    BY <1>1, <1>4 DEF FindWebapp, Suits, DotPlaces, ZipPlaces, WebPlaces, Plain, Zips
  <2>2. Request(t) \notin Diagrams
    BY <1>1 DEF Diagrams
  <2>3. thread[t].alone => Going(thread[t])'
    BY <1>1, <1>2, <2>1, <2>2, GoingPlain
  <2> QED
    BY <1>1, <2>1, <2>3, GotoKeeps
<1>5. CASE webapp[k] = {}
  <2>1. Answer(t, "404")
    BY <1>5 DEF FindWebapp
  <2> QED
    BY <1>1, <1>2, <1>3, <1>5, <2>1, AnswerKeeps
<1> QED
  BY <1>4, <1>5

-----------------------------------------------------------------------------
(* Steps that open, write, close and remove files.                         *)

LEMMA WholeIs ==
    /\ SizeOf(Whole) = Pieces
    /\ \A pieces \in [Piece -> {"hole", "ok", "bad"}] :
         Prefix(pieces, Pieces) => pieces = Whole
    /\ Prefix(Blank, 0) /\ Pieces # 0
<1>1. Pieces \in Nat \ {0}
  BY PieceAssumption
<1>2. {0} \cup {i \in Piece : Whole[i] # "hole"} = 0 .. Pieces
  BY <1>1 DEF Piece, Whole
<1>3. SizeOf(Whole) = Max(0 .. Pieces)
  BY <1>2 DEF SizeOf
<1>4. Max(0 .. Pieces) = Pieces
  BY <1>1 DEF Max
<1>5. ASSUME NEW pieces \in [Piece -> {"hole", "ok", "bad"}], Prefix(pieces, Pieces)
      PROVE  pieces = Whole
  <2>1. \A i \in Piece : pieces[i] = "ok"
    BY <1>1, <1>5 DEF Prefix, Piece
  <2> QED
    BY <2>1 DEF Whole
<1>6. Prefix(Blank, 0)
  BY <1>1 DEF Prefix, Blank, Piece
<1> QED
  BY <1>1, <1>3, <1>4, <1>5, <1>6

LEMMA OpenToSendKeeps ==
    ASSUME IInv, NEW t \in Threads, OpenToSend(t), mix' = mix PROVE Keeps(t)
<1> DEFINE k == Key(t)
           r == Request(t)
           n == name[k][SendName(r)]
           l == IF r \in Zips THEN "unlink" ELSE "sending"
<1>1. /\ Quiet /\ At(t, "send") /\ Busy(t) /\ r \in Diagrams \cup Zips /\ thread[t].fd = 0
      /\ k \in Keys /\ r \in AllRequests /\ ThreadType /\ thread[t].pc \notin Dotting
  BY ThreadIs DEF OpenToSend, Quiet, At, Busy, Dotting, IInv, ThreadOK, Holding
<1>2. SendName(r) \in MadeNames /\ FileOf(thread[t]) = SendName(r)
  <2>1. FileOf(thread[t]) = SendName(r)
    BY <1>1 DEF FileOf, FileAt, At, Request, SendName
  <2> QED
    BY <1>1, <2>1, ThreadIs, FileIsOwn DEF At, Request
<1>3. n \in Nodes \cup {0}
  BY <1>1, <1>2 DEF IInv, FileType
<1>4. thread[t].alone => ~thread[t].lost /\ stage[k] = "ready" /\ n # 0 /\ node[n] = Whole
  BY <1>1, <1>2, ThreadIs DEF Going, Key, Request, At, Ready
<1>5. Suits(l, r) /\ FileAt(l, r) = SendName(r)
  BY <1>1 DEF Suits, DotPlaces, ZipPlaces, WebPlaces, FileAt, SendName
<1>6. CASE n # 0
  <2> DEFINE s == SizeOf(node[n])
  <2>0. OpensToSend(t, l, n, s)
    BY <1>6 DEF OpenToSend, OpensToSend
  <2> HIDE DEF n, l, s
  <2>1. /\ thread' = [u \in Threads |-> thread'[u]] /\ OthersSame(t) /\ Shape(thread'[t])
        /\ thread'[t].pc = l /\ thread'[t].request = r /\ thread'[t].key = k
        /\ thread'[t].fd = n /\ thread'[t].size = s /\ thread'[t].lost = thread[t].lost
        /\ thread'[t].alone = thread[t].alone
    BY <1>1, <2>0, OpenedToSend DEF Key, Request
  <2>2. l \in {"unlink", "sending"} /\ (r \in Zips => l \in Zipping)
    BY DEF l, Zipping
  <2>3. ThreadOK(thread'[t])
    BY <1>1, <1>3, <1>5, <2>1, <2>2 DEF ThreadOK, Suits, Holding
  <2>4. Stays(t)
    BY <1>1, <2>1, <2>2, <2>3 DEF Stays, Key, Request
  <2>5. FileOf(thread'[t]) = SendName(r) /\ n = name'[k][SendName(r)]
    BY <1>1, <1>5, <2>1 DEF FileOf, Quiet, n
  <2>6. FdFrom(t)
    BY <2>1, <2>5 DEF FdFrom
  <2>7. LeftFrom(t)
    BY <1>1, <2>1, <2>2 DEF LeftFrom, Quiet
  <2>8. thread[t].alone => s = Pieces
    BY <1>4, WholeIs DEF s
  <2>9. thread[t].alone => Going(thread[t])'
    <3> HIDE DEF k, r
    <3> QED
      BY <1>1, <1>4, <1>6, <2>1, <2>2, <2>8 DEF Going, Quiet, Writing
  <2> QED
    BY <1>1, <2>1, <2>2, <2>4, <2>6, <2>7, <2>9, QuietFiles DEF Keeps, Moves
<1>7. CASE n = 0 /\ r \in Zips
  <2>1. Goto(t, "unlink") /\ Suits("unlink", r) /\ "unlink" \in Zipping
    BY <1>5, <1>7 DEF OpenToSend, Zipping
  <2> QED
    BY <1>1, <1>4, <1>7, <2>1, GotoKeeps
<1>8. CASE n = 0 /\ r \notin Zips
  <2>1. Answer(t, "400")
    BY <1>8 DEF OpenToSend
  <2> QED
    BY <1>1, <1>4, <1>8, <2>1, AnswerKeeps
<1> QED
  BY <1>6, <1>7, <1>8

LEMMA OpenWriteKeeps ==
    ASSUME IInv, NEW t \in Threads, Busy(t), thread[t].fd = 0,
           NEW l \in {"read", "faust", "dot"}, NEW n \in FilesOf(Request(t)),
           n = FileAt(l, Request(t)), Suits(l, Request(t)), OpenWrite(t, n, l, TRUE),
           UNCHANGED <<mix, stage, webapp, leftover>>,
           stage[Key(t)] # "none", n \in Programmed => stage[Key(t)] = "ready",
           thread[t].pc \in Dotting => l \in Dotting,
           thread[t].pc \in Zipping /\ Request(t) \in Zips => l \in Zipping,
           thread[t].alone =>
             /\ ~thread[t].lost /\ stage[Key(t)] = "ready"
             /\ Request(t) = "webapp.zip" => webapp[Key(t)] = Piece
    PROVE  Keeps(t)
<1> DEFINE k == Key(t)
           r == Request(t)
<1>1. k \in Keys /\ r \in AllRequests /\ n \in MadeNames /\ ThreadType /\ FileType
  BY ThreadIs, FileTells DEF IInv
<1>2. PICK new : new = IF name[k][n] = 0 THEN FreeNode ELSE name[k][n]
  OBVIOUS
<1>3. /\ name' = [name EXCEPT ![k][n] = new] /\ node' = [node EXCEPT ![new] = Blank]
      /\ Opens(t, l, new, TRUE)
  BY <1>2 DEF OpenWrite, Opens
<1>4. new \in Nodes /\ (name[k][n] = 0 => new \notin Held \cup Linked)
      /\ (name[k][n] # 0 => new = name[k][n])
  <2>1. name[k][n] \in Nodes \cup {0}
    BY <1>1 DEF FileType
  <2> QED
    BY <1>1, <1>2, <2>1, FreeNodeIs
<1>5. /\ thread' = [u \in Threads |-> thread'[u]] /\ OthersSame(t) /\ Shape(thread'[t])
      /\ thread'[t].pc = l /\ thread'[t].request = r /\ thread'[t].key = k
      /\ thread'[t].fd = new /\ thread'[t].at = 0 /\ thread'[t].good = TRUE
      /\ thread'[t].lost = thread[t].lost /\ thread'[t].alone = thread[t].alone
  BY <1>1, <1>3, Opened DEF Key, Request
<1>6. \A j \in Keys, m \in MadeNames :
        name'[j][m] = IF j = k /\ m = n THEN new ELSE name[j][m]
  BY <1>1, <1>3 DEF FileType
<1>7. \A m \in Nodes : node'[m] = IF m = new THEN Blank ELSE node[m]
  BY <1>1, <1>3 DEF FileType
<1>8. FileType'
  <2>1. Blank \in [Piece -> {"hole", "ok", "bad"}]
    BY DEF Blank
  <2>2. node' \in [Nodes -> [Piece -> {"hole", "ok", "bad"}]]
    BY <1>1, <1>3, <1>4, <2>1 DEF FileType
  <2>3. name' \in [Keys -> [MadeNames -> Nodes \cup {0}]]
    BY <1>1, <1>3, <1>4 DEF FileType
  <2> QED
    BY <1>1, <2>2, <2>3 DEF FileType
<1>9. ThreadOK(thread'[t])
  BY <1>1, <1>4, <1>5 DEF ThreadOK, Suits, Holding
<1>10. Stays(t)
  BY <1>5, <1>9 DEF Stays, Key, Request
<1>11. FileOf(thread'[t]) = n
  BY <1>5 DEF FileOf
<1>12. FdFrom(t)
  BY <1>1, <1>5, <1>6, <1>11 DEF FdFrom
<1>13. NamesFrom(t)
  BY <1>4, <1>5, <1>6, <1>11 DEF NamesFrom
<1>14. NodesFrom(t)
  BY <1>5, <1>7 DEF NodesFrom
<1>15. WebFrom(t) /\ stage' = stage
  BY DEF WebFrom
<1>16. LeftFrom(t)
  BY <1>5 DEF LeftFrom
<1>17. thread[t].alone => Going(thread[t])'
  <2>1. /\ name'[k][n] = new /\ new # 0 /\ node'[new] = Blank /\ Prefix(Blank, 0)
        /\ 0 \in 0 .. Pieces - 1
    <3>1. 0 \notin Nodes
      BY DEF Nodes
    <3>2. 0 \in 0 .. Pieces - 1
      BY PieceAssumption
    <3> QED
      BY <1>1, <1>4, <1>6, <1>7, <3>1, <3>2, WholeIs
  <2>2. thread[t].alone => /\ ~thread[t].lost /\ stage'[k] = "ready"
                           /\ r = "webapp.zip" => webapp'[k] = Piece
    OBVIOUS
  <2> HIDE DEF k, r
  <2> QED
    BY <1>5, <1>11, <2>1, <2>2 DEF Going
<1> QED
  BY <1>5, <1>8, <1>10, <1>12, <1>13, <1>14, <1>15, <1>16, <1>17 DEF Keeps, Moves

LEMMA OpenZipKeeps ==
    ASSUME IInv, NEW t \in Threads, OpenZip(t), mix' = mix PROVE Keeps(t)
<1> DEFINE k == Key(t)
           r == Request(t)
<1>1. /\ At(t, "zip") /\ Busy(t) /\ r \in Zips /\ thread[t].fd = 0 /\ ThreadType
      /\ thread[t].pc \notin Dotting \cup Zipping
  BY ThreadIs DEF OpenZip, At, Busy, Dotting, Zipping, IInv, ThreadOK, Holding, ZipPlaces,
                  Request
<1>2. thread[t].alone => /\ ~thread[t].lost /\ stage[k] = "ready"
                         /\ r = "webapp.zip" => webapp[k] = Piece
  BY <1>1, ThreadIs DEF Going, Key, Request, At, Ready
<1>3. CASE stage[k] # "none"
  <2>1. OpenWrite(t, TempZip(r), "read", TRUE) /\ UNCHANGED <<mix, stage, webapp, leftover>>
    BY <1>3 DEF OpenZip
  <2>2. /\ TempZip(r) \in FilesOf(r) /\ TempZip(r) = FileAt("read", r)
        /\ Suits("read", r) /\ TempZip(r) \notin Programmed
    BY <1>1 DEF FilesOf, Diagrams, Zips, FileAt, Suits, DotPlaces, ZipPlaces, WebPlaces,
                TempZip, DotFile, Programmed
  <2> QED
    BY <1>1, <1>2, <1>3, <2>1, <2>2, OpenWriteKeeps
<1>4. CASE stage[k] = "none"
  <2>1. Answer(t, "404") /\ Quiet
    BY <1>4 DEF OpenZip, Quiet
  <2> QED
    BY <1>1, <1>4, <2>1, AnswerKeeps DEF Expected
<1> QED
  BY <1>3, <1>4

LEMMA DotFacts ==
    ASSUME IInv, NEW t \in Threads, thread[t].pc \in DotPlaces
    PROVE  /\ Busy(t) /\ Key(t) \in Keys /\ ThreadType /\ Request(t) \in Diagrams
           /\ Request(t) \notin Zips /\ Request(t) \notin {"webapp", "webapp.zip", "asset"}
           /\ Request(t) \in MadeNames /\ DotFile(Request(t)) \in MadeNames
           /\ DotFile(Request(t)) # Request(t)
           /\ {Request(t), DotFile(Request(t))} \subseteq FilesOf(Request(t)) \cap Programmed
           /\ FileOf(thread[t]) = FileAt(thread[t].pc, Request(t))
           /\ thread[t].pc \notin Holding => thread[t].fd = 0
           /\ thread[t].pc \notin Zipping
<1>1. /\ Busy(t) /\ Key(t) \in Keys /\ ThreadType /\ Request(t) \in Diagrams
      /\ FileOf(thread[t]) = FileAt(thread[t].pc, Request(t))
      /\ thread[t].pc \notin Holding => thread[t].fd = 0
      /\ thread[t].pc \notin Zipping
  BY ThreadIs DEF Busy, Zipping, IInv, ThreadOK, DotPlaces, Request, FileOf
<1>2. Request(t) \notin Zips /\ Request(t) \notin {"webapp", "webapp.zip", "asset"}
  BY <1>1 DEF Diagrams, Zips
<1>3. Request(t) \in MadeNames /\ DotFile(Request(t)) \in MadeNames
      /\ DotFile(Request(t)) # Request(t)
  BY <1>1, FilesDiffer DEF Diagrams
<1>4. {Request(t), DotFile(Request(t))} \subseteq FilesOf(Request(t)) \cap Programmed
  BY <1>1 DEF FilesOf, Programmed
<1> QED
  BY <1>1, <1>2, <1>3, <1>4

LEMMA RunFaustKeeps ==
    ASSUME IInv, NEW t \in Threads, RunFaust(t), mix' = mix PROVE Keeps(t)
<1> DEFINE k == Key(t)
           r == Request(t)
<1>1. At(t, "runfaust") /\ thread[t].pc \in DotPlaces /\ thread[t].pc \notin Holding \cup Dotting
  BY DEF RunFaust, At, DotPlaces, Holding, Dotting
<1>2. thread[t].alone => ~thread[t].lost /\ stage[k] = "ready"
  BY <1>1, DotFacts, ThreadIs DEF Going, Key, At, Ready
<1>3. CASE stage[k] = "ready"
  <2>1. OpenWrite(t, DotFile(r), "faust", TRUE) /\ UNCHANGED <<mix, stage, webapp, leftover>>
    BY <1>3 DEF RunFaust
  <2>2. DotFile(r) \in FilesOf(r) /\ DotFile(r) = FileAt("faust", r) /\ Suits("faust", r)
        /\ r # "webapp.zip"
    BY <1>1, DotFacts DEF FileAt, Suits, DotPlaces, ZipPlaces, WebPlaces
  <2> QED
    BY <1>1, <1>2, <1>3, <2>1, <2>2, DotFacts, OpenWriteKeeps
<1>4. CASE stage[k] # "ready"
  <2>1. Goto(t, "undotfailed") /\ Quiet
    BY <1>4 DEF RunFaust, Quiet
  <2>2. Suits("undotfailed", r)
    BY <1>1, DotFacts DEF Suits, DotPlaces, ZipPlaces, WebPlaces
  <2> QED
    BY <1>1, <1>2, <1>4, <2>1, <2>2, DotFacts, GotoKeeps
<1> QED
  BY <1>3, <1>4

LEMMA RunDotKeeps ==
    ASSUME IInv, NEW t \in Threads, RunDot(t), mix' = mix PROVE Keeps(t)
<1> DEFINE k == Key(t)
           r == Request(t)
           dot == name[k][DotFile(r)]
<1>1. At(t, "rundot") /\ thread[t].pc \in DotPlaces /\ thread[t].pc \notin Holding
  BY DEF RunDot, At, DotPlaces, Holding
<1>2. FileOf(thread[t]) = DotFile(r)
  BY <1>1, DotFacts DEF FileAt, At
<1>3. thread[t].alone => /\ ~thread[t].lost /\ stage[k] = "ready"
                         /\ dot # 0 /\ node[dot] = Whole
  BY <1>1, <1>2, DotFacts, ThreadIs DEF Going, Key, Request, At, Ready
<1>4. CASE stage[k] # "none" /\ ~thread[t].lost /\ dot # 0 /\ node[dot] = Whole
  <2>1. OpenWrite(t, r, "dot", TRUE) /\ UNCHANGED <<mix, stage, webapp, leftover>>
    BY <1>4 DEF RunDot
  <2>2. r \in FilesOf(r) /\ r = FileAt("dot", r) /\ Suits("dot", r) /\ r # "webapp.zip"
    BY <1>1, DotFacts DEF FileAt, Suits, DotPlaces, ZipPlaces, WebPlaces
  <2>3. stage[k] = "ready"
    BY <1>1, <1>4, DotFacts DEF IInv, FileInv
  <2>4. "dot" \in Dotting
    BY DEF Dotting
  <2> QED
    BY <1>1, <1>3, <1>4, <2>1, <2>2, <2>3, <2>4, DotFacts, OpenWriteKeeps
<1>5. CASE ~(stage[k] # "none" /\ ~thread[t].lost /\ dot # 0 /\ node[dot] = Whole)
  <2>1. Goto(t, "undotfailed") /\ Quiet
    BY <1>5 DEF RunDot, Quiet
  <2>2. Suits("undotfailed", r) /\ "undotfailed" \in Dotting
    BY <1>1, DotFacts DEF Suits, DotPlaces, ZipPlaces, WebPlaces, Dotting
  <2> QED
    BY <1>1, <1>3, <1>5, <2>1, <2>2, DotFacts, GotoKeeps
<1> QED
  BY <1>4, <1>5

LEMMA WriteWebappKeeps ==
    ASSUME IInv, NEW t \in Threads, WriteWebapp(t), mix' = mix PROVE Keeps(t)
<1> DEFINE k == Key(t)
           r == Request(t)
<1>1. /\ At(t, "webwrite") /\ thread[t].pc \in WebPlaces /\ ~thread[t].lost
      /\ UNCHANGED <<mix, stage, name, node, thread, leftover>>
  BY DEF WriteWebapp, At, WebPlaces
<1>2. PICK i \in Piece : webapp' = [webapp EXCEPT ![k] = @ \cup {i}]
  BY DEF WriteWebapp
<1>3. stage[k] = "ready" /\ k \in Keys /\ r \in {"webapp", "webapp.zip"}
  BY <1>1, WebFacts DEF IInv, FileInv
<1>4. FileType'
  BY <1>1, <1>2, <1>3 DEF IInv, FileType
<1>5. WebFrom(t)
  BY <1>1, <1>2, <1>3 DEF WebFrom, IInv, FileType
<1>6. Stays(t)
  <2>1. thread' = [u \in Threads |-> thread'[u]] /\ ThreadOK(thread'[t])
    BY <1>1 DEF IInv, ThreadType
  <2> QED
    BY <1>1, <2>1, WebFacts DEF Stays, OthersSame, Key, Request
<1>7. FdFrom(t) /\ NamesFrom(t) /\ NodesFrom(t)
  BY <1>1 DEF FdFrom, NamesFrom, NodesFrom
<1>8. LeftFrom(t)
  BY <1>1 DEF LeftFrom
<1>9. thread[t].alone => Going(thread[t])'
  BY <1>1, <1>3 DEF Going, At, Writing, Key
<1>10. thread'[t].pc # "idle" /\ thread'[t].alone = thread[t].alone
  BY <1>1 DEF At
<1> QED
  BY <1>1, <1>4, <1>5, <1>6, <1>7, <1>8, <1>9, <1>10 DEF Keeps, Moves

LEMMA KeptNodes ==
    ASSUME NEW nodes \in [Nodes -> [Piece -> {"hole", "ok", "bad"}]], Kept(nodes)
    PROVE  /\ node' \in [Nodes -> [Piece -> {"hole", "ok", "bad"}]]
           /\ \A u \in Threads :
                thread'[u].fd \in Nodes => node'[thread'[u].fd] = nodes[thread'[u].fd]
           /\ \A k \in Keys, m \in MadeNames :
                name'[k][m] \in Nodes => node'[name'[k][m]] = nodes[name'[k][m]]
           /\ \A n \in Nodes : node'[n] # nodes[n] =>
                /\ \A u \in Threads : thread'[u].fd # n
                /\ \A k \in Keys, m \in MadeNames : name'[k][m] # n
<1> DEFINE held == {thread'[u].fd : u \in Threads}
           linked == {name'[k][m] : k \in Keys, m \in MadeNames}
<1>1. node' = [n \in Nodes |-> IF n \in held \cup linked THEN nodes[n] ELSE Blank]
  BY DEF Kept
<1>2. Blank \in [Piece -> {"hole", "ok", "bad"}]
  BY DEF Blank
<1>3. /\ \A u \in Threads : thread'[u].fd \in held
      /\ \A k \in Keys, m \in MadeNames : name'[k][m] \in linked
  OBVIOUS
<1> HIDE DEF held, linked
<1>4. node' \in [Nodes -> [Piece -> {"hole", "ok", "bad"}]]
  BY <1>1, <1>2
<1>5. \A n \in Nodes : node'[n] # nodes[n] => n \notin held \cup linked
  BY <1>1
<1> QED
  BY <1>3, <1>4, <1>5

\* Nodes are only lost that nobody can find.
LEMMA KeptFiles ==
    ASSUME IInv, NEW t \in Threads, Kept(node), NEW n \in MadeNames, Key(t) \in Keys,
           name' = name \/ (Unlink(Key(t), n) /\ n \in FilesOf(Request(t))),
           UNCHANGED <<mix, stage, webapp>>
    PROVE  NamesFrom(t) /\ NodesFrom(t) /\ WebFrom(t) /\ FileType' /\ stage' = stage
<1>1. FileType
  BY DEF IInv
<1>2. /\ name' \in [Keys -> [MadeNames -> Nodes \cup {0}]]
      /\ \A k \in Keys, m \in MadeNames : name'[k][m] # name[k][m] =>
           k = Key(t) /\ m \in FilesOf(Request(t)) /\ name'[k][m] = 0
  <2>1. CASE name' = name
    BY <1>1, <2>1 DEF FileType
  <2>2. CASE Unlink(Key(t), n) /\ n \in FilesOf(Request(t))
    <3>1. name' = [name EXCEPT ![Key(t)][n] = 0] /\ n \in FilesOf(Request(t))
      BY <2>2 DEF Unlink
    <3>2. name' \in [Keys -> [MadeNames -> Nodes \cup {0}]]
      BY <1>1, <3>1 DEF FileType
    <3>3. \A k \in Keys, m \in MadeNames :
            name'[k][m] = IF k = Key(t) /\ m = n THEN 0 ELSE name[k][m]
      BY <1>1, <3>1 DEF FileType
    <3> QED
      BY <3>1, <3>2, <3>3
  <2> QED
    BY <2>1, <2>2
<1>3. node \in [Nodes -> [Piece -> {"hole", "ok", "bad"}]]
  BY <1>1 DEF FileType
<1>4. /\ node' \in [Nodes -> [Piece -> {"hole", "ok", "bad"}]]
      /\ \A m \in Nodes : node'[m] # node[m] =>
           /\ \A u \in Threads : thread'[u].fd # m
           /\ \A k \in Keys, j \in MadeNames : name'[k][j] # m
  BY <1>3, KeptNodes
<1>5. FileType'
  BY <1>1, <1>2, <1>4 DEF FileType
<1> QED
  BY <1>2, <1>4, <1>5 DEF NamesFrom, NodesFrom, WebFrom

\* The request ends, and closes its file.
LEMMA ClosedKeeps ==
    ASSUME IInv, NEW t \in Threads, Busy(t), Kept(node), NEW code, Answer(t, code),
           NEW n \in MadeNames, Key(t) \in Keys,
           name' = name \/ (Unlink(Key(t), n) /\ n \in FilesOf(Request(t))),
           UNCHANGED <<mix, stage, webapp>>, leftover \subseteq leftover',
           thread[t].pc \in Dotting => name'[Key(t)][DotFile(Request(t))] = 0,
           thread[t].pc \in Zipping /\ Request(t) \in Zips =>
             \/ name'[Key(t)][TempZip(Request(t))] = 0
             \/ <<Key(t), TempZip(Request(t))>> \in leftover',
           thread[t].alone => Expected(t, code)
    PROVE  Keeps(t)
<1>1. /\ thread' = [u \in Threads |-> thread'[u]] /\ OthersSame(t)
      /\ Shape(thread'[t]) /\ thread'[t].pc = "idle" /\ thread'[t].fd = 0
      /\ thread'[t].answer = code
  BY IsAnswered DEF IInv
<1>2. ThreadOK(thread'[t])
  BY <1>1 DEF ThreadOK, DotPlaces, ZipPlaces, WebPlaces
<1>3. Stays(t)
  BY <1>1, <1>2 DEF Stays
<1>4. FdFrom(t)
  BY <1>1 DEF FdFrom
<1>5. LeftFrom(t)
  BY DEF LeftFrom, Request
<1> QED
  BY <1>1, <1>3, <1>4, <1>5, KeptFiles DEF Keeps, Moves

LEMMA SendingKeeps ==
    ASSUME IInv, NEW t \in Threads, Sending(t), mix' = mix PROVE Keeps(t)
<1> DEFINE k == Key(t)
           r == Request(t)
<1>1. /\ At(t, "sending") /\ Busy(t) /\ k \in Keys /\ r \in Diagrams \cup Zips
      /\ thread[t].pc \notin Dotting \cup Zipping
      /\ UNCHANGED <<mix, stage, name, webapp, leftover>> /\ Kept(node)
  BY ThreadIs DEF Sending, At, Busy, Dotting, Zipping, ThreadOK, Request
<1>2. thread[t].alone => /\ stage[k] = "ready"
                         /\ thread[t].fd # 0 /\ thread[t].size = Pieces
                         /\ node[thread[t].fd] = Whole
  BY <1>1, ThreadIs DEF Going, Key, Request, At, Ready
<1>3. PICK code : Answer(t, code) /\ (thread[t].alone => code = "200")
  BY <1>2 DEF Sending
<1>4. r \notin {"webapp", "asset"}
  BY <1>1 DEF Diagrams, Zips
<1>5. thread[t].alone => Expected(t, code)
  BY <1>2, <1>3, <1>4 DEF Expected
<1>6. "signals.svg" \in MadeNames
  BY FilesDiffer
<1> QED
  BY <1>1, <1>3, <1>5, <1>6, ClosedKeeps

LEMMA ReadDirectoryKeeps ==
    ASSUME IInv, NEW t \in Threads, ReadDirectory(t), mix' = mix PROVE Keeps(t)
<1> DEFINE k == Key(t)
           r == Request(t)
           dir == IF r = "svg.zip" THEN stage[k] = "ready" ELSE webapp[k] # {}
<1>1. /\ At(t, "read") /\ Busy(t) /\ k \in Keys /\ r \in Zips /\ r \in AllRequests
      /\ thread[t].pc \notin Dotting /\ UNCHANGED <<mix, stage, name, webapp>> /\ ThreadType
  BY ThreadIs DEF ReadDirectory, At, Busy, Dotting, ThreadOK, ZipPlaces, Request, IInv
<1>2. /\ TempZip(r) \in MadeNames /\ TempZip(r) \in FilesOf(r) /\ r \notin Diagrams
      /\ \A l \in {"read", "write"} : FileAt(l, r) = TempZip(r)
  BY <1>1, FilesDiffer DEF FilesOf, Diagrams, Zips, FileAt
<1>3. thread[t].alone =>
        /\ ~thread[t].lost /\ stage[k] = "ready" /\ (r = "webapp.zip" => webapp[k] = Piece)
        /\ thread[t].fd # 0 /\ name[k][TempZip(r)] = thread[t].fd /\ thread[t].good
        /\ thread[t].at \in 0 .. Pieces - 1 /\ Prefix(node[thread[t].fd], thread[t].at)
  <2>1. FileOf(thread[t]) = TempZip(r)
    BY <1>1, <1>2 DEF FileOf, At, Request
  <2> QED
    BY <1>1, <2>1, ThreadIs DEF Going, Key, Request, At, Ready, Writing
<1>4. 1 \in Piece
  BY PieceAssumption DEF Piece
<1>5. r = "svg.zip" \/ r = "webapp.zip"
  BY <1>1 DEF Zips
<1>6. CASE dir
  <2> DEFINE g == r = "svg.zip" \/ webapp[k] = Piece
  <2>1. Lists(t, "write", g) /\ Quiet
    BY <1>1, <1>6 DEF ReadDirectory, Lists, Quiet
  <2>2. thread[t].alone => g
    BY <1>3, <1>5
  <2> HIDE DEF g
  <2>3. /\ thread' = [u \in Threads |-> thread'[u]] /\ OthersSame(t) /\ Shape(thread'[t])
        /\ thread'[t].pc = "write" /\ thread'[t].request = r /\ thread'[t].key = k
        /\ thread'[t].fd = thread[t].fd /\ thread'[t].at = thread[t].at
        /\ thread'[t].good = g /\ thread'[t].lost = thread[t].lost
        /\ thread'[t].alone = thread[t].alone
    BY <1>1, <2>1, Listed DEF Key, Request
  <2>4. ThreadOK(thread'[t])
    BY <1>1, <2>3, ThreadIs DEF ThreadOK, Holding, DotPlaces, ZipPlaces, WebPlaces
  <2>5. Stays(t)
    BY <1>1, <2>3, <2>4 DEF Stays, Key, Request
  <2>6. FileOf(thread'[t]) = TempZip(r) /\ FileOf(thread[t]) = TempZip(r)
    BY <1>1, <1>2, <2>3 DEF FileOf, At, Request
  <2>7. FdFrom(t)
    BY <2>3, <2>6 DEF FdFrom
  <2>8. LeftFrom(t)
    BY <1>1, <2>1, <2>3 DEF LeftFrom, Quiet, Zipping
  <2>9. thread[t].alone => Going(thread[t])'
    <3> HIDE DEF k, r
    <3> QED
      BY <1>3, <2>1, <2>2, <2>3, <2>6 DEF Going, Quiet
  <2> QED
    BY <2>1, <2>3, <2>5, <2>7, <2>8, <2>9, QuietFiles DEF Keeps, Moves
<1>7. CASE ~dir
  <2>1. /\ Answer(t, "404") /\ Kept(node)
        /\ leftover' = IF name[k][TempZip(r)] = 0 THEN leftover
                       ELSE leftover \cup {<<k, TempZip(r)>>}
    BY <1>7 DEF ReadDirectory
  <2>2. ~thread[t].alone
    BY <1>3, <1>4, <1>5, <1>7
  <2>3. /\ leftover \subseteq leftover'
        /\ name'[k][TempZip(r)] = 0 \/ <<k, TempZip(r)>> \in leftover'
    BY <1>1, <2>1
  <2> QED
    BY <1>1, <1>2, <2>1, <2>2, <2>3, ClosedKeeps
<1> QED
  BY <1>6, <1>7

LEMMA ProgramFailsKeeps ==
    ASSUME IInv, NEW t \in Threads, ProgramFails(t), mix' = mix PROVE Keeps(t)
<1> DEFINE k == Key(t)
           r == Request(t)
<1>1. /\ thread[t].pc \in DotPlaces /\ Kept(node) /\ Fails(t, "undotfailed")
      /\ UNCHANGED <<mix, stage, name, webapp, leftover>>
  BY DEF ProgramFails, Fails, DotPlaces
<1>2. /\ thread' = [u \in Threads |-> thread'[u]] /\ OthersSame(t) /\ Shape(thread'[t])
      /\ thread'[t].pc = "undotfailed" /\ thread'[t].request = r /\ thread'[t].key = k
      /\ thread'[t].fd = 0 /\ thread'[t].lost = thread[t].lost
      /\ thread'[t].alone = FALSE
  BY <1>1, DotFacts, Failed DEF Key, Request
<1>3. ThreadOK(thread'[t])
  <2>1. r \in AllRequests
    BY <1>1, DotFacts, ThreadIs
  <2> QED
    BY <1>1, <1>2, <2>1, DotFacts DEF ThreadOK, Holding, ZipPlaces, WebPlaces
<1>4. Stays(t)
  BY <1>1, <1>2, <1>3, DotFacts DEF Stays, Key, Request
<1>5. FdFrom(t)
  BY <1>2 DEF FdFrom
<1>6. LeftFrom(t)
  BY <1>1, <1>2, DotFacts DEF LeftFrom, Dotting
<1>7. NamesFrom(t) /\ NodesFrom(t) /\ WebFrom(t) /\ FileType' /\ stage' = stage
  BY <1>1, DotFacts, KeptFiles
<1> QED
  BY <1>2, <1>4, <1>5, <1>6, <1>7 DEF Keeps, Moves

LEMMA RemoveZipKeeps ==
    ASSUME IInv, NEW t \in Threads, RemoveZip(t), mix' = mix PROVE Keeps(t)
<1> DEFINE k == Key(t)
           r == Request(t)
           n == TempZip(r)
<1>1. /\ At(t, "unlink") /\ Busy(t) /\ k \in Keys /\ r \in Zips /\ r \in AllRequests
      /\ thread[t].pc \notin Dotting /\ ThreadType /\ Kept(node) /\ Goto(t, "sending")
      /\ Unlink(k, n) /\ leftover' = leftover \ {<<k, n>>}
      /\ UNCHANGED <<mix, stage, webapp>>
  BY ThreadIs DEF RemoveZip, At, Busy, Dotting, ThreadOK, ZipPlaces, Request, IInv
<1>2. n \in MadeNames /\ n \in FilesOf(r) /\ r \notin Diagrams
      /\ \A l \in {"unlink", "sending"} : FileAt(l, r) = n
  BY <1>1, FilesDiffer DEF FilesOf, Diagrams, Zips, FileAt
<1>3. thread[t].alone =>
        /\ ~thread[t].lost /\ stage[k] = "ready"
        /\ thread[t].fd # 0 /\ thread[t].size = Pieces /\ node[thread[t].fd] = Whole
  BY <1>1, ThreadIs DEF Going, Key, Request, At, Ready
<1>4. /\ thread' = [u \in Threads |-> thread'[u]] /\ OthersSame(t) /\ Shape(thread'[t])
      /\ thread'[t].pc = "sending" /\ thread'[t].request = r /\ thread'[t].key = k
      /\ thread'[t].fd = thread[t].fd /\ thread'[t].size = thread[t].size
      /\ thread'[t].lost = thread[t].lost /\ thread'[t].alone = thread[t].alone
  BY <1>1, GoneTo DEF Key, Request
<1>5. ThreadOK(thread'[t])
  BY <1>1, <1>4, ThreadIs DEF ThreadOK, Holding, DotPlaces, ZipPlaces, WebPlaces
<1>6. Stays(t)
  BY <1>1, <1>4, <1>5 DEF Stays, Key, Request
<1>7. FileOf(thread'[t]) = n /\ FileOf(thread[t]) = n
  BY <1>1, <1>2, <1>4 DEF FileOf, At, Request
<1>8. FdFrom(t)
  BY <1>4, <1>7 DEF FdFrom
<1>9. name'[k][n] = 0
  BY <1>1, <1>2 DEF Unlink, IInv, FileType
<1>10. LeftFrom(t)
  BY <1>1, <1>9 DEF LeftFrom
<1>11. NamesFrom(t) /\ NodesFrom(t) /\ WebFrom(t) /\ FileType' /\ stage' = stage
  BY <1>1, <1>2, KeptFiles
<1>12. thread[t].alone => node'[thread[t].fd] = Whole
  <2>1. thread[t].fd # 0 => thread[t].fd \in Nodes
    BY ThreadIs DEF ThreadOK
  <2>2. node \in [Nodes -> [Piece -> {"hole", "ok", "bad"}]]
    BY DEF IInv, FileType
  <2>3. thread'[t].fd \in Nodes => node'[thread'[t].fd] = node[thread'[t].fd]
    BY <1>1, <2>2, KeptNodes
  <2> QED
    BY <1>3, <1>4, <2>1, <2>3
<1>13. thread[t].alone => Going(thread[t])'
  <2> HIDE DEF k, r, n
  <2> QED
    BY <1>1, <1>3, <1>4, <1>12 DEF Going, Writing
<1> QED
  BY <1>4, <1>6, <1>8, <1>10, <1>11, <1>13 DEF Keeps, Moves

LEMMA RemoveDotKeeps ==
    ASSUME IInv, NEW t \in Threads, RemoveDot(t), mix' = mix PROVE Keeps(t)
<1> DEFINE k == Key(t)
           r == Request(t)
           n == DotFile(r)
<1>1. /\ thread[t].pc \in DotPlaces /\ thread[t].pc \notin Holding /\ Kept(node)
      /\ Unlink(k, n) /\ UNCHANGED <<mix, stage, webapp, leftover>>
  BY DEF RemoveDot, DotPlaces, Holding
<1>2. \A j \in Keys, m \in MadeNames :
        name'[j][m] = IF j = k /\ m = n THEN 0 ELSE name[j][m]
  BY <1>1, DotFacts DEF Unlink, IInv, FileType
<1>3. name'[k][n] = 0 /\ name'[k][r] = name[k][r]
  BY <1>1, <1>2, DotFacts
<1>4. CASE At(t, "undot")
  <2>1. Goto(t, "made")
    BY <1>4 DEF RemoveDot
  <2>2. /\ thread' = [u \in Threads |-> thread'[u]] /\ OthersSame(t) /\ Shape(thread'[t])
        /\ thread'[t].pc = "made" /\ thread'[t].request = r /\ thread'[t].key = k
        /\ thread'[t].fd = 0 /\ thread'[t].lost = thread[t].lost
        /\ thread'[t].alone = thread[t].alone
    BY <1>1, <2>1, DotFacts, GoneTo DEF Key, Request
  <2>3. ThreadOK(thread'[t])
    <3>1. r \in AllRequests
      BY <1>1, DotFacts, ThreadIs
    <3> QED
      BY <1>1, <2>2, <3>1, DotFacts DEF ThreadOK, Holding, ZipPlaces, WebPlaces
  <2>4. Stays(t)
    BY <1>1, <2>2, <2>3, DotFacts DEF Stays, Key, Request
  <2>5. FdFrom(t)
    BY <2>2 DEF FdFrom
  <2>6. LeftFrom(t)
    BY <1>1, <1>3, DotFacts DEF LeftFrom
  <2>7. NamesFrom(t) /\ NodesFrom(t) /\ WebFrom(t) /\ FileType' /\ stage' = stage
    BY <1>1, DotFacts, KeptFiles
  <2>8. FileOf(thread[t]) = r /\ FileOf(thread'[t]) = r
    BY <1>1, <1>4, <2>2, DotFacts DEF FileOf, FileAt, At
  <2>9. thread[t].alone => /\ ~thread[t].lost /\ stage[k] = "ready"
                           /\ name[k][r] # 0 /\ node[name[k][r]] = Whole
    BY <1>1, <1>4, <2>8, DotFacts, ThreadIs DEF Going, Key, Request, At, Ready
  <2>10. name[k][r] # 0 => node'[name'[k][r]] = node[name[k][r]]
    <3>1. name[k][r] # 0 => name[k][r] \in Nodes
      BY <1>1, DotFacts DEF IInv, FileType
    <3>2. node \in [Nodes -> [Piece -> {"hole", "ok", "bad"}]]
      BY DEF IInv, FileType
    <3>3. name'[k][r] \in Nodes => node'[name'[k][r]] = node[name'[k][r]]
      BY <1>1, <3>2, DotFacts, KeptNodes
    <3> QED
      BY <1>3, <3>1, <3>3
  <2>11. thread[t].alone => Going(thread[t])'
    <3> HIDE DEF k, r, n
    <3> QED
      BY <1>1, <1>3, <2>2, <2>8, <2>9, <2>10 DEF Going, Writing
  <2> QED
    BY <2>2, <2>4, <2>5, <2>6, <2>7, <2>11 DEF Keeps, Moves
<1>5. CASE At(t, "undotfailed")
  <2>1. Answer(t, "500")
    BY <1>5 DEF RemoveDot, At
  <2>2. ~thread[t].alone
    BY <1>1, <1>5, DotFacts, ThreadIs DEF Going, At
  <2> QED
    BY <1>1, <1>3, <2>1, <2>2, DotFacts, ClosedKeeps
<1> QED
  BY <1>4, <1>5 DEF RemoveDot, At

\* Where a request goes when its file is complete.
After(location) ==
    IF location = "write" THEN "send" ELSE IF location = "faust" THEN "rundot" ELSE "undot"

LEMMA WritePieceKeeps ==
    ASSUME IInv, NEW t \in Threads, NEW l \in {"write", "faust", "dot"}, At(t, l),
           WritePiece(t, After(l)), UNCHANGED <<mix, stage, webapp, leftover>>
    PROVE  Keeps(t)
<1> DEFINE k == Key(t)
           r == Request(t)
           f == FileAt(l, r)
           d == thread[t].fd
           a == thread[t].at
           i == a + 1
           g == IF thread[t].good THEN "ok" ELSE "bad"
<1>1. /\ Busy(t) /\ k \in Keys /\ r \in AllRequests /\ ThreadType
      /\ l = "write" => r \in Zips
      /\ l \in {"faust", "dot"} => r \in Diagrams
      /\ d \in Nodes \cup {0}
  BY ThreadIs DEF At, Busy, ThreadOK, ZipPlaces, DotPlaces, Request, IInv
<1>2. /\ r \notin {"webapp", "asset"} /\ (r \in Diagrams => r \notin Zips)
      /\ f = FileAt(After(l), r) /\ f \in MadeNames /\ FileOf(thread[t]) = f
  <2>1. r \notin {"webapp", "asset"} /\ (r \in Diagrams => r \notin Zips)
    BY <1>1 DEF Diagrams, Zips
  <2>2. f = FileAt(After(l), r)
    BY <1>1, <2>1 DEF FileAt, After
  <2>3. FileOf(thread[t]) = f
    BY DEF FileOf, At, Request
  <2>4. f \in MadeNames
    BY <2>3, ThreadIs, FileIsOwn DEF At, Holding
  <2> QED
    BY <2>1, <2>2, <2>3, <2>4
<1>3. thread[t].alone =>
        /\ ~thread[t].lost /\ stage[k] = "ready"
        /\ d # 0 /\ name[k][f] = d /\ thread[t].good /\ a \in 0 .. Pieces - 1
        /\ Prefix(node[d], a)
  BY <1>1, <1>2, ThreadIs DEF Going, Key, Request, At, Ready, Writing
<1>4. PICK nodes : nodes = [node EXCEPT ![d][i] = g]
  OBVIOUS
<1>5. /\ Kept(nodes) /\ name' = name
      /\ i < Pieces => Advances(t, i)
      /\ ~(i < Pieces) => Closes(t, After(l))
  <2>1. Kept([node EXCEPT ![d][i] = g])
    BY DEF WritePiece
  <2>2. Kept(nodes)
    BY <1>4, <2>1
  <2>3. name' = name
    BY DEF WritePiece
  <2>4. i < Pieces => Advances(t, i)
    BY DEF WritePiece, Advances
  <2>5. ~(i < Pieces) => Closes(t, After(l))
    BY DEF WritePiece, Closes
  <2> QED
    BY <2>2, <2>3, <2>4, <2>5
<1>6. /\ nodes \in [Nodes -> [Piece -> {"hole", "ok", "bad"}]]
      /\ \A n \in Nodes : n # d => nodes[n] = node[n]
      /\ d # 0 => \A j \in Piece : nodes[d][j] = IF j = i THEN g ELSE node[d][j]
  <2>1. node \in [Nodes -> [Piece -> {"hole", "ok", "bad"}]]
    BY DEF IInv, FileType
  <2>2. g \in {"hole", "ok", "bad"}
    OBVIOUS
  <2> HIDE DEF g, d, i
  <2>3. nodes \in [Nodes -> [Piece -> {"hole", "ok", "bad"}]]
    BY <1>4, <2>1, <2>2
  <2>4. \A n \in Nodes : n # d => nodes[n] = node[n]
    BY <1>4, <2>1
  <2>5. d # 0 => \A j \in Piece : nodes[d][j] = IF j = i THEN g ELSE node[d][j]
    BY <1>1, <1>4, <2>1
  <2> QED
    BY <2>3, <2>4, <2>5
<1> HIDE DEF g
<1>7. /\ thread' = [u \in Threads |-> thread'[u]] /\ OthersSame(t) /\ Shape(thread'[t])
      /\ thread'[t].request = r /\ thread'[t].key = k
      /\ thread'[t].lost = thread[t].lost /\ thread'[t].alone = thread[t].alone
      /\ i < Pieces => /\ thread'[t].pc = l /\ thread'[t].fd = d /\ thread'[t].at = i
                       /\ thread'[t].good = thread[t].good
      /\ ~(i < Pieces) => thread'[t].pc = After(l) /\ thread'[t].fd = 0
  <2>1. CASE i < Pieces
    <3>1. Advances(t, i)
      BY <1>5, <2>1
    <3> HIDE DEF i
    <3> QED
      BY <1>1, <2>1, <3>1, Advanced DEF Key, Request, At
  <2>2. CASE ~(i < Pieces)
    <3>1. Closes(t, After(l))
      BY <1>5, <2>2
    <3> HIDE DEF i
    <3> QED
      BY <1>1, <2>2, <3>1, Closed DEF Key, Request
  <2> QED
    BY <2>1, <2>2
<1> DEFINE more == i < Pieces
<1>8. more \/ ~more
  OBVIOUS
<1>9. thread[t].alone => /\ more => i \in 0 .. Pieces - 1
                         /\ ~more => i = Pieces
  BY <1>3, PieceAssumption
<1>10. thread[t].alone => Prefix(nodes[d], i)
  <2> SUFFICES ASSUME thread[t].alone, NEW j \in Piece
               PROVE  nodes[d][j] = IF j <= i THEN "ok" ELSE "hole"
    BY DEF Prefix
  <2>1. node[d][j] = IF j <= a THEN "ok" ELSE "hole"
    BY <1>3 DEF Prefix
  <2>2. g = "ok" /\ d # 0 /\ a \in Nat /\ j \in Nat
    BY <1>3, PieceAssumption DEF g, Piece
  <2>3. nodes[d][j] = IF j = i THEN "ok" ELSE node[d][j]
    BY <1>6, <2>2
  <2>4. CASE j = i
    BY <2>2, <2>3, <2>4
  <2>5. CASE j # i
    <3>1. j <= i <=> j <= a
      BY <2>2, <2>5
    <3> QED
      BY <2>1, <2>3, <2>5, <3>1
  <2> QED
    BY <2>4, <2>5
<1>11. thread[t].alone => i \in Nat /\ (i = Pieces => nodes[d] = Whole)
  <2>1. thread[t].alone => d \in Nodes
    BY <1>1, <1>3
  <2>2. thread[t].alone => i \in Nat
    BY <1>3, PieceAssumption
  <2> QED
    BY <1>6, <1>10, <2>1, <2>2, WholeIs
<1> HIDE DEF i, a, more
<1>12. /\ thread'[t].pc \in {l, After(l)} /\ FileOf(thread'[t]) = f
       /\ more => thread'[t].pc = l
  BY <1>2, <1>7, <1>8 DEF FileOf, more
<1>13. /\ l \in Holding /\ l # "idle" /\ After(l) \in {"send", "rundot", "undot"}
       /\ After(l) = "send" => l = "write"
       /\ l # "write" => After(l) \in DotPlaces \cap Dotting
       /\ l = "write" => After(l) \in Zipping
       /\ (l \in Dotting <=> l # "write") /\ (l \in Zipping <=> l = "write")
       /\ l \notin WebPlaces \cup {"find", "webdir", "sending"}
       /\ After(l) \notin WebPlaces \cup ZipPlaces \cup {"find", "webdir", "sending", "idle"}
  BY DEF Holding, After, DotPlaces, Dotting, ZipPlaces, Zipping, WebPlaces
<1>14. ThreadOK(thread'[t])
  <2>1. CASE more
    <3>1. thread'[t].pc = l /\ thread'[t].fd = d
      BY <1>7, <2>1 DEF more
    <3> QED
      BY <1>1, <1>7, <1>13, <3>1, ThreadIs DEF ThreadOK, At, Request, Key
  <2>2. CASE ~more
    <3>1. thread'[t].pc = After(l) /\ thread'[t].fd = 0
      BY <1>7, <2>2 DEF more
    <3>2. After(l) \in DotPlaces => r \in Diagrams
      BY <1>1 DEF DotPlaces, After
    <3> QED
      BY <1>1, <1>7, <1>13, <3>1, <3>2 DEF ThreadOK
  <2> QED
    BY <2>1, <2>2
<1>15. Stays(t)
  BY <1>1, <1>7, <1>12, <1>13, <1>14 DEF Stays, Key, Request, WebPlaces
<1>16. FdFrom(t)
  BY <1>2, <1>7, <1>8, <1>12 DEF FdFrom, more
<1>17. LeftFrom(t)
  BY <1>12, <1>13 DEF LeftFrom, At
<1>18. /\ node' \in [Nodes -> [Piece -> {"hole", "ok", "bad"}]]
       /\ \A n \in Nodes : node'[n] # nodes[n] =>
            /\ \A u \in Threads : thread'[u].fd # n
            /\ \A j \in Keys, m \in MadeNames : name'[j][m] # n
       /\ \A j \in Keys, m \in MadeNames :
            name'[j][m] \in Nodes => node'[name'[j][m]] = nodes[name'[j][m]]
  BY <1>5, <1>6, KeptNodes
<1>19. NamesFrom(t) /\ WebFrom(t) /\ NodesFrom(t)
  BY <1>5, <1>6, <1>18 DEF NamesFrom, WebFrom, NodesFrom
<1>20. FileType' /\ stage' = stage
  BY <1>5, <1>18 DEF IInv, FileType
<1>21. thread[t].alone => name'[k][f] = d /\ d # 0 /\ node'[d] = nodes[d]
  BY <1>1, <1>2, <1>3, <1>5, <1>18
<1>22. ASSUME thread[t].alone PROVE Going(thread[t])'
  <2>1. ~thread'[t].lost /\ stage'[k] = "ready" /\ thread'[t].key = k /\ thread'[t].request = r
    BY <1>3, <1>7, <1>22
  <2>2. CASE more
    <3>1. /\ thread'[t].pc = l /\ thread'[t].fd = d /\ thread'[t].at = i /\ thread'[t].good
          /\ i \in 0 .. Pieces - 1 /\ name'[k][f] = d /\ d # 0
          /\ Prefix(node'[d], i)
      BY <1>3, <1>7, <1>9, <1>10, <1>21, <1>22, <2>2 DEF more
    <3> HIDE DEF k, r, f, d
    <3> QED
      BY <1>12, <2>1, <3>1 DEF Going
  <2>3. CASE ~more
    <3>1. /\ thread'[t].pc = After(l) /\ name'[k][f] # 0 /\ node'[name'[k][f]] = Whole
      BY <1>7, <1>9, <1>11, <1>21, <1>22, <2>3 DEF more
    <3> HIDE DEF k, r, f, d
    <3> QED
      BY <1>2, <1>12, <1>13, <2>1, <3>1 DEF Going, Writing
  <2> QED
    BY <2>2, <2>3
<1>23. thread'[t].pc # "idle"
  BY <1>12, <1>13
<1> QED
  BY <1>7, <1>15, <1>16, <1>17, <1>19, <1>20, <1>22, <1>23 DEF Keeps, Moves

LEMMA StepKeeps ==
    ASSUME IInv, NEW t \in Threads, Step(t) \/ ProgramFails(t), mix' = mix PROVE Keeps(t)
<1>1. CASE WriteZip(t) \/ WriteDot(t) \/ WriteDiagram(t)
  <2>1. CASE WriteZip(t)
    BY <2>1, WritePieceKeeps DEF WriteZip, After
  <2>2. CASE WriteDot(t)
    BY <2>2, WritePieceKeeps DEF WriteDot, After
  <2>3. CASE WriteDiagram(t)
    BY <2>3, WritePieceKeeps DEF WriteDiagram, After
  <2> QED
    BY <1>1, <2>1, <2>2, <2>3
<1>2. CASE Begin(t) \/ SendFile(t) \/ OpenToSend(t) \/ Sending(t) \/ OpenZip(t)
           \/ ReadDirectory(t) \/ RemoveZip(t)
  BY <1>2, BeginKeeps, SendFileKeeps, OpenToSendKeeps, SendingKeeps, OpenZipKeeps,
     ReadDirectoryKeeps, RemoveZipKeeps
<1>3. CASE FindSources(t) \/ FindDsp(t) \/ RunFaust(t) \/ RunDot(t) \/ RemoveDot(t)
           \/ Made(t) \/ ProgramFails(t)
  BY <1>3, FindSourcesKeeps, FindDspKeeps, RunFaustKeeps, RunDotKeeps, RemoveDotKeeps,
     MadeKeeps, ProgramFailsKeeps
<1>4. CASE FindIndex(t) \/ RunWebapp(t) \/ WriteWebapp(t) \/ EndWebapp(t)
           \/ WebappFails(t) \/ WebappMade(t) \/ FindWebapp(t)
  BY <1>4, FindIndexKeeps, RunWebappKeeps, WriteWebappKeeps, EndWebappKeeps,
     WebappFailsKeeps, WebappMadeKeeps, FindWebappKeeps
<1> QED
  BY <1>1, <1>2, <1>3, <1>4 DEF Step

-----------------------------------------------------------------------------
(* Steps that tell other requests that they are not alone any more.        *)

\* The request is where it was; at most it is not alone any more, and its
\* program has lost its directory.
Same(u) ==
    /\ Shape(thread'[u])
    /\ thread'[u].pc = thread[u].pc /\ thread'[u].request = thread[u].request
    /\ thread'[u].key = thread[u].key /\ thread'[u].fd = thread[u].fd
    /\ At(u, "webwrite") /\ thread[u].lost => thread'[u].lost
    /\ thread'[u].alone => thread'[u] = thread[u]

LEMMA GoingStays ==
    ASSUME IInv, NEW u \in Threads, Busy(u), thread[u].alone, thread'[u] = thread[u],
           stage'[Key(u)] = stage[Key(u)], webapp'[Key(u)] = webapp[Key(u)],
           \A n \in MadeNames :
             /\ name'[Key(u)][n] = name[Key(u)][n]
             /\ name[Key(u)][n] # 0 => node'[name[Key(u)][n]] = node[name[Key(u)][n]],
           thread[u].fd # 0 => node'[thread[u].fd] = node[thread[u].fd]
    PROVE  Going(thread[u])'
<1> DEFINE th == thread[u]
           k == th.key
           r == th.request
           f == FileOf(th)
<1>1. Going(th) /\ ThreadOK(th)
  BY ThreadIs
<1>2. /\ stage'[k] = stage[k] /\ webapp'[k] = webapp[k]
      /\ \A n \in MadeNames :
           /\ name'[k][n] = name[k][n]
           /\ name[k][n] # 0 => node'[name[k][n]] = node[name[k][n]]
      /\ th.fd # 0 => node'[th.fd] = node[th.fd]
  BY DEF Key
<1>3. r \in Diagrams => r \in MadeNames
  BY FilesDiffer DEF Diagrams
<1>4. (\/ th.pc \in Writing \cup {"rundot", "undot", "made"}
       \/ th.pc = "send" /\ r \in Diagrams \cup Zips) => f \in MadeNames
  BY <1>1, FileIsOwn DEF Holding, Writing
<1>5. th.pc = "begin" => ~Spoiled(k, r)'
  BY <1>1, <1>2, <1>3 DEF Going, Spoiled
<1>6. th.pc \in Writing =>
        /\ th.fd # 0 /\ name'[k][f] = th.fd /\ th.good /\ th.at \in 0 .. Pieces - 1
        /\ Prefix(node'[th.fd], th.at)
  BY <1>1, <1>2, <1>4 DEF Going
<1>7. th.pc \in {"rundot", "undot", "made"} \/ (th.pc = "send" /\ r \in Diagrams \cup Zips) =>
         name'[k][f] # 0 /\ node'[name'[k][f]] = Whole
  BY <1>1, <1>2, <1>4 DEF Going
<1>8. /\ th.pc \in {"sources", "find", "runfaust"} /\ r \in Diagrams => name'[k][r] = 0
      /\ th.pc \in {"unlink", "sending"} =>
           th.fd # 0 /\ th.size = Pieces /\ node'[th.fd] = Whole
  BY <1>1, <1>2, <1>3 DEF Going
<1>9. /\ ~th.lost /\ th.pc # "undotfailed"
      /\ th.pc \in Ready => stage'[k] = "ready"
      /\ th.pc \in {"index", "find"} => stage'[k] # "none"
      /\ th.pc = "index" => webapp'[k] \in {{}, Piece}
      /\ th.pc \in {"find", "runweb"} /\ r \notin Diagrams => webapp'[k] = {}
      /\ th.pc \in {"webmade", "webdir"} => webapp'[k] = Piece
      /\ th.pc \in {"zip", "read"} /\ r = "webapp.zip" => webapp'[k] = Piece
      /\ th.pc = "send" /\ r \in {"webapp", "asset"} => webapp'[k] = Piece
  BY <1>1, <1>2 DEF Going
<1> HIDE DEF Writing, Ready
<1> QED
  BY <1>5, <1>6, <1>7, <1>8, <1>9 DEF Going

LEMMA StartInv ==
    ASSUME IInv, NEW t \in Threads, Start(t), mix' = mix PROVE IInv'
<1>1. PICK k \in Keys, r \in mix :
        LET met == {u \in Threads \ {t} : Busy(u) /\ Key(u) = k
                         /\ Artefact(Request(u)) \cap Artefact(r) # {}}
            alone == met = {} /\ ~Spoiled(k, r)
        IN  thread' = [u \in Threads |->
              IF u = t THEN [Idle EXCEPT !.pc = "begin", !.request = r, !.key = k,
                                         !.alone = alone]
              ELSE IF u \in met THEN [thread[u] EXCEPT !.alone = FALSE]
              ELSE thread[u]]
  BY DEF Start
<1> DEFINE met == {u \in Threads \ {t} : Busy(u) /\ Key(u) = k
                       /\ Artefact(Request(u)) \cap Artefact(r) # {}}
           alone == met = {} /\ ~Spoiled(k, r)
<1>2. thread' = [u \in Threads |->
              IF u = t THEN [Idle EXCEPT !.pc = "begin", !.request = r, !.key = k,
                                         !.alone = alone]
              ELSE IF u \in met THEN [thread[u] EXCEPT !.alone = FALSE]
              ELSE thread[u]]
  BY <1>1
<1>3. /\ ~Busy(t) /\ Quiet /\ r \in AllRequests /\ ThreadType /\ FileType
      /\ mix \subseteq AllRequests
  BY <1>1 DEF Start, Quiet, IInv, FileType
<1>4. \A u \in Threads : u \in met <=> /\ u # t /\ Busy(u) /\ Key(u) = k
                                       /\ Artefact(Request(u)) \cap Artefact(r) # {}
  OBVIOUS
<1> HIDE DEF met
<1>5. thread' = [u \in Threads |-> thread'[u]]
  BY <1>2
<1>6. /\ Shape(thread'[t]) /\ thread'[t].pc = "begin" /\ thread'[t].request = r
      /\ thread'[t].key = k /\ thread'[t].fd = 0 /\ thread'[t].lost = FALSE
      /\ thread'[t].alone = alone
  <2>1. thread'[t] = [pc |-> "begin", request |-> r, key |-> k, fd |-> 0, at |-> 0,
                      size |-> 0, good |-> TRUE, lost |-> FALSE, alone |-> alone,
                      answer |-> "none"]
    <3>1. PICK b : b = alone
      OBVIOUS
    <3>2. thread'[t] = [Idle EXCEPT !.pc = "begin", !.request = r, !.key = k, !.alone = b]
      BY <1>2, <3>1
    <3> HIDE DEF alone
    <3> QED
      BY <3>1, <3>2 DEF Idle
  <2> HIDE DEF alone
  <2> QED
    BY <2>1 DEF Shape
<1>7. ASSUME NEW u \in Threads, u # t
      PROVE  Same(u) /\ (u \in met => ~thread'[u].alone)
  <2>1. CASE u \in met
    <3>1. thread'[u] = [thread[u] EXCEPT !.alone = FALSE]
      BY <1>2, <1>7, <2>1
    <3>2. Shape(thread[u])
      BY <1>3 DEF ThreadType, ThreadOK
    <3>3. thread'[u] = [pc |-> thread[u].pc, request |-> thread[u].request,
                        key |-> thread[u].key, fd |-> thread[u].fd, at |-> thread[u].at,
                        size |-> thread[u].size, good |-> thread[u].good,
                        lost |-> thread[u].lost, alone |-> FALSE,
                        answer |-> thread[u].answer]
      BY <3>1, <3>2 DEF Shape
    <3> QED
      BY <3>3 DEF Same, Shape
  <2>2. CASE u \notin met
    <3>1. thread'[u] = thread[u]
      BY <1>2, <1>7, <2>2
    <3> QED
      BY <1>3, <2>2, <3>1 DEF Same, ThreadType, ThreadOK
  <2> QED
    BY <2>1, <2>2
<1> HIDE DEF alone
<1>8. ThreadType'
  <2>1. ThreadOK(thread'[t])
    BY <1>3, <1>6 DEF ThreadOK, DotPlaces, ZipPlaces, WebPlaces
  <2>2. ASSUME NEW u \in Threads, u # t PROVE ThreadOK(thread'[u])
    <3>1. ThreadOK(thread[u])
      BY ThreadIs
    <3> QED
      BY <1>7, <2>2, <3>1 DEF ThreadOK, Same
  <2> QED
    BY <1>5, <2>1, <2>2 DEF ThreadType
<1>9. FileType'
  BY <1>3 DEF FileType, Quiet
<1>10. FileInv'
  <2>1. ASSUME NEW u \in Threads, thread'[u].pc = "webwrite", ~thread'[u].lost
        PROVE  stage[thread'[u].key] = "ready"
    <3>1. u # t
      BY <1>6, <2>1
    <3>2. At(u, "webwrite") /\ ~thread[u].lost /\ thread'[u].key = Key(u)
      BY <1>7, <2>1, <3>1 DEF Same, At, Key
    <3> QED
      BY <3>2 DEF IInv, FileInv
  <2> QED
    BY <1>3, <2>1 DEF IInv, FileInv, Quiet, At, Key
<1>11. OwnInv'
  <2> SUFFICES ASSUME NEW u \in Threads, thread'[u].fd # 0
               PROVE  /\ \A j \in Keys, n \in MadeNames :
                           name'[j][n] = thread'[u].fd =>
                             j = thread'[u].key /\ n = FileOf(thread'[u])
                      /\ \A v \in Threads : thread'[v].fd = thread'[u].fd =>
                           thread'[v].key = thread'[u].key
                           /\ thread'[v].request = thread'[u].request
    BY DEF OwnInv, Key, Request
  <2>1. u # t
    BY <1>6
  <2>2. /\ thread'[u].fd = thread[u].fd /\ thread'[u].key = Key(u)
        /\ thread'[u].request = Request(u) /\ FileOf(thread'[u]) = FileOf(thread[u])
    BY <1>7, <2>1 DEF Same, Key, Request, FileOf
  <2>3. ASSUME NEW v \in Threads, thread'[v].fd = thread'[u].fd
        PROVE  thread'[v].key = Key(u) /\ thread'[v].request = Request(u)
    <3>1. v # t
      BY <1>6, <2>3
    <3>2. thread[v].fd = thread[u].fd /\ thread'[v].key = Key(v)
          /\ thread'[v].request = Request(v)
      BY <1>7, <2>2, <2>3, <3>1 DEF Same, Key, Request
    <3> QED
      BY <2>2, <3>2 DEF IInv, OwnInv
  <2>4. \A j \in Keys, n \in MadeNames :
          name'[j][n] = thread[u].fd => j = Key(u) /\ n = FileOf(thread[u])
    BY <1>3, <2>2 DEF IInv, OwnInv, Quiet
  <2> QED
    BY <2>2, <2>3, <2>4
<1>12. LeftInv'
  <2>1. \A u \in Threads : thread[u].pc \in Dotting \cup Zipping =>
          /\ thread'[u].pc = thread[u].pc /\ thread'[u].key = Key(u)
          /\ thread'[u].request = Request(u)
    BY <1>3, <1>7 DEF Same, Busy, Dotting, Zipping, Key, Request
  <2>2. name' = name /\ leftover' = leftover
    BY <1>3 DEF Quiet
  <2> HIDE DEF Dotting, Zipping
  <2> QED
    BY <2>1, <2>2 DEF IInv, LeftInv, Key, Request
<1>13. ApartInv'
  <2> SUFFICES ASSUME NEW u \in Threads, NEW v \in Threads, u # v, thread'[u].pc # "idle",
                      thread'[v].pc # "idle", thread'[u].alone,
                      thread'[u].key = thread'[v].key
               PROVE  Artefact(thread'[u].request) \cap Artefact(thread'[v].request) = {}
    BY DEF ApartInv, Busy, Key, Request
  <2>1. CASE u = t
    <3>1. Busy(v) /\ Key(v) = k /\ thread'[v].request = Request(v) /\ v \notin met
      BY <1>4, <1>6, <1>7, <2>1 DEF Same, Busy, Key, Request, alone
    <3> QED
      BY <1>4, <1>6, <2>1, <3>1
  <2>2. CASE v = t
    <3>1. Busy(u) /\ Key(u) = k /\ thread'[u].request = Request(u) /\ u \notin met
      BY <1>4, <1>6, <1>7, <2>2 DEF Same, Busy, Key, Request
    <3> QED
      BY <1>4, <1>6, <2>2, <3>1
  <2>3. CASE u # t /\ v # t
    <3>1. /\ Busy(u) /\ Busy(v) /\ thread[u].alone /\ Key(u) = Key(v)
          /\ thread'[u].request = Request(u) /\ thread'[v].request = Request(v)
      BY <1>7, <2>3 DEF Same, Busy, Key, Request
    <3> QED
      BY <3>1 DEF IInv, ApartInv
  <2> QED
    BY <2>1, <2>2, <2>3
<1>14. AloneInv'
  <2> SUFFICES ASSUME NEW u \in Threads, thread'[u].pc # "idle", thread'[u].alone
               PROVE  Going(thread[u])'
    BY DEF AloneInv, Busy
  <2>1. CASE u = t
    <3>1. ~Spoiled(k, r)'
      BY <1>3, <1>6, <2>1 DEF alone, Spoiled, Quiet
    <3> QED
      BY <1>6, <2>1, <3>1 DEF Going, Ready, Writing
  <2>2. CASE u # t
    <3>1. thread'[u] = thread[u] /\ Busy(u) /\ thread[u].alone
      BY <1>7, <2>2 DEF Same, Busy
    <3> QED
      BY <1>3, <3>1, GoingStays DEF Quiet
  <2> QED
    BY <2>1, <2>2
<1> QED
  BY <1>8, <1>9, <1>10, <1>11, <1>12, <1>13, <1>14 DEF IInv

\* A session is made, completed or removed.
LEMMA TouchedInv ==
    ASSUME IInv, NEW k \in Keys, thread' = [u \in Threads |-> thread'[u]],
           \A u \in Threads :
             Same(u) /\ (Busy(u) /\ Key(u) = k => ~thread'[u].alone),
           \A j \in Keys \ {k} :
             stage'[j] = stage[j] /\ webapp'[j] = webapp[j] /\ name'[j] = name[j],
           \A n \in MadeNames : name'[k][n] = name[k][n] \/ name'[k][n] = 0,
           \A j \in Keys, n \in MadeNames :
             name'[j][n] # 0 => node'[name'[j][n]] = node[name'[j][n]],
           \A u \in Threads : thread[u].fd # 0 => node'[thread[u].fd] = node[thread[u].fd],
           \A j \in Keys, n \in MadeNames :
             <<j, n>> \in leftover => <<j, n>> \in leftover' \/ name'[j][n] = 0
    PROVE  ThreadType' /\ OwnInv' /\ LeftInv' /\ ApartInv' /\ AloneInv'
<1>1. \A u \in Threads :
        /\ thread'[u].pc = thread[u].pc /\ thread'[u].key = Key(u)
        /\ thread'[u].request = Request(u) /\ thread'[u].fd = thread[u].fd
        /\ FileOf(thread'[u]) = FileOf(thread[u])
        /\ thread'[u].alone => thread'[u] = thread[u]
  BY DEF Same, Key, Request, FileOf
<1>2. ThreadType'
  <2>1. ASSUME NEW u \in Threads PROVE ThreadOK(thread'[u])
    <3>1. ThreadOK(thread[u]) /\ Same(u)
      BY ThreadIs
    <3> QED
      BY <3>1 DEF ThreadOK, Same
  <2> QED
    BY <2>1 DEF ThreadType
<1>3. \A j \in Keys, n \in MadeNames : name'[j][n] # 0 => name'[j][n] = name[j][n]
  OBVIOUS
<1>4. OwnInv'
  <2> SUFFICES ASSUME NEW u \in Threads, thread'[u].fd # 0
               PROVE  /\ \A j \in Keys, n \in MadeNames :
                           name'[j][n] = thread'[u].fd =>
                             j = thread'[u].key /\ n = FileOf(thread'[u])
                      /\ \A v \in Threads : thread'[v].fd = thread'[u].fd =>
                           thread'[v].key = thread'[u].key
                           /\ thread'[v].request = thread'[u].request
    BY DEF OwnInv, Key, Request
  <2>1. ASSUME NEW j \in Keys, NEW n \in MadeNames, name'[j][n] = thread'[u].fd
        PROVE  j = thread'[u].key /\ n = FileOf(thread'[u])
    <3>1. name[j][n] = thread[u].fd /\ thread[u].fd # 0
      BY <1>1, <1>3, <2>1
    <3> QED
      BY <1>1, <3>1 DEF IInv, OwnInv
  <2>2. ASSUME NEW v \in Threads, thread'[v].fd = thread'[u].fd
        PROVE  thread'[v].key = thread'[u].key /\ thread'[v].request = thread'[u].request
    BY <1>1, <2>2 DEF IInv, OwnInv
  <2> QED
    BY <2>1, <2>2
<1>5. LeftInv'
  <2> SUFFICES ASSUME NEW j \in Keys
               PROVE  /\ \A r \in Diagrams : name'[j][DotFile(r)] # 0 =>
                           \E t \in Threads : /\ thread'[t].pc \in Dotting
                                              /\ thread'[t].key = j /\ thread'[t].request = r
                      /\ \A r \in Zips : name'[j][TempZip(r)] # 0 =>
                           \/ <<j, TempZip(r)>> \in leftover'
                           \/ \E t \in Threads : /\ thread'[t].pc \in Zipping
                                                 /\ thread'[t].key = j
                                                 /\ thread'[t].request = r
    BY DEF LeftInv, Key, Request
  <2>1. ASSUME NEW r \in Diagrams, name'[j][DotFile(r)] # 0
        PROVE  \E t \in Threads : /\ thread'[t].pc \in Dotting
                                  /\ thread'[t].key = j /\ thread'[t].request = r
    <3>1. DotFile(r) \in MadeNames
      BY FilesDiffer DEF Diagrams
    <3>2. name[j][DotFile(r)] # 0
      BY <1>3, <2>1, <3>1
    <3>3. \E t \in Threads : thread[t].pc \in Dotting /\ Key(t) = j /\ Request(t) = r
      BY <3>2 DEF IInv, LeftInv
    <3> QED
      BY <1>1, <3>3
  <2>2. ASSUME NEW r \in Zips, name'[j][TempZip(r)] # 0
        PROVE  \/ <<j, TempZip(r)>> \in leftover'
               \/ \E t \in Threads : /\ thread'[t].pc \in Zipping
                                     /\ thread'[t].key = j /\ thread'[t].request = r
    <3>1. TempZip(r) \in MadeNames
      BY FilesDiffer DEF Zips
    <3>2. name[j][TempZip(r)] # 0
      BY <1>3, <2>2, <3>1
    <3>3. \/ <<j, TempZip(r)>> \in leftover
          \/ \E t \in Threads : thread[t].pc \in Zipping /\ Key(t) = j /\ Request(t) = r
      BY <3>2 DEF IInv, LeftInv
    <3> QED
      BY <1>1, <2>2, <3>1, <3>3
  <2> QED
    BY <2>1, <2>2
<1>6. ApartInv'
  <2> SUFFICES ASSUME NEW u \in Threads, NEW v \in Threads, u # v, thread'[u].pc # "idle",
                      thread'[v].pc # "idle", thread'[u].alone,
                      thread'[u].key = thread'[v].key
               PROVE  Artefact(thread'[u].request) \cap Artefact(thread'[v].request) = {}
    BY DEF ApartInv, Busy, Key, Request
  <2>1. Busy(u) /\ Busy(v) /\ thread[u].alone /\ Key(u) = Key(v)
    BY <1>1 DEF Busy
  <2>2. Artefact(Request(u)) \cap Artefact(Request(v)) = {}
    BY <2>1 DEF IInv, ApartInv
  <2> QED
    BY <1>1, <2>2
<1>7. AloneInv'
  <2> SUFFICES ASSUME NEW u \in Threads, thread'[u].pc # "idle", thread'[u].alone
               PROVE  Going(thread[u])'
    BY DEF AloneInv, Busy
  <2>1. thread'[u] = thread[u] /\ Busy(u) /\ thread[u].alone /\ Key(u) # k
    BY <1>1 DEF Busy
  <2>2. Key(u) \in Keys
    BY <2>1, ThreadIs
  <2>3. /\ stage'[Key(u)] = stage[Key(u)] /\ webapp'[Key(u)] = webapp[Key(u)]
        /\ \A n \in MadeNames :
             /\ name'[Key(u)][n] = name[Key(u)][n]
             /\ name[Key(u)][n] # 0 => node'[name[Key(u)][n]] = node[name[Key(u)][n]]
        /\ thread[u].fd # 0 => node'[thread[u].fd] = node[thread[u].fd]
    BY <2>1, <2>2
  <2> QED
    BY <2>1, <2>3, GoingStays
<1> QED
  BY <1>2, <1>4, <1>5, <1>6, <1>7

LEMMA Disturbed ==
    ASSUME ThreadType, NEW k, Disturb(k)
    PROVE  /\ thread' = [u \in Threads |-> thread'[u]]
           /\ \A u \in Threads :
                Same(u) /\ (Busy(u) /\ Key(u) = k => ~thread'[u].alone)
<1>1. thread' = [u \in Threads |-> thread'[u]]
  BY DEF Disturb
<1>2. ASSUME NEW u \in Threads
      PROVE  Same(u) /\ (Busy(u) /\ Key(u) = k => ~thread'[u].alone)
  <2>0. Shape(thread[u])
    BY DEF ThreadType, ThreadOK
  <2>1. CASE Busy(u) /\ Key(u) = k
    <3>1. thread'[u] = [thread[u] EXCEPT !.alone = FALSE]
      BY <2>1 DEF Disturb
    <3>2. thread'[u] = [pc |-> thread[u].pc, request |-> thread[u].request,
                        key |-> thread[u].key, fd |-> thread[u].fd, at |-> thread[u].at,
                        size |-> thread[u].size, good |-> thread[u].good,
                        lost |-> thread[u].lost, alone |-> FALSE,
                        answer |-> thread[u].answer]
      BY <2>0, <3>1 DEF Shape
    <3> QED
      BY <3>2 DEF Same, Shape
  <2>2. CASE ~(Busy(u) /\ Key(u) = k)
    <3>1. thread'[u] = thread[u]
      BY <2>2 DEF Disturb
    <3> QED
      BY <2>0, <2>2, <3>1 DEF Same
  <2> QED
    BY <2>1, <2>2
<1> QED
  BY <1>1, <1>2

LEMMA CreateInv ==
    ASSUME IInv, NEW k \in Keys, Create(k) \/ Complete(k), mix' = mix PROVE IInv'
<1>1. /\ Disturb(k) /\ UNCHANGED <<mix, name, node, webapp, leftover>>
      /\ ThreadType /\ FileType /\ stage[k] # "ready"
  BY DEF Create, Complete, IInv
<1>2. PICK s \in {"empty", "ready"} : /\ stage' = [stage EXCEPT ![k] = s]
                                      /\ stage[k] = "none" \/ s = "ready"
  BY DEF Create, Complete
<1>3. /\ thread' = [u \in Threads |-> thread'[u]]
      /\ \A u \in Threads :
           Same(u) /\ (Busy(u) /\ Key(u) = k => ~thread'[u].alone)
  BY <1>1, Disturbed
<1>4. \A j \in Keys : stage'[j] = IF j = k THEN s ELSE stage[j]
  BY <1>1, <1>2 DEF FileType
<1>5. FileType'
  BY <1>1, <1>2 DEF FileType
<1>6. FileInv'
  <2>1. ASSUME NEW u \in Threads, thread'[u].pc = "webwrite", ~thread'[u].lost
        PROVE  stage'[thread'[u].key] = "ready"
    <3>1. At(u, "webwrite") /\ ~thread[u].lost /\ thread'[u].key = Key(u)
      BY <1>3, <2>1 DEF Same, At, Key
    <3>2. stage[Key(u)] = "ready" /\ Key(u) \in Keys
      BY <3>1, ThreadIs DEF IInv, FileInv, At, Busy
    <3> QED
      BY <1>1, <1>4, <3>1, <3>2
  <2>2. ASSUME NEW j \in Keys, NEW n \in MadeNames, name[j][n] # 0
        PROVE  /\ stage'[j] # "none" /\ (n \in Programmed => stage'[j] = "ready")
               /\ \A i \in Keys, m \in MadeNames : name[i][m] = name[j][n] => i = j /\ m = n
    <3>1. /\ stage[j] # "none" /\ (n \in Programmed => stage[j] = "ready")
          /\ \A i \in Keys, m \in MadeNames : name[i][m] = name[j][n] => i = j /\ m = n
      BY <2>2 DEF IInv, FileInv
    <3> QED
      BY <1>2, <1>4, <3>1
  <2>3. \A j \in Keys : webapp[j] # {} => stage'[j] = "ready"
    BY <1>1, <1>4 DEF IInv, FileInv
  <2> QED
    BY <1>1, <2>1, <2>2, <2>3 DEF FileInv, At, Key
<1>7. ThreadType' /\ OwnInv' /\ LeftInv' /\ ApartInv' /\ AloneInv'
  BY <1>1, <1>3, <1>4, TouchedInv
<1> QED
  BY <1>5, <1>6, <1>7 DEF IInv

LEMMA RemoveInv ==
    ASSUME IInv, NEW k \in Keys, Remove(k), mix' = mix PROVE IInv'
<1>1. /\ stage' = [stage EXCEPT ![k] = "none"]
      /\ name' = [name EXCEPT ![k] = [n \in MadeNames |-> 0]]
      /\ webapp' = [webapp EXCEPT ![k] = {}]
      /\ leftover' = {file \in leftover : file[1] # k}
      /\ Kept(node) /\ ThreadType /\ FileType
      /\ thread' = [t \in Threads |->
           IF Busy(t) /\ Key(t) = k
           THEN [thread[t] EXCEPT !.alone = FALSE, !.lost = Program(t)]
           ELSE thread[t]]
  BY DEF Remove, IInv
<1>2. thread' = [u \in Threads |-> thread'[u]]
  BY <1>1
<1>3. ASSUME NEW u \in Threads
      PROVE  /\ Same(u) /\ (Busy(u) /\ Key(u) = k => ~thread'[u].alone)
             /\ At(u, "webwrite") /\ Key(u) = k => thread'[u].lost
  <2>0. Shape(thread[u])
    BY <1>1 DEF ThreadType, ThreadOK
  <2>1. CASE Busy(u) /\ Key(u) = k
    <3>1. PICK p : p = Program(u)
      OBVIOUS
    <3>2. thread'[u] = [thread[u] EXCEPT !.alone = FALSE, !.lost = p]
      BY <1>1, <2>1, <3>1
    <3>3. thread'[u] = [pc |-> thread[u].pc, request |-> thread[u].request,
                        key |-> thread[u].key, fd |-> thread[u].fd, at |-> thread[u].at,
                        size |-> thread[u].size, good |-> thread[u].good,
                        lost |-> p, alone |-> FALSE, answer |-> thread[u].answer]
      BY <2>0, <3>2 DEF Shape
    <3>4. At(u, "webwrite") => p
      BY <3>1 DEF At, Program
    <3> QED
      BY <3>3, <3>4 DEF Same, Shape
  <2>2. CASE ~(Busy(u) /\ Key(u) = k)
    <3>1. thread'[u] = thread[u]
      BY <1>1, <2>2
    <3> QED
      BY <2>0, <2>2, <3>1 DEF Same, At, Busy
  <2> QED
    BY <2>1, <2>2
<1>4. /\ \A j \in Keys : stage'[j] = IF j = k THEN "none" ELSE stage[j]
      /\ \A j \in Keys : webapp'[j] = IF j = k THEN {} ELSE webapp[j]
      /\ \A j \in Keys \ {k} : name'[j] = name[j]
      /\ \A n \in MadeNames : name'[k][n] = 0
  BY <1>1 DEF FileType
<1>5. /\ node' \in [Nodes -> [Piece -> {"hole", "ok", "bad"}]]
      /\ \A u \in Threads :
           thread'[u].fd \in Nodes => node'[thread'[u].fd] = node[thread'[u].fd]
      /\ \A j \in Keys, m \in MadeNames :
           name'[j][m] \in Nodes => node'[name'[j][m]] = node[name'[j][m]]
  <2>1. node \in [Nodes -> [Piece -> {"hole", "ok", "bad"}]]
    BY <1>1 DEF FileType
  <2> QED
    BY <1>1, <2>1, KeptNodes
<1>6. FileType'
  <2>1. name' \in [Keys -> [MadeNames -> Nodes \cup {0}]]
    BY <1>1 DEF FileType
  <2>2. stage' \in [Keys -> {"none", "empty", "ready"}] /\ webapp' \in [Keys -> SUBSET Piece]
    BY <1>1 DEF FileType
  <2> QED
    BY <1>1, <1>5, <2>1, <2>2 DEF FileType
<1>7. FileInv'
  <2>1. ASSUME NEW u \in Threads, thread'[u].pc = "webwrite", ~thread'[u].lost
        PROVE  stage'[thread'[u].key] = "ready"
    <3>1. At(u, "webwrite") /\ thread'[u].key = Key(u) /\ Key(u) # k /\ ~thread[u].lost
      BY <1>3, <2>1 DEF Same, At, Key
    <3>2. stage[Key(u)] = "ready" /\ Key(u) \in Keys
      BY <3>1, ThreadIs DEF IInv, FileInv, At, Busy
    <3> QED
      BY <1>4, <3>1, <3>2
  <2>2. ASSUME NEW j \in Keys, NEW n \in MadeNames, name'[j][n] # 0
        PROVE  /\ stage'[j] # "none" /\ (n \in Programmed => stage'[j] = "ready")
               /\ \A i \in Keys, m \in MadeNames :
                    name'[i][m] = name'[j][n] => i = j /\ m = n
    <3>1. j # k /\ name[j][n] # 0 /\ name'[j][n] = name[j][n] /\ stage'[j] = stage[j]
      BY <1>4, <2>2
    <3>2. ASSUME NEW i \in Keys, NEW m \in MadeNames, name'[i][m] = name'[j][n]
          PROVE  i = j /\ m = n
      <4>1. i # k /\ name[i][m] = name[j][n]
        BY <1>4, <2>2, <3>1, <3>2
      <4> QED
        BY <3>1, <4>1 DEF IInv, FileInv
    <3> QED
      BY <3>1, <3>2 DEF IInv, FileInv
  <2>3. \A j \in Keys : webapp'[j] # {} => stage'[j] = "ready"
    BY <1>4 DEF IInv, FileInv
  <2> QED
    BY <2>1, <2>2, <2>3 DEF FileInv, At, Key
<1>8. \A j \in Keys, n \in MadeNames :
        name'[j][n] # 0 => node'[name'[j][n]] = node[name'[j][n]]
  BY <1>5, <1>6 DEF FileType
<1>9. ASSUME NEW u \in Threads, thread[u].fd # 0
      PROVE  node'[thread[u].fd] = node[thread[u].fd]
  <2>1. thread'[u].fd = thread[u].fd /\ thread[u].fd \in Nodes
    BY <1>3, <1>9, ThreadIs DEF Same, ThreadOK
  <2> QED
    BY <1>5, <2>1
<1>10. ASSUME NEW j \in Keys, NEW n \in MadeNames, <<j, n>> \in leftover
       PROVE  <<j, n>> \in leftover' \/ name'[j][n] = 0
  BY <1>1, <1>4, <1>10
<1>11. ThreadType' /\ OwnInv' /\ LeftInv' /\ ApartInv' /\ AloneInv'
  BY <1>2, <1>3, <1>4, <1>8, <1>9, <1>10, TouchedInv
<1> QED
  BY <1>6, <1>7, <1>11 DEF IInv

-----------------------------------------------------------------------------
(* The theorems.                                                           *)

LEMMA InitInv == Init => IInv
<1> SUFFICES ASSUME Init PROVE IInv
  OBVIOUS
<1>1. \A t \in Threads : thread[t] = Idle
  BY DEF Init
<1>2. ThreadType
  <2>1. ThreadOK(Idle)
    BY DEF ThreadOK, Shape, Idle, DotPlaces, ZipPlaces, WebPlaces
  <2> QED
    BY <1>1, <2>1 DEF Init, ThreadType
<1>3. FileType
  <2>1. Blank \in [Piece -> {"hole", "ok", "bad"}]
    BY DEF Blank
  <2>2. mix \subseteq AllRequests
    BY MixAssumption DEF Init
  <2> QED
    BY <2>1, <2>2 DEF Init, FileType
<1>4. \A t \in Threads : thread[t].pc = "idle" /\ thread[t].fd = 0
  BY <1>1 DEF Idle
<1>5. /\ \A k \in Keys, n \in MadeNames : name[k][n] = 0
      /\ \A k \in Keys : webapp[k] = {}
  BY DEF Init
<1>6. FileInv
  BY <1>4, <1>5 DEF FileInv, At
<1>7. OwnInv /\ ApartInv /\ AloneInv
  BY <1>4 DEF OwnInv, ApartInv, AloneInv, Busy
<1>8. LeftInv
  <2>1. /\ \A r \in Diagrams : DotFile(r) \in MadeNames
        /\ \A r \in Zips : TempZip(r) \in MadeNames
    BY DEF MadeNames
  <2> QED
    BY <1>5, <2>1 DEF LeftInv
<1> QED
  BY <1>2, <1>3, <1>6, <1>7, <1>8 DEF IInv

LEMMA NextInv == IInv /\ [Next]_vars => IInv'
<1> SUFFICES ASSUME IInv, [Next]_vars PROVE IInv'
  OBVIOUS
<1>1. ASSUME NEW t \in Threads, Start(t), mix' = mix PROVE IInv'
  BY <1>1, StartInv
<1>2. ASSUME NEW t \in Threads, Step(t) \/ ProgramFails(t), mix' = mix PROVE IInv'
  BY <1>2, StepKeeps, MovesInv DEF Keeps
<1>3. ASSUME NEW k \in Keys, Create(k) \/ Complete(k), mix' = mix PROVE IInv'
  BY <1>3, CreateInv
<1>4. ASSUME NEW k \in Keys, Remove(k), mix' = mix PROVE IInv'
  BY <1>4, RemoveInv
<1>5. CASE UNCHANGED vars
  <2>1. /\ mix' = mix /\ stage' = stage /\ name' = name /\ node' = node
        /\ webapp' = webapp /\ thread' = thread /\ leftover' = leftover
    BY <1>5 DEF vars, state
  <2>2. ThreadType' /\ FileType'
    BY <2>1 DEF IInv, ThreadType, FileType
  <2>3. FileInv' /\ OwnInv'
    BY <2>1 DEF IInv, FileInv, OwnInv, At, Key, Request
  <2>4. LeftInv' /\ ApartInv'
    BY <2>1 DEF IInv, LeftInv, ApartInv, Busy, Key, Request
  <2>5. AloneInv'
    BY <2>1, GoingStays DEF IInv, AloneInv, Busy
  <2> QED
    BY <2>2, <2>3, <2>4, <2>5 DEF IInv
<1>6. CASE Next
  BY <1>1, <1>2, <1>3, <1>4, <1>6 DEF Next
<1> QED
  BY <1>5, <1>6

LEMMA Invariant == Spec => []IInv
BY InitInv, NextInv, PTL DEF Spec

(* Whatever the requests for the files of a session do to each other, and  *)
(* whenever sessions are removed, every file is in a session that exists,  *)
(* and no two names stand for one file.                                    *)
THEOREM SessionGetsTypes == Spec => []TypeOK
<1>1. IInv => TypeOK
  <2> SUFFICES ASSUME IInv PROVE TypeOK
    OBVIOUS
  <2> DEFINE files == {file \in Keys \X MadeNames : name[file[1]][file[2]] # 0}
             linked == {name[file[1]][file[2]] : file \in files}
             f == [file \in files |-> name[file[1]][file[2]]]
  <2>1. \A file \in files : file[1] \in Keys /\ file[2] \in MadeNames
                            /\ file = <<file[1], file[2]>> /\ name[file[1]][file[2]] # 0
    OBVIOUS
  <2>2. \A file \in files : stage[file[1]] # "none"
    BY <2>1 DEF IInv, FileInv
  <2>3. linked \subseteq Nodes
    BY <2>1 DEF IInv, FileType
  <2>4. ASSUME NEW a \in files, NEW b \in files, f[a] = f[b] PROVE a = b
    <3>1. name[a[1]][a[2]] = name[b[1]][b[2]] /\ name[b[1]][b[2]] # 0
      BY <2>1, <2>4
    <3>2. a[1] = b[1] /\ a[2] = b[2]
      BY <2>1, <3>1 DEF IInv, FileInv
    <3> QED
      BY <2>1, <3>2
  <2>5. Cardinality(linked) = Cardinality(files)
    <3>1. f \in [files -> linked] /\ \A y \in linked : \E x \in files : f[x] = y
      OBVIOUS
    <3>2. f \in Injection(files, linked) /\ f \in Surjection(files, linked)
      BY <2>4, <3>1 DEF Injection, IsInjective, Surjection
    <3>3. f \in Bijection(files, linked)
      BY <3>2 DEF Bijection
    <3>4. IsFiniteSet(files)
      <4>1. IsFiniteSet(MadeNames)
        <5>1. IsFiniteSet({}) /\ \A S, x : IsFiniteSet(S) => IsFiniteSet(S \cup {x})
          BY FS_EmptySet, FS_AddElement
        <5>2. MadeNames = {} \cup {"signals.svg"} \cup {"tasks.svg"}
                 \cup {"main.dsp-sig.dot"} \cup {"main.dsp.dot"} \cup {"temp_svg.zip"}
                 \cup {"temp_webapp.zip"}
          BY FilesDiffer
        <5> QED
          BY <5>1, <5>2
      <4>2. IsFiniteSet(Keys \X MadeNames)
        BY <4>1, FiniteAssumption, FS_Product
      <4> QED
        BY <4>2, FS_Subset
    <3> HIDE DEF f, files, linked
    <3> QED
      BY <3>3, <3>4, FS_Bijection DEF ExistsBijection
  <2>6. \A k \in Keys : webapp[k] \subseteq Piece /\ (webapp[k] # {} => stage[k] = "ready")
    BY DEF IInv, FileType, FileInv
  <2>7. \A n \in Nodes : node[n] \in [Piece -> {"hole", "ok", "bad"}]
    BY DEF IInv, FileType
  <2>8. \A t \in Threads : thread[t].fd \in Nodes \cup {0}
    BY ThreadIs DEF ThreadOK
  <2> HIDE DEF f, files, linked
  <2> QED
    BY <2>2, <2>3, <2>5, <2>6, <2>7, <2>8 DEF TypeOK, files, linked
<1> QED
  BY <1>1, Invariant, PTL

(* A diagram or an application that is complete is not made again by a     *)
(* request that began after it was.                                        *)
THEOREM SessionGetsNotRemade == Spec => []NotRemade
<1>1. IInv => NotRemade
  <2> SUFFICES ASSUME IInv, NEW t \in Threads, thread[t].alone
               PROVE  /\ At(t, "runfaust") => name[Key(t)][Request(t)] = 0
                      /\ At(t, "runweb") => 1 \notin webapp[Key(t)]
    BY DEF NotRemade
  <2>1. CASE At(t, "runfaust")
    <3>1. thread[t].pc \in DotPlaces
      BY <2>1 DEF At, DotPlaces
    <3> QED
      BY <2>1, <3>1, DotFacts, ThreadIs DEF Going, At, Key, Request
  <2>2. CASE At(t, "runweb")
    <3>1. thread[t].pc \in WebPlaces
      BY <2>2 DEF At, WebPlaces
    <3> QED
      BY <2>2, <3>1, WebFacts, ThreadIs DEF Going, At, Key, Request
  <2> QED
    BY <2>1, <2>2 DEF At
<1> QED
  BY <1>1, Invariant, PTL

(* When nobody asks for a diagram or an archive of a session, no .dot file *)
(* and no temporary archive is left in it, save that of a request that     *)
(* found the directory it was to archive gone.                             *)
THEOREM SessionGetsNothingLeft == Spec => []NothingLeft
<1>1. IInv => NothingLeft
  <2> SUFFICES ASSUME IInv, NEW k \in Keys
               PROVE  LET asked == {Request(t) : t \in {u \in Threads : Busy(u) /\ Key(u) = k}}
                      IN  /\ \A r \in Diagrams : name[k][DotFile(r)] # 0 => r \in asked
                          /\ \A r \in Zips : name[k][TempZip(r)] # 0 =>
                               r \in asked \/ <<k, TempZip(r)>> \in leftover
    BY DEF NothingLeft
  <2>1. \A t \in Threads : thread[t].pc \in Dotting \cup Zipping => Busy(t)
    BY DEF Dotting, Zipping, Busy
  <2> HIDE DEF Dotting, Zipping
  <2> QED
    BY <2>1 DEF IInv, LeftInv
<1> QED
  BY <1>1, Invariant, PTL

LEMMA OnlyOwnEnds ==
    ASSUME IInv, [Next]_vars, NEW t \in Threads, Busy(t), thread'[t].pc = "idle"
    PROVE  mix' = mix /\ (Step(t) \/ ProgramFails(t))
<1>1. ASSUME NEW u \in Threads, Start(u) PROVE FALSE
  <2>1. PICK k \in Keys, r \in mix :
        LET met == {v \in Threads \ {u} : Busy(v) /\ Key(v) = k
                         /\ Artefact(Request(v)) \cap Artefact(r) # {}}
            alone == met = {} /\ ~Spoiled(k, r)
        IN  thread' = [v \in Threads |->
              IF v = u THEN [Idle EXCEPT !.pc = "begin", !.request = r, !.key = k,
                                         !.alone = alone]
              ELSE IF v \in met THEN [thread[v] EXCEPT !.alone = FALSE]
              ELSE thread[v]]
    BY <1>1 DEF Start
  <2>2. t # u
    BY <1>1 DEF Start
  <2>3. thread'[t] = [thread[t] EXCEPT !.alone = FALSE] \/ thread'[t] = thread[t]
    BY <2>1, <2>2
  <2>4. Shape(thread[t])
    BY ThreadIs DEF ThreadOK
  <2> QED
    BY <2>3, <2>4 DEF Shape, Busy
<1>2. ASSUME NEW u \in Threads, u # t, Step(u) \/ ProgramFails(u), mix' = mix PROVE FALSE
  <2>1. Moves(u)
    BY <1>2, StepKeeps DEF Keeps
  <2> QED
    BY <1>2, <2>1 DEF Moves, Stays, OthersSame, Busy
<1>3. ASSUME NEW k \in Keys, Create(k) \/ Complete(k) PROVE FALSE
  <2>1. Same(t)
    BY <1>3, Disturbed DEF Create, Complete, IInv
  <2> QED
    BY <2>1 DEF Same, Busy
<1>4. ASSUME NEW k \in Keys, Remove(k) PROVE FALSE
  <2>1. PICK p : p = Program(t)
    OBVIOUS
  <2>2. thread'[t] = [thread[t] EXCEPT !.alone = FALSE, !.lost = p] \/ thread'[t] = thread[t]
    BY <1>4, <2>1 DEF Remove
  <2>3. Shape(thread[t])
    BY ThreadIs DEF ThreadOK
  <2> QED
    BY <2>2, <2>3 DEF Shape, Busy
<1>5. CASE UNCHANGED vars
  BY <1>5 DEF vars, state, Busy
<1>6. CASE Next
  BY <1>1, <1>2, <1>3, <1>4, <1>6 DEF Next
<1> QED
  BY <1>5, <1>6

(* The client of a request that is alone gets the whole file if the        *)
(* session has what it is made from, and 404 if not, whatever the requests *)
(* for other files of the session do all the while.                        *)
THEOREM SessionGetsAlone == Spec => AloneIsServed
<1>1. ASSUME IInv, [Next]_vars
      PROVE  \A t \in Threads : Busy(t) /\ thread[t].alone /\ thread'[t].pc = "idle" =>
               Expected(t, thread'[t].answer)
  BY <1>1, OnlyOwnEnds, StepKeeps DEF Keeps
<1>2. IInv /\ [Next]_vars =>
        [\A t \in Threads : Busy(t) /\ thread[t].alone /\ thread'[t].pc = "idle" =>
           Expected(t, thread'[t].answer)]_vars
  BY <1>1
<1> QED
  BY <1>2, Invariant, PTL DEF Spec, AloneIsServed

=============================================================================
