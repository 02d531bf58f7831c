---------------------------- MODULE SessionsProofs ----------------------------
(***************************************************************************)
(* Proofs about Sessions, for any threads, contents and names, and every   *)
(* capacity of the cache.                                                  *)
(***************************************************************************)
EXTENDS Sessions, KeyListProofs, SequenceTheorems

-----------------------------------------------------------------------------
(* Paths.                                                                  *)

LEMMA AppendIs ==
    ASSUME NEW C, NEW s \in Seq(C), NEW n \in C, NEW t \in Seq(C), Len(t) = Len(s) + 1,
           \A i \in 1 .. Len(s) : t[i] = s[i], t[Len(t)] = n
    PROVE  Append(s, n) = t
<1> DEFINE a == Append(s, n)
<1>1. Len(s) \in Nat
  OBVIOUS
<1>2. /\ a \in Seq(C) /\ Len(a) = Len(s) + 1
      /\ \A i \in 1 .. Len(s) : a[i] = s[i]
      /\ a[Len(s) + 1] = n
  BY AppendProperties
<1> HIDE DEF a
<1>3. \A i \in 1 .. Len(a) : a[i] = t[i]
  BY <1>1, <1>2
<1>4. a = t
  BY <1>2, <1>3, SeqEqual
<1> QED
  BY <1>4 DEF a

(* The file n of a session, of a directory of it, of one below.            *)
LEMMA FileOfSession == ASSUME NEW a, NEW n PROVE Append(<<a>>, n) = <<a, n>>
<1> PICK C : C = {a, n}
  OBVIOUS
<1>1. n \in C /\ <<a>> \in Seq(C) /\ <<a, n>> \in Seq(C) /\ Len(<<a, n>>) = Len(<<a>>) + 1
  OBVIOUS
<1>2. /\ \A i \in 1 .. Len(<<a>>) : <<a, n>>[i] = <<a>>[i]
      /\ <<a, n>>[Len(<<a, n>>)] = n
  OBVIOUS
<1> QED
  BY <1>1, <1>2, AppendIs, Zenon

LEMMA FileOfDirectory == ASSUME NEW a, NEW b, NEW n PROVE Append(<<a, b>>, n) = <<a, b, n>>
<1> PICK C : C = {a, b, n}
  OBVIOUS
<1>1. /\ n \in C /\ <<a, b>> \in Seq(C) /\ <<a, b, n>> \in Seq(C)
      /\ Len(<<a, b, n>>) = Len(<<a, b>>) + 1
  OBVIOUS
<1>2. /\ \A i \in 1 .. Len(<<a, b>>) : <<a, b, n>>[i] = <<a, b>>[i]
      /\ <<a, b, n>>[Len(<<a, b, n>>)] = n
  OBVIOUS
<1> QED
  BY <1>1, <1>2, AppendIs, Zenon

LEMMA FileOfTarget ==
    ASSUME NEW a, NEW b, NEW c, NEW n PROVE Append(<<a, b, c>>, n) = <<a, b, c, n>>
<1> PICK C : C = {a, b, c, n}
  OBVIOUS
<1>1. /\ n \in C /\ <<a, b, c>> \in Seq(C) /\ <<a, b, c, n>> \in Seq(C)
      /\ Len(<<a, b, c, n>>) = Len(<<a, b, c>>) + 1
  OBVIOUS
<1>2. /\ \A i \in 1 .. Len(<<a, b, c>>) : <<a, b, c, n>>[i] = <<a, b, c>>[i]
      /\ <<a, b, c, n>>[Len(<<a, b, c, n>>)] = n
  OBVIOUS
<1> QED
  BY <1>1, <1>2, AppendIs, Zenon

LEMMA ParentOfAppend ==
    ASSUME NEW C, NEW d \in Seq(C), NEW n \in C
    PROVE  /\ Append(d, n) \in Seq(C) /\ Len(Append(d, n)) = Len(d) + 1
           /\ Parent(Append(d, n)) = d
           /\ d # <<>> => Append(d, n)[1] = d[1]
BY DEF Parent

LEMMA ParentOf ==
    ASSUME NEW a, NEW b, NEW c, NEW d
    PROVE  /\ Parent(<<a, b>>) = <<a>>
           /\ Parent(<<a, b, c>>) = <<a, b>>
           /\ Parent(<<a, b, c, d>>) = <<a, b, c>>
<1> PICK C : C = {a, b, c, d}
  OBVIOUS
<1>1. a \in C /\ b \in C /\ c \in C /\ d \in C
  OBVIOUS
<1>2. <<a>> \in Seq(C) /\ <<a, b>> \in Seq(C) /\ <<a, b, c>> \in Seq(C)
  BY <1>1
<1> HIDE DEF Parent
<1>3. Parent(<<a, b>>) = <<a>>
  <2>1. Append(<<a>>, b) = <<a, b>>
    BY FileOfSession, Zenon
  <2>2. Parent(Append(<<a>>, b)) = <<a>>
    BY <1>1, <1>2, ParentOfAppend, Zenon
  <2> QED
    BY <2>1, <2>2, Zenon
<1>4. Parent(<<a, b, c>>) = <<a, b>>
  <2>1. Append(<<a, b>>, c) = <<a, b, c>>
    BY FileOfDirectory, Zenon
  <2>2. Parent(Append(<<a, b>>, c)) = <<a, b>>
    BY <1>1, <1>2, ParentOfAppend, Zenon
  <2> QED
    BY <2>1, <2>2, Zenon
<1>5. Parent(<<a, b, c, d>>) = <<a, b, c>>
  <2>1. Append(<<a, b, c>>, d) = <<a, b, c, d>>
    BY FileOfTarget, Zenon
  <2>2. Parent(Append(<<a, b, c>>, d)) = <<a, b, c>>
    BY <1>1, <1>2, ParentOfAppend, Zenon
  <2> QED
    BY <2>1, <2>2, Zenon
<1> QED
  BY <1>3, <1>4, <1>5

LEMMA InsideSession ==
    ASSUME NEW C, NEW p \in Seq(C), p # <<>>, NEW k \in C
    PROVE  Inside(p, <<k>>) <=> p[1] = k
<1>1. Len(p) \in Nat /\ Len(p) >= 1 /\ p[1] \in C
  BY EmptySeq, ElementOfSeq
<1>2. SubSeq(p, 1, 1) \in Seq(C) /\ Len(SubSeq(p, 1, 1)) = 1 /\ SubSeq(p, 1, 1)[1] = p[1]
  OBVIOUS
<1>3. <<k>> \in Seq(C) /\ Len(<<k>>) = 1 /\ <<k>>[1] = k
  OBVIOUS
<1>4. p[1] = k => SubSeq(p, 1, 1) = <<k>>
  <2> HAVE p[1] = k
  <2>1. Len(SubSeq(p, 1, 1)) = Len(<<k>>)
        /\ \A i \in 1 .. Len(SubSeq(p, 1, 1)) : SubSeq(p, 1, 1)[i] = <<k>>[i]
    BY <1>2, <1>3
  <2> QED
    BY <1>2, <1>3, <2>1, SeqEqual, Zenon
<1> QED
  BY <1>1, <1>2, <1>3, <1>4 DEF Inside

-----------------------------------------------------------------------------
(* The sessions directory is a tree.                                       *)

FixedNames == {"sourcecode", "targets", "svg", "sub", "Makefile", "binary",
               "generated.cpp"}
Components == Keys \cup Asked \cup AllDsp \cup FixedNames
Paths == Seq(Components)

Tree(D) ==
    /\ D \subseteq Paths
    /\ \A path \in D : path # <<>> /\ path[1] \in Keys /\ CanCreate(D, path)

LEMMA CreatedIn ==
    ASSUME NEW D, NEW d \in Paths, d # <<>>, NEW n \in Components
    PROVE  CanCreate(D, Append(d, n)) <=> d \in D
<1>1. Len(d) \in Nat /\ Len(d) >= 1
  BY EmptySeq DEF Paths
<1> QED
  BY <1>1, ParentOfAppend DEF CanCreate, Paths

LEMMA AddKeepsTree ==
    ASSUME NEW D, Tree(D), NEW d \in D, NEW N \in SUBSET Components
    PROVE  Tree(Add(D, d, N))
<1>1. d \in Paths /\ d # <<>> /\ d[1] \in Keys
  BY DEF Tree
<1>2. \A n \in N : LET p == Append(d, n) IN
         /\ p \in Paths /\ p # <<>> /\ p[1] \in Keys /\ Parent(p) = d
  <2> TAKE n \in N
  <2>1. Append(d, n) # <<>>
    BY <1>1 DEF Paths
  <2> QED
    BY <1>1, <2>1, ParentOfAppend DEF Paths
<1> QED
  BY <1>1, <1>2 DEF Tree, Add, CanCreate

LEMMA FileKeepsTree ==
    ASSUME NEW D, Tree(D), NEW d \in D, NEW n \in Components
    PROVE  Tree(D \cup {Append(d, n)})
<1>1. Add(D, d, {n}) = D \cup {Append(d, n)}
  BY DEF Add
<1>2. Tree(Add(D, d, {n}))
  BY AddKeepsTree
<1> QED
  BY <1>1, <1>2

LEMMA CreateKeepsTree ==
    ASSUME NEW D, Tree(D), NEW d \in Paths, d # <<>>, d[1] \in Keys
    PROVE  Tree(CreateDirectories(D, d))
<1> DEFINE part(n) == SubSeq(d, 1, n)
<1>1. Len(d) \in Nat /\ Len(d) >= 1
  BY EmptySeq DEF Paths
<1>2. \A n \in 1 .. Len(d) :
         part(n) \in Paths /\ Len(part(n)) = n /\ part(n)[1] = d[1]
  BY <1>1 DEF Paths
<1>3. \A n \in 1 .. Len(d) : n # 1 => Parent(part(n)) = part(n - 1)
  BY <1>1, <1>2 DEF Parent, Paths
<1>4. \A n \in 1 .. Len(d) : part(n) # <<>>
  BY <1>2
<1> HIDE DEF part
<1>5. \A n \in 1 .. Len(d) : n # 1 => n - 1 \in 1 .. Len(d)
  BY <1>1
<1>6. CreateDirectories(D, d) = D \cup {part(n) : n \in 1 .. Len(d)}
  BY DEF CreateDirectories, part
<1>7. \A p \in D : p \in Paths /\ p # <<>> /\ p[1] \in Keys
                  /\ (Len(p) = 1 \/ Parent(p) \in D)
  BY DEF Tree, CanCreate
<1>8. \A n \in 1 .. Len(d) :
         Len(part(n)) = 1 \/ Parent(part(n)) \in CreateDirectories(D, d)
  BY <1>2, <1>3, <1>5, <1>6
<1> QED
  BY <1>2, <1>4, <1>6, <1>7, <1>8 DEF Tree, CanCreate

(* A file is in a directory of the tree.                                   *)
LEMMA FoundIn ==
    ASSUME NEW D, Tree(D), NEW d \in Paths, d # <<>>, NEW n, Append(d, n) \in D
    PROVE  n \in Components /\ d \in D
<1> PICK C : C = Components \cup {n}
  OBVIOUS
<1>1. d \in Seq(C) /\ n \in C /\ Append(d, n) \in Paths /\ Len(d) \in Nat /\ Len(d) >= 1
  <2>1. d \in Seq(C)
    BY DEF Paths
  <2>2. Append(d, n) \in Paths
    BY DEF Tree
  <2> QED
    BY <2>1, <2>2, EmptySeq DEF Paths
<1>2. /\ Len(Append(d, n)) = Len(d) + 1 /\ Parent(Append(d, n)) = d
  BY <1>1, ParentOfAppend
<1>3. Append(d, n)[Len(d) + 1] = n
  BY <1>1
<1>4. Append(d, n)[Len(d) + 1] \in Components
  BY <1>1, <1>2 DEF Paths
<1>5. CanCreate(D, Append(d, n))
  BY DEF Tree
<1> QED
  BY <1>1, <1>2, <1>3, <1>4, <1>5 DEF CanCreate

LEMMA ParentIn ==
    ASSUME NEW D, Tree(D), NEW a, NEW b, NEW c, NEW d
    PROVE  /\ <<a, b>> \in D => <<a>> \in D
           /\ <<a, b, c>> \in D => <<a, b>> \in D /\ <<a>> \in D
           /\ <<a, b, c, d>> \in D => <<a, b, c>> \in D /\ <<a, b>> \in D /\ <<a>> \in D
<1>1. /\ Parent(<<a, b>>) = <<a>> /\ Parent(<<a, b, c>>) = <<a, b>>
      /\ Parent(<<a, b, c, d>>) = <<a, b, c>>
  BY ParentOf
<1>2. Len(<<a, b>>) # 1 /\ Len(<<a, b, c>>) # 1 /\ Len(<<a, b, c, d>>) # 1
  OBVIOUS
<1>3. \A p \in D : Len(p) # 1 => Parent(p) \in D
  BY DEF Tree, CanCreate
<1> QED
  BY <1>1, <1>2, <1>3

LEMMA RemoveKeepsTree ==
    ASSUME NEW D, Tree(D), NEW d \in Paths
    PROVE  Tree(RemoveAll(D, d))
<1>1. ASSUME NEW p \in Paths, p # <<>>, Inside(Parent(p), d) PROVE Inside(p, d)
  BY <1>1, EmptySeq DEF Inside, Parent, Paths
<1> QED
  BY <1>1 DEF Tree, RemoveAll, CanCreate

LEMMA InsideDirectory ==
    ASSUME NEW C, NEW p \in Seq(C), NEW a \in C, NEW b \in C
    PROVE  Inside(p, <<a, b>>) <=> Len(p) >= 2 /\ p[1] = a /\ p[2] = b
<1>1. <<a, b>> \in Seq(C) /\ Len(<<a, b>>) = 2 /\ <<a, b>>[1] = a /\ <<a, b>>[2] = b
  OBVIOUS
<1>2. ASSUME Len(p) >= 2
      PROVE  /\ SubSeq(p, 1, 2) \in Seq(C) /\ Len(SubSeq(p, 1, 2)) = 2
             /\ SubSeq(p, 1, 2)[1] = p[1] /\ SubSeq(p, 1, 2)[2] = p[2]
  BY <1>2
<1>3. ASSUME Len(p) >= 2, p[1] = a, p[2] = b PROVE SubSeq(p, 1, 2) = <<a, b>>
  <2>1. Len(SubSeq(p, 1, 2)) = Len(<<a, b>>)
        /\ \A i \in 1 .. Len(SubSeq(p, 1, 2)) : SubSeq(p, 1, 2)[i] = <<a, b>>[i]
    BY <1>1, <1>2, <1>3
  <2>2. SubSeq(p, 1, 2) \in Seq(C)
    BY <1>2, <1>3
  <2> QED
    BY <1>1, <2>1, <2>2, SeqEqual, Zenon
<1> QED
  BY <1>1, <1>2, <1>3 DEF Inside

LEMMA CreateTwo ==
    ASSUME NEW D, NEW a, NEW b
    PROVE  CreateDirectories(D, <<a, b>>) = D \cup {<<a>>, <<a, b>>}
<1> PICK C : C = {a, b}
  OBVIOUS
<1>1. <<a, b>> \in Seq(C) /\ <<a>> \in Seq(C) /\ Len(<<a, b>>) = 2
  OBVIOUS
<1>2. SubSeq(<<a, b>>, 1, 1) = <<a>>
  <2>1. <<a, b>>[1] = a
    OBVIOUS
  <2>2. Inside(<<a, b>>, <<a>>)
    BY <1>1, <2>1, InsideSession
  <2> QED
    BY <2>2 DEF Inside
<1>3. SubSeq(<<a, b>>, 1, 2) = <<a, b>>
  BY <1>1, SubSeqFull
<1>4. 1 .. Len(<<a, b>>) = {1, 2}
  BY <1>1
<1> QED
  BY <1>2, <1>3, <1>4 DEF CreateDirectories

LEMMA CreateThree ==
    ASSUME NEW D, NEW a, NEW b, NEW c
    PROVE  CreateDirectories(D, <<a, b, c>>) = D \cup {<<a>>, <<a, b>>, <<a, b, c>>}
<1> PICK C : C = {a, b, c}
  OBVIOUS
<1>1. <<a, b, c>> \in Seq(C) /\ <<a, b>> \in Seq(C) /\ <<a>> \in Seq(C)
      /\ Len(<<a, b, c>>) = 3
  OBVIOUS
<1>2. SubSeq(<<a, b, c>>, 1, 1) = <<a>>
  <2>1. <<a, b, c>>[1] = a
    OBVIOUS
  <2>2. Inside(<<a, b, c>>, <<a>>)
    BY <1>1, <2>1, InsideSession
  <2> QED
    BY <2>2 DEF Inside
<1>3. SubSeq(<<a, b, c>>, 1, 2) = <<a, b>>
  <2>1. Parent(<<a, b, c>>) = <<a, b>>
    BY ParentOf
  <2> QED
    BY <1>1, <2>1 DEF Parent
<1>4. SubSeq(<<a, b, c>>, 1, 3) = <<a, b, c>>
  BY <1>1, SubSeqFull
<1>5. 1 .. Len(<<a, b, c>>) = {1, 2, 3}
  BY <1>1
<1> QED
  BY <1>2, <1>3, <1>4, <1>5 DEF CreateDirectories

(* The names in a directory are those of the paths that extend its own.    *)
LEMMA NamesAre ==
    ASSUME NEW C, NEW D \in SUBSET Seq(C), NEW d \in Seq(C), NEW n \in C
    PROVE  n \in Names(D, d) <=> Append(d, n) \in D
<1>1. ASSUME NEW p \in Seq(C), Len(p) = Len(d) + 1, Parent(p) = d
      PROVE  p = Append(d, p[Len(p)])
  BY <1>1 DEF Parent
<1>2. ASSUME Append(d, n) \in D PROVE n \in Names(D, d)
  <2>1. Append(d, n)[Len(Append(d, n))] = n
    OBVIOUS
  <2> QED
    BY ZenonT(40), <1>2, <2>1, ParentOfAppend DEF Names
<1>3. ASSUME n \in Names(D, d) PROVE Append(d, n) \in D
  BY <1>1, <1>3 DEF Names
<1> QED
  BY <1>2, <1>3

-----------------------------------------------------------------------------
(* The types.                                                              *)

CacheType == cache \in Seq(Keys) /\ Distinct(cache) /\ Len(cache) <= MaxSize

Shape(th) == th = [pc |-> th.pc, key |-> th.key, name |-> th.name, target |-> th.target,
                   main |-> th.main, answer |-> th.answer]

ThreadType ==
    /\ thread = [t \in Threads |-> thread[t]]
    /\ \A t \in Threads :
         /\ Shape(thread[t])
         /\ thread[t].pc # "idle" =>
              Key(t) \in KeysOf[t] /\ thread[t].target \in Asked /\ thread[t].answer = "none"

TypeInv == Tree(disk) /\ CacheType /\ ThreadType /\ aborted \in BOOLEAN

(* What a step of t leaves to the others.                                  *)
OthersSame(t) == \A u \in Threads : u # t => thread'[u] = thread[u]

LEMMA TypesAfter ==
    ASSUME ThreadType, NEW t \in Threads, thread' = [u \in Threads |-> thread'[u]],
           OthersSame(t), Shape(thread'[t]),
           thread'[t].pc # "idle" =>
             /\ thread'[t].key \in KeysOf[t] /\ thread'[t].target \in Asked
             /\ thread'[t].answer = "none"
    PROVE  ThreadType'
<1>1. ASSUME NEW u \in Threads
      PROVE  /\ Shape(thread'[u])
             /\ thread'[u].pc # "idle" =>
                  /\ thread'[u].key \in KeysOf[u] /\ thread'[u].target \in Asked
                  /\ thread'[u].answer = "none"
  BY <1>1 DEF ThreadType, OthersSame, Key
<1> QED
  BY <1>1 DEF ThreadType, Key, Shape

LEMMA GoneTo ==
    ASSUME ThreadType, NEW t \in Threads, thread[t].pc # "idle", NEW location,
           Goto(t, location)
    PROVE  /\ ThreadType' /\ OthersSame(t)
           /\ thread'[t].pc = location /\ thread'[t].key = thread[t].key
           /\ thread'[t].name = thread[t].name /\ thread'[t].target = thread[t].target
           /\ thread'[t].main = thread[t].main /\ thread'[t].answer = thread[t].answer
<1>1. thread'[t] = [pc |-> location, key |-> thread[t].key, name |-> thread[t].name,
                    target |-> thread[t].target, main |-> thread[t].main,
                    answer |-> thread[t].answer]
  BY DEF Goto, ThreadType, Shape
<1>2. thread' = [u \in Threads |-> thread'[u]] /\ OthersSame(t)
  BY DEF Goto, ThreadType, OthersSame
<1>3. thread[t].key \in KeysOf[t] /\ thread[t].target \in Asked /\ thread[t].answer = "none"
  BY DEF ThreadType, Key
<1> HIDE DEF Goto, Sources
<1>4. Shape(thread'[t]) /\ thread'[t].key = thread[t].key
      /\ thread'[t].target = thread[t].target /\ thread'[t].answer = thread[t].answer
  BY <1>1 DEF Shape
<1>5. ThreadType'
  BY <1>2, <1>3, <1>4, TypesAfter
<1> QED
  BY <1>1, <1>2, <1>5

LEMMA SourcesAre ==
    ASSUME ThreadType, NEW t \in Threads, thread[t].pc # "idle", NEW name,
           Sources(t, name)
    PROVE  /\ ThreadType' /\ OthersSame(t)
           /\ thread'[t].pc = "user_code" /\ thread'[t].key = thread[t].key
           /\ thread'[t].name = thread[t].name /\ thread'[t].target = thread[t].target
           /\ thread'[t].main = name /\ thread'[t].answer = thread[t].answer
<1>1. thread'[t] = [pc |-> "user_code", key |-> thread[t].key, name |-> thread[t].name,
                    target |-> thread[t].target, main |-> name,
                    answer |-> thread[t].answer]
  <2> DEFINE first == [thread EXCEPT ![t].pc = "user_code"]
  <2>1. first = [u \in Threads |-> first[u]]
        /\ first[t] = [pc |-> "user_code", key |-> thread[t].key, name |-> thread[t].name,
                       target |-> thread[t].target, main |-> thread[t].main,
                       answer |-> thread[t].answer]
    BY DEF ThreadType, Shape
  <2>2. thread' = [first EXCEPT ![t].main = name]
    BY DEF Sources
  <2> HIDE DEF first
  <2> QED
    BY <2>1, <2>2
<1>2. thread' = [u \in Threads |-> thread'[u]] /\ OthersSame(t)
  BY DEF Sources, ThreadType, OthersSame
<1>3. thread[t].key \in KeysOf[t] /\ thread[t].target \in Asked /\ thread[t].answer = "none"
  BY DEF ThreadType, Key
<1> HIDE DEF Goto, Sources
<1>4. Shape(thread'[t]) /\ thread'[t].key = thread[t].key
      /\ thread'[t].target = thread[t].target /\ thread'[t].answer = thread[t].answer
  BY <1>1 DEF Shape
<1>5. ThreadType'
  BY <1>2, <1>3, <1>4, TypesAfter
<1> QED
  BY <1>1, <1>2, <1>5

LEMMA IsDone ==
    ASSUME ThreadType, NEW t \in Threads, NEW how, Done(t, how)
    PROVE  /\ ThreadType' /\ OthersSame(t)
           /\ thread'[t].pc = "idle" /\ thread'[t].answer = how
<1> PICK empty : empty = ""
  OBVIOUS
<1>1. thread'[t] = [pc |-> "idle", key |-> empty, name |-> empty, target |-> "none",
                    main |-> empty, answer |-> how]
  BY DEF Done, ThreadType, Idle
<1>2. thread' = [u \in Threads |-> thread'[u]] /\ OthersSame(t)
  BY DEF Done, ThreadType, OthersSame
<1>3. Shape(thread'[t])
  BY <1>1 DEF Shape
<1>4. thread'[t].pc = "idle" /\ thread'[t].answer = how
  BY ONLY <1>1
<1>5. ThreadType'
  BY <1>2, <1>3, <1>4, TypesAfter
<1> QED
  BY <1>2, <1>4, <1>5

LEMMA IsStarted ==
    ASSUME ThreadType, NEW t \in Threads, NEW location, NEW k \in KeysOf[t], NEW n,
           NEW g \in Asked, Start(t, location, k, n, g)
    PROVE  /\ ThreadType' /\ OthersSame(t)
           /\ thread'[t].pc = location /\ thread'[t].key = k /\ thread'[t].name = n
           /\ thread'[t].target = g /\ thread'[t].answer = "none"
<1> PICK empty : empty = ""
  OBVIOUS
<1>1. thread'[t] = [pc |-> location, key |-> k, name |-> n, target |-> g, main |-> empty,
                    answer |-> "none"]
  BY DEF Start, ThreadType, Idle
<1>2. thread' = [u \in Threads |-> thread'[u]] /\ OthersSame(t)
  BY DEF Start, ThreadType, OthersSame
<1>3. Shape(thread'[t])
  BY <1>1 DEF Shape
<1>4. /\ thread'[t].pc = location /\ thread'[t].key = k /\ thread'[t].name = n
      /\ thread'[t].target = g /\ thread'[t].answer = "none"
  BY ONLY <1>1
<1>5. ThreadType'
  BY <1>2, <1>3, <1>4, TypesAfter
<1> QED
  BY <1>2, <1>4, <1>5

LEMMA CacheAfter ==
    ASSUME CacheType, NEW t \in Threads, Key(t) \in Keys, Refer(t)
    PROVE  /\ CacheType'
           /\ Key(t) \in Elements(cache) => Elements(cache') = Elements(cache)
           /\ Key(t) \notin Elements(cache) /\ Len(cache) # MaxSize =>
                Elements(cache') = Elements(cache) \cup {Key(t)}
           /\ Key(t) \notin Elements(cache) /\ Len(cache) = MaxSize =>
                /\ Elements(cache') = (Elements(cache) \ {Back(cache)}) \cup {Key(t)}
                /\ Back(cache) \in Elements(cache)
<1> PICK k : k = Key(t)
  OBVIOUS
<1>1. /\ cache \in Seq(Keys) /\ Distinct(cache) /\ Len(cache) <= MaxSize
      /\ MaxSize \in Nat \ {0} /\ k \in Keys
  BY SizeAssumption DEF CacheType
<1>2. CASE k \in Elements(cache)
  <2>1. cache' = PushFront(k, Erase(cache, Position(cache, k)))
    BY <1>2 DEF Refer
  <2>2. Position(cache, k) \in 1 .. Len(cache) /\ cache[Position(cache, k)] = k
    BY <1>1, <1>2 DEF Position, Elements
  <2> DEFINE e == Erase(cache, Position(cache, k))
  <2>3. e \in Seq(Keys) /\ Len(e) = Len(cache) - 1 /\ Distinct(e)
        /\ Elements(e) = Elements(cache) \ {k}
    BY SMTT(30), <1>1, <2>2, EraseProperties
  <2> HIDE DEF e
  <2>4. k \notin Elements(e)
    BY <2>3
  <2>5. PushFront(k, e) \in Seq(Keys) /\ Len(PushFront(k, e)) = Len(e) + 1
        /\ Distinct(PushFront(k, e)) /\ Elements(PushFront(k, e)) = Elements(e) \cup {k}
    BY <1>1, <2>3, <2>4, PushFrontProperties
  <2>6. cache' = PushFront(k, e)
    BY <2>1 DEF e
  <2>7. Len(cache') = Len(cache)
    <3>1. Len(cache) \in Nat
      BY <1>1
    <3> QED
      BY <2>3, <2>5, <2>6, <3>1
  <2>8. Elements(cache') = Elements(cache)
    BY <1>2, <2>3, <2>5, <2>6
  <2> QED
    BY <1>1, <1>2, <2>5, <2>6, <2>7, <2>8 DEF CacheType
<1>3. CASE k \notin Elements(cache) /\ Len(cache) # MaxSize
  <2>1. cache' = PushFront(k, cache)
    BY <1>3 DEF Refer
  <2>2. PushFront(k, cache) \in Seq(Keys) /\ Len(PushFront(k, cache)) = Len(cache) + 1
        /\ Distinct(PushFront(k, cache))
        /\ Elements(PushFront(k, cache)) = Elements(cache) \cup {k}
    BY <1>1, <1>3, PushFrontProperties, Zenon
  <2> QED
    BY <1>1, <1>3, <2>1, <2>2 DEF CacheType
<1>4. CASE k \notin Elements(cache) /\ Len(cache) = MaxSize
  <2> DEFINE e == PopBack(cache)
  <2>1. cache' = PushFront(k, e)
    BY <1>4 DEF Refer
  <2>2. Len(cache) \in 1 .. Len(cache) /\ Back(cache) \in Elements(cache)
    BY <1>1, <1>4 DEF Back, Elements
  <2>3. e \in Seq(Keys) /\ Len(e) = Len(cache) - 1 /\ Distinct(e)
        /\ Elements(e) = Elements(cache) \ {Back(cache)}
    BY <1>1, <2>2, EraseProperties DEF PopBack, Back
  <2> HIDE DEF e
  <2>4. k \notin Elements(e)
    BY <1>4, <2>3
  <2>5. PushFront(k, e) \in Seq(Keys) /\ Len(PushFront(k, e)) = Len(e) + 1
        /\ Distinct(PushFront(k, e)) /\ Elements(PushFront(k, e)) = Elements(e) \cup {k}
    BY <1>1, <2>3, <2>4, PushFrontProperties
  <2> QED
    BY <1>1, <1>4, <2>1, <2>2, <2>3, <2>5 DEF CacheType
<1> QED
  BY <1>2, <1>3, <1>4

LEMMA PathTypes ==
    ASSUME NEW k \in Keys, NEW g \in Asked
    PROVE  /\ <<k>> \in Paths /\ <<k>> # <<>> /\ <<k>>[1] = k
           /\ <<k, "sourcecode">> \in Paths /\ <<k, "sourcecode">> # <<>>
           /\ <<k, "sourcecode">>[1] = k
           /\ <<k, "svg">> \in Paths /\ <<k, "svg">> # <<>> /\ <<k, "svg">>[1] = k
           /\ <<k, "sourcecode", "sub">> \in Paths /\ <<k, "sourcecode", "sub">> # <<>>
           /\ <<k, "sourcecode", "sub">>[1] = k
           /\ <<k, "targets", g>> \in Paths /\ <<k, "targets", g>> # <<>>
           /\ <<k, "targets", g>>[1] = k
<1>1. k \in Components /\ g \in Components /\ "sourcecode" \in Components
      /\ "svg" \in Components /\ "sub" \in Components /\ "targets" \in Components
  BY DEF Components, FixedNames
<1> QED
  BY <1>1 DEF Paths

LEMMA NameTypes ==
    /\ AllDsp \subseteq Components /\ DspNames \subseteq Components
    /\ {"main.dsp", "toolong.dsp", "user_code.dsp", "Makefile", "binary",
         "generated.cpp"} \subseteq Components
BY DEF Components, FixedNames, AllDsp

(* What holds of a thread that is in the middle of a request.              *)
LEMMA Working ==
    ASSUME TypeInv, NEW t \in Threads, NEW location, location # "idle", At(t, location)
    PROVE  /\ thread[t].pc = location /\ Key(t) \in KeysOf[t] /\ Key(t) \in Keys
           /\ thread[t].target \in Asked
           /\ Session(t) \in Paths /\ Session(t) # <<>> /\ Session(t)[1] = Key(t)
           /\ Sourcecode(t) \in Paths /\ Sourcecode(t) # <<>>
           /\ Sourcecode(t)[1] = Key(t)
           /\ TargetDir(t) \in Paths /\ TargetDir(t) # <<>> /\ TargetDir(t)[1] = Key(t)
<1>1. thread[t].pc = location /\ Key(t) \in KeysOf[t] /\ thread[t].target \in Asked
  BY DEF At, TypeInv, ThreadType
<1>2. Key(t) \in Keys
  BY <1>1, ThreadAssumption
<1> QED
  BY <1>1, <1>2, PathTypes DEF Session, Sourcecode, TargetDir

(* Where a request is after validate_faust.                                *)
LEMMA IsValid ==
    ASSUME ThreadType, NEW t \in Threads, thread[t].pc # "idle", Valid(t)
    PROVE  /\ ThreadType' /\ OthersSame(t)
           /\ \/ thread'[t].pc = "idle" /\ thread'[t].answer = "key"
              \/ /\ thread'[t].pc = "refer" /\ thread'[t].key = thread[t].key
                 /\ thread'[t].answer = thread[t].answer
BY GoneTo, IsDone DEF Valid

LEMMA IsInvalid ==
    ASSUME ThreadType, NEW t \in Threads, Invalid(t)
    PROVE  /\ ThreadType' /\ OthersSame(t)
           /\ thread'[t].pc = "idle" /\ thread'[t].answer = "invalid"
BY IsDone DEF Invalid

LEMMA ValidateTypes ==
    ASSUME TypeInv, NEW t \in Threads, Validate(t)
    PROVE  TypeInv'
<1> USE DEF TypeInv
<1>1. CASE SessionExists(t)
  BY <1>1, Working, IsValid DEF SessionExists, CacheType
<1>2. CASE NewSession(t)
  BY <1>2, Working, GoneTo DEF NewSession, CacheType
<1>3. CASE CreateSession(t)
  <2>1. Tree(disk')
    BY <1>3, Working, CreateKeepsTree DEF CreateSession
  <2> QED
    BY <1>3, <2>1, Working, GoneTo DEF CreateSession, CacheType
<1>4. CASE NoSources(t)
  BY <1>4, IsInvalid DEF NoSources, CacheType
<1>5. CASE CopySource(t)
  <2> DEFINE name == thread[t].name
             file == File(Sourcecode(t), name)
  <2>1. name \in Components
    BY <1>5, NameTypes DEF CopySource
  <2>2. ASSUME CanCreate(disk, file) PROVE Tree(disk \cup {file})
    BY <1>5, <2>1, <2>2, Working, CreatedIn, FileKeepsTree DEF CopySource, File
  <2>3. Tree(disk')
    BY <1>5, <2>2 DEF CopySource
  <2>4. ThreadType'
    BY <1>5, Working, SourcesAre, IsDone DEF CopySource
  <2> QED
    BY <1>5, <2>3, <2>4 DEF CopySource, CacheType
<1>6. CASE Extract(t)
  <2> DEFINE src == Sourcecode(t)
  <2>1. /\ src \in Paths /\ src # <<>> /\ src[1] \in Keys
        /\ Append(src, "sub") \in Paths /\ Append(src, "sub") # <<>>
        /\ Append(src, "sub")[1] \in Keys
    <3>1. src = <<Key(t), "sourcecode">>
          /\ Append(src, "sub") = <<Key(t), "sourcecode", "sub">>
      BY FileOfDirectory, Zenon DEF Sourcecode
    <3>2. Key(t) \in Keys
      BY <1>6, Working DEF Extract
    <3> HIDE DEF src
    <3>3. "none" \in Asked
      BY DEF Asked
    <3> QED
      BY <3>1, <3>2, <3>3, PathTypes
  <2>2. \A D : src \in CreateDirectories(D, src)
    <3>1. SubSeq(src, 1, Len(src)) = src /\ Len(src) \in 1 .. Len(src)
      BY <2>1, SubSeqFull, EmptySeq DEF Paths
    <3> QED
      BY <3>1 DEF CreateDirectories
  <2>3. \A D : Tree(D) => Tree(CreateDirectories(D, src))
    BY <2>1, CreateKeepsTree
  <2>4. \A D, n : Tree(D) /\ n \in Components => Tree(Add(CreateDirectories(D, src), src, {n}))
    BY <2>2, <2>3, AddKeepsTree
  <2>5. Tree(CreateDirectories(disk, Append(src, "sub")))
    BY <2>1, CreateKeepsTree
  <2>6. Tree(RemoveAll(disk, src))
    BY <2>1, RemoveKeepsTree
  <2>7. Tree(disk')
    BY <1>6, <2>4, <2>5, <2>6, NameTypes DEF Extract
  <2>8. ThreadType'
    BY <1>6, Working, SourcesAre DEF Extract
  <2> QED
    BY <1>6, <2>7, <2>8 DEF Extract, CacheType
<1>7. CASE CopyUserCode(t)
  <2>1. Tree(disk')
    BY <1>7, Working, CreatedIn, FileKeepsTree, NameTypes DEF CopyUserCode, File
  <2>2. ThreadType'
    BY <1>7, Working, GoneTo, IsInvalid DEF CopyUserCode
  <2> QED
    BY <1>7, <2>1, <2>2 DEF CopyUserCode, CacheType
<1>8. CASE Compile(t)
  <2>1. File(Sourcecode(t), thread[t].main) \in disk => Session(t) \in disk
    <3>1. File(Sourcecode(t), thread[t].main) \in disk => Sourcecode(t) \in disk
      BY <1>8, Working, FoundIn DEF Compile, File
    <3> QED
      BY <3>1, ParentIn DEF Sourcecode, Session
  <2>2. Tree(disk')
    BY <1>8, <2>1, Working, FileKeepsTree, NameTypes DEF Compile, File
  <2> QED
    BY <1>8, <2>2, Working, GoneTo DEF Compile, CacheType
<1>9. CASE CannotFork(t)
  BY <1>9, IsInvalid DEF CannotFork, CacheType
<1>10. CASE CheckIncludes(t)
  <2>1. Tree(disk')
    BY <1>10, Working, RemoveKeepsTree DEF CheckIncludes
  <2>2. ThreadType'
    BY <1>10, Working, GoneTo, IsInvalid DEF CheckIncludes
  <2> QED
    BY <1>10, <2>1, <2>2 DEF CheckIncludes, CacheType
<1>11. CASE CreateSvg(t)
  <2>1. /\ Append(Session(t), "svg") \in Paths /\ Append(Session(t), "svg") # <<>>
        /\ Append(Session(t), "svg")[1] \in Keys
    <3>1. Append(Session(t), "svg") = <<Key(t), "svg">>
      BY FileOfSession, Zenon DEF Session
    <3>2. Key(t) \in Keys /\ thread[t].target \in Asked
      BY <1>11, Working DEF CreateSvg
    <3> QED
      BY <3>1, <3>2, PathTypes
  <2>2. Tree(disk')
    BY <1>11, <2>1, CreateKeepsTree DEF CreateSvg
  <2> QED
    BY <1>11, <2>2, Working, GoneTo DEF CreateSvg, CacheType
<1>12. CASE BasicMakefile(t)
  <2>1. Tree(disk')
    BY <1>12, Working, FileKeepsTree, NameTypes DEF BasicMakefile, Makefile
  <2>2. ThreadType'
    BY <1>12, Working, GoneTo, IsDone DEF BasicMakefile
  <2> QED
    BY <1>12, <2>1, <2>2 DEF BasicMakefile, CacheType
<1>13. CASE BasicFiles(t)
  <2>1. Sourcecode(t) \in disk => Session(t) \in disk
    BY ParentIn DEF Sourcecode, Session
  <2>2. \A some \in SUBSET FaustFiles(Sourcecode(t)) : some \in SUBSET Components
    BY NameTypes DEF FaustFiles
  <2>3. Sourcecode(t) \in disk =>
          \A some \in SUBSET FaustFiles(Sourcecode(t)) : Tree(Add(disk, Session(t), some))
    BY <2>1, <2>2, AddKeepsTree
  <2>4. Tree(disk')
    BY <1>13, <2>3 DEF BasicFiles, Abort
  <2>5. ThreadType'
    BY <1>13, Working, IsValid, IsDone DEF BasicFiles, Abort, ThreadType, Key
  <2>6. aborted' \in BOOLEAN
    BY <1>13 DEF BasicFiles, Abort
  <2> QED
    BY <1>13, <2>4, <2>5, <2>6 DEF BasicFiles, CacheType
<1> QED
  BY <1>1, <1>2, <1>3, <1>4, <1>5, <1>6, <1>7, <1>8, <1>9, <1>10, <1>11, <1>12, <1>13
     DEF Validate

LEMMA MakeTypes ==
    ASSUME TypeInv, NEW t \in Threads, MakeAndSend(t)
    PROVE  TypeInv'
<1> USE DEF TypeInv
<1>1. CASE Refer(t)
  <2>1. CacheType'
    BY <1>1, Working, CacheAfter DEF Refer
  <2>2. \A p \in Paths : Tree(RemoveAll(disk, p))
    BY RemoveKeepsTree
  <2>3. Key(t) \notin Elements(cache) /\ Len(cache) = MaxSize => Back(cache) \in Keys
    <3>1. Elements(cache) \subseteq Keys
      BY DEF CacheType, Elements
    <3> QED
      BY <1>1, <3>1, Working, CacheAfter DEF Refer
  <2>4. \A k \in Keys : <<k>> \in Paths
    <3>1. "none" \in Asked
      BY DEF Asked
    <3> QED
      BY <3>1, PathTypes
  <2>5. Tree(disk')
    BY <1>1, <2>2, <2>3, <2>4 DEF Refer
  <2> QED
    BY <1>1, <2>1, <2>5, Working, GoneTo DEF Refer
<1>2. CASE FindMakefile(t)
  BY <1>2, Working, GoneTo DEF FindMakefile, CacheType
<1>3. CASE RootMakefile(t)
  <2>1. Tree(disk')
    BY <1>3, Working, FileKeepsTree, NameTypes DEF RootMakefile, Makefile
  <2>2. ThreadType'
    BY <1>3, Working, GoneTo, IsDone DEF RootMakefile
  <2> QED
    BY <1>3, <2>1, <2>2 DEF RootMakefile, CacheType
<1>4. CASE RootFiles(t)
  <2>1. ThreadType'
    BY <1>4, Working, GoneTo, IsDone DEF RootFiles, Abort, ThreadType, Key
  <2>2. aborted' \in BOOLEAN
    BY <1>4 DEF RootFiles, Abort
  <2> QED
    BY <1>4, <2>1, <2>2 DEF RootFiles, Abort, CacheType
<1>5. CASE CreateTarget(t)
  <2>1. Tree(disk')
    BY <1>5, Working, CreateKeepsTree DEF CreateTarget
  <2>2. ThreadType'
    BY <1>5, Working, GoneTo DEF CreateTarget
  <2> QED
    BY <1>5, <2>1, <2>2 DEF CreateTarget, CacheType
<1>6. CASE TargetMakefile(t)
  <2>1. Tree(disk')
    BY <1>6, Working, FileKeepsTree, NameTypes DEF TargetMakefile, Makefile
  <2>2. ThreadType'
    BY <1>6, Working, GoneTo DEF TargetMakefile
  <2> QED
    BY <1>6, <2>1, <2>2 DEF TargetMakefile, CacheType
<1>7. CASE TargetFiles(t)
  <2>1. \A some \in SUBSET FaustFiles(Sourcecode(t)) : some \in SUBSET Components
    BY NameTypes DEF FaustFiles
  <2>2. TargetDir(t) \in disk =>
          \A some \in SUBSET FaustFiles(Sourcecode(t)) : Tree(Add(disk, TargetDir(t), some))
    BY <2>1, AddKeepsTree
  <2>3. Tree(disk')
    BY <1>7, <2>2 DEF TargetFiles, Abort
  <2>4. ThreadType'
    BY <1>7, Working, GoneTo DEF TargetFiles, Abort, ThreadType, Key
  <2>5. aborted' \in BOOLEAN
    BY <1>7 DEF TargetFiles, Abort
  <2> QED
    BY <1>7, <2>3, <2>4, <2>5 DEF TargetFiles, CacheType
<1>8. CASE SendAsset(t)
  BY <1>8, IsDone DEF SendAsset, CacheType
<1>9. CASE NoMakefile(t)
  BY <1>9, IsDone DEF NoMakefile, CacheType
<1>10. CASE Make(t)
  <2>1. TargetDir(t) \in disk
    BY <1>10, Working, FoundIn DEF Make, Makefile
  <2>2. Tree(disk')
    BY <1>10, <2>1, FileKeepsTree, NameTypes DEF Make, File
  <2>3. ThreadType'
    BY <1>10, Working, GoneTo, IsDone DEF Make
  <2> QED
    BY <1>10, <2>2, <2>3 DEF Make, CacheType
<1>11. CASE Send(t)
  BY <1>11, IsDone DEF Send, CacheType
<1> QED
  BY <1>1, <1>2, <1>3, <1>4, <1>5, <1>6, <1>7, <1>8, <1>9, <1>10, <1>11 DEF MakeAndSend

LEMMA EmptyTypes ==
    ASSUME NEW STATE d, d = {}, NEW STATE th, th = [t \in Threads |-> Idle]
    PROVE  /\ Tree(d)
           /\ th = [t \in Threads |-> th[t]]
           /\ \A t \in Threads : Shape(th[t]) /\ th[t].pc = "idle" /\ th[t].answer = "none"
<1> PICK empty : empty = ""
  OBVIOUS
<1>1. \A t \in Threads :
         th[t] = [pc |-> "idle", key |-> empty, name |-> empty, target |-> "none",
                  main |-> empty, answer |-> "none"]
  BY DEF Idle
<1>2. \A t \in Threads : Shape(th[t])
  BY <1>1 DEF Shape
<1>3. ASSUME NEW t \in Threads PROVE th[t].pc = "idle" /\ th[t].answer = "none"
  <2>1. th[t] = [pc |-> "idle", key |-> empty, name |-> empty, target |-> "none",
                 main |-> empty, answer |-> "none"]
    BY <1>1
  <2> QED
    BY ONLY <2>1
<1>4. th = [t \in Threads |-> th[t]]
  OBVIOUS
<1> QED
  BY <1>2, <1>3, <1>4 DEF Tree

LEMMA RestartTypes ==
    ASSUME TypeInv, Restart
    PROVE  TypeInv'
<1>1. CacheType'
  <2> PICK order \in UNION {[1 .. n -> Keys] : n \in 0 .. MaxSize} :
           cache' = order /\ Cardinality(Elements(order)) = Len(order)
    BY DEF Restart
  <2> PICK n \in 0 .. MaxSize : order \in [1 .. n -> Keys]
    OBVIOUS
  <2>1. order \in Seq(Keys) /\ Len(order) <= MaxSize
    BY SizeAssumption
  <2> QED
    BY <2>1, CountedIsDistinct DEF CacheType
<1>2. Tree(disk')
  BY EmptyTypes DEF Restart
<1>3. ThreadType'
  BY EmptyTypes DEF Restart, ThreadType
<1> QED
  BY <1>1, <1>2, <1>3 DEF TypeInv, Restart

LEMMA InitTypes == Init => TypeInv
<1> HAVE Init
<1>1. CacheType
  BY SizeAssumption DEF Init, CacheType, Distinct
<1>2. Tree(disk) /\ ThreadType
  BY EmptyTypes DEF Init, ThreadType
<1> QED
  BY <1>1, <1>2 DEF Init, TypeInv

LEMMA RequestTypes ==
    ASSUME TypeInv, NEW t \in Threads, Post(t) \/ Get(t)
    PROVE  TypeInv'
<1>1. ThreadType'
  <2>1. \A g \in Targets \cup Others \cup {"none"} : g \in Asked
    BY DEF Asked
  <2> QED
    BY <2>1, IsStarted DEF TypeInv, Post, Get
<1> QED
  BY <1>1 DEF TypeInv, CacheType, Post, Get

LEMMA NextTypes == TypeInv /\ [Next]_vars => TypeInv'
<1> SUFFICES ASSUME TypeInv, [Next]_vars PROVE TypeInv'
  OBVIOUS
<1>1. CASE Next
  BY <1>1, RequestTypes, ValidateTypes, MakeTypes, RestartTypes DEF Next
<1>2. CASE UNCHANGED vars
  BY <1>2 DEF TypeInv, CacheType, ThreadType, Key, vars
<1> QED
  BY <1>1, <1>2

LEMMA TypeInvHolds == Spec => []TypeInv
  BY InitTypes, NextTypes, PTL DEF Spec

(* The sessions directory stays a tree of sessions that have a key,        *)
(* whatever the threads do to each other, so long as no two calls of       *)
(* refer() overlap.                                                        *)
THEOREM SessionsTypes == Spec => []TypeOK
<1>1. TypeInv => TypeOK
  <2> SUFFICES ASSUME TypeInv PROVE TypeOK
    OBVIOUS
  <2>1. Elements(cache) \subseteq Keys
    BY DEF TypeInv, CacheType, Elements
  <2>2. \A t \in Threads : thread[t].pc # "idle" => Key(t) \in KeysOf[t]
    BY DEF TypeInv, ThreadType
  <2> QED
    BY <2>1, <2>2 DEF TypeOK, TypeInv, Tree
<1> QED
  BY <1>1, TypeInvHolds, PTL

-----------------------------------------------------------------------------
(* Requests that are apart: either there is one thread, or the threads name*)
(* different keys and the cache has room for all of them, so that no       *)
(* session is evicted.  Nothing in the code ensures it; the promises below *)
(* are those it keeps when no two requests meet in a session.              *)

Apart ==
    /\ IsFiniteSet(Keys)
    /\ \A t, u \in Threads : t # u =>
         KeysOf[t] \cap KeysOf[u] = {} /\ Cardinality(Keys) <= MaxSize

(* What a session has, in the set of paths D.                              *)
Root(D, k) == <<k>> \in D
Source(D, k) == <<k, "sourcecode">> \in D
Dsp(D, k) == {n \in AllDsp : <<k, "sourcecode", n>> \in D}
RootNames == {"user_code.dsp", "generated.cpp", "Makefile", "svg"}
Basic(D, k) == {n \in RootNames : <<k, n>> \in D}
Made(D, k) == {g \in Asked : <<k, "targets", g>> \in D}
TargetDsp(D, k, g) == {n \in AllDsp : <<k, "targets", g, n>> \in D}

(* What is true of the session k when the request for it, if there is one, *)
(* is at l with the main program m and the target g.                       *)
Shared(D, k) ==
    /\ Root(D, k) => Source(D, k)
    /\ \A a, b \in Dsp(D, k) : a = b
    /\ \A h \in Asked : TargetDsp(D, k, h) \subseteq Dsp(D, k)
    /\ Built(D, k) # {} => Dsp(D, k) # {}

Reached(D, k, l, m, g) ==
    /\ l = "create" => ~Root(D, k)
    /\ l = "sources" => Dsp(D, k) = {}
    /\ l \in Validating => Built(D, k) = {}
    /\ l \in Validating \cup {"rootfiles", "directory"} => Root(D, k)
    /\ l \in {"copymakefile", "targetfiles"} => g \in Made(D, k)
    /\ l \in Compiling /\ (Class[k] # "nested" \/ ZipNames = {}) => m \in Dsp(D, k)
    /\ l \in {"compile", "check", "svg", "makefile", "basic"} =>
         "user_code.dsp" \in Basic(D, k)
    /\ l = "basic" => "Makefile" \in Basic(D, k)

\* The C++ code of a foreign content is there from faust to the check only.
Refused(D, k, l) ==
    Class[k] = "foreign" /\ "generated.cpp" \in Basic(D, k) => l = "check"

\* The directory svg is created before the makefile.
Complete(D, k, l) ==
    "svg" \in Basic(D, k) /\ l \notin {"makefile", "basic"} =>
        {"user_code.dsp", "Makefile"} \subseteq Basic(D, k)

Sound(D, k, l, m, g) ==
    /\ Shared(D, k)
    /\ Reached(D, k, l, m, g)
    /\ Refused(D, k, l)
    /\ Complete(D, k, l)

ApartInv ==
    /\ ~aborted
    /\ \A t \in Threads : thread[t].pc # "idle" =>
         Sound(disk, Key(t), thread[t].pc, thread[t].main, thread[t].target)
    /\ \A k \in Keys : (\A t \in Threads : thread[t].pc # "idle" => Key(t) # k) =>
         Sound(disk, k, "idle", "", "none")

-----------------------------------------------------------------------------
(* What each call does to what a session has.                              *)

LEMMA NamesDiffer ==
    /\ \A n \in AllDsp : n \notin FixedNames
    /\ "user_code.dsp" \in AllDsp
BY NameAssumption DEF AllDsp, FixedNames

LEMMA FaustFilesAre ==
    ASSUME Tree(disk), NEW k \in Keys, NEW g \in Asked
    PROVE  /\ FaustFiles(<<k, "sourcecode">>) = Dsp(disk, k)
           /\ FaustFiles(<<k, "targets", g>>) = TargetDsp(disk, k, g)
<1>1. disk \in SUBSET Seq(Components) /\ AllDsp \subseteq Components
  BY NameTypes DEF Tree, Paths
<1>2. /\ <<k, "sourcecode">> \in Seq(Components)
      /\ <<k, "targets", g>> \in Seq(Components)
  BY PathTypes DEF Paths
<1>3. \A n \in AllDsp : n \in Names(disk, <<k, "sourcecode">>) <=> <<k, "sourcecode", n>> \in disk
  <2> TAKE n \in AllDsp
  <2>1. Append(<<k, "sourcecode">>, n) = <<k, "sourcecode", n>>
    BY FileOfDirectory, Zenon
  <2>2. n \in Names(disk, <<k, "sourcecode">>) <=> Append(<<k, "sourcecode">>, n) \in disk
    BY <1>1, <1>2, NamesAre
  <2> QED
    BY <2>1, <2>2, Zenon
<1>4. \A n \in AllDsp : n \in Names(disk, <<k, "targets", g>>) <=> <<k, "targets", g, n>> \in disk
  <2> TAKE n \in AllDsp
  <2>1. Append(<<k, "targets", g>>, n) = <<k, "targets", g, n>>
    BY FileOfTarget, Zenon
  <2>2. n \in Names(disk, <<k, "targets", g>>) <=> Append(<<k, "targets", g>>, n) \in disk
    BY <1>1, <1>2, NamesAre
  <2> QED
    BY <2>1, <2>2, Zenon
<1> QED
  BY <1>3, <1>4 DEF FaustFiles, Dsp, TargetDsp

(* Nothing changes in a session.                                           *)
Same(D, E, k) ==
    /\ Root(E, k) = Root(D, k) /\ Source(E, k) = Source(D, k)
    /\ Dsp(E, k) = Dsp(D, k) /\ Basic(E, k) = Basic(D, k) /\ Made(E, k) = Made(D, k)
    /\ \A g \in Asked : TargetDsp(E, k, g) = TargetDsp(D, k, g)
    /\ Built(E, k) = Built(D, k)

SameOthers(D, E, k) == \A j \in Keys : j # k => Same(D, E, j)

(* The effects that the calls have on a session, E being D after the call. *)
GainsSource(D, E, k, n) ==
    /\ SameOthers(D, E, k)
    /\ Root(E, k) = Root(D, k) /\ Source(E, k) = Source(D, k)
    /\ Dsp(E, k) = Dsp(D, k) \cup ({n} \cap AllDsp)
    /\ Basic(E, k) = Basic(D, k) /\ Made(E, k) = Made(D, k)
    /\ \A g \in Asked : TargetDsp(E, k, g) = TargetDsp(D, k, g)
    /\ Built(E, k) = Built(D, k)

GainsRootFiles(D, E, k, N) ==
    /\ SameOthers(D, E, k)
    /\ Root(E, k) = Root(D, k) /\ Source(E, k) = Source(D, k)
    /\ Dsp(E, k) = Dsp(D, k)
    /\ Basic(E, k) = Basic(D, k) \cup (N \cap RootNames)
    /\ Made(E, k) = Made(D, k)
    /\ \A g \in Asked : TargetDsp(E, k, g) = TargetDsp(D, k, g)
    /\ Built(E, k) = Built(D, k)

GainsSession(D, E, k) ==
    /\ SameOthers(D, E, k)
    /\ Root(E, k) /\ Source(E, k)
    /\ Dsp(E, k) = Dsp(D, k) /\ Basic(E, k) = Basic(D, k) /\ Made(E, k) = Made(D, k)
    /\ \A g \in Asked : TargetDsp(E, k, g) = TargetDsp(D, k, g)
    /\ Built(E, k) = Built(D, k)

GainsTarget(D, E, k, h) ==
    /\ SameOthers(D, E, k)
    /\ Root(E, k) = Root(D, k) /\ Source(E, k) = Source(D, k)
    /\ Dsp(E, k) = Dsp(D, k) /\ Basic(E, k) = Basic(D, k)
    /\ Made(E, k) = Made(D, k) \cup {h}
    /\ \A g \in Asked : TargetDsp(E, k, g) = TargetDsp(D, k, g)
    /\ Built(E, k) = Built(D, k)

GainsTargetFiles(D, E, k, h, N) ==
    /\ SameOthers(D, E, k)
    /\ Root(E, k) = Root(D, k) /\ Source(E, k) = Source(D, k)
    /\ Dsp(E, k) = Dsp(D, k) /\ Basic(E, k) = Basic(D, k) /\ Made(E, k) = Made(D, k)
    /\ TargetDsp(E, k, h) = TargetDsp(D, k, h) \cup (N \cap AllDsp)
    /\ \A g \in Asked : g # h => TargetDsp(E, k, g) = TargetDsp(D, k, g)
    /\ Built(E, k) = IF "binary" \in N THEN Built(D, k) \cup {h} ELSE Built(D, k)

LosesAll(D, E, k) ==
    /\ SameOthers(D, E, k)
    /\ ~Root(E, k) /\ ~Source(E, k)
    /\ Dsp(E, k) = {} /\ Basic(E, k) = {} /\ Made(E, k) = {}
    /\ \A g \in Asked : TargetDsp(E, k, g) = {}
    /\ Built(E, k) = {}

LosesSource(D, E, k) ==
    /\ SameOthers(D, E, k)
    /\ Root(E, k) = Root(D, k) /\ Dsp(E, k) = {}
    /\ Basic(E, k) = Basic(D, k) /\ Made(E, k) = Made(D, k)
    /\ \A g \in Asked : TargetDsp(E, k, g) = TargetDsp(D, k, g)
    /\ Built(E, k) = Built(D, k)

LEMMA AddSource ==
    ASSUME NEW D, NEW k \in Keys, NEW n
    PROVE  GainsSource(D, D \cup {<<k, "sourcecode", n>>}, k, n)
<1> PICK E : E = D \cup {<<k, "sourcecode", n>>}
  OBVIOUS
<1>1. \A j, a, b, c :
         /\ <<j>> # <<k, "sourcecode", n>> /\ <<j, a>> # <<k, "sourcecode", n>>
         /\ <<j, a, b>> = <<k, "sourcecode", n>> <=> j = k /\ a = "sourcecode" /\ b = n
         /\ <<j, a, b, c>> # <<k, "sourcecode", n>>
  OBVIOUS
<1> USE <1>1 DEF Root, Source, Dsp, Basic, RootNames, Made, TargetDsp, Built
<1>2. ASSUME NEW j \in Keys
      PROVE  /\ Root(E, j) = Root(D, j) /\ Source(E, j) = Source(D, j)
             /\ Basic(E, j) = Basic(D, j) /\ Made(E, j) = Made(D, j)
             /\ \A g \in Asked : TargetDsp(E, j, g) = TargetDsp(D, j, g)
             /\ Built(E, j) = Built(D, j)
  OBVIOUS
<1>3. Dsp(E, k) = Dsp(D, k) \cup ({n} \cap AllDsp) /\ \A j \in Keys : j # k => Dsp(E, j) = Dsp(D, j)
  OBVIOUS
<1>9. GainsSource(D, E, k, n)
  BY <1>2, <1>3 DEF SameOthers, Same, GainsSource
<1> QED
  BY <1>9

LEMMA AddRootFiles ==
    ASSUME NEW D, NEW k \in Keys, NEW N, "sourcecode" \notin N
    PROVE  GainsRootFiles(D, D \cup {<<k, n>> : n \in N}, k, N)
<1> PICK E : E = D \cup {<<k, n>> : n \in N}
  OBVIOUS
<1>1. \A j, a, b, c, n :
         /\ <<j>> # <<k, n>> /\ <<j, a, b>> # <<k, n>> /\ <<j, a, b, c>> # <<k, n>>
         /\ <<j, a>> = <<k, n>> <=> j = k /\ a = n
  OBVIOUS
<1>2. \A j, a, b, c :
         /\ <<j>> \in E <=> <<j>> \in D
         /\ <<j, a, b>> \in E <=> <<j, a, b>> \in D
         /\ <<j, a, b, c>> \in E <=> <<j, a, b, c>> \in D
         /\ <<j, a>> \in E <=> <<j, a>> \in D \/ (j = k /\ a \in N)
  BY <1>1
<1> USE <1>2 DEF Root, Source, Dsp, Basic, RootNames, Made, TargetDsp, Built
<1>3. ASSUME NEW j \in Keys
      PROVE  /\ Root(E, j) = Root(D, j) /\ Source(E, j) = Source(D, j)
             /\ Dsp(E, j) = Dsp(D, j) /\ Made(E, j) = Made(D, j)
             /\ \A g \in Asked : TargetDsp(E, j, g) = TargetDsp(D, j, g)
             /\ Built(E, j) = Built(D, j)
  OBVIOUS
<1>4. /\ Basic(E, k) = Basic(D, k) \cup (N \cap RootNames)
      /\ \A j \in Keys : j # k => Basic(E, j) = Basic(D, j)
  OBVIOUS
<1>9. GainsRootFiles(D, E, k, N)
  BY <1>3, <1>4 DEF SameOthers, Same, GainsRootFiles
<1> QED
  BY <1>9

LEMMA AddSession ==
    ASSUME NEW D, NEW k \in Keys
    PROVE  GainsSession(D, D \cup {<<k>>, <<k, "sourcecode">>}, k)
<1> PICK E : E = D \cup {<<k>>, <<k, "sourcecode">>}
  OBVIOUS
<1>1. \A j, a, b, c :
         /\ <<j>> \in E <=> <<j>> \in D \/ j = k
         /\ <<j, a>> \in E <=> <<j, a>> \in D \/ (j = k /\ a = "sourcecode")
         /\ <<j, a, b>> \in E <=> <<j, a, b>> \in D
         /\ <<j, a, b, c>> \in E <=> <<j, a, b, c>> \in D
  OBVIOUS
<1> USE <1>1 DEF Root, Source, Dsp, Basic, RootNames, Made, TargetDsp, Built
<1>2. ASSUME NEW j \in Keys
      PROVE  /\ j # k => Root(E, j) = Root(D, j) /\ Source(E, j) = Source(D, j)
             /\ Dsp(E, j) = Dsp(D, j) /\ Made(E, j) = Made(D, j) /\ Basic(E, j) = Basic(D, j)
             /\ \A g \in Asked : TargetDsp(E, j, g) = TargetDsp(D, j, g)
             /\ Built(E, j) = Built(D, j)
  OBVIOUS
<1>3. Root(E, k) /\ Source(E, k)
  OBVIOUS
<1>9. GainsSession(D, E, k)
  BY <1>2, <1>3 DEF SameOthers, Same, GainsSession
<1> QED
  BY <1>9

LEMMA AddTarget ==
    ASSUME NEW D, NEW k \in Keys, NEW h \in Asked, Root(D, k)
    PROVE  GainsTarget(D, D \cup {<<k>>, <<k, "targets">>, <<k, "targets", h>>}, k, h)
<1> PICK E : E = D \cup {<<k>>, <<k, "targets">>, <<k, "targets", h>>}
  OBVIOUS
<1>1. \A j, a, b, c :
         /\ <<j>> \in E <=> <<j>> \in D
         /\ <<j, a>> \in E <=> <<j, a>> \in D \/ (j = k /\ a = "targets")
         /\ <<j, a, b>> \in E <=> <<j, a, b>> \in D \/ (j = k /\ a = "targets" /\ b = h)
         /\ <<j, a, b, c>> \in E <=> <<j, a, b, c>> \in D
  BY DEF Root
<1> USE <1>1 DEF Root, Source, Dsp, Basic, RootNames, Made, TargetDsp, Built
<1>2. ASSUME NEW j \in Keys
      PROVE  /\ Root(E, j) = Root(D, j) /\ Source(E, j) = Source(D, j)
             /\ Dsp(E, j) = Dsp(D, j) /\ Basic(E, j) = Basic(D, j)
             /\ \A g \in Asked : TargetDsp(E, j, g) = TargetDsp(D, j, g)
             /\ Built(E, j) = Built(D, j)
  OBVIOUS
<1>3. Made(E, k) = Made(D, k) \cup {h} /\ \A j \in Keys : j # k => Made(E, j) = Made(D, j)
  OBVIOUS
<1>9. GainsTarget(D, E, k, h)
  BY <1>2, <1>3 DEF SameOthers, Same, GainsTarget
<1> QED
  BY <1>9

LEMMA AddTargetFiles ==
    ASSUME NEW D, NEW k \in Keys, NEW h \in Asked, NEW N
    PROVE  GainsTargetFiles(D, D \cup {<<k, "targets", h, n>> : n \in N}, k, h, N)
<1> PICK E : E = D \cup {<<k, "targets", h, n>> : n \in N}
  OBVIOUS
<1>1. \A j, a, b, c :
         /\ <<j>> \in E <=> <<j>> \in D
         /\ <<j, a>> \in E <=> <<j, a>> \in D
         /\ <<j, a, b>> \in E <=> <<j, a, b>> \in D
         /\ <<j, a, b, c>> \in E <=>
              <<j, a, b, c>> \in D \/ (j = k /\ a = "targets" /\ b = h /\ c \in N)
  OBVIOUS
<1> USE <1>1 DEF Root, Source, Dsp, Basic, RootNames, Made, TargetDsp, Built
<1>2. ASSUME NEW j \in Keys
      PROVE  /\ Root(E, j) = Root(D, j) /\ Source(E, j) = Source(D, j)
             /\ Dsp(E, j) = Dsp(D, j) /\ Basic(E, j) = Basic(D, j) /\ Made(E, j) = Made(D, j)
  OBVIOUS
<1>3. ASSUME NEW j \in Keys, j # k
      PROVE  /\ \A g \in Asked : TargetDsp(E, j, g) = TargetDsp(D, j, g)
             /\ Built(E, j) = Built(D, j)
  BY <1>3
<1>4. /\ TargetDsp(E, k, h) = TargetDsp(D, k, h) \cup (N \cap AllDsp)
      /\ \A g \in Asked : g # h => TargetDsp(E, k, g) = TargetDsp(D, k, g)
  OBVIOUS
<1>5. Built(E, k) = IF "binary" \in N THEN Built(D, k) \cup {h} ELSE Built(D, k)
  OBVIOUS
<1>9. GainsTargetFiles(D, E, k, h, N)
  BY <1>2, <1>3, <1>4, <1>5 DEF SameOthers, Same, GainsTargetFiles
<1> QED
  BY <1>9

LEMMA RemoveSession ==
    ASSUME NEW D \in SUBSET Paths, NEW k \in Keys
    PROVE  LosesAll(D, RemoveAll(D, <<k>>), k)
<1> PICK E : E = RemoveAll(D, <<k>>)
  OBVIOUS
<1>1. \A p \in D : p # <<>> => (p \in E <=> p[1] # k)
  BY InsideSession DEF RemoveAll, Components, Paths
<1>2. E \subseteq D
  BY DEF RemoveAll
<1>3. /\ \A j : <<j>> \in E <=> <<j>> \in D /\ j # k
      /\ \A j, a : <<j, a>> \in E <=> <<j, a>> \in D /\ j # k
      /\ \A j, a, b : <<j, a, b>> \in E <=> <<j, a, b>> \in D /\ j # k
      /\ \A j, a, b, c : <<j, a, b, c>> \in E <=> <<j, a, b, c>> \in D /\ j # k
  BY <1>1, <1>2
<1>4. ASSUME NEW j \in Keys, j # k PROVE Same(D, E, j)
  <2>1. Root(E, j) = Root(D, j) /\ Source(E, j) = Source(D, j)
    BY <1>3, <1>4 DEF Root, Source
  <2>2. Dsp(E, j) = Dsp(D, j)
    BY <1>3, <1>4 DEF Dsp
  <2>3. Basic(E, j) = Basic(D, j)
    BY <1>3, <1>4 DEF Basic
  <2>4. Made(E, j) = Made(D, j)
    BY <1>3, <1>4 DEF Made
  <2>5. \A g \in Asked : TargetDsp(E, j, g) = TargetDsp(D, j, g)
    BY <1>3, <1>4 DEF TargetDsp
  <2>6. Built(E, j) = Built(D, j)
    BY <1>3, <1>4 DEF Built
  <2> QED
    BY <2>1, <2>2, <2>3, <2>4, <2>5, <2>6 DEF Same
<1>5. /\ ~Root(E, k) /\ ~Source(E, k)
      /\ Dsp(E, k) = {} /\ Basic(E, k) = {} /\ Made(E, k) = {}
      /\ \A g \in Asked : TargetDsp(E, k, g) = {}
      /\ Built(E, k) = {}
  BY <1>3 DEF Root, Source, Dsp, Basic, RootNames, Made, TargetDsp, Built
<1>9. LosesAll(D, E, k)
  BY <1>4, <1>5 DEF SameOthers, LosesAll
<1> QED
  BY <1>9

LEMMA RemoveSource ==
    ASSUME NEW D \in SUBSET Paths, NEW k \in Keys
    PROVE  LosesSource(D, RemoveAll(D, <<k, "sourcecode">>), k)
<1> PICK E : E = RemoveAll(D, <<k, "sourcecode">>)
  OBVIOUS
<1>1. \A p \in D : p \in E <=> ~(Len(p) >= 2 /\ p[1] = k /\ p[2] = "sourcecode")
  BY SMTT(30), InsideDirectory DEF RemoveAll, Components, Paths, FixedNames
<1>2. E \subseteq D
  BY DEF RemoveAll
<1>3. /\ \A j : <<j>> \in E <=> <<j>> \in D
      /\ \A j, a : <<j, a>> \in E <=> <<j, a>> \in D /\ ~(j = k /\ a = "sourcecode")
      /\ \A j, a, b : <<j, a, b>> \in E <=> <<j, a, b>> \in D /\ ~(j = k /\ a = "sourcecode")
      /\ \A j, a, b, c : <<j, a, b, c>> \in E <=> <<j, a, b, c>> \in D /\ ~(j = k /\ a = "sourcecode")
  <2>1. \A j : <<j>> \in E <=> <<j>> \in D
    BY <1>1, <1>2
  <2>2. \A j, a : <<j, a>> \in E <=> <<j, a>> \in D /\ ~(j = k /\ a = "sourcecode")
    BY <1>1, <1>2
  <2>3. \A j, a, b :
           <<j, a, b>> \in E <=> <<j, a, b>> \in D /\ ~(j = k /\ a = "sourcecode")
    BY <1>1, <1>2
  <2>4. \A j, a, b, c :
           <<j, a, b, c>> \in E <=> <<j, a, b, c>> \in D /\ ~(j = k /\ a = "sourcecode")
    BY <1>1, <1>2
  <2> QED
    BY <2>1, <2>2, <2>3, <2>4
<1>4. ASSUME NEW j \in Keys, j # k PROVE Same(D, E, j)
  <2>1. Root(E, j) = Root(D, j) /\ Source(E, j) = Source(D, j)
    BY <1>3, <1>4 DEF Root, Source
  <2>2. Dsp(E, j) = Dsp(D, j)
    BY <1>3, <1>4 DEF Dsp
  <2>3. Basic(E, j) = Basic(D, j)
    BY <1>3, <1>4 DEF Basic
  <2>4. Made(E, j) = Made(D, j)
    BY <1>3, <1>4 DEF Made
  <2>5. \A g \in Asked : TargetDsp(E, j, g) = TargetDsp(D, j, g)
    BY <1>3, <1>4 DEF TargetDsp
  <2>6. Built(E, j) = Built(D, j)
    BY <1>3, <1>4 DEF Built
  <2> QED
    BY <2>1, <2>2, <2>3, <2>4, <2>5, <2>6 DEF Same
<1>5. Root(E, k) = Root(D, k) /\ Dsp(E, k) = {}
  BY <1>3 DEF Root, Dsp
<1>6. Basic(E, k) = Basic(D, k)
  BY <1>3 DEF Basic, RootNames
<1>7. Made(E, k) = Made(D, k) /\ Built(E, k) = Built(D, k)
  BY <1>3 DEF Made, Built
<1>8. \A g \in Asked : TargetDsp(E, k, g) = TargetDsp(D, k, g)
  BY <1>3 DEF TargetDsp
<1>9. LosesSource(D, E, k)
  BY <1>4, <1>5, <1>6, <1>7, <1>8 DEF SameOthers, LosesSource
<1> QED
  BY <1>9

LEMMA NoRoot ==
    ASSUME NEW D, Tree(D), NEW k \in Keys, ~Root(D, k)
    PROVE  /\ Dsp(D, k) = {} /\ Basic(D, k) = {} /\ Made(D, k) = {}
           /\ \A g \in Asked : TargetDsp(D, k, g) = {}
           /\ Built(D, k) = {}
<1>1. \A a, b, c : <<k, a>> \notin D /\ <<k, a, b>> \notin D /\ <<k, a, b, c>> \notin D
  BY ParentIn DEF Root
<1> QED
  BY <1>1 DEF Dsp, Basic, Made, TargetDsp, Built

-----------------------------------------------------------------------------
(* Requests that are apart keep the sessions sound.                        *)

LEMMA SameSound ==
    ASSUME NEW D, NEW E, NEW k, Same(D, E, k), NEW l, NEW m, NEW g, Sound(D, k, l, m, g)
    PROVE  Sound(E, k, l, m, g)
<1>1. Shared(E, k)
  BY DEF Same, Sound, Shared
<1>2. Reached(E, k, l, m, g)
  BY DEF Same, Sound, Reached
<1>3. Refused(E, k, l) /\ Complete(E, k, l)
  BY DEF Same, Sound, Refused, Complete
<1> QED
  BY <1>1, <1>2, <1>3 DEF Sound

(* Places where a request has nothing of its own in the session.           *)
Plain == {"idle", "session", "refer", "target", "root", "make", "send"}

LEMMA PlainSound ==
    ASSUME NEW D, NEW k, NEW l \in Plain, NEW m, NEW g, Sound(D, k, l, m, g),
           NEW ll \in Plain, NEW mm, NEW gg
    PROVE  Sound(D, k, ll, mm, gg)
<1>1. Reached(D, k, ll, mm, gg)
  BY DEF Reached, Plain, Validating, Compiling
<1>2. Refused(D, k, ll) /\ Complete(D, k, ll)
  BY DEF Sound, Refused, Complete, Plain
<1> QED
  BY <1>1, <1>2 DEF Sound

(* A session of which there is nothing.                                    *)
LEMMA NothingSound ==
    ASSUME NEW D, NEW k, NEW m, NEW g,
           ~Root(D, k), Dsp(D, k) = {}, Basic(D, k) = {}, Built(D, k) = {},
           \A h \in Asked : TargetDsp(D, k, h) = {}
    PROVE  Sound(D, k, "idle", m, g)
BY DEF Sound, Shared, Reached, Refused, Complete, Validating, Compiling

LEMMA HasSound ==
    ASSUME ApartInv, NEW t \in Threads, NEW location, location # "idle", At(t, location)
    PROVE  Sound(disk, Key(t), location, thread[t].main, thread[t].target)
BY DEF ApartInv, At

LEMMA ApartKeys ==
    ASSUME Apart, ThreadType, NEW t \in Threads, NEW u \in Threads, u # t,
           thread[u].pc # "idle", NEW k \in KeysOf[t]
    PROVE  Key(u) # k
BY DEF Apart, ThreadType

(* A step of the request of t that leaves the other requests, and the      *)
(* other sessions, as they are, and its own session sound.                 *)
Frames(t) ==
    /\ thread[t].pc # "idle" /\ OthersSame(t) /\ aborted' = aborted
    /\ SameOthers(disk, disk', Key(t))
    /\ thread'[t].pc # "idle" => thread'[t].key = Key(t)
    /\ Sound(disk', Key(t), thread'[t].pc, thread'[t].main, thread'[t].target)

\* The session of t comes and goes, or gains a target, by other steps.
Inert(t) ==
    Root(disk', Key(t)) = Root(disk, Key(t)) /\ Built(disk', Key(t)) = Built(disk, Key(t))

LEMMA Framing ==
    ASSUME Apart, ThreadType, ApartInv, NEW t \in Threads, Frames(t)
    PROVE  ApartInv'
<1>0. /\ thread[t].pc # "idle" /\ OthersSame(t) /\ aborted' = aborted /\ Key(t) \in Keys
      /\ SameOthers(disk, disk', Key(t))
      /\ thread'[t].pc # "idle" => thread'[t].key = Key(t)
      /\ Sound(disk', Key(t), thread'[t].pc, thread'[t].main, thread'[t].target)
  BY ThreadAssumption DEF Frames, ThreadType
<1>1. ~aborted'
  BY <1>0 DEF ApartInv
<1>2. ASSUME NEW u \in Threads, thread'[u].pc # "idle"
      PROVE  Sound(disk', thread'[u].key, thread'[u].pc, thread'[u].main, thread'[u].target)
  <2>1. CASE u = t
    BY <1>0, <1>2, <2>1
  <2>2. CASE u # t
    <3>1. thread'[u] = thread[u] /\ thread[u].pc # "idle"
      BY <1>0, <1>2, <2>2 DEF OthersSame
    <3>2. Key(u) # Key(t) /\ Key(u) \in Keys
      BY <1>0, <2>2, <3>1, ApartKeys, ThreadAssumption DEF ThreadType
    <3>3. Sound(disk, Key(u), thread[u].pc, thread[u].main, thread[u].target)
      BY <3>1 DEF ApartInv
    <3>4. Same(disk, disk', Key(u))
      BY <1>0, <3>2 DEF SameOthers
    <3>5. Sound(disk', Key(u), thread[u].pc, thread[u].main, thread[u].target)
      BY <3>3, <3>4, SameSound
    <3> QED
      BY <3>1, <3>5 DEF Key
  <2> QED
    BY <2>1, <2>2
<1>3. ASSUME NEW k \in Keys, \A u \in Threads : thread'[u].pc # "idle" => thread'[u].key # k
      PROVE  Sound(disk', k, "idle", "", "none")
  <2>1. CASE k = Key(t)
    <3>1. thread'[t].pc = "idle"
      BY <1>0, <1>3, <2>1
    <3>2. "idle" \in Plain
      BY DEF Plain
    <3> QED
      BY <1>0, <2>1, <3>1, <3>2, PlainSound
  <2>2. CASE k # Key(t)
    <3>1. \A u \in Threads : thread[u].pc # "idle" => Key(u) # k
      BY <1>0, <1>3, <2>2 DEF OthersSame, Key
    <3>2. Sound(disk, k, "idle", "", "none")
      BY <3>1 DEF ApartInv
    <3> QED
      BY <1>0, <2>2, <3>2, SameSound DEF SameOthers
  <2> QED
    BY <2>1, <2>2
<1> QED
  BY <1>1, <1>2, <1>3 DEF ApartInv, Key

(* What a step of a thread that stays with its session needs from there.   *)
LEMMA AtSession ==
    ASSUME TypeInv, ApartInv, NEW t \in Threads, NEW location, location # "idle",
           At(t, location)
    PROVE  /\ Key(t) \in Keys /\ thread[t].target \in Asked /\ thread[t].pc = location
           /\ Tree(disk) /\ disk \in SUBSET Paths
           /\ Sound(disk, Key(t), location, thread[t].main, thread[t].target)
           /\ Session(t) \in disk <=> Root(disk, Key(t))
           /\ Sourcecode(t) \in disk <=> Source(disk, Key(t))
           /\ TargetDir(t) \in disk <=> thread[t].target \in Made(disk, Key(t))
           /\ FaustFiles(Sourcecode(t)) = Dsp(disk, Key(t))
           /\ FaustFiles(TargetDir(t)) = TargetDsp(disk, Key(t), thread[t].target)
           /\ \A n : File(Session(t), n) = <<Key(t), n>>
           /\ \A n : File(Sourcecode(t), n) = <<Key(t), "sourcecode", n>>
           /\ \A n : File(TargetDir(t), n) = <<Key(t), "targets", thread[t].target, n>>
<1>1. /\ Key(t) \in Keys /\ thread[t].target \in Asked /\ thread[t].pc = location
      /\ Tree(disk) /\ disk \in SUBSET Paths
  BY Working DEF TypeInv, Tree
<1>2. Sound(disk, Key(t), location, thread[t].main, thread[t].target)
  BY HasSound
<1>3. /\ Session(t) \in disk <=> Root(disk, Key(t))
      /\ Sourcecode(t) \in disk <=> Source(disk, Key(t))
      /\ TargetDir(t) \in disk <=> thread[t].target \in Made(disk, Key(t))
  BY <1>1 DEF Session, Sourcecode, TargetDir, Root, Source, Made
<1>4. /\ FaustFiles(Sourcecode(t)) = Dsp(disk, Key(t))
      /\ FaustFiles(TargetDir(t)) = TargetDsp(disk, Key(t), thread[t].target)
  BY <1>1, FaustFilesAre DEF Sourcecode, TargetDir
<1>5. \A n : File(Session(t), n) = <<Key(t), n>>
  BY FileOfSession, Zenon DEF File, Session
<1>6. \A n : File(Sourcecode(t), n) = <<Key(t), "sourcecode", n>>
  BY FileOfDirectory, Zenon DEF File, Sourcecode
<1>7. \A n : File(TargetDir(t), n) = <<Key(t), "targets", thread[t].target, n>>
  BY FileOfTarget, Zenon DEF File, TargetDir
<1> QED
  BY <1>1, <1>2, <1>3, <1>4, <1>5, <1>6, <1>7

LEMMA UnchangedSound ==
    ASSUME NEW t \in Threads, thread[t].pc # "idle",
           OthersSame(t), aborted' = aborted, disk' = disk,
           thread'[t].pc # "idle" => thread'[t].key = Key(t),
           Sound(disk, Key(t), thread'[t].pc, thread'[t].main, thread'[t].target)
    PROVE  Frames(t) /\ Inert(t)
<1>1. SameOthers(disk, disk', Key(t))
  BY DEF SameOthers, Same
<1> QED
  BY <1>1 DEF Frames, Inert

LEMMA SessionExistsSound ==
    ASSUME Apart, TypeInv, ApartInv, NEW t \in Threads, SessionExists(t) PROVE Frames(t) /\ Inert(t)
<1>1. At(t, "session")
  BY DEF SessionExists
<1>2. thread[t].pc = "session" /\ Sound(disk, Key(t), "session", thread[t].main, thread[t].target)
  BY <1>1, AtSession
<1>3. OthersSame(t) /\ thread'[t].pc \in {"idle", "refer"}
      /\ (thread'[t].pc # "idle" => thread'[t].key = Key(t))
  BY <1>2, IsValid DEF SessionExists, TypeInv, Key
<1>4. Sound(disk, Key(t), thread'[t].pc, thread'[t].main, thread'[t].target)
  BY <1>2, <1>3, PlainSound DEF Plain
<1> QED
  BY <1>2, <1>3, <1>4, UnchangedSound DEF SessionExists

LEMMA NewSessionSound ==
    ASSUME Apart, TypeInv, ApartInv, NEW t \in Threads, NewSession(t) PROVE Frames(t) /\ Inert(t)
<1> PICK k, m, g : k = Key(t) /\ m = thread[t].main /\ g = thread[t].target
  OBVIOUS
<1>1. At(t, "session") /\ Session(t) \notin disk
  BY DEF NewSession
<1>2. thread[t].pc = "session" /\ Sound(disk, k, "session", m, g) /\ ~Root(disk, k)
  BY <1>1, AtSession
<1>3. /\ OthersSame(t) /\ thread'[t].pc = "create" /\ thread'[t].key = k
      /\ thread'[t].main = m /\ thread'[t].target = g
  BY <1>2, GoneTo DEF NewSession, TypeInv, Key
<1>4. Sound(disk, k, "create", m, g)
  BY <1>2 DEF Sound, Shared, Reached, Refused, Complete, Validating, Compiling
<1> QED
  BY <1>2, <1>3, <1>4, UnchangedSound DEF NewSession

LEMMA CreateSessionSound ==
    ASSUME Apart, TypeInv, ApartInv, NEW t \in Threads, CreateSession(t) PROVE Frames(t)
<1> PICK k, m, g : k = Key(t) /\ m = thread[t].main /\ g = thread[t].target
  OBVIOUS
<1>1. At(t, "create")
  BY DEF CreateSession
<1>2. /\ thread[t].pc = "create" /\ k \in Keys /\ Tree(disk)
      /\ Sound(disk, k, "create", m, g)
  BY <1>1, AtSession
<1>3. /\ OthersSame(t) /\ thread'[t].pc = "sources" /\ thread'[t].key = k
      /\ thread'[t].main = m /\ thread'[t].target = g
  BY <1>2, GoneTo DEF CreateSession, TypeInv, Key
<1>4. disk' = disk \cup {<<k>>, <<k, "sourcecode">>}
  BY CreateTwo DEF CreateSession, Sourcecode
<1>5. /\ SameOthers(disk, disk', k)
      /\ Root(disk', k) /\ Source(disk', k)
      /\ Dsp(disk', k) = Dsp(disk, k) /\ Basic(disk', k) = Basic(disk, k)
      /\ \A h \in Asked : TargetDsp(disk', k, h) = TargetDsp(disk, k, h)
      /\ Built(disk', k) = Built(disk, k)
  <2>1. GainsSession(disk, disk \cup {<<k>>, <<k, "sourcecode">>}, k)
    BY <1>2, AddSession
  <2> QED
    BY <1>4, <2>1 DEF GainsSession
<1>6. /\ Dsp(disk, k) = {} /\ Basic(disk, k) = {} /\ Built(disk, k) = {}
      /\ \A h \in Asked : TargetDsp(disk, k, h) = {}
  BY <1>2, NoRoot DEF Sound, Reached
<1>7. Sound(disk', k, "sources", m, g)
  BY <1>5, <1>6 DEF Sound, Shared, Reached, Refused, Complete, Validating, Compiling
<1> QED
  BY <1>2, <1>3, <1>5, <1>7 DEF Frames, CreateSession, TypeInv

LEMMA NoSourcesSound ==
    ASSUME Apart, TypeInv, ApartInv, NEW t \in Threads, NoSources(t) PROVE Frames(t) /\ Inert(t)
<1> PICK k, m, g : k = Key(t) /\ m = thread[t].main /\ g = thread[t].target
  OBVIOUS
<1> PICK mm, gg : mm = thread'[t].main /\ gg = thread'[t].target
  OBVIOUS
<1>1. At(t, "sources")
  BY DEF NoSources
<1>2. /\ thread[t].pc = "sources" /\ k \in Keys /\ g \in Asked /\ Tree(disk)
      /\ disk \in SUBSET Paths /\ Sound(disk, k, "sources", m, g)
  BY <1>1, AtSession
<1>3. OthersSame(t) /\ thread'[t].pc = "idle"
  BY IsInvalid DEF NoSources, TypeInv
<1>4. Sound(disk, k, "idle", mm, gg)
  BY <1>2 DEF Sound, Shared, Reached, Refused, Complete, Validating, Compiling
<1> QED
  BY <1>2, <1>3, <1>4, UnchangedSound DEF NoSources

LEMMA CopySourceSound ==
    ASSUME Apart, TypeInv, ApartInv, NEW t \in Threads, CopySource(t) PROVE Frames(t) /\ Inert(t)
<1> PICK k, m, g : k = Key(t) /\ m = thread[t].main /\ g = thread[t].target
  OBVIOUS
<1> PICK mm, gg : mm = thread'[t].main /\ gg = thread'[t].target
  OBVIOUS
<1>1. At(t, "sources")
  BY DEF CopySource
<1>2. /\ thread[t].pc = "sources" /\ k \in Keys /\ g \in Asked /\ Tree(disk)
      /\ disk \in SUBSET Paths /\ Sound(disk, k, "sources", m, g)
  BY <1>1, AtSession
<1> PICK n : n = thread[t].name
  OBVIOUS
<1> DEFINE file == File(Sourcecode(t), n)
<1>3. n \in AllDsp /\ n \in Components
  BY NameTypes DEF CopySource, AllDsp
<1>4. file = <<k, "sourcecode", n>>
  BY <1>1, AtSession
<1>5. Root(disk, k) /\ Source(disk, k) /\ Dsp(disk, k) = {}
  BY <1>2 DEF Sound, Reached, Shared, Validating
<1>6. file \notin disk /\ CanCreate(disk, file)
  <2>1. file \notin disk
    BY <1>3, <1>4, <1>5 DEF Dsp
  <2>2. Sourcecode(t) \in Paths /\ Sourcecode(t) # <<>> /\ Sourcecode(t) \in disk
    BY <1>1, <1>5, Working, AtSession
  <2>3. CanCreate(disk, file)
    BY <1>3, <2>2, CreatedIn DEF File
  <2> QED
    BY <2>1, <2>3
<1>7. disk' = disk \cup {<<k, "sourcecode", n>>} /\ Sources(t, n)
  BY <1>4, <1>6 DEF CopySource
<1>8. OthersSame(t) /\ thread'[t].pc = "user_code" /\ thread'[t].key = k /\ mm = n /\ gg = g
  BY <1>2, <1>7, SourcesAre DEF TypeInv, Key
<1>9. /\ SameOthers(disk, disk', k)
      /\ Root(disk', k) = Root(disk, k) /\ Source(disk', k) = Source(disk, k)
      /\ Dsp(disk', k) = {n} /\ Basic(disk', k) = Basic(disk, k)
      /\ \A h \in Asked : TargetDsp(disk', k, h) = TargetDsp(disk, k, h)
      /\ Built(disk', k) = Built(disk, k)
  <2>1. GainsSource(disk, disk \cup {<<k, "sourcecode", n>>}, k, n)
    BY <1>2, AddSource
  <2>2. Dsp(disk, k) \cup ({n} \cap AllDsp) = {n}
    BY <1>3, <1>5
  <2> QED
    BY <1>7, <2>1, <2>2 DEF GainsSource
<1>10. Sound(disk', k, "user_code", n, g)
  BY <1>2, <1>5, <1>9 DEF Sound, Shared, Reached, Refused, Complete, Validating, Compiling
<1> QED
  BY <1>2, <1>8, <1>9, <1>10 DEF Frames, Inert, CopySource, TypeInv

LEMMA CopyUserCodeSound ==
    ASSUME Apart, TypeInv, ApartInv, NEW t \in Threads, CopyUserCode(t) PROVE Frames(t) /\ Inert(t)
<1> PICK k, m, g : k = Key(t) /\ m = thread[t].main /\ g = thread[t].target
  OBVIOUS
<1> PICK mm, gg : mm = thread'[t].main /\ gg = thread'[t].target
  OBVIOUS
<1>1. At(t, "user_code")
  BY DEF CopyUserCode
<1>2. /\ thread[t].pc = "user_code" /\ k \in Keys /\ g \in Asked /\ Tree(disk)
      /\ disk \in SUBSET Paths /\ Sound(disk, k, "user_code", m, g)
  BY <1>1, AtSession
<1> DEFINE copy == File(Session(t), "user_code.dsp")
<1>3. copy = <<k, "user_code.dsp">> /\ File(Sourcecode(t), m) = <<k, "sourcecode", m>>
  BY <1>1, AtSession
<1>4. Root(disk, k)
  BY <1>2 DEF Sound, Reached, Validating, Compiling
<1>5. CanCreate(disk, copy)
  BY <1>1, <1>4, Working, AtSession, CreatedIn, NameTypes DEF File
<1>6. CASE File(Sourcecode(t), m) \in disk
  <2> PICK N : N = {"user_code.dsp"}
    OBVIOUS
  <2>1. disk' = disk \cup {<<k, n>> : n \in N} /\ Goto(t, "compile")
    BY <1>3, <1>5, <1>6 DEF CopyUserCode
  <2>2. OthersSame(t) /\ thread'[t].pc = "compile" /\ thread'[t].key = k /\ mm = m /\ gg = g
    BY <1>2, <2>1, GoneTo DEF TypeInv, Key
  <2>3. /\ SameOthers(disk, disk', k)
        /\ Root(disk', k) = Root(disk, k) /\ Source(disk', k) = Source(disk, k)
        /\ Dsp(disk', k) = Dsp(disk, k)
        /\ Basic(disk', k) = Basic(disk, k) \cup {"user_code.dsp"}
        /\ \A h \in Asked : TargetDsp(disk', k, h) = TargetDsp(disk, k, h)
        /\ Built(disk', k) = Built(disk, k)
    <3>1. GainsRootFiles(disk, disk \cup {<<k, n>> : n \in N}, k, N)
      BY <1>2, AddRootFiles
    <3> QED
      BY <2>1, <3>1 DEF GainsRootFiles, RootNames
  <2>4. Sound(disk', k, "compile", m, g)
    BY <1>2, <2>3 DEF Sound, Shared, Reached, Refused, Complete, Validating, Compiling
  <2> QED
    BY <1>2, <2>2, <2>3, <2>4 DEF Frames, Inert, CopyUserCode, TypeInv
<1>7. CASE File(Sourcecode(t), m) \notin disk
  <2>1. disk' = disk /\ Invalid(t)
    BY <1>7 DEF CopyUserCode
  <2>2. OthersSame(t) /\ thread'[t].pc = "idle"
    BY <2>1, IsInvalid DEF TypeInv
  <2>3. Sound(disk, k, "idle", mm, gg)
    BY <1>2 DEF Sound, Reached, Refused, Complete, Validating, Compiling
  <2> QED
    BY <1>2, <2>1, <2>2, <2>3, UnchangedSound DEF CopyUserCode
<1> QED
  BY <1>6, <1>7

LEMMA CompileSound ==
    ASSUME Apart, TypeInv, ApartInv, NEW t \in Threads, Compile(t) PROVE Frames(t) /\ Inert(t)
<1> PICK k, m, g : k = Key(t) /\ m = thread[t].main /\ g = thread[t].target
  OBVIOUS
<1> PICK mm, gg : mm = thread'[t].main /\ gg = thread'[t].target
  OBVIOUS
<1>1. At(t, "compile")
  BY DEF Compile
<1>2. /\ thread[t].pc = "compile" /\ k \in Keys /\ g \in Asked /\ Tree(disk)
      /\ disk \in SUBSET Paths /\ Sound(disk, k, "compile", m, g)
  BY <1>1, AtSession
<1>3. /\ File(Session(t), "generated.cpp") = <<k, "generated.cpp">>
      /\ File(Sourcecode(t), m) = <<k, "sourcecode", m>>
  BY <1>1, AtSession
<1>4. OthersSame(t) /\ thread'[t].pc = "check" /\ thread'[t].key = k /\ mm = m /\ gg = g
  BY <1>2, GoneTo DEF Compile, TypeInv, Key
<1> PICK N \in SUBSET {"generated.cpp"} : disk' = disk \cup {<<k, n>> : n \in N}
  <2>1. CASE disk' = disk \cup {<<k, "generated.cpp">>}
    <3>1. disk' = disk \cup {<<k, n>> : n \in {"generated.cpp"}}
      BY <2>1
    <3> QED
      BY <3>1
  <2>2. CASE disk' = disk
    <3> PICK N : N = {}
      OBVIOUS
    <3>1. disk' = disk \cup {<<k, n>> : n \in N}
      BY <2>2
    <3> QED
      BY <3>1
  <2> QED
    BY <1>3, <2>1, <2>2 DEF Compile
<1>5. /\ SameOthers(disk, disk', k)
      /\ Root(disk', k) = Root(disk, k) /\ Source(disk', k) = Source(disk, k)
      /\ Dsp(disk', k) = Dsp(disk, k)
      /\ Basic(disk', k) = Basic(disk, k) \cup N
      /\ \A h \in Asked : TargetDsp(disk', k, h) = TargetDsp(disk, k, h)
      /\ Built(disk', k) = Built(disk, k)
  <2>1. "sourcecode" \notin N /\ N \cap RootNames = N
    BY DEF RootNames
  <2>2. GainsRootFiles(disk, disk \cup {<<k, n>> : n \in N}, k, N)
    BY <1>2, <2>1, AddRootFiles
  <2> QED
    BY <2>1, <2>2 DEF GainsRootFiles
<1>6. Sound(disk', k, "check", m, g)
  BY <1>2, <1>5 DEF Sound, Shared, Reached, Refused, Complete, Validating, Compiling
<1> QED
  BY <1>2, <1>4, <1>5, <1>6 DEF Frames, Inert, Compile, TypeInv

LEMMA CannotForkSound ==
    ASSUME Apart, TypeInv, ApartInv, NEW t \in Threads, CannotFork(t) PROVE Frames(t) /\ Inert(t)
<1> PICK k, m, g : k = Key(t) /\ m = thread[t].main /\ g = thread[t].target
  OBVIOUS
<1> PICK mm, gg : mm = thread'[t].main /\ gg = thread'[t].target
  OBVIOUS
<1>1. At(t, "compile")
  BY DEF CannotFork
<1>2. /\ thread[t].pc = "compile" /\ k \in Keys /\ g \in Asked /\ Tree(disk)
      /\ disk \in SUBSET Paths /\ Sound(disk, k, "compile", m, g)
  BY <1>1, AtSession
<1>3. OthersSame(t) /\ thread'[t].pc = "idle"
  BY IsInvalid DEF CannotFork, TypeInv
<1>4. Sound(disk, k, "idle", mm, gg)
  BY <1>2, <1>3 DEF Sound, Reached, Refused, Complete, Validating, Compiling
<1> QED
  BY <1>2, <1>3, <1>4, UnchangedSound DEF CannotFork

LEMMA ExtractSound ==
    ASSUME Apart, TypeInv, ApartInv, NEW t \in Threads, Extract(t) PROVE Frames(t) /\ Inert(t)
<1> PICK k, m, g : k = Key(t) /\ m = thread[t].main /\ g = thread[t].target
  OBVIOUS
<1> PICK mm, gg : mm = thread'[t].main /\ gg = thread'[t].target
  OBVIOUS
<1>1. At(t, "sources")
  BY DEF Extract
<1>2. /\ thread[t].pc = "sources" /\ k \in Keys /\ g \in Asked /\ Tree(disk)
      /\ disk \in SUBSET Paths /\ Sound(disk, k, "sources", m, g)
  BY <1>1, AtSession
<1> DEFINE src == Sourcecode(t)
<1>3. src = <<k, "sourcecode">> /\ Append(src, "sub") = <<k, "sourcecode", "sub">>
      /\ \A n : Append(src, n) = <<k, "sourcecode", n>>
  BY FileOfDirectory, Zenon DEF Sourcecode
<1>4. /\ Root(disk, k) /\ Source(disk, k) /\ Dsp(disk, k) = {} /\ Built(disk, k) = {}
      /\ Class[k] \in {"archive", "nested"} /\ ZipNames # {}
  BY <1>2 DEF Sound, Reached, Shared, Validating, Extract
<1>5. ASSUME NEW D, NEW n
      PROVE  Add(CreateDirectories(D, src), src, {n}) =
               (D \cup {<<k>>, <<k, "sourcecode">>}) \cup {<<k, "sourcecode", n>>}
  <2>1. CreateDirectories(D, <<k, "sourcecode">>) = D \cup {<<k>>, <<k, "sourcecode">>}
    BY CreateTwo
  <2>2. Append(src, n) = <<k, "sourcecode", n>>
    BY <1>3
  <2> HIDE DEF src
  <2>3. CreateDirectories(D, src) = D \cup {<<k>>, <<k, "sourcecode">>}
    BY <1>3, <2>1
  <2> QED
    BY <2>2, <2>3 DEF Add
<1>6. CreateDirectories(disk, Append(src, "sub")) =
        (disk \cup {<<k>>, <<k, "sourcecode">>}) \cup {<<k, "sourcecode", "sub">>}
  <2>1. CreateDirectories(disk, <<k, "sourcecode", "sub">>) =
          disk \cup {<<k>>, <<k, "sourcecode">>, <<k, "sourcecode", "sub">>}
    BY CreateThree
  <2> HIDE DEF src
  <2> QED
    BY <1>3, <2>1
<1> HIDE DEF src
\* The file n is added to the session D.
<1>7. ASSUME NEW D, NEW n, SameOthers(disk, D, k), Root(D, k), Dsp(D, k) = {},
             \A h \in Asked : TargetDsp(D, k, h) = TargetDsp(disk, k, h),
             Built(D, k) = Built(disk, k), Basic(D, k) = Basic(disk, k),
             n \in AllDsp \/ Class[k] = "nested",
             disk' = (D \cup {<<k>>, <<k, "sourcecode">>}) \cup {<<k, "sourcecode", n>>}
      PROVE  /\ SameOthers(disk, disk', k) /\ Root(disk', k) /\ Built(disk', k) = {}
             /\ \A mn : (mn = n \/ Class[k] = "nested") => Sound(disk', k, "user_code", mn, g)
  <2> PICK D1 : D1 = D \cup {<<k>>, <<k, "sourcecode">>}
    OBVIOUS
  <2>1. GainsSession(D, D1, k)
    BY <1>2, AddSession
  <2>2. GainsSource(D1, D1 \cup {<<k, "sourcecode", n>>}, k, n)
    BY <1>2, AddSource
  <2>3. GainsSource(D1, disk', k, n)
    BY <1>7, <2>2
  <2>4. /\ Root(disk', k) /\ Source(disk', k) /\ Dsp(disk', k) = {n} \cap AllDsp
        /\ \A h \in Asked : TargetDsp(disk', k, h) = TargetDsp(disk, k, h)
        /\ Built(disk', k) = Built(disk, k) /\ Basic(disk', k) = Basic(disk, k)
    BY <1>7, <2>1, <2>3 DEF GainsSession, GainsSource
  <2>5. SameOthers(disk, disk', k)
    BY ZenonT(40), <1>7, <2>1, <2>3 DEF GainsSession, GainsSource, SameOthers, Same
  <2>6. Shared(disk', k)
    BY <1>2, <1>4, <2>4 DEF Sound, Shared
  <2>7. ASSUME NEW mn, mn = n \/ Class[k] = "nested" PROVE Reached(disk', k, "user_code", mn, g)
    BY <1>4, <1>7, <2>4, <2>7 DEF Reached, Validating, Compiling
  <2>8. Refused(disk', k, "user_code")
    BY <1>4 DEF Refused
  <2>9. Complete(disk', k, "user_code")
    BY <1>2, <2>4 DEF Sound, Complete
  <2> QED
    BY <1>4, <2>4, <2>5, <2>6, <2>7, <2>8, <2>9 DEF Sound
<1>8. PICK mn : /\ Sources(t, mn) /\ SameOthers(disk, disk', k)
                /\ Root(disk', k) /\ Built(disk', k) = {}
                /\ Sound(disk', k, "user_code", mn, g)
  <2>1. SameOthers(disk, disk, k)
    BY DEF SameOthers, Same
  <2>2. {"main.dsp", "toolong.dsp"} \subseteq AllDsp
    BY DEF AllDsp
  <2>3. CASE /\ Class[k] = "archive" /\ Sources(t, "main.dsp")
             /\ disk' = Add(CreateDirectories(disk, src), src, {"main.dsp"})
    BY <1>4, <1>5, <1>7, <2>1, <2>2, <2>3
  <2>4. CASE /\ Class[k] = "nested" /\ Sources(t, "main.dsp")
             /\ disk' = CreateDirectories(disk, Append(src, "sub"))
    BY <1>4, <1>6, <1>7, <2>1, <2>4
  <2>5. CASE /\ Sources(t, "toolong.dsp")
             /\ disk' = Add(CreateDirectories(RemoveAll(disk, src), src), src, {"toolong.dsp"})
    <3> PICK D : D = RemoveAll(disk, src)
      OBVIOUS
    <3>1. LosesSource(disk, D, k)
      <4>1. LosesSource(disk, RemoveAll(disk, <<k, "sourcecode">>), k)
        BY <1>2, RemoveSource
      <4> QED
        BY <1>3, <4>1
    <3>2. disk' = (D \cup {<<k>>, <<k, "sourcecode">>}) \cup {<<k, "sourcecode", "toolong.dsp">>}
      BY <1>5, <2>5
    <3>3. /\ SameOthers(disk, D, k) /\ Root(D, k) /\ Dsp(D, k) = {}
          /\ \A h \in Asked : TargetDsp(D, k, h) = TargetDsp(disk, k, h)
          /\ Built(D, k) = Built(disk, k) /\ Basic(D, k) = Basic(disk, k)
      BY <1>4, <3>1 DEF LosesSource
    <3> QED
      BY <1>7, <2>2, <2>5, <3>2, <3>3
  <2> QED
    BY <1>4, <2>3, <2>4, <2>5 DEF Extract, src
<1>9. OthersSame(t) /\ thread'[t].pc = "user_code" /\ thread'[t].key = k /\ mm = mn /\ gg = g
  BY <1>2, <1>8, SourcesAre DEF TypeInv, Key
<1> QED
  BY <1>2, <1>4, <1>8, <1>9 DEF Frames, Inert, Extract, TypeInv

LEMMA CheckIncludesSound ==
    ASSUME Apart, TypeInv, ApartInv, NEW t \in Threads, CheckIncludes(t)
    PROVE  Frames(t) /\ (Inert(t) \/ ~Root(disk', Key(t)))
<1> PICK k, m, g : k = Key(t) /\ m = thread[t].main /\ g = thread[t].target
  OBVIOUS
<1> PICK mm, gg : mm = thread'[t].main /\ gg = thread'[t].target
  OBVIOUS
<1>1. At(t, "check")
  BY DEF CheckIncludes
<1>2. /\ thread[t].pc = "check" /\ k \in Keys /\ g \in Asked /\ Tree(disk)
      /\ disk \in SUBSET Paths /\ Sound(disk, k, "check", m, g)
  BY <1>1, AtSession
<1>3. File(Session(t), "generated.cpp") = <<k, "generated.cpp">>
  BY <1>1, AtSession
<1>4. CASE Class[k] = "foreign" /\ <<k, "generated.cpp">> \in disk
  <2>1. disk' = RemoveAll(disk, <<k>>) /\ Invalid(t)
    BY <1>3, <1>4 DEF CheckIncludes, Session
  <2>2. OthersSame(t) /\ thread'[t].pc = "idle"
    BY <2>1, IsInvalid DEF TypeInv
  <2>3. LosesAll(disk, RemoveAll(disk, <<k>>), k)
    BY <1>2, RemoveSession
  <2>4. /\ SameOthers(disk, disk', k) /\ Sound(disk', k, "idle", mm, gg)
        /\ ~Root(disk', k)
    BY <2>1, <2>3, NothingSound DEF LosesAll
  <2> QED
    BY <1>2, <2>2, <2>4 DEF Frames, CheckIncludes
<1>5. CASE ~(Class[k] = "foreign" /\ <<k, "generated.cpp">> \in disk)
  <2>1. disk' = disk /\ Goto(t, "svg")
    BY <1>3, <1>5 DEF CheckIncludes
  <2>2. OthersSame(t) /\ thread'[t].pc = "svg" /\ thread'[t].key = k /\ mm = m /\ gg = g
    BY <1>2, <2>1, GoneTo DEF TypeInv, Key
  <2>3. Class[k] = "foreign" => "generated.cpp" \notin Basic(disk, k)
    BY <1>5 DEF Basic
  <2>4. Sound(disk, k, "svg", m, g)
    BY <1>2, <2>3 DEF Sound, Shared, Reached, Refused, Complete, Validating, Compiling
  <2> QED
    BY <1>2, <2>1, <2>2, <2>4, UnchangedSound DEF CheckIncludes
<1> QED
  BY <1>4, <1>5

LEMMA CreateSvgSound ==
    ASSUME Apart, TypeInv, ApartInv, NEW t \in Threads, CreateSvg(t) PROVE Frames(t) /\ Inert(t)
<1> PICK k, m, g : k = Key(t) /\ m = thread[t].main /\ g = thread[t].target
  OBVIOUS
<1> PICK mm, gg : mm = thread'[t].main /\ gg = thread'[t].target
  OBVIOUS
<1>1. At(t, "svg")
  BY DEF CreateSvg
<1>2. /\ thread[t].pc = "svg" /\ k \in Keys /\ g \in Asked /\ Tree(disk)
      /\ disk \in SUBSET Paths /\ Sound(disk, k, "svg", m, g)
  BY <1>1, AtSession
<1>3. OthersSame(t) /\ thread'[t].pc = "makefile" /\ thread'[t].key = k /\ mm = m /\ gg = g
  BY <1>2, GoneTo DEF CreateSvg, TypeInv, Key
<1>4. Root(disk, k)
  BY <1>2 DEF Sound, Reached, Validating
<1> PICK N : N = {"svg"}
  OBVIOUS
<1>5. disk' = disk \cup {<<k, n>> : n \in N}
  <2>1. Append(Session(t), "svg") = <<k, "svg">>
    BY FileOfSession, Zenon DEF Session
  <2>2. CreateDirectories(disk, <<k, "svg">>) = disk \cup {<<k>>, <<k, "svg">>}
    BY CreateTwo
  <2>3. disk' = disk \cup {<<k>>, <<k, "svg">>}
    BY <2>1, <2>2 DEF CreateSvg
  <2> QED
    BY <1>4, <2>3 DEF Root
<1>6. GainsRootFiles(disk, disk \cup {<<k, n>> : n \in N}, k, N)
  BY <1>2, AddRootFiles
<1>7. /\ SameOthers(disk, disk', k)
      /\ Root(disk', k) = Root(disk, k) /\ Source(disk', k) = Source(disk, k)
      /\ Dsp(disk', k) = Dsp(disk, k) /\ Basic(disk', k) = Basic(disk, k) \cup {"svg"}
      /\ \A h \in Asked : TargetDsp(disk', k, h) = TargetDsp(disk, k, h)
      /\ Built(disk', k) = Built(disk, k)
  BY <1>5, <1>6 DEF GainsRootFiles, RootNames
<1>8. Sound(disk', k, "makefile", m, g)
  BY <1>2, <1>7 DEF Sound, Shared, Reached, Refused, Complete, Validating, Compiling
<1> QED
  BY <1>2, <1>3, <1>7, <1>8 DEF Frames, Inert, CreateSvg, TypeInv

LEMMA BasicMakefileSound ==
    ASSUME Apart, TypeInv, ApartInv, NEW t \in Threads, BasicMakefile(t) PROVE Frames(t) /\ Inert(t)
<1> PICK k, m, g : k = Key(t) /\ m = thread[t].main /\ g = thread[t].target
  OBVIOUS
<1> PICK mm, gg : mm = thread'[t].main /\ gg = thread'[t].target
  OBVIOUS
<1>1. At(t, "makefile")
  BY DEF BasicMakefile
<1>2. /\ thread[t].pc = "makefile" /\ k \in Keys /\ g \in Asked /\ Tree(disk)
      /\ disk \in SUBSET Paths /\ Sound(disk, k, "makefile", m, g)
  BY <1>1, AtSession
<1>3. Root(disk, k) /\ Session(t) \in disk
  BY <1>1, <1>2, AtSession DEF Sound, Reached, Validating
<1> PICK N : N = {"Makefile"}
  OBVIOUS
<1>4. disk' = disk \cup {<<k, n>> : n \in N} /\ Goto(t, "basic")
  <2>1. Makefile(Session(t)) = <<k, "Makefile">>
    BY FileOfSession, Zenon DEF Makefile, Session
  <2> QED
    BY <1>3, <2>1 DEF BasicMakefile
<1>5. OthersSame(t) /\ thread'[t].pc = "basic" /\ thread'[t].key = k /\ mm = m /\ gg = g
  BY <1>2, <1>4, GoneTo DEF TypeInv, Key
<1>6. GainsRootFiles(disk, disk \cup {<<k, n>> : n \in N}, k, N)
  BY <1>2, AddRootFiles
<1>7. /\ SameOthers(disk, disk', k)
      /\ Root(disk', k) = Root(disk, k) /\ Source(disk', k) = Source(disk, k)
      /\ Dsp(disk', k) = Dsp(disk, k) /\ Basic(disk', k) = Basic(disk, k) \cup {"Makefile"}
      /\ \A h \in Asked : TargetDsp(disk', k, h) = TargetDsp(disk, k, h)
      /\ Built(disk', k) = Built(disk, k)
  BY <1>4, <1>6 DEF GainsRootFiles, RootNames
<1>8. Sound(disk', k, "basic", m, g)
  BY <1>2, <1>7 DEF Sound, Shared, Reached, Refused, Complete, Validating, Compiling
<1> QED
  BY <1>2, <1>5, <1>7, <1>8 DEF Frames, Inert, BasicMakefile, TypeInv

LEMMA BasicFilesSound ==
    ASSUME Apart, TypeInv, ApartInv, NEW t \in Threads, BasicFiles(t) PROVE Frames(t) /\ Inert(t)
<1> PICK k, m, g : k = Key(t) /\ m = thread[t].main /\ g = thread[t].target
  OBVIOUS
<1> PICK mm, gg : mm = thread'[t].main /\ gg = thread'[t].target
  OBVIOUS
<1>1. At(t, "basic")
  BY DEF BasicFiles
<1>2. /\ thread[t].pc = "basic" /\ k \in Keys /\ g \in Asked /\ Tree(disk)
      /\ disk \in SUBSET Paths /\ Sound(disk, k, "basic", m, g)
  BY <1>1, AtSession
<1>3. Root(disk, k) /\ Source(disk, k) /\ Sourcecode(t) \in disk
      /\ FaustFiles(Sourcecode(t)) = Dsp(disk, k)
  BY <1>1, <1>2, AtSession DEF Sound, Reached, Shared, Validating
<1>4. \A names : Add(disk, Session(t), names) = disk \cup {<<k, n>> : n \in names}
  <2>1. \A n : Append(Session(t), n) = <<k, n>>
    BY FileOfSession, Zenon DEF Session
  <2> QED
    BY <2>1 DEF Add
<1>5. PICK N \in SUBSET Dsp(disk, k) : disk' = disk \cup {<<k, n>> : n \in N}
  BY <1>3, <1>4 DEF BasicFiles
<1>6. OthersSame(t) /\ thread'[t].pc \in {"idle", "refer"}
      /\ (thread'[t].pc # "idle" => thread'[t].key = k) /\ aborted' = aborted
  BY <1>2, <1>3, IsValid, IsDone DEF BasicFiles, TypeInv, Key
<1>7. GainsRootFiles(disk, disk', k, N)
  <2>1. "sourcecode" \notin N
    BY NamesDiffer DEF Dsp, FixedNames
  <2>2. GainsRootFiles(disk, disk \cup {<<k, n>> : n \in N}, k, N)
    BY <1>2, <2>1, AddRootFiles
  <2> QED
    BY <1>5, <2>2
<1>8. Basic(disk', k) = Basic(disk, k) \/ Basic(disk', k) = Basic(disk, k) \cup {"user_code.dsp"}
  <2>1. N \cap RootNames \subseteq {"user_code.dsp"}
    BY NamesDiffer DEF Dsp, FixedNames, RootNames
  <2> QED
    BY <1>7, <2>1 DEF GainsRootFiles
<1>9. Sound(disk', k, "idle", mm, gg)
  BY <1>2, <1>7, <1>8 DEF GainsRootFiles, Sound, Shared, Reached, Refused, Complete, Validating, Compiling
<1>10. Sound(disk', k, thread'[t].pc, mm, gg)
  BY <1>6, <1>9, PlainSound DEF Plain
<1> QED
  BY <1>2, <1>6, <1>7, <1>10 DEF Frames, Inert, GainsRootFiles, TypeInv

LEMMA FindMakefileSound ==
    ASSUME Apart, TypeInv, ApartInv, NEW t \in Threads, FindMakefile(t) PROVE Frames(t) /\ Inert(t)
<1> PICK k, m, g : k = Key(t) /\ m = thread[t].main /\ g = thread[t].target
  OBVIOUS
<1> PICK mm, gg : mm = thread'[t].main /\ gg = thread'[t].target
  OBVIOUS
<1>1. At(t, "target")
  BY DEF FindMakefile
<1>2. /\ thread[t].pc = "target" /\ k \in Keys /\ g \in Asked /\ Tree(disk)
      /\ disk \in SUBSET Paths /\ Sound(disk, k, "target", m, g)
  BY <1>1, AtSession
<1>3. /\ OthersSame(t) /\ thread'[t].pc \in {"make", "root"} /\ thread'[t].key = k
  BY <1>2, GoneTo DEF FindMakefile, TypeInv, Key
<1>4. Sound(disk, k, thread'[t].pc, mm, gg)
  BY <1>2, <1>3, PlainSound DEF Plain
<1> QED
  BY <1>2, <1>3, <1>4, UnchangedSound DEF FindMakefile

LEMMA RootMakefileSound ==
    ASSUME Apart, TypeInv, ApartInv, NEW t \in Threads, RootMakefile(t) PROVE Frames(t) /\ Inert(t)
<1> PICK k, m, g : k = Key(t) /\ m = thread[t].main /\ g = thread[t].target
  OBVIOUS
<1> PICK mm, gg : mm = thread'[t].main /\ gg = thread'[t].target
  OBVIOUS
<1>1. At(t, "root")
  BY DEF RootMakefile
<1>2. /\ thread[t].pc = "root" /\ k \in Keys /\ g \in Asked /\ Tree(disk)
      /\ disk \in SUBSET Paths /\ Sound(disk, k, "root", m, g)
  BY <1>1, AtSession
<1>3. Makefile(Session(t)) = <<k, "Makefile">> /\ (Session(t) \in disk <=> Root(disk, k))
  BY <1>1, FileOfSession, AtSession DEF Makefile, Session
<1>4. CASE <<k, "Makefile">> \in disk /\ Goto(t, "directory") /\ disk' = disk
  <2>1. Root(disk, k)
    BY <1>2, <1>4, ParentIn DEF Root
  <2>2. OthersSame(t) /\ thread'[t].pc = "directory" /\ thread'[t].key = k /\ mm = m /\ gg = g
    BY <1>2, <1>4, GoneTo DEF TypeInv, Key
  <2>3. Sound(disk, k, "directory", m, g)
    BY <1>2, <2>1 DEF Sound, Shared, Reached, Refused, Complete, Validating, Compiling
  <2> QED
    BY <1>2, <1>4, <2>2, <2>3, UnchangedSound DEF RootMakefile
<1>5. CASE Root(disk, k) /\ disk' = disk \cup {<<k, "Makefile">>} /\ Goto(t, "rootfiles")
  <2> PICK N : N = {"Makefile"}
    OBVIOUS
  <2>1. OthersSame(t) /\ thread'[t].pc = "rootfiles" /\ thread'[t].key = k /\ mm = m /\ gg = g
    BY <1>2, <1>5, GoneTo DEF TypeInv, Key
  <2>2. GainsRootFiles(disk, disk \cup {<<k, n>> : n \in N}, k, N)
    BY <1>2, AddRootFiles
  <2>3. disk' = disk \cup {<<k, n>> : n \in N}
    BY <1>5
  <2>4. /\ SameOthers(disk, disk', k)
        /\ Root(disk', k) = Root(disk, k) /\ Source(disk', k) = Source(disk, k)
        /\ Dsp(disk', k) = Dsp(disk, k) /\ Basic(disk', k) = Basic(disk, k) \cup {"Makefile"}
        /\ \A h \in Asked : TargetDsp(disk', k, h) = TargetDsp(disk, k, h)
        /\ Built(disk', k) = Built(disk, k)
    BY <2>2, <2>3 DEF GainsRootFiles, RootNames
  <2>5. Sound(disk', k, "rootfiles", m, g)
    BY <1>2, <1>5, <2>4 DEF Sound, Shared, Reached, Refused, Complete, Validating, Compiling
  <2> QED
    BY <1>2, <2>1, <2>4, <2>5 DEF Frames, Inert, RootMakefile, TypeInv
<1>6. CASE Done(t, "error") /\ disk' = disk
  <2>1. OthersSame(t) /\ thread'[t].pc = "idle"
    BY <1>6, IsDone DEF TypeInv
  <2>2. Sound(disk, k, "idle", mm, gg)
    BY <1>2, PlainSound DEF Plain
  <2> QED
    BY <1>2, <1>6, <2>1, <2>2, UnchangedSound DEF RootMakefile
<1> QED
  BY <1>3, <1>4, <1>5, <1>6 DEF RootMakefile

LEMMA RootFilesSound ==
    ASSUME Apart, TypeInv, ApartInv, NEW t \in Threads, RootFiles(t) PROVE Frames(t) /\ Inert(t)
<1> PICK k, m, g : k = Key(t) /\ m = thread[t].main /\ g = thread[t].target
  OBVIOUS
<1> PICK mm, gg : mm = thread'[t].main /\ gg = thread'[t].target
  OBVIOUS
<1>1. At(t, "rootfiles")
  BY DEF RootFiles
<1>2. /\ thread[t].pc = "rootfiles" /\ k \in Keys /\ g \in Asked /\ Tree(disk)
      /\ disk \in SUBSET Paths /\ Sound(disk, k, "rootfiles", m, g)
  BY <1>1, AtSession
<1>3. Session(t) \in disk
  BY <1>1, <1>2, AtSession DEF Sound, Reached
<1>4. CASE Goto(t, "directory")
  <2>1. OthersSame(t) /\ thread'[t].pc = "directory" /\ thread'[t].key = k /\ mm = m /\ gg = g
    BY <1>2, <1>4, GoneTo DEF TypeInv, Key
  <2>2. Sound(disk, k, "directory", m, g)
    BY <1>2 DEF Sound, Shared, Reached, Refused, Complete, Validating, Compiling
  <2> QED
    BY <1>2, <1>3, <2>1, <2>2, UnchangedSound DEF RootFiles
<1>5. CASE Done(t, "error")
  <2>1. OthersSame(t) /\ thread'[t].pc = "idle"
    BY <1>5, IsDone DEF TypeInv
  <2>2. Sound(disk, k, "idle", mm, gg)
    BY <1>2 DEF Sound, Shared, Reached, Refused, Complete, Validating, Compiling
  <2> QED
    BY <1>2, <1>3, <2>1, <2>2, UnchangedSound DEF RootFiles
<1> QED
  BY <1>3, <1>4, <1>5 DEF RootFiles

LEMMA CreateTargetSound ==
    ASSUME Apart, TypeInv, ApartInv, NEW t \in Threads, CreateTarget(t) PROVE Frames(t) /\ Inert(t)
<1> PICK k, m, g : k = Key(t) /\ m = thread[t].main /\ g = thread[t].target
  OBVIOUS
<1> PICK mm, gg : mm = thread'[t].main /\ gg = thread'[t].target
  OBVIOUS
<1>1. At(t, "directory")
  BY DEF CreateTarget
<1>2. /\ thread[t].pc = "directory" /\ k \in Keys /\ g \in Asked /\ Tree(disk)
      /\ disk \in SUBSET Paths /\ Sound(disk, k, "directory", m, g)
  BY <1>1, AtSession
<1>3. CASE disk' = CreateDirectories(disk, TargetDir(t)) /\ Goto(t, "copymakefile")
  <2>1. OthersSame(t) /\ thread'[t].pc = "copymakefile" /\ thread'[t].key = k /\ mm = m /\ gg = g
    BY <1>2, <1>3, GoneTo DEF TypeInv, Key
  <2>2. Root(disk, k)
    BY <1>2 DEF Sound, Reached
  <2>3. disk' = disk \cup {<<k>>, <<k, "targets">>, <<k, "targets", g>>}
    BY <1>3, CreateThree DEF TargetDir
  <2>4. GainsTarget(disk, disk \cup {<<k>>, <<k, "targets">>, <<k, "targets", g>>}, k, g)
    BY <1>2, <2>2, AddTarget
  <2>5. /\ SameOthers(disk, disk', k)
        /\ Root(disk', k) = Root(disk, k) /\ Source(disk', k) = Source(disk, k)
        /\ Dsp(disk', k) = Dsp(disk, k) /\ Basic(disk', k) = Basic(disk, k)
        /\ Made(disk', k) = Made(disk, k) \cup {g}
        /\ \A h \in Asked : TargetDsp(disk', k, h) = TargetDsp(disk, k, h)
        /\ Built(disk', k) = Built(disk, k)
    BY <2>3, <2>4 DEF GainsTarget
  <2>6. Sound(disk', k, "copymakefile", m, g)
    BY <1>2, <2>5 DEF Sound, Shared, Reached, Refused, Complete, Validating, Compiling
  <2> QED
    BY <1>2, <2>1, <2>5, <2>6 DEF Frames, Inert, CreateTarget, TypeInv
<1>4. CASE Goto(t, "make") /\ disk' = disk
  <2>1. OthersSame(t) /\ thread'[t].pc = "make" /\ thread'[t].key = k /\ mm = m /\ gg = g
    BY <1>2, <1>4, GoneTo DEF TypeInv, Key
  <2>2. Sound(disk, k, "make", m, g)
    BY <1>2 DEF Sound, Shared, Reached, Refused, Complete, Validating, Compiling
  <2> QED
    BY <1>2, <1>4, <2>1, <2>2, UnchangedSound DEF CreateTarget
<1> QED
  BY <1>3, <1>4 DEF CreateTarget

LEMMA TargetMakefileSound ==
    ASSUME Apart, TypeInv, ApartInv, NEW t \in Threads, TargetMakefile(t) PROVE Frames(t) /\ Inert(t)
<1> PICK k, m, g : k = Key(t) /\ m = thread[t].main /\ g = thread[t].target
  OBVIOUS
<1> PICK mm, gg : mm = thread'[t].main /\ gg = thread'[t].target
  OBVIOUS
<1>1. At(t, "copymakefile")
  BY DEF TargetMakefile
<1>2. /\ thread[t].pc = "copymakefile" /\ k \in Keys /\ g \in Asked /\ Tree(disk)
      /\ disk \in SUBSET Paths /\ Sound(disk, k, "copymakefile", m, g)
  BY <1>1, AtSession
<1>3. g \in Made(disk, k) /\ TargetDir(t) \in disk
  BY <1>1, <1>2, AtSession DEF Sound, Reached
<1> PICK N : N = {"Makefile"}
  OBVIOUS
<1>4. disk' = disk \cup {<<k, "targets", g, n>> : n \in N} /\ Goto(t, "targetfiles")
  <2>1. Makefile(TargetDir(t)) = <<k, "targets", g, "Makefile">>
    BY FileOfTarget, Zenon DEF Makefile, TargetDir
  <2> QED
    BY <1>3, <2>1 DEF TargetMakefile
<1>5. OthersSame(t) /\ thread'[t].pc = "targetfiles" /\ thread'[t].key = k /\ mm = m /\ gg = g
  BY <1>2, <1>4, GoneTo DEF TypeInv, Key
<1>6. GainsTargetFiles(disk, disk \cup {<<k, "targets", g, n>> : n \in N}, k, g, N)
  BY <1>2, AddTargetFiles
<1>7. "Makefile" \notin AllDsp
  BY NamesDiffer DEF FixedNames
<1>8. /\ SameOthers(disk, disk', k)
      /\ Root(disk', k) = Root(disk, k) /\ Source(disk', k) = Source(disk, k)
      /\ Dsp(disk', k) = Dsp(disk, k) /\ Basic(disk', k) = Basic(disk, k)
      /\ Made(disk', k) = Made(disk, k)
      /\ \A h \in Asked : TargetDsp(disk', k, h) = TargetDsp(disk, k, h)
      /\ Built(disk', k) = Built(disk, k)
  BY <1>4, <1>6, <1>7 DEF GainsTargetFiles
<1>9. Sound(disk', k, "targetfiles", m, g)
  BY <1>2, <1>3, <1>8 DEF Sound, Shared, Reached, Refused, Complete, Validating, Compiling
<1> QED
  BY <1>2, <1>5, <1>8, <1>9 DEF Frames, Inert, TargetMakefile, TypeInv

LEMMA TargetFilesSound ==
    ASSUME Apart, TypeInv, ApartInv, NEW t \in Threads, TargetFiles(t) PROVE Frames(t) /\ Inert(t)
<1> PICK k, m, g : k = Key(t) /\ m = thread[t].main /\ g = thread[t].target
  OBVIOUS
<1> PICK mm, gg : mm = thread'[t].main /\ gg = thread'[t].target
  OBVIOUS
<1>1. At(t, "targetfiles")
  BY DEF TargetFiles
<1>2. /\ thread[t].pc = "targetfiles" /\ k \in Keys /\ g \in Asked /\ Tree(disk)
      /\ disk \in SUBSET Paths /\ Sound(disk, k, "targetfiles", m, g)
  BY <1>1, AtSession
<1>3. Source(disk, k) /\ TargetDir(t) \in disk /\ Sourcecode(t) \in disk
  <2>1. g \in Made(disk, k)
    BY <1>2 DEF Sound, Reached
  <2>2. Root(disk, k)
    BY <1>2, <2>1, ParentIn DEF Made, Root
  <2>3. Source(disk, k)
    BY <1>2, <2>2 DEF Sound, Shared
  <2> QED
    BY <1>1, <2>1, <2>3, AtSession
<1>4. FaustFiles(Sourcecode(t)) = Dsp(disk, k)
  BY <1>1, AtSession
<1>5. \A names : Add(disk, TargetDir(t), names) = disk \cup {<<k, "targets", g, n>> : n \in names}
  <2>1. \A n : Append(TargetDir(t), n) = <<k, "targets", g, n>>
    BY FileOfTarget, Zenon DEF TargetDir
  <2> QED
    BY <2>1 DEF Add
<1>6. PICK N \in SUBSET Dsp(disk, k) : disk' = disk \cup {<<k, "targets", g, n>> : n \in N}
  BY <1>3, <1>4, <1>5 DEF TargetFiles
<1>7. Goto(t, "make") /\ aborted' = aborted
  BY <1>3 DEF TargetFiles
<1>8. OthersSame(t) /\ thread'[t].pc = "make" /\ thread'[t].key = k /\ mm = m /\ gg = g
  BY <1>2, <1>7, GoneTo DEF TypeInv, Key
<1>9. GainsTargetFiles(disk, disk', k, g, N)
  BY <1>2, <1>6, AddTargetFiles
<1>10. "binary" \notin N
  BY NamesDiffer DEF FixedNames, Dsp
<1>11. /\ SameOthers(disk, disk', k)
       /\ Root(disk', k) = Root(disk, k) /\ Source(disk', k) = Source(disk, k)
       /\ Dsp(disk', k) = Dsp(disk, k) /\ Basic(disk', k) = Basic(disk, k)
       /\ Made(disk', k) = Made(disk, k)
       /\ \A h \in Asked : TargetDsp(disk', k, h) \subseteq TargetDsp(disk, k, h) \cup Dsp(disk, k)
       /\ Built(disk', k) = Built(disk, k)
  BY <1>6, <1>9, <1>10 DEF GainsTargetFiles
<1>12. Sound(disk', k, "make", m, g)
  BY <1>2, <1>11 DEF Sound, Shared, Reached, Refused, Complete, Validating, Compiling
<1> QED
  BY <1>2, <1>7, <1>8, <1>11, <1>12 DEF Frames, Inert, TypeInv

LEMMA SendAssetSound ==
    ASSUME Apart, TypeInv, ApartInv, NEW t \in Threads, SendAsset(t) PROVE Frames(t) /\ Inert(t)
<1> PICK k, m, g : k = Key(t) /\ m = thread[t].main /\ g = thread[t].target
  OBVIOUS
<1> PICK mm, gg : mm = thread'[t].main /\ gg = thread'[t].target
  OBVIOUS
<1>1. At(t, "make")
  BY DEF SendAsset
<1>2. /\ thread[t].pc = "make" /\ k \in Keys /\ g \in Asked /\ Tree(disk)
      /\ disk \in SUBSET Paths /\ Sound(disk, k, "make", m, g)
  BY <1>1, AtSession
<1>3. OthersSame(t) /\ thread'[t].pc = "idle"
  BY IsDone DEF SendAsset, TypeInv
<1>4. Sound(disk, k, "idle", mm, gg)
  BY <1>2, PlainSound DEF Plain
<1> QED
  BY <1>2, <1>3, <1>4, UnchangedSound DEF SendAsset

LEMMA NoMakefileSound ==
    ASSUME Apart, TypeInv, ApartInv, NEW t \in Threads, NoMakefile(t) PROVE Frames(t) /\ Inert(t)
<1> PICK k, m, g : k = Key(t) /\ m = thread[t].main /\ g = thread[t].target
  OBVIOUS
<1> PICK mm, gg : mm = thread'[t].main /\ gg = thread'[t].target
  OBVIOUS
<1>1. At(t, "make")
  BY DEF NoMakefile
<1>2. /\ thread[t].pc = "make" /\ k \in Keys /\ g \in Asked /\ Tree(disk)
      /\ disk \in SUBSET Paths /\ Sound(disk, k, "make", m, g)
  BY <1>1, AtSession
<1>3. OthersSame(t) /\ thread'[t].pc = "idle"
  BY IsDone DEF NoMakefile, TypeInv
<1>4. Sound(disk, k, "idle", mm, gg)
  BY <1>2, PlainSound DEF Plain
<1> QED
  BY <1>2, <1>3, <1>4, UnchangedSound DEF NoMakefile

LEMMA SendSound ==
    ASSUME Apart, TypeInv, ApartInv, NEW t \in Threads, Send(t) PROVE Frames(t) /\ Inert(t)
<1> PICK k, m, g : k = Key(t) /\ m = thread[t].main /\ g = thread[t].target
  OBVIOUS
<1> PICK mm, gg : mm = thread'[t].main /\ gg = thread'[t].target
  OBVIOUS
<1>1. At(t, "send")
  BY DEF Send
<1>2. /\ thread[t].pc = "send" /\ k \in Keys /\ g \in Asked /\ Tree(disk)
      /\ disk \in SUBSET Paths /\ Sound(disk, k, "send", m, g)
  BY <1>1, AtSession
<1>3. OthersSame(t) /\ thread'[t].pc = "idle"
  BY IsDone DEF Send, TypeInv
<1>4. Sound(disk, k, "idle", mm, gg)
  BY <1>2, PlainSound DEF Plain
<1> QED
  BY <1>2, <1>3, <1>4, UnchangedSound DEF Send

\* The target that t asks for is made in the session.
Makes(t) ==
    /\ Root(disk, Key(t)) /\ Root(disk', Key(t)) /\ Goto(t, "send")
    /\ Built(disk', Key(t)) = Built(disk, Key(t)) \cup {thread[t].target}

LEMMA MakeSound ==
    ASSUME Apart, TypeInv, ApartInv, NEW t \in Threads, Make(t)
    PROVE  Frames(t) /\ (Inert(t) \/ Makes(t))
<1> PICK k, m, g : k = Key(t) /\ m = thread[t].main /\ g = thread[t].target
  OBVIOUS
<1> PICK mm, gg : mm = thread'[t].main /\ gg = thread'[t].target
  OBVIOUS
<1>1. At(t, "make")
  BY DEF Make
<1>2. /\ thread[t].pc = "make" /\ k \in Keys /\ g \in Asked /\ Tree(disk)
      /\ disk \in SUBSET Paths /\ Sound(disk, k, "make", m, g)
  BY <1>1, AtSession
<1>3. FaustFiles(TargetDir(t)) = TargetDsp(disk, k, g)
      /\ File(TargetDir(t), "binary") = <<k, "targets", g, "binary">>
  BY <1>1, AtSession
<1>4. CASE TargetDsp(disk, k, g) # {} /\ Goto(t, "send")
           /\ disk' = disk \cup {<<k, "targets", g, "binary">>}
  <2> PICK N : N = {"binary"}
    OBVIOUS
  <2>1. OthersSame(t) /\ thread'[t].pc = "send" /\ thread'[t].key = k /\ mm = m /\ gg = g
    BY <1>2, <1>4, GoneTo DEF TypeInv, Key
  <2>2. Dsp(disk, k) # {}
    BY <1>2, <1>4 DEF Sound, Shared
  <2>3. GainsTargetFiles(disk, disk \cup {<<k, "targets", g, n>> : n \in N}, k, g, N)
    BY <1>2, AddTargetFiles
  <2>4. disk' = disk \cup {<<k, "targets", g, n>> : n \in N}
    BY <1>4
  <2>5. "binary" \notin AllDsp
    BY NamesDiffer DEF FixedNames
  <2>6. /\ SameOthers(disk, disk', k)
        /\ Root(disk', k) = Root(disk, k) /\ Source(disk', k) = Source(disk, k)
        /\ Dsp(disk', k) = Dsp(disk, k) /\ Basic(disk', k) = Basic(disk, k)
        /\ Made(disk', k) = Made(disk, k)
        /\ \A h \in Asked : TargetDsp(disk', k, h) = TargetDsp(disk, k, h)
        /\ Built(disk', k) = Built(disk, k) \cup {g}
    BY <2>3, <2>4, <2>5 DEF GainsTargetFiles
  <2>7. Sound(disk', k, "send", m, g)
    BY <1>2, <1>4, <2>2, <2>6 DEF Sound, Shared, Reached, Refused, Complete, Validating, Compiling
  <2>8. Root(disk, k)
    BY <1>2, <1>4, NoRoot
  <2> QED
    BY <1>2, <1>4, <2>1, <2>6, <2>7, <2>8 DEF Frames, Makes, Make
<1>5. CASE Done(t, "error") /\ disk' = disk
  <2>1. OthersSame(t) /\ thread'[t].pc = "idle"
    BY <1>5, IsDone DEF TypeInv
  <2>2. Sound(disk, k, "idle", mm, gg)
    BY <1>2, PlainSound DEF Plain
  <2> QED
    BY <1>2, <1>5, <2>1, <2>2, UnchangedSound DEF Make
<1> QED
  BY <1>3, <1>4, <1>5 DEF Make

(* Only a request that is alone ever finds the cache full of other keys.   *)
LEMMA EvictsAlone ==
    ASSUME Apart, CacheType, NEW t \in Threads, NEW k \in Keys, k \notin Elements(cache),
           Len(cache) = MaxSize, NEW u \in Threads
    PROVE  u = t
<1>1. Elements(cache) \cup {k} \subseteq Keys /\ IsFiniteSet(Keys)
  BY DEF CacheType, Elements, Apart
<1>2. IsFiniteSet(Elements(cache)) /\ Cardinality(Elements(cache)) = MaxSize
  BY CountElements DEF CacheType
<1>3. Cardinality(Elements(cache) \cup {k}) = MaxSize + 1
  BY <1>2, FS_AddElement
<1>4. Cardinality(Elements(cache) \cup {k}) <= Cardinality(Keys) /\ Cardinality(Keys) \in Nat
  BY <1>1, FS_Subset, FS_CardinalityType
<1>5. ~(Cardinality(Keys) <= MaxSize)
  BY <1>3, <1>4, SizeAssumption
<1> QED
  BY <1>5 DEF Apart

LEMMA ReferFrames ==
    ASSUME TypeInv, ApartInv, NEW t \in Threads, Refer(t),
           Key(t) \in Elements(cache) \/ Len(cache) # MaxSize
    PROVE  Frames(t) /\ Inert(t)
<1>1. At(t, "refer") /\ disk' = disk /\ Goto(t, "target") /\ aborted' = aborted
  BY DEF Refer
<1>2. thread[t].pc = "refer" /\ Sound(disk, Key(t), "refer", thread[t].main, thread[t].target)
  BY <1>1, AtSession
<1>3. OthersSame(t) /\ thread'[t].pc = "target" /\ thread'[t].key = Key(t)
  BY <1>1, <1>2, GoneTo DEF TypeInv, Key
<1>4. Sound(disk, Key(t), "target", thread'[t].main, thread'[t].target)
  BY <1>2, PlainSound DEF Plain
<1> QED
  BY <1>1, <1>2, <1>3, <1>4, UnchangedSound

(* An eviction takes another session than the one referred to.             *)
LEMMA ReferEvicts ==
    ASSUME Apart, TypeInv, NEW t \in Threads, Refer(t),
           Key(t) \notin Elements(cache), Len(cache) = MaxSize
    PROVE  /\ \A u \in Threads : u = t
           /\ \E j \in Keys : j # Key(t) /\ LosesAll(disk, disk', j)
<1>1. At(t, "refer") /\ Key(t) \in Keys /\ disk \in SUBSET Paths
  BY Working DEF Refer, TypeInv, Tree
<1> PICK j : j = Back(cache)
  OBVIOUS
<1>2. j \in Keys /\ j # Key(t)
  <2>1. Elements(cache) \subseteq Keys
    BY DEF TypeInv, CacheType, Elements
  <2>2. Back(cache) \in Elements(cache)
    BY <1>1, CacheAfter DEF TypeInv
  <2> QED
    BY <2>1, <2>2
<1>3. disk' = RemoveAll(disk, <<j>>)
  BY DEF Refer
<1>4. LosesAll(disk, RemoveAll(disk, <<j>>), j)
  BY <1>1, <1>2, RemoveSession
<1>5. \A u \in Threads : u = t
  BY <1>1, EvictsAlone DEF TypeInv
<1> QED
  BY <1>2, <1>3, <1>4, <1>5

LEMMA ReferSound ==
    ASSUME Apart, TypeInv, ApartInv, NEW t \in Threads, Refer(t) PROVE ApartInv'
<1> PICK k, m, g : k = Key(t) /\ m = thread[t].main /\ g = thread[t].target
  OBVIOUS
<1> PICK mm, gg : mm = thread'[t].main /\ gg = thread'[t].target
  OBVIOUS
<1>1. At(t, "refer")
  BY DEF Refer
<1>2. /\ thread[t].pc = "refer" /\ k \in Keys /\ g \in Asked /\ Tree(disk)
      /\ disk \in SUBSET Paths /\ Sound(disk, k, "refer", m, g)
  BY <1>1, AtSession
<1>3. /\ OthersSame(t) /\ thread'[t].pc = "target" /\ thread'[t].key = k
      /\ mm = m /\ gg = g /\ aborted' = aborted
  BY <1>2, GoneTo DEF Refer, TypeInv, Key
<1>4. CASE k \in Elements(cache) \/ Len(cache) # MaxSize
  BY <1>4, ReferFrames, Framing DEF TypeInv
<1>5. CASE k \notin Elements(cache) /\ Len(cache) = MaxSize
  <2>1. PICK j \in Keys : j # k /\ LosesAll(disk, disk', j)
    BY <1>5, ReferEvicts
  <2>4. SameOthers(disk, disk', j) /\ Sound(disk', j, "idle", "", "none")
    BY <2>1, NothingSound DEF LosesAll
  <2>5. \A u \in Threads : u = t
    BY <1>5, ReferEvicts
  <2>6. Sound(disk', k, "target", m, g)
    <3>1. Same(disk, disk', k)
      BY <1>2, <2>1, <2>4 DEF SameOthers
    <3>2. Sound(disk', k, "refer", m, g)
      BY <1>2, <3>1, SameSound
    <3> QED
      BY <3>2, PlainSound DEF Plain
  <2>7. ASSUME NEW i \in Keys, i # k PROVE Sound(disk', i, "idle", "", "none")
    <3>1. CASE i = j
      BY <2>4, <3>1
    <3>2. CASE i # j
      <4>1. \A u \in Threads : thread[u].pc # "idle" => Key(u) # i
        BY <2>5, <2>7
      <4>2. Sound(disk, i, "idle", "", "none")
        BY <4>1 DEF ApartInv
      <4>3. Same(disk, disk', i)
        BY <2>4, <3>2 DEF SameOthers
      <4> QED
        BY <4>2, <4>3, SameSound
    <3> QED
      BY <3>1, <3>2
  <2>8. thread'[t].pc # "idle" /\ thread'[t].pc = "target"
    BY <1>3
  <2>9. ~aborted'
    BY <1>3 DEF ApartInv
  <2>10. \A u \in Threads : thread'[u].pc # "idle" =>
           Sound(disk', thread'[u].key, thread'[u].pc, thread'[u].main, thread'[u].target)
    BY <1>3, <2>5, <2>6
  <2>11. \A i \in Keys : (\A u \in Threads : thread'[u].pc # "idle" => thread'[u].key # i) =>
           Sound(disk', i, "idle", "", "none")
    BY <1>3, <2>7, <2>8
  <2> QED
    BY <2>9, <2>10, <2>11 DEF ApartInv, Key
<1> QED
  BY <1>4, <1>5

LEMMA MakeAndSendFrames ==
    ASSUME Apart, TypeInv, ApartInv, NEW t \in Threads, MakeAndSend(t), ~Refer(t)
    PROVE  Frames(t) /\ (Inert(t) \/ Makes(t))
BY FindMakefileSound, RootMakefileSound, RootFilesSound, CreateTargetSound,
   TargetMakefileSound, TargetFilesSound, SendAssetSound, NoMakefileSound, MakeSound,
   SendSound DEF MakeAndSend

LEMMA MakeAndSendSound ==
    ASSUME Apart, TypeInv, ApartInv, NEW t \in Threads, MakeAndSend(t) PROVE ApartInv'
<1>1. CASE Refer(t)
  BY <1>1, ReferSound
<1>2. CASE ~Refer(t)
  BY <1>2, MakeAndSendFrames, Framing DEF TypeInv
<1> QED
  BY <1>1, <1>2

LEMMA ValidateFrames ==
    ASSUME Apart, TypeInv, ApartInv, NEW t \in Threads, Validate(t)
    PROVE  Frames(t) /\ (Inert(t) \/ ~Root(disk', Key(t)) \/ CreateSession(t))
BY SessionExistsSound, NewSessionSound, CreateSessionSound, NoSourcesSound,
   CopySourceSound, ExtractSound, CopyUserCodeSound, CompileSound, CannotForkSound,
   CheckIncludesSound, CreateSvgSound, BasicMakefileSound, BasicFilesSound DEF Validate

LEMMA ValidateSound ==
    ASSUME Apart, TypeInv, ApartInv, NEW t \in Threads, Validate(t) PROVE ApartInv'
BY ValidateFrames, Framing DEF TypeInv

(* A request starts on a session that no other is busy with.               *)
LEMMA RequestSound ==
    ASSUME Apart, TypeInv, ApartInv, NEW t \in Threads, Post(t) \/ Get(t) PROVE ApartInv'
<1>1. thread[t].pc = "idle"
  BY DEF Post, Get, At
<1>2. PICK k, n, g, location :
           /\ k \in KeysOf[t] /\ g \in Asked /\ location \in {"session", "refer"}
           /\ Start(t, location, k, n, g)
  <2>1. Targets \cup Others \cup {"none"} = Asked
    BY DEF Asked
  <2>2. CASE Post(t)
    BY <2>1, <2>2, Zenon DEF Post
  <2>3. CASE Get(t)
    <3>1. PICK k \in KeysOf[t], g \in Targets \cup Others : Start(t, "refer", k, "", g)
      BY <2>3 DEF Get
    <3>2. g \in Asked
      BY DEF Asked
    <3> QED
      BY <3>1, <3>2, Zenon
  <2> QED
    BY <2>2, <2>3
<1>3. /\ OthersSame(t) /\ thread'[t].pc = location /\ thread'[t].key = k
      /\ disk' = disk /\ aborted' = aborted
  BY <1>2, IsStarted DEF TypeInv, Post, Get
<1>4. k \in Keys
  BY <1>2, ThreadAssumption
<1>5. \A u \in Threads : thread[u].pc # "idle" => Key(u) # k
  BY <1>1, <1>2, ApartKeys DEF TypeInv
<1>6. Sound(disk, k, "idle", "", "none")
  BY <1>4, <1>5 DEF ApartInv
<1>7. Sound(disk, k, location, thread'[t].main, thread'[t].target)
  BY <1>2, <1>6, PlainSound DEF Plain
<1>8. \A u \in Threads : thread'[u].pc # "idle" =>
         Sound(disk', thread'[u].key, thread'[u].pc, thread'[u].main, thread'[u].target)
  <2> SUFFICES ASSUME NEW u \in Threads, thread'[u].pc # "idle"
               PROVE  Sound(disk', thread'[u].key, thread'[u].pc, thread'[u].main,
                            thread'[u].target)
    OBVIOUS
  <2>1. CASE u = t
    BY <1>3, <1>7, <2>1
  <2>2. CASE u # t
    BY <1>3, <2>2 DEF OthersSame, ApartInv, Key
  <2> QED
    BY <2>1, <2>2
<1>9. \A i \in Keys : (\A u \in Threads : thread'[u].pc # "idle" => thread'[u].key # i) =>
         Sound(disk', i, "idle", "", "none")
  BY <1>1, <1>3 DEF OthersSame, ApartInv, Key
<1> QED
  BY <1>3, <1>8, <1>9 DEF ApartInv, Key

LEMMA EmptySound ==
    ASSUME NEW STATE d, d = {}, NEW k PROVE Sound(d, k, "idle", "", "none")
<1>1. /\ ~Root(d, k) /\ Dsp(d, k) = {} /\ Basic(d, k) = {} /\ Built(d, k) = {}
      /\ \A h \in Asked : TargetDsp(d, k, h) = {}
  BY DEF Root, Dsp, Basic, Built, TargetDsp
<1> QED
  BY <1>1, NothingSound

LEMMA RestartSound ==
    ASSUME Restart PROVE ApartInv'
<1>1. disk' = {} /\ ~aborted' /\ \A t \in Threads : thread'[t].pc = "idle"
  BY EmptyTypes DEF Restart
<1>2. \A k \in Keys : Sound(disk', k, "idle", "", "none")
  BY <1>1, EmptySound
<1> QED
  BY <1>1, <1>2 DEF ApartInv

LEMMA InitSound == Init => ApartInv
<1> HAVE Init
<1>1. disk = {} /\ ~aborted /\ \A t \in Threads : thread[t].pc = "idle"
  BY EmptyTypes DEF Init
<1>2. \A k \in Keys : Sound(disk, k, "idle", "", "none")
  BY <1>1, EmptySound
<1> QED
  BY <1>1, <1>2 DEF ApartInv

LEMMA NextSound == Apart /\ TypeInv /\ ApartInv /\ [Next]_vars => ApartInv'
<1> SUFFICES ASSUME Apart, TypeInv, ApartInv, [Next]_vars PROVE ApartInv'
  OBVIOUS
<1>1. CASE Next
  BY <1>1, RequestSound, ValidateSound, MakeAndSendSound, RestartSound DEF Next
<1>2. CASE UNCHANGED vars
  <2>1. disk' = disk /\ thread' = thread /\ aborted' = aborted
    BY <1>2 DEF vars
  <2> QED
    BY <2>1 DEF ApartInv, Key
<1> QED
  BY <1>1, <1>2

LEMMA ApartInvHolds == ASSUME Apart PROVE Spec => []ApartInv
<1>1. TypeInv /\ ApartInv /\ [Next]_vars => ApartInv'
  BY NextSound
<1> QED
  BY <1>1, InitSound, TypeInvHolds, PTL DEF Spec

-----------------------------------------------------------------------------
(* What requests are answered.                                             *)

(* A step of t that changes no other request and leaves it with an answer  *)
(* of one of these kinds.                                                  *)
Answers(t, kinds) == OthersSame(t) /\ thread'[t].answer \in kinds

LEMMA ValidateAnswers ==
    ASSUME TypeInv, NEW t \in Threads, Validate(t)
    PROVE  /\ Answers(t, {"none", "invalid", "error", "key"})
           /\ thread'[t].answer = "key" =>
                thread'[t].pc = "idle" /\ (SessionExists(t) \/ BasicFiles(t))
<1> USE DEF TypeInv, Answers
<1>1. thread[t].pc # "idle" /\ thread[t].answer = "none"
  <2>1. thread[t].pc # "idle"
    BY DEF Validate, At, SessionExists, NewSession, CreateSession, NoSources, CopySource,
           Extract, CopyUserCode, Compile, CannotFork, CheckIncludes, CreateSvg,
           BasicMakefile, BasicFiles
  <2> QED
    BY <2>1 DEF ThreadType
<1>2. CASE SessionExists(t)
  BY <1>1, <1>2, IsValid DEF SessionExists
<1>3. CASE NewSession(t)
  BY <1>1, <1>3, GoneTo DEF NewSession
<1>4. CASE CreateSession(t)
  BY <1>1, <1>4, GoneTo DEF CreateSession
<1>5. CASE NoSources(t)
  BY <1>1, <1>5, IsInvalid DEF NoSources
<1>6. CASE CopySource(t)
  BY <1>1, <1>6, SourcesAre, IsDone DEF CopySource
<1>7. CASE Extract(t)
  BY <1>1, <1>7, SourcesAre DEF Extract
<1>8. CASE CopyUserCode(t)
  BY <1>1, <1>8, GoneTo, IsInvalid DEF CopyUserCode
<1>9. CASE Compile(t)
  BY <1>1, <1>9, GoneTo DEF Compile
<1>10. CASE CannotFork(t)
  BY <1>1, <1>10, IsInvalid DEF CannotFork
<1>11. CASE CheckIncludes(t)
  BY <1>1, <1>11, GoneTo, IsInvalid DEF CheckIncludes
<1>12. CASE CreateSvg(t)
  BY <1>1, <1>12, GoneTo DEF CreateSvg
<1>13. CASE BasicMakefile(t)
  BY <1>1, <1>13, GoneTo, IsDone DEF BasicMakefile
<1>14. CASE BasicFiles(t)
  BY <1>1, <1>14, IsValid, IsDone DEF BasicFiles, Abort, OthersSame
<1> QED
  BY <1>2, <1>3, <1>4, <1>5, <1>6, <1>7, <1>8, <1>9, <1>10, <1>11, <1>12, <1>13, <1>14 DEF Validate

LEMMA MakeAnswers ==
    ASSUME TypeInv, NEW t \in Threads, MakeAndSend(t)
    PROVE  /\ Answers(t, {"none", "error", "file"})
           /\ thread'[t].answer = "file" => File(TargetDir(t), "binary") \in disk
<1> USE DEF TypeInv, Answers
<1>1. thread[t].pc # "idle" /\ thread[t].answer = "none"
  <2>1. thread[t].pc # "idle"
    BY DEF MakeAndSend, At, Refer, FindMakefile, RootMakefile, RootFiles, CreateTarget,
           TargetMakefile, TargetFiles, SendAsset, NoMakefile, Make, Send
  <2> QED
    BY <2>1 DEF ThreadType
<1>2. CASE Refer(t)
  BY <1>1, <1>2, GoneTo DEF Refer
<1>3. CASE FindMakefile(t)
  BY <1>1, <1>3, GoneTo DEF FindMakefile
<1>4. CASE RootMakefile(t)
  BY <1>1, <1>4, GoneTo, IsDone DEF RootMakefile
<1>5. CASE RootFiles(t)
  BY <1>1, <1>5, GoneTo, IsDone DEF RootFiles, Abort, OthersSame
<1>6. CASE CreateTarget(t)
  BY <1>1, <1>6, GoneTo DEF CreateTarget
<1>7. CASE TargetMakefile(t)
  BY <1>1, <1>7, GoneTo DEF TargetMakefile
<1>8. CASE TargetFiles(t)
  BY <1>1, <1>8, GoneTo DEF TargetFiles, Abort, OthersSame
<1>9. CASE SendAsset(t)
  BY <1>1, <1>9, IsDone DEF SendAsset
<1>10. CASE NoMakefile(t)
  BY <1>1, <1>10, IsDone DEF NoMakefile
<1>11. CASE Make(t)
  BY <1>1, <1>11, GoneTo, IsDone DEF Make
<1>12. CASE Send(t)
  BY <1>1, <1>12, IsDone DEF Send
<1> QED
  BY <1>2, <1>3, <1>4, <1>5, <1>6, <1>7, <1>8, <1>9, <1>10, <1>11, <1>12 DEF MakeAndSend

LEMMA RequestAnswers ==
    ASSUME TypeInv, NEW t \in Threads, Post(t) \/ Get(t)
    PROVE  Answers(t, {"none"})
<1>1. PICK k, n, g, location :
           k \in KeysOf[t] /\ g \in Asked /\ Start(t, location, k, n, g)
  BY DEF Post, Get, Asked
<1> QED
  BY <1>1, IsStarted DEF Answers, TypeInv

(* An answer that is neither an error nor nothing is given to a request by *)
(* a step of its own.                                                      *)
LEMMA OwnAnswer ==
    ASSUME TypeInv, [Next]_vars, NEW t \in Threads, thread[t].pc # "idle",
           thread'[t].answer \in {"key", "file"}
    PROVE  (Validate(t) \/ MakeAndSend(t)) /\ OthersSame(t)
<1>1. thread[t].answer = "none"
  BY DEF TypeInv, ThreadType
<1>2. ~UNCHANGED vars
  BY <1>1 DEF vars
<1>3. ~Restart
  BY EmptyTypes DEF Restart
<1>4. PICK u \in Threads : Post(u) \/ Get(u) \/ Validate(u) \/ MakeAndSend(u)
  BY <1>2, <1>3 DEF Next
<1>5. OthersSame(u) /\ (Post(u) \/ Get(u) => thread'[u].answer = "none")
  BY <1>4, RequestAnswers, ValidateAnswers, MakeAnswers DEF Answers
<1>6. u = t
  BY <1>1, <1>5 DEF OthersSame
<1> QED
  BY <1>4, <1>5, <1>6

(* Every session is sound, for wherever its request is.                    *)
LEMMA EverySound ==
    ASSUME TypeInv, ApartInv, NEW k \in Keys PROVE \E l, m, g : Sound(disk, k, l, m, g)
BY DEF ApartInv

(* No two requests that are apart make content.cpp:42-43 fail: the         *)
(* directories that copyFaustOrAudioFiles is given exist, though they were *)
(* created or seen several steps before.                                   *)
THEOREM SessionsAssert == ASSUME Apart PROVE Spec => []NoAssertFails
<1>1. ApartInv => NoAssertFails
  BY DEF ApartInv, NoAssertFails
<1> QED
  BY <1>1, ApartInvHolds, PTL

(* With requests that are apart, no directory of a target ever holds two   *)
(* .dsp files, whatever names one content was uploaded under.              *)
THEOREM SessionsOneDsp == ASSUME Apart PROVE Spec => []OneDspPerTarget
<1>1. ASSUME TypeInv, ApartInv PROVE OneDspPerTarget
  <2> SUFFICES ASSUME NEW k \in Keys, NEW g \in Targets
               PROVE  Cardinality(FaustFiles(<<k, "targets", g>>)) <= 1
    BY DEF OneDspPerTarget
  <2>1. g \in Asked
    BY DEF Asked
  <2>2. Shared(disk, k)
    BY <1>1, EverySound DEF Sound
  <2>3. FaustFiles(<<k, "targets", g>>) = TargetDsp(disk, k, g)
    BY <1>1, <2>1, FaustFilesAre DEF TypeInv
  <2>4. \A a, b \in TargetDsp(disk, k, g) : a = b
    BY <2>1, <2>2 DEF Shared
  <2>5. CASE TargetDsp(disk, k, g) = {}
    BY <2>3, <2>5, FS_EmptySet
  <2>6. CASE TargetDsp(disk, k, g) # {}
    <3>1. PICK a : TargetDsp(disk, k, g) = {a}
      BY <2>4, <2>6
    <3> QED
      BY <2>3, <3>1, FS_Singleton
  <2> QED
    BY <2>5, <2>6
<1> QED
  BY <1>1, ApartInvHolds, TypeInvHolds, PTL

(* With requests that are apart, no target is in a session whose           *)
(* generated.cpp includes a file of its own (server.cpp:533-536), whether  *)
(* fork() or faust fail or not.                                            *)
THEOREM SessionsRefuse == ASSUME Apart PROVE Spec => []NoTargetOfRefused
<1>1. ASSUME TypeInv, ApartInv PROVE NoTargetOfRefused
  <2> SUFFICES ASSUME NEW k \in Keys, NEW g \in Targets, Class[k] = "foreign",
                      <<k, "generated.cpp">> \in disk
               PROVE  <<k, "targets", g, "binary">> \notin disk
    BY DEF NoTargetOfRefused
  <2>1. g \in Asked
    BY DEF Asked
  <2>2. PICK l, m, t : Sound(disk, k, l, m, t)
    BY <1>1, EverySound
  <2>3. l = "check"
    BY <2>2 DEF Sound, Refused, Basic, RootNames
  <2>4. Built(disk, k) = {}
    BY <2>2, <2>3 DEF Sound, Reached, Validating, Compiling
  <2> QED
    BY <2>1, <2>4 DEF Built
<1> QED
  BY <1>1, ApartInvHolds, TypeInvHolds, PTL

(* With requests that are apart, a file is sent only for a session that    *)
(* has its sources: none that an eviction left behind, and none that a     *)
(* refused upload made.                                                    *)
THEOREM SessionsSendSources == ASSUME Apart PROVE Spec => FileMeansSources
<1>1. ASSUME TypeInv, ApartInv, [Next]_vars, NEW t \in Threads,
             thread[t].pc \in {"make", "send"}, thread'[t].answer = "file"
      PROVE  FaustFiles(Sourcecode(t)) # {}
  <2>1. Validate(t) \/ MakeAndSend(t)
    BY <1>1, OwnAnswer
  <2>2. File(TargetDir(t), "binary") \in disk
    BY <1>1, <2>1, ValidateAnswers, MakeAnswers DEF Answers
  <2>3. ~aborted
    BY <1>1 DEF ApartInv
  <2>4. /\ Key(t) \in Keys /\ thread[t].target \in Asked
        /\ File(TargetDir(t), "binary") =
             <<Key(t), "targets", thread[t].target, "binary">>
        /\ FaustFiles(Sourcecode(t)) = Dsp(disk, Key(t))
    BY <1>1, <2>3, AtSession DEF At
  <2>5. Shared(disk, Key(t))
    BY <1>1, <2>4, EverySound DEF Sound
  <2>6. thread[t].target \in Built(disk, Key(t))
    BY <2>2, <2>4 DEF Built
  <2> QED
    BY <2>4, <2>5, <2>6 DEF Shared
<1>2. TypeInv /\ ApartInv /\ [Next]_vars =>
        [\A t \in Threads : thread[t].pc \in {"make", "send"} /\ thread'[t].answer = "file" =>
             FaustFiles(Sourcecode(t)) # {}]_vars
  BY <1>1
<1> QED
  BY <1>2, ApartInvHolds, TypeInvHolds, PTL DEF Spec, FileMeansSources

(* With requests that are apart, a client that is given a key has a        *)
(* session with its sources, and, if its program has been checked, with    *)
(* user_code.dsp and the makefile.                                         *)
THEOREM SessionsKeys == ASSUME Apart PROVE Spec => KeyMeansSession
<1> DEFINE Meant(t) ==
      /\ Sourcecode(t) \in disk'
      /\ File(Session(t), "svg") \in disk' =>
           {File(Session(t), "user_code.dsp"), Makefile(Session(t))} \subseteq disk'
<1>1. ASSUME TypeInv, ApartInv, TypeInv', ApartInv', [Next]_vars, NEW t \in Threads,
             thread[t].pc # "idle", thread'[t].answer = "key"
      PROVE  Meant(t)
  <2> PICK k : k = Key(t)
    OBVIOUS
  <2>1. /\ OthersSame(t) /\ thread'[t].pc = "idle"
        /\ SessionExists(t) \/ BasicFiles(t)
    BY <1>1, OwnAnswer, ValidateAnswers, MakeAnswers DEF Answers
  <2>2. k \in KeysOf[t] /\ k \in Keys
    BY <1>1, ThreadAssumption DEF TypeInv, ThreadType
  <2>3. Root(disk, k) /\ disk \subseteq disk'
    <3>1. CASE SessionExists(t)
      BY <3>1 DEF SessionExists, Session, Root
    <3>2. CASE BasicFiles(t)
      <4>1. At(t, "basic")
        BY <3>2 DEF BasicFiles
      <4>2. Sound(disk, k, "basic", thread[t].main, thread[t].target)
        BY <1>1, <4>1, AtSession
      <4>3. disk \subseteq disk'
        BY <3>2 DEF BasicFiles, Add, Abort
      <4> QED
        BY <4>2, <4>3 DEF Sound, Reached, Validating
    <3> QED
      BY <2>1, <3>1, <3>2
  <2>4. \A u \in Threads : thread'[u].pc # "idle" => thread'[u].key # k
    <3> SUFFICES ASSUME NEW u \in Threads, thread'[u].pc # "idle"
                 PROVE  thread'[u].key # k
      OBVIOUS
    <3>1. u # t /\ thread'[u] = thread[u]
      BY <2>1 DEF OthersSame
    <3> QED
      BY <1>1, <2>2, <3>1, ApartKeys DEF Key, TypeInv
  <2>5. Sound(disk', k, "idle", "", "none")
    BY <1>1, <2>2, <2>4 DEF ApartInv, Key
  <2>6. Source(disk', k)
    BY <2>3, <2>5 DEF Sound, Shared, Root
  <2>7. "svg" \in Basic(disk', k) => {"user_code.dsp", "Makefile"} \subseteq Basic(disk', k)
    BY <2>5 DEF Sound, Complete
  <2>8. /\ Sourcecode(t) = <<k, "sourcecode">>
        /\ File(Session(t), "svg") = <<k, "svg">>
        /\ File(Session(t), "user_code.dsp") = <<k, "user_code.dsp">>
        /\ Makefile(Session(t)) = <<k, "Makefile">>
    BY FileOfSession, Zenon DEF Sourcecode, Session, File, Makefile
  <2> QED
    BY <2>6, <2>7, <2>8 DEF Source, Basic, RootNames
<1>2. TypeInv /\ ApartInv /\ TypeInv' /\ ApartInv' /\ [Next]_vars =>
        [\A t \in Threads :
           thread[t].pc # "idle" /\ thread'[t].answer = "key" => Meant(t)]_vars
  BY <1>1
<1> QED
  BY <1>2, ApartInvHolds, TypeInvHolds, PTL DEF Spec, KeyMeansSession

-----------------------------------------------------------------------------
(* The refinement of SessionService, by requests that are apart.           *)

LEMMA RequestIs ==
    ASSUME NEW t \in Threads
    PROVE  /\ Requests[t] = Request(t)
           /\ Requests[t].phase = Phase(t) /\ Requests[t].key = Key(t)
           /\ Requests[t].target = thread[t].target
           /\ Requests[t].answer = thread[t].answer
BY DEF Requests, Request

LEMMA RequestsAfter ==
    ASSUME NEW t \in Threads, OthersSame(t), NEW r, Request(t)' = r
    PROVE  Requests' = [Requests EXCEPT ![t] = r]
<1>1. ASSUME NEW u \in Threads, u # t PROVE Request(u)' = Request(u)
  <2>1. thread'[u] = thread[u]
    BY <1>1 DEF OthersSame
  <2> QED
    BY <2>1 DEF Request, Phase, Key
<1>2. Requests' = [u \in Threads |-> Request(u)']
  BY DEF Requests
<1>3. Requests = [u \in Threads |-> Request(u)]
  BY DEF Requests
<1> QED
  BY <1>1, <1>2, <1>3

LEMMA RequestsStay ==
    ASSUME NEW t \in Threads, OthersSame(t), Phase(t)' = Phase(t),
           thread'[t].key = thread[t].key, thread'[t].target = thread[t].target,
           thread'[t].answer = thread[t].answer
    PROVE  Requests' = Requests
<1>1. Request(t)' = Request(t)
  BY DEF Request, Key
<1>2. Requests' = [Requests EXCEPT ![t] = Request(t)]
  BY <1>1, RequestsAfter
<1> QED
  BY <1>2 DEF Requests

LEMMA RequestAnswered ==
    ASSUME ThreadType, NEW t \in Threads, NEW how, Done(t, how)
    PROVE  Service!Answer(t, how)
<1> PICK empty : empty = ""
  OBVIOUS
<1> PICK idle : idle = [phase |-> "idle", key |-> empty, target |-> "none", answer |-> how]
  OBVIOUS
<1>1. thread'[t] = [pc |-> "idle", key |-> empty, name |-> empty, target |-> "none",
                    main |-> empty, answer |-> how]
  BY DEF Done, ThreadType, Idle
<1>2. Request(t)' = idle
  <2>1. /\ thread'[t].pc = "idle" /\ thread'[t].key = empty
        /\ thread'[t].target = "none" /\ thread'[t].answer = how
    BY ONLY <1>1
  <2>2. Phase(t)' = "idle" /\ Key(t)' = empty
    BY <2>1, Zenon DEF Phase, Key
  <2> QED
    BY <2>1, <2>2, Zenon DEF Request
<1>3. [Service!Idle EXCEPT !.answer = how] = idle
  <2>1. Service!Idle = [phase |-> "idle", key |-> empty, target |-> "none", answer |-> "none"]
    BY Zenon DEF Service!Idle
  <2>2. idle = [phase |-> "idle", key |-> empty, target |-> "none", answer |-> how]
    OBVIOUS
  <2> QED
    BY ONLY <2>1, <2>2
<1>4. Requests' = [Requests EXCEPT ![t] = idle]
  BY <1>2, IsDone, RequestsAfter
<1> QED
  BY <1>3, <1>4, Zenon DEF Service!Answer

(* What becomes of the sessions when a request does a step of its own.     *)
LEMMA KeptAfter ==
    ASSUME Apart, TypeInv, NEW t \in Threads, Frames(t)
    PROVE  /\ Key(t) \in Keys
           /\ \A j \in Keys : j # Key(t) =>
                (j \in Kept' <=> j \in Kept) /\ Built(disk', j) = Built(disk, j)
           /\ Key(t) \in Kept <=> Root(disk, Key(t)) /\ thread[t].pc \notin Uploading
           /\ Key(t) \in Kept' <=> Root(disk', Key(t)) /\ thread'[t].pc \notin Uploading
<1> PICK k : k = Key(t)
  OBVIOUS
<1>1. /\ thread[t].pc # "idle" /\ OthersSame(t)
      /\ SameOthers(disk, disk', k) /\ (thread'[t].pc # "idle" => thread'[t].key = k)
  BY DEF Frames
<1>2. k \in KeysOf[t] /\ k \in Keys
  BY <1>1, ThreadAssumption DEF TypeInv, ThreadType
<1>3. "idle" \notin Uploading
  BY DEF Uploading, Validating, Compiling
<1>4. \A j \in Keys : /\ j \in Found <=> Root(disk, j)
                      /\ j \in Found' <=> Root(disk', j)
  BY DEF Found, Root
<1>5. \A u \in Threads : u # t /\ thread[u].pc \in Uploading => Key(u) # k
  BY <1>2, <1>3, ApartKeys DEF TypeInv
<1>6. \A u \in Threads : u # t => thread'[u] = thread[u]
  BY <1>1 DEF OthersSame
<1>7. \A j \in Keys :
        j \in Kept <=> Root(disk, j) /\ \A u \in Threads : thread[u].pc \in Uploading => Key(u) # j
  BY <1>4 DEF Kept, Found
<1>8. \A j \in Keys :
        j \in Kept' <=>
          Root(disk', j) /\ \A u \in Threads : thread'[u].pc \in Uploading => thread'[u].key # j
  BY <1>4 DEF Kept, Found, Key
<1>9. ASSUME NEW j \in Keys, j # k
      PROVE  (j \in Kept' <=> j \in Kept) /\ Built(disk', j) = Built(disk, j)
  <2>1. Root(disk', j) = Root(disk, j) /\ Built(disk', j) = Built(disk, j)
    BY <1>1, <1>9 DEF SameOthers, Same
  <2>2. \A u \in Threads : (thread'[u].pc \in Uploading => thread'[u].key # j)
                            <=> (thread[u].pc \in Uploading => Key(u) # j)
    BY <1>1, <1>3, <1>6, <1>9 DEF Key
  <2> QED
    BY <1>7, <1>8, <2>1, <2>2
<1>10. k \in Kept <=> Root(disk, k) /\ thread[t].pc \notin Uploading
  BY <1>2, <1>5, <1>7
<1>11. k \in Kept' <=> Root(disk', k) /\ thread'[t].pc \notin Uploading
  BY <1>1, <1>2, <1>3, <1>5, <1>6, <1>8 DEF Key
<1> QED
  BY <1>2, <1>9, <1>10, <1>11

LEMMA SessionsStay ==
    ASSUME Apart, TypeInv, NEW t \in Threads, Frames(t),
           Key(t) \in Kept' <=> Key(t) \in Kept,
           Key(t) \in Kept => Built(disk', Key(t)) = Built(disk, Key(t))
    PROVE  KeptSessions' = KeptSessions
<1>1. Kept \subseteq Keys /\ Kept' \subseteq Keys
  BY DEF Kept, Found
<1>2. Kept' = Kept /\ \A j \in Kept : Built(disk', j) = Built(disk, j)
  BY <1>1, KeptAfter
<1>3. KeptSessions' = [j \in Kept' |-> Built(disk', j)]
  BY DEF KeptSessions
<1> QED
  BY <1>2, <1>3 DEF KeptSessions

LEMMA SessionStarts ==
    ASSUME Apart, TypeInv, NEW t \in Threads, Frames(t),
           Key(t) \notin Kept, Key(t) \in Kept', Built(disk', Key(t)) = {}
    PROVE  KeptSessions' = Service!WithSession(Key(t))
<1>1. Kept \subseteq Keys /\ Kept' \subseteq Keys
  BY DEF Kept, Found
<1>2. Kept' = Kept \cup {Key(t)} /\ \A j \in Kept : Built(disk', j) = Built(disk, j)
  BY <1>1, KeptAfter
<1>3. KeptSessions' = [j \in Kept' |-> Built(disk', j)]
  BY DEF KeptSessions
<1>4. DOMAIN KeptSessions = Kept /\ \A j \in Kept : KeptSessions[j] = Built(disk, j)
  BY DEF KeptSessions
<1> QED
  BY <1>2, <1>3, <1>4 DEF Service!WithSession

LEMMA SessionGains ==
    ASSUME Apart, TypeInv, NEW t \in Threads, Frames(t), NEW g,
           Key(t) \in Kept, Key(t) \in Kept',
           Built(disk', Key(t)) = Built(disk, Key(t)) \cup {g}
    PROVE  KeptSessions' = [KeptSessions EXCEPT ![Key(t)] = @ \cup {g}]
<1>1. Kept \subseteq Keys /\ Kept' \subseteq Keys
  BY DEF Kept, Found
<1>2. \A j \in Keys : j # Key(t) =>
        (j \in Kept' <=> j \in Kept) /\ Built(disk', j) = Built(disk, j)
  BY KeptAfter
<1>3. KeptSessions' = [j \in Kept' |-> Built(disk', j)]
  BY DEF KeptSessions
<1>4. KeptSessions = [j \in Kept |-> Built(disk, j)]
  BY DEF KeptSessions
<1>5. Kept' = Kept /\ \A j \in Kept : j # Key(t) => Built(disk', j) = Built(disk, j)
  BY <1>1, <1>2
<1> QED
  BY <1>3, <1>4, <1>5

(* What a step of validate_faust does to its request: it goes on, is       *)
(* refused, or is answered.                                                *)
GoesOn(t, places) ==
    /\ thread'[t].pc \in places /\ thread'[t].key = thread[t].key
    /\ thread'[t].target = thread[t].target /\ thread'[t].answer = thread[t].answer

LEMMA ValidateSteps ==
    ASSUME TypeInv, NEW t \in Threads, Validate(t), aborted' = aborted
    PROVE  \/ /\ GoesOn(t, Uploading)
              /\ \/ thread[t].pc \in Uploading
                 \/ thread[t].pc = "session" /\ Session(t) \notin disk
           \/ thread[t].pc \in Validating /\ \E how \in {"invalid", "error"} : Done(t, how)
           \/ Valid(t) /\ (SessionExists(t) \/ BasicFiles(t))
<1> USE DEF TypeInv
<1>0. "idle" \notin Uploading
      /\ {"create", "sources", "user_code", "compile", "check", "svg", "makefile", "basic"}
           \subseteq Uploading
      /\ {"sources", "user_code", "compile", "check", "svg", "makefile", "basic"}
           \subseteq Validating
  BY DEF Uploading, Validating, Compiling
<1>1. CASE SessionExists(t)
  BY <1>1 DEF SessionExists
<1>2. CASE NewSession(t)
  <2>1. thread[t].pc = "session" /\ Session(t) \notin disk /\ Goto(t, "create")
    BY <1>2 DEF NewSession, At
  <2> QED
    BY <1>0, <2>1, GoneTo DEF GoesOn
<1>3. CASE CreateSession(t)
  <2>1. thread[t].pc = "create" /\ Goto(t, "sources")
    BY <1>3 DEF CreateSession, At
  <2> QED
    BY <1>0, <2>1, GoneTo DEF GoesOn
<1>4. CASE NoSources(t)
  BY <1>0, <1>4 DEF NoSources, At, Invalid
<1>5. CASE CopySource(t)
  <2>1. thread[t].pc = "sources" /\ (Sources(t, thread[t].name) \/ Done(t, "error"))
    BY <1>5 DEF CopySource, At
  <2> QED
    BY <1>0, <2>1, SourcesAre DEF GoesOn
<1>6. CASE Extract(t)
  <2>1. thread[t].pc = "sources" /\ \E name : Sources(t, name)
    BY <1>6 DEF Extract, At
  <2> QED
    BY <1>0, <2>1, SourcesAre DEF GoesOn
<1>7. CASE CopyUserCode(t)
  <2>1. thread[t].pc = "user_code" /\ (Goto(t, "compile") \/ Done(t, "invalid"))
    BY <1>7 DEF CopyUserCode, At, Invalid
  <2> QED
    BY <1>0, <2>1, GoneTo DEF GoesOn
<1>8. CASE Compile(t)
  <2>1. thread[t].pc = "compile" /\ Goto(t, "check")
    BY <1>8 DEF Compile, At
  <2> QED
    BY <1>0, <2>1, GoneTo DEF GoesOn
<1>9. CASE CannotFork(t)
  BY <1>0, <1>9 DEF CannotFork, At, Invalid
<1>10. CASE CheckIncludes(t)
  <2>1. thread[t].pc = "check" /\ (Goto(t, "svg") \/ Done(t, "invalid"))
    BY <1>10 DEF CheckIncludes, At, Invalid
  <2> QED
    BY <1>0, <2>1, GoneTo DEF GoesOn
<1>11. CASE CreateSvg(t)
  <2>1. thread[t].pc = "svg" /\ Goto(t, "makefile")
    BY <1>11 DEF CreateSvg, At
  <2> QED
    BY <1>0, <2>1, GoneTo DEF GoesOn
<1>12. CASE BasicMakefile(t)
  <2>1. thread[t].pc = "makefile" /\ (Goto(t, "basic") \/ Done(t, "error"))
    BY <1>12 DEF BasicMakefile, At
  <2> QED
    BY <1>0, <2>1, GoneTo DEF GoesOn
<1>13. CASE BasicFiles(t)
  <2>1. thread[t].pc = "basic" /\ (Valid(t) \/ Done(t, "error"))
    BY <1>13 DEF BasicFiles, At, Abort
  <2> QED
    BY <1>0, <1>13, <2>1
<1> QED
  BY <1>1, <1>2, <1>3, <1>4, <1>5, <1>6, <1>7, <1>8, <1>9, <1>10, <1>11, <1>12, <1>13
     DEF Validate

(* Where a request for a target may be.                                    *)
Serving == {"refer", "target", "root", "rootfiles", "directory", "copymakefile",
            "targetfiles", "make", "send"}

LEMMA MakeSteps ==
    ASSUME TypeInv, NEW t \in Threads, MakeAndSend(t), aborted' = aborted
    PROVE  /\ thread[t].pc \in Serving
           /\ \/ GoesOn(t, Serving)
              \/ Done(t, "file") /\ File(TargetDir(t), "binary") \in disk
              \/ Done(t, "error")
<1> USE DEF TypeInv
<1>1. CASE Refer(t)
  <2>1. thread[t].pc = "refer" /\ Goto(t, "target")
    BY <1>1 DEF Refer, At
  <2> QED
    BY <2>1, GoneTo DEF GoesOn, Serving
<1>2. CASE FindMakefile(t)
  <2>1. thread[t].pc = "target" /\ (Goto(t, "make") \/ Goto(t, "root"))
    BY <1>2 DEF FindMakefile, At
  <2> QED
    BY <2>1, GoneTo DEF GoesOn, Serving
<1>3. CASE RootMakefile(t)
  <2>1. thread[t].pc = "root"
        /\ (Goto(t, "directory") \/ Goto(t, "rootfiles") \/ Done(t, "error"))
    BY <1>3 DEF RootMakefile, At
  <2> QED
    BY <2>1, GoneTo DEF GoesOn, Serving
<1>4. CASE RootFiles(t)
  <2>1. thread[t].pc = "rootfiles" /\ (Goto(t, "directory") \/ Done(t, "error"))
    BY <1>4 DEF RootFiles, At, Abort
  <2> QED
    BY <2>1, GoneTo DEF GoesOn, Serving
<1>5. CASE CreateTarget(t)
  <2>1. thread[t].pc = "directory" /\ (Goto(t, "copymakefile") \/ Goto(t, "make"))
    BY <1>5 DEF CreateTarget, At
  <2> QED
    BY <2>1, GoneTo DEF GoesOn, Serving
<1>6. CASE TargetMakefile(t)
  <2>1. thread[t].pc = "copymakefile" /\ (Goto(t, "targetfiles") \/ Goto(t, "make"))
    BY <1>6 DEF TargetMakefile, At
  <2> QED
    BY <2>1, GoneTo DEF GoesOn, Serving
<1>7. CASE TargetFiles(t)
  <2>1. thread[t].pc = "targetfiles" /\ Goto(t, "make")
    BY <1>7 DEF TargetFiles, At, Abort
  <2> QED
    BY <2>1, GoneTo DEF GoesOn, Serving
<1>8. CASE SendAsset(t)
  <2>1. /\ thread[t].pc = "make"
        /\ \/ Done(t, "file") /\ File(TargetDir(t), "binary") \in disk
           \/ Done(t, "error")
    BY <1>8 DEF SendAsset, At
  <2> QED
    BY <2>1 DEF Serving
<1>9. CASE NoMakefile(t)
  BY <1>9 DEF NoMakefile, At, Serving
<1>10. CASE Make(t)
  <2>1. thread[t].pc = "make" /\ (Goto(t, "send") \/ Done(t, "error"))
    BY <1>10 DEF Make, At
  <2> QED
    BY <2>1, GoneTo DEF GoesOn, Serving
<1>11. CASE Send(t)
  BY <1>11 DEF Send, At, Serving
<1> QED
  BY <1>1, <1>2, <1>3, <1>4, <1>5, <1>6, <1>7, <1>8, <1>9, <1>10, <1>11 DEF MakeAndSend

LEMMA PhaseIs ==
    ASSUME NEW t \in Threads
    PROVE  /\ thread[t].pc \in {"session"} \cup Uploading => Phase(t) = "upload"
           /\ thread'[t].pc \in {"session"} \cup Uploading => Phase(t)' = "upload"
           /\ thread[t].pc \in Serving => Phase(t) = "target" /\ thread[t].pc \notin Uploading
           /\ thread'[t].pc \in Serving => Phase(t)' = "target" /\ thread'[t].pc \notin Uploading
BY DEF Phase, Serving, Uploading, Validating, Compiling

LEMMA RequestServed ==
    ASSUME ThreadType, NEW t \in Threads, thread[t].pc # "idle", Goto(t, "refer")
    PROVE  Requests' = [Requests EXCEPT ![t].phase = "target"]
<1>1. /\ OthersSame(t) /\ thread'[t].pc = "refer" /\ thread'[t].key = thread[t].key
      /\ thread'[t].target = thread[t].target /\ thread'[t].answer = thread[t].answer
  BY GoneTo
<1>2. Phase(t)' = "target"
  BY <1>1, PhaseIs DEF Serving
<1>3. Request(t)' = [Request(t) EXCEPT !.phase = "target"]
  BY <1>1, <1>2 DEF Request, Key
<1>4. Requests' = [Requests EXCEPT ![t] = [Request(t) EXCEPT !.phase = "target"]]
  BY <1>1, <1>3, RequestsAfter
<1> QED
  BY <1>4, RequestIs

LEMMA SessionHad == \A k : Service!HasSession(k) <=> k \in Kept
BY DEF Service!HasSession, KeptSessions

(* A step of validate_faust is for the client an answer, or nothing.       *)
LEMMA ValidateServes ==
    ASSUME Apart, TypeInv, ApartInv, NEW t \in Threads, Validate(t)
    PROVE  [Service!Next]_(Service!vars)
<1> PICK k : k = Key(t)
  OBVIOUS
<1>1. Frames(t) /\ (Inert(t) \/ ~Root(disk', k) \/ CreateSession(t))
  BY ValidateFrames
<1>2. /\ thread[t].pc # "idle" /\ OthersSame(t) /\ aborted' = aborted
  BY <1>1 DEF Frames
<1>3. /\ k \in Keys
      /\ k \in Kept <=> Root(disk, k) /\ thread[t].pc \notin Uploading
      /\ k \in Kept' <=> Root(disk', k) /\ thread'[t].pc \notin Uploading
  BY <1>1, KeptAfter
<1>4. Session(t) \in disk <=> Root(disk, k)
  BY DEF Session, Root
<1>5. thread[t].pc \in Validating => Built(disk, k) = {} /\ Root(disk, k)
  <2> HAVE thread[t].pc \in Validating
  <2>1. Sound(disk, k, thread[t].pc, thread[t].main, thread[t].target)
    BY <1>2 DEF ApartInv
  <2> QED
    BY <2>1 DEF Sound, Reached
<1>6. Requests[t].phase = Phase(t) /\ Requests[t].key = k
      /\ Requests[t].target = thread[t].target
  BY RequestIs
<1>7. CASE /\ GoesOn(t, Uploading)
           /\ thread[t].pc \in Uploading \/ (thread[t].pc = "session" /\ Session(t) \notin disk)
  <2>1. k \notin Kept /\ k \notin Kept'
    BY <1>3, <1>4, <1>7 DEF GoesOn
  <2>2. KeptSessions' = KeptSessions
    BY <1>1, <2>1, SessionsStay
  <2>3. Phase(t)' = Phase(t)
    BY <1>7, PhaseIs DEF GoesOn
  <2>4. Requests' = Requests
    BY <1>2, <1>7, <2>3, RequestsStay DEF GoesOn
  <2> QED
    BY <2>2, <2>4 DEF Service!vars
<1>8. CASE thread[t].pc \in Validating /\ \E how \in {"invalid", "error"} : Done(t, how)
  <2>1. thread[t].pc \in Uploading /\ thread[t].pc # "create"
    BY <1>8 DEF Uploading, Validating, Compiling
  <2>2. k \notin Kept /\ Service!In(t, "upload")
    BY <1>3, <1>6, <2>1, PhaseIs DEF Service!In
  <2>3. k \in Kept' => Built(disk', k) = {}
    <3> HAVE k \in Kept'
    <3>1. Root(disk', k) /\ ~CreateSession(t)
      BY <1>3, <2>1 DEF CreateSession, At
    <3> QED
      BY <1>1, <1>5, <1>8, <3>1 DEF Inert
  <2>4. k \notin Kept' => KeptSessions' = KeptSessions
    BY <1>1, <2>2, SessionsStay
  <2>5. KeptSessions' = KeptSessions \/ KeptSessions' = Service!WithSession(k)
    BY <1>1, <2>2, <2>3, <2>4, SessionStarts
  <2>6. Service!Answer(t, "invalid") \/ Service!Answer(t, "error")
    BY <1>8, RequestAnswered DEF TypeInv
  <2>7. Service!Key(t) = k
    BY <1>6 DEF Service!Key
  <2>8. Service!Refuse(t)
    BY <2>2, <2>5, <2>6, <2>7, SessionHad DEF Service!Refuse
  <2> QED
    BY <2>8 DEF Service!Next
<1>9. CASE Valid(t) /\ (SessionExists(t) \/ BasicFiles(t))
  <2>1. Inert(t)
    BY <1>9, SessionExistsSound, BasicFilesSound
  <2>2. thread[t].pc = "session" \/ thread[t].pc = "basic"
    BY <1>9 DEF SessionExists, BasicFiles, At
  <2>3. "basic" \in Validating /\ "basic" \in Uploading /\ "session" \notin Uploading
        /\ "idle" \notin Uploading /\ "refer" \notin Uploading
    BY DEF Uploading, Validating, Compiling
  <2>4. thread'[t].pc \notin Uploading
    BY <1>2, <1>9, <2>3, IsValid DEF TypeInv
  <2>5. Root(disk, k) /\ Root(disk', k) /\ k \in Kept'
    <3>1. Root(disk, k)
      BY <1>4, <1>5, <1>9, <2>2, <2>3 DEF SessionExists, BasicFiles, At
    <3> QED
      BY <1>3, <2>1, <2>4, <3>1 DEF Inert
  <2>6. KeptSessions' = IF k \in Kept THEN KeptSessions ELSE Service!WithSession(k)
    <3>1. CASE thread[t].pc = "session"
      <4>1. k \in Kept
        BY <1>3, <2>3, <2>5, <3>1
      <4> QED
        BY <1>1, <2>1, <2>5, <4>1, SessionsStay DEF Inert
    <3>2. CASE thread[t].pc = "basic"
      <4>1. k \notin Kept /\ Built(disk', k) = {}
        BY <1>3, <1>5, <2>1, <2>3, <3>2 DEF Inert
      <4> QED
        BY <1>1, <2>5, <4>1, SessionStarts
    <3> QED
      BY <2>2, <3>1, <3>2
  <2>7. IF thread[t].target = "none"
        THEN Service!Answer(t, "key")
        ELSE Requests' = [Requests EXCEPT ![t].phase = "target"]
    BY <1>2, <1>9, RequestAnswered, RequestServed DEF Valid, TypeInv
  <2>8. Service!In(t, "upload") /\ Service!Key(t) = k
    BY <1>6, <2>2, <2>3, PhaseIs DEF Service!In, Service!Key
  <2>9. Service!Accept(t)
    BY <1>6, <2>6, <2>7, <2>8, SessionHad DEF Service!Accept
  <2> QED
    BY <2>9 DEF Service!Next
<1> QED
  BY <1>2, <1>7, <1>8, <1>9, ValidateSteps

(* A step of makeAndSendResourceFile that evicts nothing makes a target,   *)
(* is an answer, or is nothing for the client.                             *)
LEMMA MakeServes ==
    ASSUME Apart, TypeInv, ApartInv, NEW t \in Threads, MakeAndSend(t), Frames(t),
           Inert(t) \/ Makes(t)
    PROVE  [Service!Next]_(Service!vars)
<1> PICK k, g : k = Key(t) /\ g = thread[t].target
  OBVIOUS
<1>1. thread[t].pc # "idle" /\ OthersSame(t) /\ aborted' = aborted
  BY DEF Frames
<1>2. /\ k \in Keys
      /\ k \in Kept <=> Root(disk, k) /\ thread[t].pc \notin Uploading
      /\ k \in Kept' <=> Root(disk', k) /\ thread'[t].pc \notin Uploading
  BY KeptAfter
<1>3. Requests[t].phase = "target" /\ Requests[t].key = k /\ Requests[t].target = g
      /\ thread[t].pc \notin Uploading /\ thread[t].pc \in Serving
  BY <1>1, RequestIs, MakeSteps, PhaseIs
<1>4. Service!In(t, "target") /\ Service!Key(t) = k
  BY <1>3 DEF Service!In, Service!Key
<1>5. "idle" \notin Uploading
  BY DEF Uploading, Validating, Compiling
<1>6. CASE GoesOn(t, Serving)
  <2>1. Requests' = Requests
    <3>1. Phase(t)' = Phase(t)
      BY <1>3, <1>6, PhaseIs DEF GoesOn
    <3> QED
      BY <1>1, <1>6, <3>1, RequestsStay DEF GoesOn
  <2>2. thread'[t].pc \notin Uploading
    BY <1>6, PhaseIs DEF GoesOn
  <2>3. CASE Inert(t)
    <3>1. KeptSessions' = KeptSessions
      BY <1>2, <1>3, <2>2, <2>3, SessionsStay DEF Inert
    <3> QED
      BY <2>1, <3>1 DEF Service!vars
  <2>4. CASE Makes(t)
    <3>1. k \in Kept /\ k \in Kept' /\ Built(disk', k) = Built(disk, k) \cup {g}
      BY <1>2, <1>3, <2>2, <2>4 DEF Makes
    <3>2. KeptSessions' = [KeptSessions EXCEPT ![k] = @ \cup {g}]
      BY <3>1, SessionGains
    <3>3. Service!Build(t)
      BY <1>3, <1>4, <2>1, <3>1, <3>2, SessionHad DEF Service!Build
    <3> QED
      BY <3>3 DEF Service!Next
  <2> QED
    BY <2>3, <2>4
<1>7. ASSUME NEW how, Done(t, how) PROVE KeptSessions' = KeptSessions
  <2>1. thread'[t].pc = "idle"
    BY <1>7, IsDone DEF TypeInv
  <2>2. Inert(t)
    BY <1>1, <2>1, GoneTo DEF Makes, TypeInv
  <2> QED
    BY <1>2, <1>3, <1>5, <2>1, <2>2, SessionsStay DEF Inert
<1>8. CASE Done(t, "file") /\ File(TargetDir(t), "binary") \in disk
  <2>1. g \in Asked /\ Tree(disk)
    BY <1>1 DEF TypeInv, ThreadType
  <2>2. File(TargetDir(t), "binary") = <<k, "targets", g, "binary">>
    BY FileOfTarget, Zenon DEF File, TargetDir
  <2>3. g \in Built(disk, k)
    BY <1>8, <2>1, <2>2 DEF Built
  <2>4. k \in Kept
    BY <1>2, <1>3, <2>1, <2>3, NoRoot
  <2>5. KeptSessions[k] = Built(disk, k)
    BY <2>4 DEF KeptSessions
  <2>6. Service!Answer(t, "file") /\ KeptSessions' = KeptSessions
    BY <1>7, <1>8, RequestAnswered DEF TypeInv
  <2>7. Service!Send(t)
    BY <1>3, <1>4, <2>3, <2>4, <2>5, <2>6, SessionHad DEF Service!Send
  <2> QED
    BY <2>7 DEF Service!Next
<1>9. CASE Done(t, "error")
  <2>1. Service!Answer(t, "error") /\ KeptSessions' = KeptSessions
    BY <1>7, <1>9, RequestAnswered DEF TypeInv
  <2>2. Service!Fail(t)
    BY <1>4, <2>1 DEF Service!Fail
  <2> QED
    BY <2>2 DEF Service!Next
<1> QED
  BY <1>1, <1>6, <1>8, <1>9, MakeSteps

LEMMA ReferServes ==
    ASSUME Apart, TypeInv, ApartInv, NEW t \in Threads, Refer(t)
    PROVE  [Service!Next]_(Service!vars)
<1>1. CASE Key(t) \in Elements(cache) \/ Len(cache) # MaxSize
  <2>1. Frames(t) /\ Inert(t)
    BY <1>1, ReferFrames
  <2> QED
    BY <2>1, MakeServes DEF MakeAndSend
<1>2. CASE Key(t) \notin Elements(cache) /\ Len(cache) = MaxSize
  <2>1. \A u \in Threads : u = t
    BY <1>2, ReferEvicts
  <2>2. PICK j \in Keys : j # Key(t) /\ LosesAll(disk, disk', j)
    BY <1>2, ReferEvicts
  <2>3. /\ thread[t].pc = "refer" /\ Goto(t, "target")
    BY DEF Refer, At
  <2>4. /\ thread'[t].pc = "target" /\ OthersSame(t)
        /\ thread'[t].key = thread[t].key /\ thread'[t].target = thread[t].target
        /\ thread'[t].answer = thread[t].answer
    BY <2>3, GoneTo DEF TypeInv
  <2>5. /\ Phase(t) = "target" /\ Phase(t)' = "target"
        /\ thread[t].pc \notin Uploading /\ thread'[t].pc \notin Uploading
    BY <2>3, <2>4, PhaseIs DEF Serving
  <2>6. Requests' = Requests
    BY <2>4, <2>5, RequestsStay
  <2>7. /\ \A i \in Keys : i \in Kept <=> Root(disk, i)
        /\ \A i \in Keys : i \in Kept' <=> Root(disk', i)
    BY <2>1, <2>5 DEF Kept, Found, Root
  <2>8. /\ ~Root(disk', j)
        /\ \A i \in Keys : i # j =>
             Root(disk', i) = Root(disk, i) /\ Built(disk', i) = Built(disk, i)
    BY <2>2 DEF LosesAll, SameOthers, Same
  <2>9. Kept \subseteq Keys /\ Kept' \subseteq Keys
    BY DEF Kept, Found
  <2>10. Kept' = Kept \ {j} /\ \A i \in Kept' : Built(disk', i) = Built(disk, i)
    BY <2>7, <2>8, <2>9
  <2>11. KeptSessions' = [i \in Kept' |-> Built(disk', i)]
    BY DEF KeptSessions
  <2>12. DOMAIN KeptSessions = Kept /\ \A i \in Kept : KeptSessions[i] = Built(disk, i)
    BY DEF KeptSessions
  <2>13. CASE j \in Kept
    <3>1. KeptSessions' = Service!WithoutSession(j)
      BY <2>10, <2>11, <2>12 DEF Service!WithoutSession
    <3>2. \A c \in Threads : ~Service!In(c, "idle") => Service!Key(c) # j
      BY <2>1, <2>2, RequestIs DEF Service!Key
    <3>3. Service!Evict
      BY <2>6, <2>12, <2>13, <3>1, <3>2 DEF Service!Evict
    <3> QED
      BY <3>3 DEF Service!Next
  <2>14. CASE j \notin Kept
    <3>1. KeptSessions' = KeptSessions
      BY <2>10, <2>11, <2>14 DEF KeptSessions
    <3> QED
      BY <2>6, <3>1 DEF Service!vars
  <2> QED
    BY <2>13, <2>14
<1> QED
  BY <1>1, <1>2

LEMMA RequestServes ==
    ASSUME TypeInv, NEW t \in Threads, Post(t) \/ Get(t)
    PROVE  [Service!Next]_(Service!vars)
<1>1. At(t, "idle") /\ disk' = disk
  BY DEF Post, Get
<1>2. thread[t].pc = "idle" /\ "idle" \notin Uploading /\ "session" \notin Uploading
      /\ "refer" \notin Uploading
  BY <1>1 DEF At, Uploading, Validating, Compiling
<1>3. Service!In(t, "idle")
  BY <1>2, RequestIs DEF Service!In, Phase
\* What is started is what the service starts.
<1>4. ASSUME NEW location \in {"session", "refer"}, NEW k \in KeysOf[t], NEW n,
             NEW g \in Asked, Start(t, location, k, n, g)
      PROVE  /\ OthersSame(t) /\ thread'[t].pc = location /\ k \in Keys
             /\ Service!Begin(t, IF location = "session" THEN "upload" ELSE "target", k, g)
  <2>1. /\ OthersSame(t) /\ thread'[t].pc = location /\ thread'[t].key = k
        /\ thread'[t].target = g /\ thread'[t].answer = "none"
    BY <1>4, IsStarted DEF TypeInv
  <2>2. Phase(t)' = IF location = "session" THEN "upload" ELSE "target"
    BY <1>4, <2>1, PhaseIs DEF Serving
  <2>3. Request(t)' = [phase |-> IF location = "session" THEN "upload" ELSE "target",
                       key |-> k, target |-> g, answer |-> "none"]
    BY <2>1, <2>2 DEF Request, Key
  <2>4. k \in Keys
    BY ThreadAssumption
  <2> QED
    BY <2>1, <2>3, <2>4, RequestsAfter DEF Service!Begin
<1>5. ASSUME OthersSame(t), thread'[t].pc \in {"session", "refer"}
      PROVE  KeptSessions' = KeptSessions
  <2>1. \A u \in Threads : /\ thread'[u].pc \in Uploading <=> thread[u].pc \in Uploading
                           /\ thread[u].pc \in Uploading => thread'[u].key = thread[u].key
    BY <1>2, <1>5 DEF OthersSame
  <2>2. Kept' = Kept
    BY <1>1, <2>1 DEF Kept, Found, Key
  <2> QED
    BY <1>1, <2>2 DEF KeptSessions
<1>6. CASE Post(t)
  <2>1. PICK k \in KeysOf[t], n \in DspNames \cup ZipNames,
             g \in Targets \cup Others \cup {"none"} : Start(t, "session", k, n, g)
    BY <1>6 DEF Post
  <2>2. /\ OthersSame(t) /\ thread'[t].pc = "session" /\ k \in Keys
        /\ Service!Begin(t, "upload", k, g)
    BY <1>4, <2>1 DEF Asked
  <2>3. Service!Upload(t)
    BY <1>3, <1>5, <2>2 DEF Service!Upload, Asked
  <2> QED
    BY <2>3 DEF Service!Next
<1>7. CASE Get(t)
  <2>1. PICK k \in KeysOf[t], g \in Targets \cup Others : Start(t, "refer", k, "", g)
    BY <1>7, Zenon DEF Get
  <2>2. /\ OthersSame(t) /\ thread'[t].pc = "refer" /\ k \in Keys
        /\ Service!Begin(t, "target", k, g)
    <3>1. g \in Asked
      BY DEF Asked
    <3> QED
      BY <1>4, <2>1, <3>1, Zenon
  <2>3. Service!Ask(t)
    BY <1>3, <1>5, <2>2 DEF Service!Ask
  <2> QED
    BY <2>3 DEF Service!Next
<1> QED
  BY <1>6, <1>7

(* Nothing on the disk, and no request.                                    *)
LEMMA NothingServed ==
    ASSUME disk = {}, thread = [t \in Threads |-> Idle]
    PROVE  KeptSessions = [k \in {} |-> {}] /\ Requests = [t \in Threads |-> Service!Idle]
<1> PICK empty : empty = ""
  OBVIOUS
<1>1. Kept = {}
  BY DEF Kept, Found
<1>2. ASSUME NEW t \in Threads PROVE Request(t) = Service!Idle
  <2>1. thread[t] = [pc |-> "idle", key |-> empty, name |-> empty, target |-> "none",
                     main |-> empty, answer |-> "none"]
    BY Zenon DEF Idle
  <2>2. /\ thread[t].pc = "idle" /\ thread[t].key = empty
        /\ thread[t].target = "none" /\ thread[t].answer = "none"
    BY ONLY <2>1
  <2>3. Phase(t) = "idle" /\ Key(t) = empty
    BY <2>2, Zenon DEF Phase, Key
  <2> QED
    BY <2>2, <2>3, Zenon DEF Request, Service!Idle
<1> QED
  BY <1>1, <1>2 DEF KeptSessions, Requests

LEMMA NothingServedNext ==
    ASSUME disk' = {}, thread' = [t \in Threads |-> Idle]
    PROVE  KeptSessions' = [k \in {} |-> {}] /\ Requests' = [t \in Threads |-> Service!Idle]
<1> PICK empty : empty = ""
  OBVIOUS
<1>1. Kept' = {}
  BY DEF Kept, Found
<1>2. ASSUME NEW t \in Threads PROVE Request(t)' = Service!Idle
  <2>1. thread'[t] = [pc |-> "idle", key |-> empty, name |-> empty, target |-> "none",
                      main |-> empty, answer |-> "none"]
    BY Zenon DEF Idle
  <2>2. /\ thread'[t].pc = "idle" /\ thread'[t].key = empty
        /\ thread'[t].target = "none" /\ thread'[t].answer = "none"
    BY ONLY <2>1
  <2>3. Phase(t)' = "idle" /\ Key(t)' = empty
    BY <2>2, Zenon DEF Phase, Key
  <2> QED
    BY <2>2, <2>3, Zenon DEF Request, Service!Idle
<1> QED
  BY <1>1, <1>2 DEF KeptSessions, Requests

LEMMA NextServes == Apart /\ TypeInv /\ ApartInv /\ [Next]_vars => [Service!Next]_(Service!vars)
<1> SUFFICES ASSUME Apart, TypeInv, ApartInv, [Next]_vars PROVE [Service!Next]_(Service!vars)
  OBVIOUS
<1>1. CASE \E t \in Threads : Post(t) \/ Get(t)
  BY <1>1, RequestServes
<1>2. CASE \E t \in Threads : Validate(t)
  BY <1>2, ValidateServes
<1>3. CASE \E t \in Threads : MakeAndSend(t)
  <2> PICK t \in Threads : MakeAndSend(t)
    BY <1>3
  <2>1. CASE Refer(t)
    BY <2>1, ReferServes
  <2>2. CASE ~Refer(t)
    BY <2>2, MakeAndSendFrames, MakeServes
  <2> QED
    BY <2>1, <2>2
<1>4. CASE Restart
  <2>1. Service!Restart
    BY <1>4, NothingServedNext, Zenon DEF Restart, Service!Restart
  <2> QED
    BY <2>1 DEF Service!Next
<1>5. CASE UNCHANGED vars
  <2>1. disk' = disk /\ thread' = thread
    BY <1>5 DEF vars
  <2>2. Kept' = Kept
    BY <2>1 DEF Kept, Found, Key
  <2>3. KeptSessions' = KeptSessions
    BY <2>1, <2>2 DEF KeptSessions
  <2>4. Requests' = Requests
    BY <2>1 DEF Requests, Request, Phase, Key
  <2> QED
    BY <2>3, <2>4 DEF Service!vars
<1> QED
  BY <1>1, <1>2, <1>3, <1>4, <1>5 DEF Next

(* Requests that are apart are served as SessionService says: an upload    *)
(* that is accepted has a session until it is evicted or the server starts *)
(* again, a request changes no session but its own and evicts none that    *)
(* another is busy with, only a new content is refused, and what is sent   *)
(* has been made in the session it was asked of.                           *)
THEOREM SessionsServe == ASSUME Apart PROVE Spec => ServesClients
<1>1. Init => Service!Init
  BY NothingServed, Zenon DEF Init, Service!Init
<1>2. TypeInv /\ ApartInv /\ [Next]_vars => [Service!Next]_(Service!vars)
  BY NextServes
<1> QED
  BY <1>1, <1>2, TypeInvHolds, ApartInvHolds, PTL DEF Spec, ServesClients, Service!Spec

=============================================================================
