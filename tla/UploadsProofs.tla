---------------------------- MODULE UploadsProofs ----------------------------
(***************************************************************************)
(* Proofs about Uploads, for any number of connections, of clients         *)
(* admitted and of names, and for any width of the counter.                *)
(***************************************************************************)
EXTENDS Uploads, FiniteSetTheorems, TLAPS

Up == {c \in Conns : pc[c] \in Uploading}
InWindow == {c \in Conns : pc[c] \in Window}

(* While no two threads met on the counter, at most one is between reading *)
(* and writing it, what it read is still true, and there is room for it.   *)
CounterInv ==
    ~overlapped =>
        /\ nr_of_uploading_clients = Cardinality(Up)
        /\ Cardinality(Up) <= MaxClients
        /\ \A c, d \in InWindow : c = d
        /\ \A c \in Conns : pc[c] \in {"incrementing", "decrementing"} =>
               reg[c] = nr_of_uploading_clients
        /\ \A c \in Conns : pc[c] \in {"admitted", "incrementing"} =>
               nr_of_uploading_clients < MaxClients

(* The answer code is the one of a piece that was accepted, whenever the   *)
(* request goes on.                                                        *)
CodesInv ==
    \A c \in Conns :
        /\ pc[c] \in {"receiving", "validating"} => answercode[c] = 200
        /\ answer[c] \notin {403, 500}

(* A file is open only under a name that was drawn, and what was written   *)
(* before the end of the body went to an open file.                        *)
OpenInv ==
    \A c \in Conns :
        /\ pc[c] \in {"idle", "admitted", "incrementing"} =>
               tmppath[c] = NoName /\ fp[c] = "closed" /\ uploadsize[c] = 0
        /\ fp[c] = "closed" => buffer[c] = 0
        /\ pc[c] \in {"opening", "creating", "writing"} \/ fp[c] # "closed" =>
               tmppath[c] # NoName
        /\ pc[c] = "creating" => fp[c] = "closed"
        /\ pc[c] = "writing" => fp[c] # "closed"
        /\ pc[c] \in {"receiving", "opening", "creating"} /\ fp[c] = "closed" =>
               uploadsize[c] = 0

(* The file n holds k pieces of c, and nothing else.                       *)
Holds(n, c, k) == content[n] = [d \in Conns |-> IF d = c THEN k ELSE 0]

(* Nobody else has the name of c, and its file is the one c opened.        *)
Sole(c) ==
    LET n == tmppath[c] IN
    /\ \A d \in Conns : d # c /\ n # NoName => tmppath[d] # n
    /\ fp[c] # "unlinked"
    /\ pc[c] = "creating" => ~HasFile(n)
    /\ fp[c] = "open" => HasFile(n) /\ Holds(n, c, uploadsize[c] - buffer[c])
    /\ pc[c] = "validating" /\ uploadsize[c] > 0 =>
           HasFile(n) /\ Holds(n, c, uploadsize[c] - lost[c])

SoleInv == \A c \in Conns : alone[c] => Sole(c)

Inv == TypeOK /\ CounterInv /\ TmpOwned /\ CodesInv /\ OpenInv /\ SoleInv

-----------------------------------------------------------------------------
(* A remainder that needs no division.                                     *)
LEMMA SmallMod ==
    ASSUME NEW m \in Nat \ {0}, NEW a \in 0 .. m - 1
    PROVE  a % m = a /\ (a + m) % m = a
OBVIOUS

(* A set with at most one element.                                         *)
LEMMA AtMostOne ==
    ASSUME NEW S, IsFiniteSet(S), Cardinality(S) <= 1, NEW x \in S, NEW y \in S
    PROVE  x = y
<1>1. IsFiniteSet(S \ {x}) /\ Cardinality(S \ {x}) = Cardinality(S) - 1
  BY FS_RemoveElement
<1>2. Cardinality(S) \in Nat /\ Cardinality(S \ {x}) \in Nat
  BY <1>1, FS_CardinalityType
<1>3. Cardinality(S \ {x}) = 0
  BY <1>1, <1>2
<1>4. S \ {x} = {}
  BY <1>1, <1>3, FS_EmptySet
<1> QED
  BY <1>4

(* The sets of connections are finite.                                     *)
LEMMA FiniteConns ==
    /\ IsFiniteSet(Up) /\ Cardinality(Up) \in Nat
    /\ IsFiniteSet(InWindow) /\ IsFiniteSet(InWindow')
<1>1. IsFiniteSet(Conns) /\ Up \subseteq Conns /\ InWindow \subseteq Conns
      /\ InWindow' \subseteq Conns
  BY CounterAssumption DEF Up, InWindow
<1> QED
  BY <1>1, FS_Subset, FS_CardinalityType

(* Every move of a thread says whether it has met another one.             *)
LEMMA MoveTellsOverlap ==
    ASSUME NEW c \in Conns, NEW from, NEW to, Goto(c, from, to), ~overlapped'
    PROVE  ~overlapped /\ \A d, e \in InWindow' : d = e
<1>1. ~overlapped /\ ~(Cardinality(InWindow') > 1)
  BY DEF Goto, InWindow
<1>2. IsFiniteSet(InWindow') /\ Cardinality(InWindow') \in Nat
  BY FiniteConns, FS_CardinalityType
<1>3. Cardinality(InWindow') <= 1
  BY <1>1, <1>2
<1> QED
  BY <1>1, <1>2, <1>3, AtMostOne

(* A move that leaves the counter alone.                                   *)
LEMMA MoveKeepsCounter ==
    ASSUME TypeOK, CounterInv, NEW c \in Conns, NEW from, NEW to,
           Goto(c, from, to),
           UNCHANGED nr_of_uploading_clients,
           \A d \in Conns : d # c => reg'[d] = reg[d],
           from \in Uploading <=> to \in Uploading,
           to \in {"incrementing", "decrementing"} =>
               reg'[c] = nr_of_uploading_clients,
           ~overlapped /\ to \in {"admitted", "incrementing"} =>
               nr_of_uploading_clients < MaxClients
    PROVE  CounterInv'
<1> SUFFICES ASSUME ~overlapped'
             PROVE  CounterInv'
  BY DEF CounterInv
<1>1. ~overlapped /\ \A d, e \in InWindow' : d = e
  BY MoveTellsOverlap
<1>2. pc[c] = from /\ pc' = [pc EXCEPT ![c] = to] /\ pc \in [Conns -> Locations]
  BY DEF Goto, TypeOK
<1>3. pc'[c] = to /\ \A d \in Conns : d # c => pc'[d] = pc[d]
  BY <1>2
<1>4. Up' = Up
  BY <1>2, <1>3 DEF Up
<1>5. \A d \in Conns : pc'[d] \in {"incrementing", "decrementing"} =>
          reg'[d] = nr_of_uploading_clients
  BY <1>1, <1>3 DEF CounterInv
<1>6. \A d \in Conns : pc'[d] \in {"admitted", "incrementing"} =>
          nr_of_uploading_clients < MaxClients
  BY <1>1, <1>3 DEF CounterInv
<1> QED
  BY <1>1, <1>4, <1>5, <1>6 DEF CounterInv

(* The increment: the thread that read the counter is alone to change it.  *)
LEMMA IncrementKeepsCounter ==
    ASSUME TypeOK, CounterInv, NEW c \in Conns, StoreIncrement(c)
    PROVE  CounterInv' /\ nr_of_uploading_clients' \in 0 .. CounterMod - 1
<1> DEFINE n == nr_of_uploading_clients
<1>1. /\ CounterMod \in Nat /\ MaxClients \in 1 .. CounterMod - 1
      /\ reg[c] \in 0 .. CounterMod - 1 /\ n \in 0 .. CounterMod - 1
  BY CounterAssumption DEF TypeOK
<1>2. n' = (reg[c] + 1) % CounterMod /\ Goto(c, "incrementing", "receiving")
  BY DEF StoreIncrement
<1>3. n' \in 0 .. CounterMod - 1
  <2>1. CASE reg[c] + 1 < CounterMod
    BY <1>1, <1>2, <2>1, SmallMod
  <2>2. CASE reg[c] + 1 = CounterMod
    <3>1. (0 + CounterMod) % CounterMod = 0 % CounterMod /\ 0 % CounterMod = 0
      BY <1>1, SmallMod
    <3> QED
      BY <1>1, <1>2, <2>2, <3>1
  <2> QED
    BY <1>1, <2>1, <2>2
<1>4. ASSUME ~overlapped' PROVE CounterInv'
  <2>1. ~overlapped /\ \A d, e \in InWindow' : d = e
    BY <1>2, <1>4, MoveTellsOverlap
  <2>2. pc[c] = "incrementing" /\ pc' = [pc EXCEPT ![c] = "receiving"]
        /\ pc \in [Conns -> Locations]
    BY <1>2 DEF Goto, TypeOK
  <2>3. c \in InWindow /\ \A d \in Conns : d # c => pc[d] \notin Window
    BY <2>1, <2>2 DEF CounterInv, InWindow, Window
  <2>4. reg[c] = n /\ n < MaxClients /\ n = Cardinality(Up)
    BY <2>1, <2>2 DEF CounterInv
  <2>5. n' = n + 1
    BY <1>1, <1>2, <2>4, SmallMod
  <2>6. Up' = Up \cup {c} /\ c \notin Up
    BY <2>2 DEF Up, Uploading
  <2>7. Cardinality(Up') = Cardinality(Up) + 1
    BY <2>6, FiniteConns, FS_AddElement
  <2>8. \A d \in Conns : pc'[d] \notin Window
    BY <2>2, <2>3 DEF Window
  <2> QED
    BY <1>1, <2>1, <2>4, <2>5, <2>7, <2>8 DEF CounterInv, Window
<1> QED
  BY <1>3, <1>4 DEF CounterInv

(* The decrement.                                                          *)
LEMMA DecrementKeepsCounter ==
    ASSUME TypeOK, CounterInv, NEW c \in Conns, StoreDecrement(c)
    PROVE  CounterInv' /\ nr_of_uploading_clients' \in 0 .. CounterMod - 1
<1> DEFINE n == nr_of_uploading_clients
<1>1. /\ CounterMod \in Nat /\ MaxClients \in 1 .. CounterMod - 1
      /\ reg[c] \in 0 .. CounterMod - 1 /\ n \in 0 .. CounterMod - 1
  BY CounterAssumption DEF TypeOK
<1>2. n' = (reg[c] + CounterMod - 1) % CounterMod /\ Goto(c, "decrementing", "removing")
  BY DEF StoreDecrement
<1>3. /\ reg[c] > 0 => n' = reg[c] - 1
      /\ n' \in 0 .. CounterMod - 1
  <2>1. CASE reg[c] > 0
    <3>1. reg[c] - 1 \in 0 .. CounterMod - 1 /\ CounterMod \in Nat \ {0}
      BY <1>1, <2>1
    <3>2. ((reg[c] - 1) + CounterMod) % CounterMod = (reg[c] - 1) % CounterMod
          /\ (reg[c] - 1) % CounterMod = reg[c] - 1
      BY <3>1, SmallMod
    <3>3. (reg[c] - 1) + CounterMod = reg[c] + CounterMod - 1
      BY <1>1
    <3> QED
      BY <1>1, <1>2, <2>1, <3>2, <3>3
  <2>2. CASE reg[c] = 0
    <3>1. (CounterMod - 1) % CounterMod = CounterMod - 1
      BY <1>1, SmallMod
    <3> QED
      BY <1>1, <1>2, <2>2, <3>1
  <2> QED
    BY <1>1, <2>1, <2>2
<1>4. ASSUME ~overlapped' PROVE CounterInv'
  <2>1. ~overlapped /\ \A d, e \in InWindow' : d = e
    BY <1>2, <1>4, MoveTellsOverlap
  <2>2. pc[c] = "decrementing" /\ pc' = [pc EXCEPT ![c] = "removing"]
        /\ pc \in [Conns -> Locations]
    BY <1>2 DEF Goto, TypeOK
  <2>3. c \in InWindow /\ \A d \in Conns : d # c => pc[d] \notin Window
    BY <2>1, <2>2 DEF CounterInv, InWindow, Window
  <2>4. reg[c] = n /\ n <= MaxClients /\ n = Cardinality(Up)
    BY <2>1, <2>2 DEF CounterInv
  <2>5. Up' = Up \ {c} /\ c \in Up
    BY <2>2 DEF Up, Uploading
  <2>6. Cardinality(Up') = Cardinality(Up) - 1 /\ Cardinality(Up') \in Nat
    BY <2>5, FiniteConns, FS_RemoveElement, FS_CardinalityType
  <2>7. n' = n - 1
    BY <1>1, <1>3, <2>4, <2>6
  <2>8. \A d \in Conns : pc'[d] \notin Window
    BY <2>2, <2>3 DEF Window
  <2> QED
    BY <1>1, <2>1, <2>4, <2>6, <2>7, <2>8 DEF CounterInv, Window
<1> QED
  BY <1>3, <1>4 DEF CounterInv

-----------------------------------------------------------------------------
(* Where a move leads.                                                     *)
LEMMA MoveMoves ==
    ASSUME TypeOK, NEW c \in Conns, NEW from, NEW to, Goto(c, from, to)
    PROVE  /\ pc[c] = from /\ pc'[c] = to
           /\ \A d \in Conns : d # c => pc'[d] = pc[d]
           /\ to \in Locations => pc' \in [Conns -> Locations]
           /\ overlapped' \in BOOLEAN
<1>1. /\ pc[c] = from /\ pc' = [pc EXCEPT ![c] = to] /\ pc \in [Conns -> Locations]
      /\ overlapped \in BOOLEAN
  BY DEF Goto, TypeOK
<1>2. overlapped' \in BOOLEAN
  BY <1>1 DEF Goto
<1> QED
  BY <1>1, <1>2

(* A flush adds to what the file holds.                                    *)
LEMMA FlushAdds ==
    ASSUME TypeOK, NEW c \in Conns, NEW k \in Nat, content' = Flushed(c, k)
    PROVE  /\ DOMAIN content' = DOMAIN content
           /\ \A n \in DOMAIN content : content'[n] \in [Conns -> Nat]
           /\ \A n \in DOMAIN content :
                  fp[c] # "open" \/ n # tmppath[c] => content'[n] = content[n]
           /\ fp[c] = "open" /\ HasFile(tmppath[c]) =>
                  content'[tmppath[c]] =
                      [content[tmppath[c]] EXCEPT ![c] = content[tmppath[c]][c] + k]
<1>1. CASE fp[c] # "open"
  <2>1. content' = content
    BY <1>1 DEF Flushed
  <2> QED
    BY <1>1, <2>1 DEF TypeOK
<1>2. CASE fp[c] = "open"
  <2> DEFINE n == tmppath[c]
             more == [content[n] EXCEPT ![c] = content[n][c] + k]
  <2>1. content' = [content EXCEPT ![n] = more]
    BY <1>2 DEF Flushed
  <2>2. n \in DOMAIN content => more \in [Conns -> Nat]
    BY DEF TypeOK
  <2>3. \A m \in DOMAIN content : content[m] \in [Conns -> Nat]
    BY DEF TypeOK
  <2>4. /\ DOMAIN content' = DOMAIN content
        /\ \A m \in DOMAIN content : m # n => content'[m] = content[m]
        /\ n \in DOMAIN content => content'[n] = more
    BY <2>1
  <2>5. \A m \in DOMAIN content : content'[m] \in [Conns -> Nat]
    BY <2>2, <2>3, <2>4, Zenon
  <2> QED
    BY <1>2, <2>4, <2>5 DEF HasFile
<1> QED
  BY <1>1, <1>2

(* Every step keeps the types.                                             *)
LEMMA StepKeepsTypes ==
    ASSUME TypeOK, CounterInv, Next
    PROVE  TypeOK'
<1> USE DEF TypeOK, SetCode, data, counter, Locations, Uploading
<1>1. ASSUME NEW c \in Conns, Refused(c) PROVE TypeOK'
  BY <1>1, MoveMoves DEF Refused
<1>2. ASSUME NEW c \in Conns, Admitted(c) PROVE TypeOK'
  BY <1>2, MoveMoves DEF Admitted
<1>3. ASSUME NEW c \in Conns, NoPostProcessor(c) PROVE TypeOK'
  BY <1>3, MoveMoves DEF NoPostProcessor
<1>4. ASSUME NEW c \in Conns, LoadToIncrement(c) PROVE TypeOK'
  BY <1>4, MoveMoves DEF LoadToIncrement
<1>5. ASSUME NEW c \in Conns, StoreIncrement(c) PROVE TypeOK'
  <2>1. /\ nr_of_uploading_clients' \in 0 .. CounterMod - 1
        /\ reg' \in [Conns -> 0 .. CounterMod - 1]
        /\ UNCHANGED <<tmppath, fp, buffer, dirs, content, lost, alone, leftover, answer>>
    BY <1>5, IncrementKeepsCounter, CounterAssumption DEF StoreIncrement
  <2>2. /\ pc' \in [Conns -> Locations] /\ overlapped' \in BOOLEAN
        /\ answercode' \in [Conns -> {200, 400, 403, 500}]
        /\ uploadsize' \in [Conns -> 0 .. MaxUploadSize]
    BY <1>5, MoveMoves, SizeAssumption DEF StoreIncrement
  <2> QED
    BY <2>1, <2>2
<1>6. ASSUME NEW c \in Conns, InvalidField(c) PROVE TypeOK'
  BY <1>6, MoveMoves DEF InvalidField
<1>7. ASSUME NEW c \in Conns, NextPiece(c) PROVE TypeOK'
  BY <1>7, MoveMoves DEF NextPiece
<1>8. ASSUME NEW c \in Conns, NotAFile(c) PROVE TypeOK'
  BY <1>8, MoveMoves DEF NotAFile
<1>9. ASSUME NEW c \in Conns, FileExists(c) PROVE TypeOK'
  BY <1>9, MoveMoves DEF FileExists
<1>10. ASSUME NEW c \in Conns, NoFileYet(c) PROVE TypeOK'
  BY <1>10, MoveMoves DEF NoFileYet
<1>11. ASSUME NEW c \in Conns, AlreadyOpen(c) PROVE TypeOK'
  BY <1>11, MoveMoves DEF AlreadyOpen
<1>12. ASSUME NEW c \in Conns, CreateFile(c) PROVE TypeOK'
  BY <1>12, MoveMoves DEF CreateFile
<1>13. ASSUME NEW c \in Conns, CannotCreate(c) PROVE TypeOK'
  BY <1>13, MoveMoves DEF CannotCreate
<1>14. ASSUME NEW c \in Conns, Write(c) PROVE TypeOK'
  <2>1. PICK size \in {0, 1} :
            uploadsize[c] + size <= MaxUploadSize /\ Written(c, size)
    BY <1>14 DEF Write
  <2>2. uploadsize' \in [Conns -> 0 .. MaxUploadSize]
    BY <2>1, SizeAssumption DEF Written
  <2>3. PICK k \in 0 .. buffer[c] + size :
            /\ content' = Flushed(c, k)
            /\ buffer' = [buffer EXCEPT ![c] = buffer[c] + size - k]
    BY <2>1, Zenon DEF Written
  <2>4. buffer[c] \in Nat /\ k \in Nat /\ buffer[c] + size - k \in Nat
    BY <2>3
  <2>5. buffer' \in [Conns -> Nat]
    BY <2>3, <2>4
  <2>6. /\ DOMAIN content' = DOMAIN content
        /\ \A n \in DOMAIN content : content'[n] \in [Conns -> Nat]
    BY <2>3, <2>4, FlushAdds
  <2>7. /\ pc' \in [Conns -> Locations] /\ overlapped' \in BOOLEAN
        /\ answercode' \in [Conns -> {200, 400, 403, 500}]
        /\ UNCHANGED <<counter, tmppath, fp, dirs, lost, alone, leftover, answer>>
    BY <1>14, MoveMoves DEF Write
  <2> QED
    BY <2>2, <2>5, <2>6, <2>7
<1>15. ASSUME NEW c \in Conns, CannotWrite(c) PROVE TypeOK'
  BY <1>15, MoveMoves DEF CannotWrite
<1>16. ASSUME NEW c \in Conns, EndOfData(c) PROVE TypeOK'
  <2>1. PICK k \in 0 .. buffer[c] :
            /\ content' = Flushed(c, k)
            /\ lost' = [lost EXCEPT ![c] = buffer[c] - k]
    BY <1>16, Zenon DEF EndOfData
  <2>2. k \in Nat /\ buffer[c] - k \in Nat /\ lost' \in [Conns -> Nat]
    BY <2>1
  <2>3. /\ DOMAIN content' = DOMAIN content
        /\ \A n \in DOMAIN content : content'[n] \in [Conns -> Nat]
    BY <2>1, <2>2, FlushAdds
  <2>4. /\ pc' \in [Conns -> Locations] /\ overlapped' \in BOOLEAN
        /\ fp' \in [Conns -> {"closed", "open", "unlinked"}]
        /\ buffer' \in [Conns -> Nat]
        /\ UNCHANGED <<counter, tmppath, uploadsize, answercode, dirs, alone, leftover,
                       answer>>
    BY <1>16, MoveMoves DEF EndOfData
  <2> QED
    BY <2>2, <2>3, <2>4
<1>17. ASSUME NEW c \in Conns, Answer(c) PROVE TypeOK'
  BY <1>17, MoveMoves DEF Answer
<1>18. ASSUME NEW c \in Conns, Disconnect(c) PROVE TypeOK'
  BY <1>18, MoveMoves DEF Disconnect
<1>19. ASSUME NEW c \in Conns, AnswerSent(c) PROVE TypeOK'
  BY <1>19, MoveMoves DEF AnswerSent
<1>20. ASSUME NEW c \in Conns, LoadToDecrement(c) PROVE TypeOK'
  BY <1>20, MoveMoves DEF LoadToDecrement
<1>21. ASSUME NEW c \in Conns, StoreDecrement(c) PROVE TypeOK'
  <2>1. reg' \in [Conns -> 0 .. CounterMod - 1]
    BY <1>21, CounterAssumption DEF StoreDecrement
  <2>2. nr_of_uploading_clients' \in 0 .. CounterMod - 1
    BY <1>21, DecrementKeepsCounter
  <2>3. /\ pc' \in [Conns -> Locations] /\ overlapped' \in BOOLEAN
        /\ UNCHANGED <<data, answer>>
    BY <1>21, MoveMoves DEF StoreDecrement
  <2> QED
    BY <2>1, <2>2, <2>3
<1>22. ASSUME NEW c \in Conns, RemoveUpload(c) PROVE TypeOK'
  <2>1. /\ UNCHANGED <<counter, answer>>
        /\ buffer' \in [Conns -> Nat] /\ lost' \in [Conns -> Nat]
        /\ tmppath' \in [Conns -> TmpNames \cup {NoName}]
        /\ alone' \in [Conns -> BOOLEAN]
        /\ uploadsize' \in [Conns -> 0 .. MaxUploadSize]
        /\ answercode' \in [Conns -> {200, 400, 403, 500}]
    BY <1>22, SizeAssumption DEF RemoveUpload
  <2>2. fp' \in [Conns -> {"closed", "open", "unlinked"}]
    BY <1>22 DEF RemoveUpload
  <2>3. /\ dirs' \subseteq TmpNames /\ leftover' \subseteq dirs'
        /\ DOMAIN content' \subseteq dirs'
        /\ \A n \in DOMAIN content' : content'[n] \in [Conns -> Nat]
    <3>1. CASE content' = Flushed(c, buffer[c]) /\ dirs' = dirs
      <4>1. buffer[c] \in Nat
        OBVIOUS
      <4>2. /\ DOMAIN content' = DOMAIN content
            /\ \A n \in DOMAIN content : content'[n] \in [Conns -> Nat]
        BY <3>1, <4>1, FlushAdds
      <4>3. leftover' \subseteq dirs'
        BY <1>22 DEF RemoveUpload
      <4> QED
        BY <3>1, <4>2, <4>3
    <3>2. CASE content' # Flushed(c, buffer[c]) \/ dirs' # dirs
      BY <1>22, <3>2 DEF RemoveUpload
    <3> QED
      BY <3>1, <3>2
  <2>4. pc' \in [Conns -> Locations] /\ overlapped' \in BOOLEAN
    BY <1>22, MoveMoves DEF RemoveUpload
  <2> QED
    BY <2>1, <2>2, <2>3, <2>4
<1>23. ASSUME NEW c \in Conns, NEW n \in TmpNames, FirstPiece(c, n) PROVE TypeOK'
  <2>1. alone' \in [Conns -> BOOLEAN]
    BY <1>23, Zenon DEF FirstPiece, Draw
  <2> QED
    BY <1>23, <2>1, MoveMoves DEF FirstPiece, Draw
<1>24. ASSUME NEW c \in Conns, NEW n \in TmpNames, NoDirectory(c, n) PROVE TypeOK'
  <2>1. alone' \in [Conns -> BOOLEAN]
    BY <1>24, Zenon DEF NoDirectory, Draw
  <2> QED
    BY <1>24, <2>1, MoveMoves DEF NoDirectory, Draw
<1>25. CASE Restart
  <2>1. dirs' \subseteq dirs
    BY <1>25 DEF Restart
  <2>2. /\ DOMAIN content' \subseteq dirs'
        /\ \A n \in DOMAIN content' : content'[n] \in [Conns -> Nat]
    BY <1>25 DEF Restart
  <2>3. 0 \in 0 .. CounterMod - 1 /\ 0 \in 0 .. MaxUploadSize
    BY CounterAssumption, SizeAssumption
  <2> QED
    BY ZenonT(40), <1>25, <2>1, <2>2, <2>3 DEF Restart
<1> QED
  BY <1>1, <1>2, <1>3, <1>4, <1>5, <1>6, <1>7, <1>8, <1>9, <1>10, <1>11, <1>12,
     <1>13, <1>14, <1>15, <1>16, <1>17, <1>18, <1>19, <1>20, <1>21, <1>22, <1>23, <1>25, <1>24
  DEF Next, Headers, Server, Piece, Finish

(* Every step keeps the counter exact, if no two threads met.            *)
LEMMA StepKeepsCounter ==
    ASSUME TypeOK, CounterInv, Next
    PROVE  CounterInv'
<1> USE DEF Uploading, data, counter
<1>1. ASSUME NEW c \in Conns, Refused(c) PROVE CounterInv'
  BY <1>1, MoveKeepsCounter DEF Refused
<1>2. ASSUME NEW c \in Conns, Admitted(c) PROVE CounterInv'
  BY <1>2, MoveKeepsCounter DEF Admitted
<1>3. ASSUME NEW c \in Conns, NoPostProcessor(c) PROVE CounterInv'
  BY <1>3, MoveKeepsCounter DEF NoPostProcessor
<1>4. ASSUME NEW c \in Conns, LoadToIncrement(c) PROVE CounterInv'
  <2>1. ~overlapped => nr_of_uploading_clients < MaxClients
    BY <1>4 DEF LoadToIncrement, Goto, CounterInv
  <2> QED
    BY <1>4, <2>1, MoveKeepsCounter DEF LoadToIncrement, TypeOK
<1>5. ASSUME NEW c \in Conns, StoreIncrement(c) PROVE CounterInv'
  BY <1>5, IncrementKeepsCounter
<1>6. ASSUME NEW c \in Conns, InvalidField(c) PROVE CounterInv'
  BY <1>6, MoveKeepsCounter DEF InvalidField
<1>7. ASSUME NEW c \in Conns, NextPiece(c) PROVE CounterInv'
  BY <1>7, MoveKeepsCounter DEF NextPiece
<1>8. ASSUME NEW c \in Conns, NotAFile(c) PROVE CounterInv'
  BY <1>8, MoveKeepsCounter DEF NotAFile
<1>9. ASSUME NEW c \in Conns, FileExists(c) PROVE CounterInv'
  BY <1>9, MoveKeepsCounter DEF FileExists
<1>10. ASSUME NEW c \in Conns, NoFileYet(c) PROVE CounterInv'
  BY <1>10, MoveKeepsCounter DEF NoFileYet
<1>11. ASSUME NEW c \in Conns, AlreadyOpen(c) PROVE CounterInv'
  BY <1>11, MoveKeepsCounter DEF AlreadyOpen
<1>12. ASSUME NEW c \in Conns, CreateFile(c) PROVE CounterInv'
  BY <1>12, MoveKeepsCounter DEF CreateFile
<1>13. ASSUME NEW c \in Conns, CannotCreate(c) PROVE CounterInv'
  BY <1>13, MoveKeepsCounter DEF CannotCreate
<1>14. ASSUME NEW c \in Conns, Write(c) PROVE CounterInv'
  BY <1>14, MoveKeepsCounter DEF Write
<1>15. ASSUME NEW c \in Conns, CannotWrite(c) PROVE CounterInv'
  BY <1>15, MoveKeepsCounter DEF CannotWrite
<1>16. ASSUME NEW c \in Conns, EndOfData(c) PROVE CounterInv'
  BY <1>16, MoveKeepsCounter DEF EndOfData
<1>17. ASSUME NEW c \in Conns, Answer(c) PROVE CounterInv'
  BY <1>17, MoveKeepsCounter DEF Answer
<1>18. ASSUME NEW c \in Conns, Disconnect(c) PROVE CounterInv'
  BY <1>18, MoveKeepsCounter DEF Disconnect
<1>19. ASSUME NEW c \in Conns, AnswerSent(c) PROVE CounterInv'
  BY <1>19, MoveKeepsCounter DEF AnswerSent
<1>20. ASSUME NEW c \in Conns, LoadToDecrement(c) PROVE CounterInv'
  BY <1>20, MoveKeepsCounter DEF LoadToDecrement, TypeOK
<1>21. ASSUME NEW c \in Conns, StoreDecrement(c) PROVE CounterInv'
  BY <1>21, DecrementKeepsCounter
<1>22. ASSUME NEW c \in Conns, RemoveUpload(c) PROVE CounterInv'
  BY <1>22, MoveKeepsCounter DEF RemoveUpload
<1>23. ASSUME NEW c \in Conns, NEW n \in TmpNames, FirstPiece(c, n) PROVE CounterInv'
  BY <1>23, MoveKeepsCounter DEF FirstPiece, Draw
<1>24. ASSUME NEW c \in Conns, NEW n \in TmpNames, NoDirectory(c, n) PROVE CounterInv'
  BY <1>24, MoveKeepsCounter DEF NoDirectory, Draw
<1>25. CASE Restart
  <2>1. nr_of_uploading_clients' = 0 /\ \A c \in Conns : pc'[c] = "idle"
    BY <1>25 DEF Restart
  <2>2. Up' = {} /\ InWindow' = {}
    BY <2>1 DEF Up, InWindow, Window
  <2>3. Cardinality(Up') = 0 /\ 0 <= MaxClients
    BY <2>2, FS_EmptySet, CounterAssumption
  <2> QED
    BY <2>1, <2>2, <2>3 DEF CounterInv
<1> QED
  BY <1>1, <1>2, <1>3, <1>4, <1>5, <1>6, <1>7, <1>8, <1>9, <1>10, <1>11, <1>12,
     <1>13, <1>14, <1>15, <1>16, <1>17, <1>18, <1>19, <1>20, <1>21, <1>22, <1>23, <1>25, <1>24
  DEF Next, Headers, Server, Piece, Finish

(* The steps that draw or drop a name.                                     *)
LEMMA NameSteps ==
    ASSUME Next
    PROVE  \/ UNCHANGED <<tmppath, dirs, leftover, alone>>
           \/ \E c \in Conns :
                  RemoveUpload(c) \/ \E n \in TmpNames : FirstPiece(c, n) \/ NoDirectory(c, n)
           \/ Restart
<1> DEFINE Same == UNCHANGED <<tmppath, dirs, leftover, alone>>
<1> USE DEF data
<1>1. ASSUME NEW c \in Conns, Headers(c) PROVE Same
  BY <1>1 DEF Headers, Refused, Admitted
<1>2. ASSUME NEW c \in Conns, Server(c) PROVE Same \/ RemoveUpload(c)
  <2>1. CASE NoPostProcessor(c) \/ LoadToIncrement(c) \/ StoreIncrement(c)
             \/ LoadToDecrement(c) \/ StoreDecrement(c) \/ Answer(c)
    BY <2>1 DEF NoPostProcessor, LoadToIncrement, StoreIncrement, LoadToDecrement,
                StoreDecrement, Answer
  <2>2. CASE NotAFile(c) \/ FileExists(c) \/ NoFileYet(c) \/ AlreadyOpen(c)
    BY <2>2 DEF NotAFile, FileExists, NoFileYet, AlreadyOpen
  <2>3. CASE CreateFile(c) \/ CannotCreate(c) \/ Write(c) \/ CannotWrite(c)
    BY <2>3 DEF CreateFile, CannotCreate, Write, CannotWrite
  <2> QED
    BY <1>2, <2>1, <2>2, <2>3 DEF Server
<1>3. ASSUME NEW c \in Conns, Piece(c)
      PROVE  Same \/ \E n \in TmpNames : FirstPiece(c, n) \/ NoDirectory(c, n)
  BY <1>3 DEF Piece, InvalidField, NextPiece
<1>4. ASSUME NEW c \in Conns, Finish(c) PROVE Same
  BY <1>4 DEF Finish, EndOfData, Disconnect, AnswerSent
<1> QED
  BY <1>1, <1>2, <1>3, <1>4 DEF Next

(* Every step keeps each directory owned: the one a request drops goes     *)
(* with its directory, or the directory is left over.                      *)
LEMMA StepKeepsTmp ==
    ASSUME TypeOK, TmpOwned, Next
    PROVE  TmpOwned'
<1>1. CASE UNCHANGED <<tmppath, dirs, leftover, alone>>
  BY <1>1 DEF TmpOwned
<1>2. ASSUME NEW c \in Conns, RemoveUpload(c) PROVE TmpOwned'
  <2>1. \A d \in Conns : d # c => tmppath'[d] = tmppath[d]
    BY <1>2 DEF RemoveUpload, TypeOK
  <2>2. dirs' \subseteq dirs /\ leftover' \cup {tmppath[c]} = leftover \cup {tmppath[c]}
        /\ (tmppath[c] \in dirs' => tmppath[c] \in leftover')
    BY <1>2 DEF RemoveUpload
  <2> QED
    BY <2>1, <2>2 DEF TmpOwned
<1>3. ASSUME NEW c \in Conns, NEW n \in TmpNames, FirstPiece(c, n) PROVE TmpOwned'
  BY <1>3, NameAssumption DEF FirstPiece, Draw, TmpOwned, TypeOK
<1>5. ASSUME NEW c \in Conns, NEW n \in TmpNames, NoDirectory(c, n) PROVE TmpOwned'
  BY <1>5, NameAssumption DEF NoDirectory, Draw, TmpOwned, TypeOK
<1>4. CASE Restart
  BY <1>4 DEF Restart, TmpOwned
<1> QED
  BY <1>1, <1>2, <1>3, <1>4, <1>5, NameSteps

(* Every step keeps the refusals silent.                                 *)
LEMMA StepKeepsCodes ==
    ASSUME TypeOK, CodesInv, Next
    PROVE  CodesInv'
<1> USE DEF CodesInv, data, SetCode, TypeOK
<1>1. ASSUME NEW c \in Conns, Refused(c) PROVE CodesInv'
  BY <1>1, MoveMoves DEF Refused
<1>2. ASSUME NEW c \in Conns, Admitted(c) PROVE CodesInv'
  BY <1>2, MoveMoves DEF Admitted
<1>3. ASSUME NEW c \in Conns, NoPostProcessor(c) PROVE CodesInv'
  BY <1>3, MoveMoves DEF NoPostProcessor
<1>4. ASSUME NEW c \in Conns, LoadToIncrement(c) PROVE CodesInv'
  BY <1>4, MoveMoves DEF LoadToIncrement
<1>5. ASSUME NEW c \in Conns, StoreIncrement(c) PROVE CodesInv'
  BY <1>5, MoveMoves DEF StoreIncrement
<1>6. ASSUME NEW c \in Conns, InvalidField(c) PROVE CodesInv'
  BY <1>6, MoveMoves DEF InvalidField
<1>7. ASSUME NEW c \in Conns, NextPiece(c) PROVE CodesInv'
  BY <1>7, MoveMoves DEF NextPiece
<1>8. ASSUME NEW c \in Conns, NotAFile(c) PROVE CodesInv'
  BY <1>8, MoveMoves DEF NotAFile
<1>9. ASSUME NEW c \in Conns, FileExists(c) PROVE CodesInv'
  BY <1>9, MoveMoves DEF FileExists
<1>10. ASSUME NEW c \in Conns, NoFileYet(c) PROVE CodesInv'
  BY <1>10, MoveMoves DEF NoFileYet
<1>11. ASSUME NEW c \in Conns, AlreadyOpen(c) PROVE CodesInv'
  BY <1>11, MoveMoves DEF AlreadyOpen
<1>12. ASSUME NEW c \in Conns, CreateFile(c) PROVE CodesInv'
  BY <1>12, MoveMoves DEF CreateFile
<1>13. ASSUME NEW c \in Conns, CannotCreate(c) PROVE CodesInv'
  BY <1>13, MoveMoves DEF CannotCreate
<1>14. ASSUME NEW c \in Conns, Write(c) PROVE CodesInv'
  BY <1>14, MoveMoves DEF Write
<1>15. ASSUME NEW c \in Conns, CannotWrite(c) PROVE CodesInv'
  BY <1>15, MoveMoves DEF CannotWrite
<1>16. ASSUME NEW c \in Conns, EndOfData(c) PROVE CodesInv'
  BY <1>16, MoveMoves DEF EndOfData
<1>17. ASSUME NEW c \in Conns, Answer(c) PROVE CodesInv'
  BY <1>17, MoveMoves DEF Answer
<1>18. ASSUME NEW c \in Conns, Disconnect(c) PROVE CodesInv'
  BY <1>18, MoveMoves DEF Disconnect
<1>19. ASSUME NEW c \in Conns, AnswerSent(c) PROVE CodesInv'
  BY <1>19, MoveMoves DEF AnswerSent
<1>20. ASSUME NEW c \in Conns, LoadToDecrement(c) PROVE CodesInv'
  BY <1>20, MoveMoves DEF LoadToDecrement
<1>21. ASSUME NEW c \in Conns, StoreDecrement(c) PROVE CodesInv'
  BY <1>21, MoveMoves DEF StoreDecrement
<1>22. ASSUME NEW c \in Conns, RemoveUpload(c) PROVE CodesInv'
  BY <1>22, MoveMoves DEF RemoveUpload
<1>23. ASSUME NEW c \in Conns, NEW n \in TmpNames, FirstPiece(c, n) PROVE CodesInv'
  BY <1>23, MoveMoves DEF FirstPiece, Draw
<1>24. ASSUME NEW c \in Conns, NEW n \in TmpNames, NoDirectory(c, n) PROVE CodesInv'
  BY <1>24, MoveMoves DEF NoDirectory, Draw
<1>25. CASE Restart
  BY <1>25 DEF Restart
<1> QED
  BY <1>1, <1>2, <1>3, <1>4, <1>5, <1>6, <1>7, <1>8, <1>9, <1>10, <1>11, <1>12,
     <1>13, <1>14, <1>15, <1>16, <1>17, <1>18, <1>19, <1>20, <1>21, <1>22, <1>23, <1>25, <1>24
  DEF Next, Headers, Server, Piece, Finish

(* Every step keeps what open files, names and sizes say of each other.  *)
LEMMA StepKeepsOpen ==
    ASSUME TypeOK, OpenInv, Next
    PROVE  OpenInv'
<1> USE DEF OpenInv, data, TypeOK
<1>1. ASSUME NEW c \in Conns, Refused(c) PROVE OpenInv'
  BY <1>1, MoveMoves, NameAssumption DEF Refused
<1>2. ASSUME NEW c \in Conns, Admitted(c) PROVE OpenInv'
  BY <1>2, MoveMoves, NameAssumption DEF Admitted
<1>3. ASSUME NEW c \in Conns, NoPostProcessor(c) PROVE OpenInv'
  BY <1>3, MoveMoves, NameAssumption DEF NoPostProcessor
<1>4. ASSUME NEW c \in Conns, LoadToIncrement(c) PROVE OpenInv'
  BY <1>4, MoveMoves, NameAssumption DEF LoadToIncrement
<1>5. ASSUME NEW c \in Conns, StoreIncrement(c) PROVE OpenInv'
  BY <1>5, MoveMoves, NameAssumption DEF StoreIncrement
<1>6. ASSUME NEW c \in Conns, InvalidField(c) PROVE OpenInv'
  BY <1>6, MoveMoves, NameAssumption DEF InvalidField
<1>7. ASSUME NEW c \in Conns, NextPiece(c) PROVE OpenInv'
  BY <1>7, MoveMoves, NameAssumption DEF NextPiece
<1>8. ASSUME NEW c \in Conns, NotAFile(c) PROVE OpenInv'
  BY <1>8, MoveMoves, NameAssumption DEF NotAFile
<1>9. ASSUME NEW c \in Conns, FileExists(c) PROVE OpenInv'
  BY <1>9, MoveMoves, NameAssumption DEF FileExists
<1>10. ASSUME NEW c \in Conns, NoFileYet(c) PROVE OpenInv'
  BY <1>10, MoveMoves, NameAssumption DEF NoFileYet
<1>11. ASSUME NEW c \in Conns, AlreadyOpen(c) PROVE OpenInv'
  BY <1>11, MoveMoves, NameAssumption DEF AlreadyOpen
<1>12. ASSUME NEW c \in Conns, CreateFile(c) PROVE OpenInv'
  BY <1>12, MoveMoves, NameAssumption DEF CreateFile
<1>13. ASSUME NEW c \in Conns, CannotCreate(c) PROVE OpenInv'
  BY <1>13, MoveMoves, NameAssumption DEF CannotCreate
<1>14. ASSUME NEW c \in Conns, Write(c) PROVE OpenInv'
  <2>1. /\ UNCHANGED <<tmppath, fp>>
        /\ \A d \in Conns : d # c => /\ uploadsize'[d] = uploadsize[d]
                                    /\ buffer'[d] = buffer[d]
    BY <1>14 DEF Write, Written
  <2> QED
    BY <1>14, <2>1, MoveMoves DEF Write
<1>15. ASSUME NEW c \in Conns, CannotWrite(c) PROVE OpenInv'
  BY <1>15, MoveMoves, NameAssumption DEF CannotWrite
<1>16. ASSUME NEW c \in Conns, EndOfData(c) PROVE OpenInv'
  BY <1>16, MoveMoves, NameAssumption DEF EndOfData
<1>17. ASSUME NEW c \in Conns, Answer(c) PROVE OpenInv'
  BY <1>17, MoveMoves, NameAssumption DEF Answer
<1>18. ASSUME NEW c \in Conns, Disconnect(c) PROVE OpenInv'
  BY <1>18, MoveMoves, NameAssumption DEF Disconnect
<1>19. ASSUME NEW c \in Conns, AnswerSent(c) PROVE OpenInv'
  BY <1>19, MoveMoves, NameAssumption DEF AnswerSent
<1>20. ASSUME NEW c \in Conns, LoadToDecrement(c) PROVE OpenInv'
  BY <1>20, MoveMoves, NameAssumption DEF LoadToDecrement
<1>21. ASSUME NEW c \in Conns, StoreDecrement(c) PROVE OpenInv'
  BY <1>21, MoveMoves, NameAssumption DEF StoreDecrement
<1>22. ASSUME NEW c \in Conns, RemoveUpload(c) PROVE OpenInv'
  BY <1>22, MoveMoves, NameAssumption DEF RemoveUpload
<1>23. ASSUME NEW c \in Conns, NEW n \in TmpNames, FirstPiece(c, n) PROVE OpenInv'
  BY <1>23, MoveMoves, NameAssumption DEF FirstPiece, Draw
<1>24. ASSUME NEW c \in Conns, NEW n \in TmpNames, NoDirectory(c, n) PROVE OpenInv'
  BY <1>24, MoveMoves, NameAssumption DEF NoDirectory, Draw
<1>25. CASE Restart
  BY <1>25 DEF Restart
<1> QED
  BY <1>1, <1>2, <1>3, <1>4, <1>5, <1>6, <1>7, <1>8, <1>9, <1>10, <1>11, <1>12,
     <1>13, <1>14, <1>15, <1>16, <1>17, <1>18, <1>19, <1>20, <1>21, <1>22, <1>23, <1>25, <1>24
  DEF Next, Headers, Server, Piece, Finish

(* A request stays the owner of its file while no step touches the file,   *)
(* nor its name, and it does not come to create or to validate it.         *)
LEMMA SoleStays ==
    ASSUME NEW d \in Conns, Sole(d),
           pc'[d] \in {"creating", "validating"} => pc'[d] = pc[d],
           tmppath'[d] = tmppath[d], fp'[d] = fp[d], uploadsize'[d] = uploadsize[d],
           buffer'[d] = buffer[d], lost'[d] = lost[d],
           tmppath[d] # NoName =>
               \A e \in Conns : e # d => tmppath'[e] # tmppath[d],
           tmppath[d] # NoName =>
               /\ tmppath[d] \in DOMAIN content' <=> tmppath[d] \in DOMAIN content
               /\ tmppath[d] \in DOMAIN content =>
                      content'[tmppath[d]] = content[tmppath[d]],
           tmppath[d] = NoName =>
               /\ fp[d] = "closed" /\ pc'[d] # "creating"
               /\ NoName \notin DOMAIN content
    PROVE  Sole(d)'
BY DEF Sole, HasFile, Holds

(* What types and names say of a request.                                  *)
LEMMA NoNameNoFile ==
    ASSUME TypeOK, OpenInv, NEW d \in Conns, tmppath[d] = NoName
    PROVE  /\ fp[d] = "closed" /\ NoName \notin DOMAIN content
           /\ pc[d] \notin {"opening", "creating", "writing"}
BY NameAssumption DEF TypeOK, OpenInv

(* Moves that leave the files alone.                                       *)
LEMMA MoveKeepsSole ==
    ASSUME TypeOK, OpenInv, SoleInv, NEW c \in Conns, NEW from, NEW to,
           Goto(c, from, to), to \notin {"creating", "validating"},
           UNCHANGED <<tmppath, fp, uploadsize, buffer, content, lost, alone>>
    PROVE  SoleInv'
<1> SUFFICES ASSUME NEW d \in Conns, alone'[d]
             PROVE  Sole(d)'
  BY DEF SoleInv
<1>1. Sole(d)
  BY DEF SoleInv
<1>2. pc'[d] \in {"creating", "validating"} => pc'[d] = pc[d]
  BY MoveMoves
<1>3. tmppath[d] # NoName => \A e \in Conns : e # d => tmppath'[e] # tmppath[d]
  BY <1>1 DEF Sole
<1>4. tmppath[d] = NoName => /\ fp[d] = "closed" /\ pc'[d] # "creating"
                             /\ NoName \notin DOMAIN content
  BY <1>2, NoNameNoFile
<1> QED
  BY <1>1, <1>2, <1>3, <1>4, SoleStays

(* Every step keeps the file of a request whose name nobody else drew.     *)
LEMMA StepKeepsSole ==
    ASSUME TypeOK, OpenInv, SoleInv, Next
    PROVE  SoleInv'
<1>1. ASSUME NEW c \in Conns, Refused(c) PROVE SoleInv'
  BY <1>1, MoveKeepsSole DEF Refused, data
<1>2. ASSUME NEW c \in Conns, Admitted(c) PROVE SoleInv'
  BY <1>2, MoveKeepsSole DEF Admitted, data
<1>3. ASSUME NEW c \in Conns, NoPostProcessor(c) PROVE SoleInv'
  BY <1>3, MoveKeepsSole DEF NoPostProcessor, data
<1>4. ASSUME NEW c \in Conns, LoadToIncrement(c) PROVE SoleInv'
  BY <1>4, MoveKeepsSole DEF LoadToIncrement, data
<1>5. ASSUME NEW c \in Conns, InvalidField(c) PROVE SoleInv'
  BY <1>5, MoveKeepsSole DEF InvalidField, data
<1>6. ASSUME NEW c \in Conns, NextPiece(c) PROVE SoleInv'
  BY <1>6, MoveKeepsSole DEF NextPiece, data
<1>7. ASSUME NEW c \in Conns, NotAFile(c) PROVE SoleInv'
  BY <1>7, MoveKeepsSole DEF NotAFile, data
<1>8. ASSUME NEW c \in Conns, FileExists(c) PROVE SoleInv'
  BY <1>8, MoveKeepsSole DEF FileExists, data
<1>9. ASSUME NEW c \in Conns, AlreadyOpen(c) PROVE SoleInv'
  BY <1>9, MoveKeepsSole DEF AlreadyOpen, data
<1>10. ASSUME NEW c \in Conns, CannotCreate(c) PROVE SoleInv'
  BY <1>10, MoveKeepsSole DEF CannotCreate, data
<1>11. ASSUME NEW c \in Conns, CannotWrite(c) PROVE SoleInv'
  BY <1>11, MoveKeepsSole DEF CannotWrite, data
<1>12. ASSUME NEW c \in Conns, Answer(c) PROVE SoleInv'
  BY <1>12, MoveKeepsSole DEF Answer, data
<1>13. ASSUME NEW c \in Conns, Disconnect(c) PROVE SoleInv'
  BY <1>13, MoveKeepsSole DEF Disconnect, data
<1>14. ASSUME NEW c \in Conns, AnswerSent(c) PROVE SoleInv'
  BY <1>14, MoveKeepsSole DEF AnswerSent, data
<1>15. ASSUME NEW c \in Conns, LoadToDecrement(c) PROVE SoleInv'
  BY <1>15, MoveKeepsSole DEF LoadToDecrement, data
<1>16. ASSUME NEW c \in Conns, StoreDecrement(c) PROVE SoleInv'
  BY <1>16, MoveKeepsSole DEF StoreDecrement, data
<1>17. ASSUME NEW c \in Conns, StoreIncrement(c),
             NEW d \in Conns, alone'[d] PROVE Sole(d)'
  <2>1. /\ UNCHANGED <<tmppath, fp, buffer, content, lost, alone>> /\ uploadsize[c] = 0
        /\ uploadsize' = uploadsize
    BY <1>17 DEF StoreIncrement, Goto, OpenInv, TypeOK
  <2> QED
    BY <1>17, <2>1, MoveKeepsSole DEF StoreIncrement, SoleInv
<1>18. ASSUME NEW c \in Conns, NoFileYet(c),
             NEW d \in Conns, alone'[d] PROVE Sole(d)'
  <2>1. UNCHANGED <<tmppath, fp, uploadsize, buffer, content, lost, alone>> /\ Sole(d)
    BY <1>18 DEF NoFileYet, data, SoleInv
  <2>2. CASE d = c
    BY <1>18, <2>1, <2>2, MoveMoves DEF NoFileYet, Sole, HasFile
  <2>3. CASE d # c
    <3>1. pc'[d] = pc[d]
      BY <1>18, <2>3, MoveMoves DEF NoFileYet
    <3> QED
      BY <2>1, <3>1 DEF Sole, HasFile, Holds
  <2> QED
    BY <2>2, <2>3
<1>19. ASSUME NEW c \in Conns, CreateFile(c),
             NEW d \in Conns, alone'[d] PROVE Sole(d)'
  <2>1. /\ UNCHANGED <<tmppath, uploadsize, buffer, lost, alone>> /\ Sole(d)
        /\ pc[c] = "creating" /\ pc'[c] = "writing"
        /\ tmppath[c] # NoName /\ fp[c] = "closed" /\ uploadsize[c] = 0
        /\ buffer[c] = 0
    BY <1>19, MoveMoves DEF CreateFile, SoleInv, OpenInv
  <2>2. /\ DOMAIN content' = DOMAIN content \cup {tmppath[c]}
        /\ \A n \in DOMAIN content : content'[n] = content[n]
        /\ tmppath[c] \notin DOMAIN content =>
               content'[tmppath[c]] = [e \in Conns |-> 0]
    BY <1>19 DEF CreateFile, HasFile
  <2>3. CASE d = c
    <3>1. tmppath[c] \notin DOMAIN content /\ fp'[c] = "open"
      BY <1>19, <2>1, <2>3 DEF CreateFile, Sole, HasFile, TypeOK
    <3>2. content'[tmppath[c]] = [e \in Conns |-> IF e = c THEN 0 - 0 ELSE 0]
      BY <2>2, <3>1
    <3>3. HasFile(tmppath[c])' /\ Holds(tmppath[c], c, uploadsize[c] - buffer[c])'
      BY <2>1, <2>2, <3>2 DEF HasFile, Holds
    <3> QED
      BY <2>1, <2>3, <3>1, <3>3 DEF Sole
  <2>4. CASE d # c
    <3>1. pc'[d] = pc[d] /\ fp'[d] = fp[d]
      BY <1>19, <2>4, MoveMoves DEF CreateFile, TypeOK
    <3>2. tmppath[d] # NoName => tmppath[c] # tmppath[d]
      BY <1>19, <2>1, <2>4 DEF Sole
    <3> QED
      BY <2>1, <2>2, <2>4, <3>1, <3>2, NoNameNoFile, SoleStays DEF Sole
  <2> QED
    BY <2>3, <2>4
<1>20. ASSUME NEW c \in Conns, Write(c),
             NEW d \in Conns, alone'[d] PROVE Sole(d)'
  <2>1. /\ UNCHANGED <<tmppath, fp, lost, alone>> /\ Sole(d)
        /\ pc[c] = "writing" /\ pc'[c] = "receiving"
        /\ tmppath[c] # NoName /\ fp[c] # "closed"
    BY <1>20, MoveMoves DEF Write, SoleInv, OpenInv
  <2>2. PICK size \in {0, 1} : Written(c, size)
    BY <1>20 DEF Write
  <2>3. PICK k \in 0 .. buffer[c] + size :
            /\ content' = Flushed(c, k)
            /\ buffer' = [buffer EXCEPT ![c] = buffer[c] + size - k]
    BY <2>2, Zenon DEF Written
  <2>4. /\ uploadsize' = [uploadsize EXCEPT ![c] = uploadsize[c] + size]
        /\ buffer[c] \in Nat /\ k \in Nat /\ uploadsize[c] \in Int
    BY <2>2, <2>3, SizeAssumption DEF Written, TypeOK
  <2>5. /\ DOMAIN content' = DOMAIN content
        /\ \A n \in DOMAIN content : n # tmppath[c] => content'[n] = content[n]
    BY <2>3, <2>4, FlushAdds
  <2>6. CASE d = c
    <3>1. fp[c] = "open" /\ HasFile(tmppath[c])
          /\ Holds(tmppath[c], c, uploadsize[c] - buffer[c])
      BY <2>1, <2>6 DEF Sole, TypeOK
    <3>2. content'[tmppath[c]] =
              [content[tmppath[c]] EXCEPT ![c] = content[tmppath[c]][c] + k]
      BY <2>3, <2>4, <3>1, FlushAdds
    <3>3. content'[tmppath[c]] =
              [e \in Conns |-> IF e = c THEN (uploadsize[c] - buffer[c]) + k ELSE 0]
      BY <3>1, <3>2 DEF Holds
    <3>4. uploadsize'[c] - buffer'[c] = (uploadsize[c] - buffer[c]) + k
      BY <2>3, <2>4 DEF TypeOK
    <3>5. HasFile(tmppath[c])' /\ Holds(tmppath[c], c, uploadsize[c] - buffer[c])'
      BY <2>1, <2>5, <3>1, <3>3, <3>4 DEF HasFile, Holds
    <3> QED
      BY <2>1, <2>6, <3>1, <3>5 DEF Sole
  <2>7. CASE d # c
    <3>1. pc'[d] = pc[d] /\ uploadsize'[d] = uploadsize[d] /\ buffer'[d] = buffer[d]
      BY <1>20, <2>3, <2>4, <2>7, MoveMoves DEF Write, TypeOK
    <3>2. tmppath[d] # NoName => tmppath[c] # tmppath[d]
      BY <2>1, <2>7 DEF Sole
    <3> QED
      BY <2>1, <2>5, <3>1, <3>2, NoNameNoFile, SoleStays DEF Sole
  <2> QED
    BY <2>6, <2>7
<1>21. ASSUME NEW c \in Conns, EndOfData(c),
             NEW d \in Conns, alone'[d] PROVE Sole(d)'
  <2>1. /\ UNCHANGED <<tmppath, uploadsize, alone>> /\ Sole(d)
        /\ pc[c] = "receiving" /\ pc'[c] = "validating" /\ fp'[c] = "closed"
    BY <1>21, MoveMoves DEF EndOfData, SoleInv, TypeOK
  <2>2. PICK k \in 0 .. buffer[c] :
            /\ content' = Flushed(c, k)
            /\ lost' = [lost EXCEPT ![c] = buffer[c] - k]
    BY <1>21, Zenon DEF EndOfData
  <2>3. buffer[c] \in Nat /\ k \in Nat /\ uploadsize[c] \in Int
    BY <2>2, SizeAssumption DEF TypeOK
  <2>4. /\ DOMAIN content' = DOMAIN content
        /\ \A n \in DOMAIN content :
               fp[c] # "open" \/ n # tmppath[c] => content'[n] = content[n]
    BY <2>2, <2>3, FlushAdds
  <2>5. CASE d = c /\ uploadsize[c] > 0
    <3>1. fp[c] = "open" /\ HasFile(tmppath[c])
          /\ Holds(tmppath[c], c, uploadsize[c] - buffer[c])
      BY <2>1, <2>5 DEF OpenInv, Sole, TypeOK
    <3>2. content'[tmppath[c]] =
              [content[tmppath[c]] EXCEPT ![c] = content[tmppath[c]][c] + k]
      BY <2>2, <2>3, <3>1, FlushAdds
    <3>3. content'[tmppath[c]] =
              [e \in Conns |-> IF e = c THEN (uploadsize[c] - buffer[c]) + k ELSE 0]
      BY <3>1, <3>2 DEF Holds
    <3>4. uploadsize[c] - lost'[c] = (uploadsize[c] - buffer[c]) + k
      BY <2>2, <2>3 DEF TypeOK
    <3>5. HasFile(tmppath[c])' /\ Holds(tmppath[c], c, uploadsize[c] - lost[c])'
      BY <2>1, <2>4, <3>1, <3>3, <3>4 DEF HasFile, Holds
    <3> QED
      BY <2>1, <2>5, <3>5 DEF Sole
  <2>6. CASE d = c /\ ~(uploadsize[c] > 0)
    BY <2>1, <2>6 DEF Sole
  <2>7. CASE d # c
    <3>1. pc'[d] = pc[d] /\ fp'[d] = fp[d] /\ buffer'[d] = buffer[d] /\ lost'[d] = lost[d]
      BY <1>21, <2>2, <2>7, MoveMoves DEF EndOfData, TypeOK
    <3>2. tmppath[d] # NoName => fp[c] # "open" \/ tmppath[c] # tmppath[d]
      BY <2>1, <2>7 DEF Sole
    <3> QED
      BY <2>1, <2>4, <3>1, <3>2, NoNameNoFile, SoleStays DEF Sole
  <2> QED
    BY <2>5, <2>6, <2>7
<1>22. ASSUME NEW c \in Conns, RemoveUpload(c),
             NEW d \in Conns, alone'[d] PROVE Sole(d)'
  <2>1. /\ pc'[c] = "idle" /\ tmppath' = [tmppath EXCEPT ![c] = NoName]
        /\ fp'[c] = "closed" /\ uploadsize'[c] = 0
        /\ \A e \in Conns : e # c => /\ pc'[e] = pc[e] /\ alone'[e] = alone[e]
                                    /\ uploadsize'[e] = uploadsize[e]
                                    /\ buffer'[e] = buffer[e] /\ lost'[e] = lost[e]
    BY <1>22, MoveMoves DEF RemoveUpload, TypeOK
  <2>2. CASE d = c
    BY <2>1, <2>2 DEF Sole, TypeOK
  <2>3. CASE d # c
    <3>0. alone'[d] = alone[d] /\ alone'[d]
      BY <1>22, <2>1, <2>3
    <3>1. Sole(d) /\ tmppath'[d] = tmppath[d]
          /\ (tmppath[d] # NoName => tmppath[d] # tmppath[c])
      <4>1. Sole(d)
        BY <3>0 DEF SoleInv
      <4>2. tmppath'[d] = tmppath[d]
        BY <2>1, <2>3 DEF TypeOK
      <4> QED
        BY <2>3, <4>1, <4>2 DEF Sole
    <3>2. \A e \in Conns : tmppath'[e] = tmppath[e] \/ tmppath'[e] = NoName
      BY <2>1 DEF TypeOK
    <3>3. \A n \in DOMAIN content : n # tmppath[c] =>
              n \in DOMAIN content' /\ content'[n] = content[n]
      <4>0. buffer[c] \in Nat
        BY DEF TypeOK
      <4>1. CASE content' = Flushed(c, buffer[c])
        BY <4>0, <4>1, FlushAdds
      <4>2. CASE content' # Flushed(c, buffer[c])
        BY <1>22, <4>2 DEF RemoveUpload
      <4> QED
        BY <4>1, <4>2
    <3>4. DOMAIN content' \subseteq DOMAIN content
      <4>0. buffer[c] \in Nat
        BY DEF TypeOK
      <4>1. CASE content' = Flushed(c, buffer[c])
        BY <4>0, <4>1, FlushAdds
      <4>2. CASE content' # Flushed(c, buffer[c])
        BY <1>22, <4>2 DEF RemoveUpload
      <4> QED
        BY <4>1, <4>2
    <3>5. fp'[d] = fp[d]
      BY <1>22, <2>3, <3>1, NoNameNoFile DEF RemoveUpload, TypeOK
    <3>6. tmppath[d] # NoName => \A e \in Conns : e # d => tmppath'[e] # tmppath[d]
      BY <3>1, <3>2 DEF Sole
    <3>7. tmppath[d] # NoName =>
              /\ tmppath[d] \in DOMAIN content' <=> tmppath[d] \in DOMAIN content
              /\ tmppath[d] \in DOMAIN content =>
                     content'[tmppath[d]] = content[tmppath[d]]
      BY <3>1, <3>3, <3>4
    <3> QED
      BY <2>1, <2>3, <3>1, <3>5, <3>6, <3>7, NoNameNoFile, SoleStays
  <2> QED
    BY <2>2, <2>3
<1>23. ASSUME NEW c \in Conns, NEW n \in TmpNames, FirstPiece(c, n),
             NEW d \in Conns, alone'[d] PROVE Sole(d)'
  <2>1. /\ pc[c] = "receiving" /\ pc'[c] = "opening" /\ tmppath[c] = NoName
        /\ tmppath' = [tmppath EXCEPT ![c] = n]
        /\ UNCHANGED <<fp, uploadsize, buffer, content, lost>>
    BY <1>23, MoveMoves DEF FirstPiece, Draw
  <2>2. CASE d = c
    <3>1. \A e \in Conns : tmppath[e] # n
      BY <1>23, <2>2, Zenon DEF FirstPiece, Draw
    <3>2. tmppath'[c] = n /\ \A e \in Conns : e # c => tmppath'[e] # n
      BY <2>1, <3>1 DEF TypeOK
    <3>3. fp[c] = "closed"
      BY <2>1, NoNameNoFile
    <3> QED
      BY <2>1, <2>2, <3>2, <3>3 DEF Sole
  <2>3. CASE d # c
    <3>1. alone[d] /\ tmppath[d] # n
      BY <1>23, <2>3, Zenon DEF FirstPiece, Draw
    <3>2. Sole(d) /\ tmppath'[d] = tmppath[d] /\ pc'[d] = pc[d]
      BY <1>23, <2>1, <2>3, <3>1, MoveMoves DEF FirstPiece, Draw, SoleInv, TypeOK
    <3>3. tmppath[d] # NoName => \A e \in Conns : e # d => tmppath'[e] # tmppath[d]
      BY <2>1, <3>1, <3>2 DEF Sole, TypeOK
    <3> QED
      BY <2>1, <3>2, <3>3, NoNameNoFile, SoleStays
  <2> QED
    BY <2>2, <2>3
<1>24. ASSUME NEW c \in Conns, NEW n \in TmpNames, NoDirectory(c, n),
             NEW d \in Conns, alone'[d] PROVE Sole(d)'
  <2>1. /\ pc[c] = "receiving" /\ pc'[c] = "closing" /\ tmppath[c] = NoName
        /\ tmppath' = [tmppath EXCEPT ![c] = n]
        /\ UNCHANGED <<fp, uploadsize, buffer, content, lost>>
    BY <1>24, MoveMoves DEF NoDirectory, Draw
  <2>2. CASE d = c
    <3>1. \A e \in Conns : tmppath[e] # n
      BY <1>24, <2>2, Zenon DEF NoDirectory, Draw
    <3>2. tmppath'[c] = n /\ \A e \in Conns : e # c => tmppath'[e] # n
      BY <2>1, <3>1 DEF TypeOK
    <3>3. fp[c] = "closed"
      BY <2>1, NoNameNoFile
    <3> QED
      BY <2>1, <2>2, <3>2, <3>3 DEF Sole
  <2>3. CASE d # c
    <3>1. alone[d] /\ tmppath[d] # n
      BY <1>24, <2>3, Zenon DEF NoDirectory, Draw
    <3>2. Sole(d) /\ tmppath'[d] = tmppath[d] /\ pc'[d] = pc[d]
      BY <1>24, <2>1, <2>3, <3>1, MoveMoves DEF NoDirectory, Draw, SoleInv, TypeOK
    <3>3. tmppath[d] # NoName => \A e \in Conns : e # d => tmppath'[e] # tmppath[d]
      BY <2>1, <3>1, <3>2 DEF Sole, TypeOK
    <3> QED
      BY <2>1, <3>2, <3>3, NoNameNoFile, SoleStays
  <2> QED
    BY <2>2, <2>3
<1>25. CASE Restart
  BY <1>25 DEF Restart, SoleInv, Sole
<1> QED
  BY <1>1, <1>2, <1>3, <1>4, <1>5, <1>6, <1>7, <1>8, <1>9, <1>10, <1>11, <1>12,
     <1>13, <1>14, <1>15, <1>16, <1>17, <1>18, <1>19, <1>20, <1>21, <1>22, <1>23, <1>25, <1>24
  DEF Next, Headers, Server, Piece, Finish, SoleInv

-----------------------------------------------------------------------------
(* The first state, and every step or stutter.                             *)
LEMMA InvIsInductive ==
    /\ Init => Inv
    /\ Inv /\ [Next]_vars => Inv'
<1>1. ASSUME Init PROVE Inv
  <2>1. \A c \in Conns : pc[c] = "idle"
    BY <1>1 DEF Init
  <2>2. Up = {} /\ Cardinality(Up) = 0 /\ InWindow = {}
    BY <2>1, FS_EmptySet DEF Up, InWindow, Uploading, Window
  <2>3. TypeOK
    <3>1. 0 \in 0 .. CounterMod - 1 /\ 0 \in 0 .. MaxUploadSize
      BY CounterAssumption, SizeAssumption
    <3> QED
      BY <1>1, <3>1 DEF Init, TypeOK, Locations
  <2>4. CounterInv
    BY <1>1, <2>1, <2>2, CounterAssumption DEF Init, CounterInv
  <2>5. TmpOwned /\ CodesInv /\ OpenInv
    BY <1>1 DEF Init, TmpOwned, CodesInv, OpenInv
  <2>6. SoleInv
    BY <1>1 DEF Init, SoleInv, Sole
  <2> QED
    BY <2>3, <2>4, <2>5, <2>6 DEF Inv
<1>2. ASSUME Inv, Next PROVE Inv'
  BY <1>2, StepKeepsTypes, StepKeepsCounter, StepKeepsTmp, StepKeepsCodes,
     StepKeepsOpen, StepKeepsSole DEF Inv
<1>3. ASSUME Inv, UNCHANGED vars PROVE Inv'
  <2> USE DEF vars, counter, data
  <2>1. TypeOK' /\ TmpOwned' /\ CodesInv' /\ OpenInv'
    BY <1>3 DEF Inv, TypeOK, TmpOwned, CodesInv, OpenInv
  <2>2. Up' = Up /\ InWindow' = InWindow
    BY <1>3 DEF Up, InWindow
  <2>3. CounterInv'
    BY <1>3, <2>2 DEF Inv, CounterInv
  <2>4. SoleInv'
    BY <1>3 DEF Inv, SoleInv, Sole, HasFile, Holds
  <2> QED
    BY <2>1, <2>3, <2>4 DEF Inv
<1> QED
  BY <1>1, <1>2, <1>3

(* The conjunction holds in every execution.                               *)
LEMMA InvHolds == Spec => []Inv
BY InvIsInductive, PTL DEF Spec

(* Every variable has its type, for any number of connections; a file is   *)
(* only in a directory that exists, and only connections wrote to it.      *)
THEOREM UploadsTypes == Spec => []TypeOK
<1>1. Inv => TypeOK
  BY DEF Inv
<1> QED
  BY <1>1, InvHolds, PTL

(* As long as no two threads met on it, nr_of_uploading_clients is the     *)
(* number of requests that have a place, at most the limit of -m: every    *)
(* path through the three callbacks counts once and gives back once.       *)
THEOREM CounterIsExact == Spec => []CounterExact
<1>1. Inv => CounterExact
  BY DEF Inv, CounterInv, CounterExact, Up
<1> QED
  BY <1>1, InvHolds, PTL

(* A temporary directory belongs to a request in progress or could not be  *)
(* removed, whatever names the requests draw.                              *)
THEOREM TmpIsOwned == Spec => []TmpOwned
<1>1. Inv => TmpOwned
  BY DEF Inv
<1> QED
  BY <1>1, InvHolds, PTL

(* A request whose name no other one drew hands validate_faust() a file    *)
(* with all the pieces it sent and nothing else, however many requests     *)
(* upload and whatever leftover directories there are; only a failing      *)
(* fclose() makes the file shorter, by what was still in the buffer.       *)
THEOREM FileIsOwn == Spec => []OwnFile
<1>1. Inv => OwnFile
  BY DEF Inv, SoleInv, Sole, Holds, OwnFile
<1> QED
  BY <1>1, InvHolds, PTL

(* No client gets the codes 403 and 500 that iterate_post prepares.        *)
THEOREM RefusalsSilent == Spec => []RefusalsAreSilent
<1>1. Inv => RefusalsAreSilent
  BY DEF Inv, CodesInv, RefusalsAreSilent
<1> QED
  BY <1>1, InvHolds, PTL

=============================================================================
