---------------------------- MODULE ExportsProofs ----------------------------
(***************************************************************************)
(* Proofs about Exports, for any number of clients, threads and programs,  *)
(* of crashes and of second instances.                                     *)
(***************************************************************************)
EXTENDS Exports, TLAPS

Kinds == {"binary.zip", "binary.apk"}

ExportType ==
    /\ user = [u \in Users |-> user[u]] /\ handler = [h \in Handlers |-> handler[h]]
    /\ product = [c \in Codes |-> product[c]] /\ output = [c \in Codes |-> output[c]]
    /\ \A u \in Users : {"pc", "key", "answer"} \subseteq DOMAIN user[u]
    /\ \A h \in Handlers :
          /\ {"pc", "user", "code", "type"} \subseteq DOMAIN handler[h]
          /\ handler[h].pc # "free" => handler[h].code \in Codes
          /\ handler[h].pc = "get" => handler[h].type \in Types
    /\ \A c \in Codes : DOMAIN output[c] = Kinds

(* A thread that answers a client is the only one, and the client waits.    *)
Serves(h, u) ==
    handler[h].user = u =>
        /\ handler[h].pc # "free"
        /\ user[u].answer.status = 0
        /\ user[u].pc = IF handler[h].pc = "validate" THEN "posted" ELSE "asked"
ServeInv ==
    /\ \A h \in Handlers, u \in Users : Serves(h, u)
    /\ \A g, h \in Handlers :
          handler[g].user = handler[h].user => g = h \/ handler[g].user = "nobody"
    /\ \A u \in Users : user[u].pc \in {"idle", "key"} => user[u].answer.status = 0
    /\ ~running => \A h \in Handlers : handler[h].pc = "free"

(* The files of a target that no two threads made at once: which are whole  *)
(* follows from where its one thread is.                                   *)
Make1 == {"tool", "pack", "copy"}
Maker(h, c) == handler[h].code = c /\ handler[h].pc \in Make1
Settled(c) ==
    /\ output[c]["binary.zip"] \in {"none", "whole"}
    /\ output[c]["binary.zip"] = "whole" => product[c] = "whole"
    /\ output[c]["binary.zip"] = "none" => output[c]["binary.apk"] = "none"
Progress(h, c) ==
    /\ handler[h].code = c /\ handler[h].pc = "tool" => output[c]["binary.zip"] = "none"
    /\ handler[h].code = c /\ handler[h].pc = "pack" =>
          output[c]["binary.zip"] = "none" /\ product[c] = "whole"
    /\ handler[h].code = c /\ handler[h].pc = "copy" => output[c]["binary.zip"] = "whole"
    /\ handler[h].code = c /\ handler[h].pc = "send" =>
          handler[h].type \in Kinds /\ output[c][handler[h].type] = "whole"
    /\ handler[h].code = c /\ handler[h].pc \in Make1 => handler[h].type \in Kinds
Orderly(c) ==
    /\ Settled(c)
    /\ \/ output[c]["binary.apk"] \in {"none", "whole"}
       \/ \E h \in Handlers : handler[h].code = c /\ handler[h].pc = "copy"
    /\ \A h \in Handlers : Progress(h, c)
    /\ \A g, h \in Handlers : Maker(g, c) /\ Maker(h, c) => g = h

MakeInv == running => \A c \in Codes \ disturbed : Orderly(c)

AnswerInv ==
    \A u \in Users : user[u].pc = "asked" /\ user[u].answer.status = 200 /\ user[u].answer.sure =>
        user[u].answer.body = "whole"

ExportInv == ExportType /\ ServeInv /\ MakeInv /\ AnswerInv

-----------------------------------------------------------------------------
LEMMA ExportInitInv == ExportInit => ExportInv
<1> SUFFICES ASSUME ExportInit PROVE ExportInv
  OBVIOUS
<1>1. ExportType
  BY DEF ExportInit, ExportType, Waiting, Free, Absent, Kinds
<1>2. \A h \in Handlers : handler[h].pc = "free" /\ handler[h].user = "nobody"
  BY DEF ExportInit, Free
<1>3. ServeInv
  BY <1>2, UserAssumption DEF ServeInv, Serves, ExportInit, Waiting, NoAnswer
<1>4. MakeInv
  BY <1>2 DEF ExportInit, MakeInv, Orderly, Settled, Progress, Maker, Make1, Absent
<1>5. AnswerInv
  BY DEF ExportInit, AnswerInv, Waiting
<1> QED
  BY <1>1, <1>3, <1>4, <1>5 DEF ExportInv

-----------------------------------------------------------------------------
(* Steps that make no file: a thread begins no work, and ends its own only  *)
(* when no file is half copied.                                            *)
LEMMA QuietKeepsMake ==
    ASSUME ExportInv, UNCHANGED <<product, output>>, running, disturbed \subseteq disturbed',
           \A h \in Handlers :
               \/ /\ handler'[h].pc = handler[h].pc /\ handler'[h].code = handler[h].code
                  /\ handler'[h].type = handler[h].type
               \/ /\ handler'[h].pc \notin Making
                  /\ handler[h].pc # "copy" \/ handler[h].code \in disturbed'
    PROVE  MakeInv'
<1> SUFFICES ASSUME NEW c \in Codes \ disturbed' PROVE Orderly(c)'
  BY DEF MakeInv
<1>1. Orderly(c) /\ c \notin disturbed'
  BY DEF ExportInv, MakeInv
<1>2. Settled(c)'
  BY <1>1 DEF Orderly, Settled
<1>3. \A h \in Handlers : handler[h].code = c /\ handler[h].pc = "copy" =>
          handler'[h].code = c /\ handler'[h].pc = "copy"
  BY <1>1 
<1>4. \A h \in Handlers : Progress(h, c)'
  BY <1>1 DEF Orderly, Progress, Making, Make1
<1>5. \A g, h \in Handlers : Maker(g, c)' /\ Maker(h, c)' => g = h
  BY <1>1 DEF Orderly, Maker, Making, Make1
<1> QED
  BY <1>1, <1>2, <1>3, <1>4, <1>5 DEF Orderly

-----------------------------------------------------------------------------
(* Types.                                                                  *)

LEMMA UserTypes ==
    ASSUME ExportType, NEW u \in Users, User(u)
    PROVE  ExportType'
<1>1. ASSUME NEW pc, NEW where, where # "get", NEW code \in Codes, NEW type,
             Connect(u, pc, where, code, type), UNCHANGED server
      PROVE  ExportType'
  BY SMTT(30), <1>1 DEF ExportType, Connect, Returned, server
<1>2. ASSUME NEW pc, NEW code \in Codes, NEW type \in Types,
             Connect(u, pc, "get", code, type), UNCHANGED server
      PROVE  ExportType'
  BY <1>2 DEF ExportType, Connect, Returned, server
<1>3. CASE GetShakey(u)
  BY <1>1, <1>3 DEF GetShakey
<1>4. CASE GetFile(u)
  <2>1. PICK type \in Types : Connect(u, "asked", "get", user[u].key, type)
    BY <1>4 DEF GetFile
  <2>2. PICK code \in Codes : code = user[u].key
    BY <1>4 DEF GetFile
  <2> QED
    BY <1>2, <1>4, <2>1, <2>2 DEF GetFile
<1>5. CASE GotShakey(u)
  BY <1>5 DEF GotShakey, ExportType, server
<1>6. CASE CannotGetFile(u) \/ GotFile(u) \/ Refusal(u)
  BY <1>6 DEF CannotGetFile, GotFile, Refusal, Returned, ExportType, server
<1>7. CASE TimedOut(u)
  BY <1>7 DEF TimedOut, GivesUp, Returned, ExportType, server
<1> QED
  BY <1>3, <1>4, <1>5, <1>6, <1>7 DEF User, Returns

(* What make does: nothing, a copy, or all of it.                           *)
LEMMA MakeCases ==
    ASSUME ExportType, NEW h \in Handlers, Make(h)
    PROVE  LET c == handler[h].code IN
           /\ running /\ handler[h].pc = "get" /\ c \in Codes /\ handler[h].type \in Kinds
           /\ \/ /\ handler' = [handler EXCEPT ![h].pc = "send"]
                 /\ output[c]["binary.zip"] # "none"
                 /\ handler[h].type = "binary.apk" => output[c]["binary.apk"] \in {"half", "whole"}
                 /\ UNCHANGED <<product, output>>
              \/ /\ handler' = [handler EXCEPT ![h].pc = "copy"]
                 /\ handler[h].type = "binary.apk" /\ output[c]["binary.zip"] # "none"
                 /\ output[c]["binary.apk"] \notin {"half", "whole"}
                 /\ output' = [output EXCEPT ![c]["binary.apk"] = "half"]
                 /\ UNCHANGED product
              \/ /\ handler' = [handler EXCEPT ![h].pc = "tool"]
                 /\ output[c]["binary.zip"] = "none"
                 /\ product' = [product EXCEPT ![c] = "half"]
                 /\ UNCHANGED output
<1>1. /\ running /\ handler[h].pc = "get" /\ handler[h].code \in Codes
      /\ handler[h].type \in Types \ {"src.cpp"}
  BY DEF Make, At, Type, ExportType
<1>2. handler[h].type \in Kinds
  BY <1>1 DEF Types, Kinds
<1>3. CASE UpToDate(Code(h), Type(h))
  BY <1>1, <1>2, <1>3 DEF Make, Goto, UpToDate, Exists, Code, Type
<1>4. CASE Exists(Code(h), "binary.zip") /\ ~UpToDate(Code(h), Type(h))
  BY <1>1, <1>2, <1>4 DEF Make, Goto, UpToDate, Exists, Code, Type, Kinds
<1>5. CASE ~Exists(Code(h), "binary.zip")
  BY <1>1, <1>2, <1>5 DEF Make, Goto, UpToDate, Exists, Code, Type
<1> QED
  BY <1>3, <1>4, <1>5

(* What the other steps of make do.                                        *)
LEMMA WorkCases ==
    ASSUME ExportType, NEW h \in Handlers, ToolEnds(h) \/ Pack(h) \/ CopyEnds(h)
    PROVE  LET c == handler[h].code  type == handler[h].type IN
           /\ running /\ c \in Codes /\ UNCHANGED <<user, running, disturbed>>
           /\ \/ /\ handler[h].pc = "tool" /\ handler' = [handler EXCEPT ![h].pc = "pack"]
                 /\ product' = [product EXCEPT ![c] = Ended(h, "tool")] /\ UNCHANGED output
              \/ /\ handler[h].pc = "pack" /\ UNCHANGED product
                 /\ handler' = [handler EXCEPT ![h].pc = IF type = "binary.apk" THEN "copy" ELSE "send"]
                 /\ output' = [output EXCEPT ![c] = [t \in Kinds |->
                        CASE t = "binary.zip" -> product[c]
                          [] t = "binary.apk" /\ type = "binary.apk" -> "half"
                          [] OTHER -> IF output[c][t] = "none" THEN "none" ELSE "old"]]
              \/ /\ handler[h].pc = "copy" /\ handler' = [handler EXCEPT ![h].pc = "send"]
                 /\ output' = [output EXCEPT ![c]["binary.apk"] =
                        IF Ended(h, "copy") = "half" THEN "half" ELSE product[c]]
                 /\ UNCHANGED product
<1>1. running /\ handler[h].code \in Codes /\ UNCHANGED <<user, running, disturbed>>
  BY DEF ToolEnds, Pack, CopyEnds, At, ExportType
<1>2. CASE ToolEnds(h)
  BY <1>1, <1>2 DEF ToolEnds, Goto, At, Code
<1>3. CASE Pack(h)
  BY <1>1, <1>3 DEF Pack, Goto, At, Code, Type, Absent, Kinds
<1>4. CASE CopyEnds(h)
  BY <1>1, <1>4 DEF CopyEnds, Goto, At, Code
<1> QED
  BY <1>2, <1>3, <1>4

(* Threads of the server that answer.                                      *)
LEMMA AnswerCases ==
    ASSUME ExportType, NEW h \in Handlers, Handle(h)
    PROVE  \/ Make(h) \/ ToolEnds(h) \/ Pack(h) \/ CopyEnds(h)
           \/ /\ running /\ handler[h].pc # "free" /\ UNCHANGED <<product, output, running>>
              /\ disturbed \subseteq disturbed'
              /\ handler[h].pc = "copy" => handler[h].code \in disturbed'
              /\ \/ Answer(h, Refused)
                 \/ Send(h)
                 \/ handler[h].pc = "validate" /\ \E body : Answer(h, Ok(body, TRUE))
<1>1. CASE Validate(h)
  BY <1>1 DEF Validate, At
<1>2. CASE CannotValidate(h) \/ NotThere(h) \/ ToolFails(h) \/ Lost(h)
  BY <1>2 DEF CannotValidate, NotThere, ToolFails, Lost, At, server
<1>3. CASE CopyFails(h)
  BY <1>3 DEF CopyFails, At, Code
<1>4. CASE Send(h)
  BY <1>4 DEF Send, At, server
<1> QED
  BY <1>1, <1>2, <1>3, <1>4 DEF Handle

LEMMA HandleTypes ==
    ASSUME ExportType, NEW h \in Handlers, Handle(h)
    PROVE  ExportType'
<1>1. ASSUME NEW answer, Answer(h, answer), UNCHANGED <<product, output>>
      PROVE  ExportType'
  BY <1>1 DEF ExportType, Answer, Free
<1>2. CASE Validate(h)
  BY <1>1, <1>2 DEF Validate
<1>3. CASE CannotValidate(h) \/ NotThere(h) \/ ToolFails(h) \/ CopyFails(h) \/ Lost(h)
  BY <1>1, <1>3 DEF CannotValidate, NotThere, ToolFails, CopyFails, Lost, server
<1>4. CASE Make(h)
  <2>1. UNCHANGED user
    BY <1>4 DEF Make
  <2>2. PICK c \in Codes : c = handler[h].code
    BY <1>4, MakeCases
  <2>3. \E location \in {"send", "copy", "tool"} : handler' = [handler EXCEPT ![h].pc = location]
    BY <1>4, MakeCases
  <2>4. /\ handler' = [g \in Handlers |-> handler'[g]]
        /\ \A g \in Handlers :
              /\ {"pc", "user", "code", "type"} \subseteq DOMAIN handler'[g]
              /\ handler'[g].pc # "free" => handler'[g].code \in Codes
              /\ handler'[g].pc = "get" => handler'[g].type \in Types
    BY <2>2, <2>3 DEF ExportType
  <2>5. product' = [d \in Codes |-> product'[d]]
    BY <1>4, MakeCases DEF ExportType
  <2>6. \/ UNCHANGED output
        \/ output' = [output EXCEPT ![c]["binary.apk"] = "half"]
    BY <1>4, <2>2, MakeCases
  <2>7. output' = [d \in Codes |-> output'[d]] /\ \A d \in Codes : DOMAIN output'[d] = Kinds
    BY <2>6 DEF ExportType
  <2> QED
    BY <2>1, <2>4, <2>5, <2>7 DEF ExportType
<1>5. CASE ToolEnds(h)
  BY <1>5 DEF ToolEnds, Goto, ExportType, At
<1>6. CASE Pack(h)
  BY <1>6 DEF Pack, Goto, ExportType, At, Kinds, Absent
<1>7. CASE CopyEnds(h)
  BY <1>7 DEF CopyEnds, Goto, ExportType, At
<1>8. CASE Send(h)
  BY <1>1, <1>8 DEF Send, server
<1> QED
  BY <1>2, <1>3, <1>4, <1>5, <1>6, <1>7, <1>8 DEF Handle

LEMMA Removals ==
    ASSUME ExportType, NEW codes, LoseTargets(codes)
    PROVE  /\ handler' = [h \in Handlers |-> handler'[h]]
           /\ \A h \in Handlers :
                /\ {"pc", "user", "code", "type"} \subseteq DOMAIN handler'[h]
                /\ handler'[h].user = handler[h].user /\ handler'[h].code = handler[h].code
                /\ handler'[h].type = handler[h].type
                /\ handler'[h].pc = IF handler[h].code \in codes /\ handler[h].pc \in Making
                                    THEN "lost" ELSE handler[h].pc
BY DEF LoseTargets, ExportType

LEMMA NextTypes == ExportType /\ ExportNext => ExportType'
<1> SUFFICES ASSUME ExportType, ExportNext PROVE ExportType'
  OBVIOUS
<1>1. ASSUME NEW codes, Remove(codes)
      PROVE  /\ product' = [c \in Codes |-> product'[c]] /\ output' = [c \in Codes |-> output'[c]]
             /\ \A c \in Codes : DOMAIN output'[c] = Kinds
  BY <1>1 DEF Remove, ExportType, Absent, Kinds
<1>2. ASSUME NEW codes, Remove(codes), LoseTargets(codes), UNCHANGED user PROVE ExportType'
  <2>1. \A h \in Handlers :
           /\ handler'[h].pc # "free" => handler'[h].code \in Codes
           /\ handler'[h].pc = "get" => handler'[h].type \in Types
    BY <1>2, Removals DEF ExportType, Making
  <2> QED
    BY <1>1, <1>2, <2>1, Removals DEF ExportType
<1>3. CASE Crash
  BY <1>3 DEF Crash, ExportType, Free
<1>4. CASE Started
  BY <1>1, <1>4 DEF Started, ExportType
<1> QED
  BY <1>2, <1>3, <1>4, UserTypes, HandleTypes DEF ExportNext, Evict, SecondInstance

-----------------------------------------------------------------------------
(* Who is answered.                                                        *)

LEMMA UserKeepsServe ==
    ASSUME ExportType, ServeInv, NEW u \in Users, User(u)
    PROVE  ServeInv'
<1> USE DEF ServeInv, Serves
<1>1. NoAnswer.status = 0 /\ Refused.status = 400 /\ "nobody" # u
  BY UserAssumption DEF NoAnswer, Refused
<1>2. ASSUME Returned(u), UNCHANGED <<handler, running>>, \A h \in Handlers : handler[h].user # u
      PROVE  ServeInv'
  BY <1>1, <1>2 DEF ExportType, Returned
<1>3. ASSUME NEW pc, NEW where, NEW code, NEW type, Connect(u, pc, where, code, type),
             UNCHANGED server, user[u].pc \in {"idle", "key"},
             <<pc, where>> \in {<<"posted", "validate">>, <<"asked", "get">>}
      PROVE  ServeInv'
  <2>1. \A h \in Handlers : handler[h].user # u
    BY <1>3
  <2>2. CASE Returned(u) /\ UNCHANGED handler
    BY <1>2, <1>3, <2>1, <2>2 DEF server
  <2>3. CASE ~(Returned(u) /\ UNCHANGED handler)
    <3>1. PICK h \in Handlers :
            /\ handler[h].pc = "free" /\ running
            /\ handler' = [handler EXCEPT ![h] =
                   [pc |-> where, user |-> u, code |-> code, type |-> type]]
            /\ user' = [user EXCEPT ![u].pc = pc]
      BY <1>3, <2>3 DEF Connect
    <3>2. running' = running /\ where # "free"
      BY <1>3 DEF server
    <3>3. /\ handler'[h].pc = where /\ handler'[h].user = u
          /\ \A g \in Handlers \ {h} : handler'[g] = handler[g]
          /\ user'[u].pc = pc /\ user'[u].answer = user[u].answer
          /\ \A v \in Users \ {u} : user'[v] = user[v]
      BY <3>1 DEF ExportType
    <3> QED
      BY <1>1, <1>3, <2>1, <3>1, <3>2, <3>3
  <2> QED
    BY <2>2, <2>3
<1>4. CASE GetShakey(u)
  BY <1>3, <1>4 DEF GetShakey
<1>5. CASE GetFile(u)
  BY <1>3, <1>5 DEF GetFile
<1>6. CASE GotShakey(u)
  <2>1. \A h \in Handlers : handler[h].user # u
    BY <1>6 DEF GotShakey
  <2> QED
    BY <1>1, <1>6, <2>1 DEF GotShakey, ExportType, server
<1>7. CASE CannotGetFile(u) \/ GotFile(u) \/ Refusal(u)
  <2>1. \A h \in Handlers : handler[h].user # u
    BY <1>1, <1>7 DEF CannotGetFile, GotFile, Refusal
  <2> QED
    BY <1>2, <1>7, <2>1 DEF CannotGetFile, GotFile, Refusal, server
<1>8. CASE TimedOut(u)
  <2>1. /\ \A h \in Handlers : handler'[h].pc = handler[h].pc
        /\ \A h \in Handlers :
             handler'[h].user = IF handler[h].user = u THEN "nobody" ELSE handler[h].user
        /\ user'[u].pc = "idle" /\ user'[u].answer = NoAnswer
        /\ \A v \in Users \ {u} : user'[v] = user[v]
        /\ running' = running
    BY <1>8 DEF TimedOut, GivesUp, Returned, ExportType, server
  <2>2. "nobody" \notin Users
    BY UserAssumption
  <2> QED
    BY <1>1, <2>1, <2>2
<1> QED
  BY <1>4, <1>5, <1>6, <1>7, <1>8 DEF User, Returns

LEMMA HandleKeepsServe ==
    ASSUME ExportType, ServeInv, NEW h \in Handlers, Handle(h)
    PROVE  ServeInv'
<1> USE DEF ServeInv, Serves
<1>1. "nobody" \notin Users
  BY UserAssumption
<1>2. ASSUME NEW answer, Answer(h, answer), running, running' = running, handler[h].pc # "free"
      PROVE  ServeInv'
  <2>1. handler'[h].user = "nobody" /\ \A g \in Handlers \ {h} : handler'[g] = handler[g]
    BY <1>2 DEF Answer, ExportType, Free
  <2>2. /\ \A u \in Users : user'[u].pc = user[u].pc
        /\ \A u \in Users \ {handler[h].user} : user'[u] = user[u]
    BY <1>2 DEF Answer, ExportType
  <2> QED
    BY <1>1, <1>2, <2>1, <2>2
<1>3. ASSUME NEW location, location \notin {"free", "validate"}, handler[h].pc \notin {"free", "validate"},
             handler' = [handler EXCEPT ![h].pc = location], UNCHANGED <<user, running>>, running
      PROVE  ServeInv'
  BY <1>3 DEF ExportType
<1>4. CASE Make(h)
  <2>1. UNCHANGED <<user, running>>
    BY <1>4 DEF Make
  <2>2. \E location \in {"send", "copy", "tool"} : handler' = [handler EXCEPT ![h].pc = location]
    BY <1>4, MakeCases
  <2> QED
    BY <1>3, <1>4, <2>1, <2>2, MakeCases
<1>5. CASE ToolEnds(h) \/ Pack(h) \/ CopyEnds(h)
  <2>1. \E location \in {"send", "copy", "pack"} : handler' = [handler EXCEPT ![h].pc = location]
    BY <1>5, WorkCases
  <2> QED
    BY <1>3, <1>5, <2>1, WorkCases
<1> QED
  BY <1>2, <1>4, <1>5, AnswerCases DEF Send

LEMMA NextKeepsServe == ExportType /\ ServeInv /\ ExportNext => ServeInv'
<1> SUFFICES ASSUME ExportType, ServeInv, ExportNext PROVE ServeInv'
  OBVIOUS
<1> USE DEF ServeInv, Serves
<1>1. ASSUME NEW codes, LoseTargets(codes), UNCHANGED <<user, running>>, running PROVE ServeInv'
  <2>1. \A g \in Handlers :
           /\ handler'[g].user = handler[g].user
           /\ handler'[g].pc = "free" <=> handler[g].pc = "free"
           /\ handler'[g].pc = "validate" <=> handler[g].pc = "validate"
    BY <1>1, Removals DEF Making
  <2> QED
    BY <1>1, <2>1
<1>2. CASE Crash
  <2>1. /\ \A g \in Handlers : handler'[g].pc = "free" /\ handler'[g].user = "nobody"
        /\ \A u \in Users : user'[u].pc = user[u].pc
        /\ \A u \in Users : user'[u].answer = user[u].answer \/ \E g \in Handlers : handler[g].user = u
    BY <1>2 DEF Crash, Free, ExportType
  <2> QED
    BY <2>1, UserAssumption
<1>3. CASE Started
  BY <1>3 DEF Started
<1> QED
  BY <1>1, <1>2, <1>3, UserKeepsServe, HandleKeepsServe DEF ExportNext, Evict, SecondInstance

-----------------------------------------------------------------------------
(* What is made.                                                           *)

LEMMA UserKeepsMake ==
    ASSUME ExportInv, NEW u \in Users, User(u)
    PROVE  MakeInv'
<1>1. UNCHANGED server
  BY DEF User, Returns, GetShakey, GotShakey, GetFile, CannotGetFile, GotFile, Refusal,
         TimedOut, GivesUp
<1>2. \A h \in Handlers :
        \/ /\ handler'[h].pc = handler[h].pc /\ handler'[h].code = handler[h].code
           /\ handler'[h].type = handler[h].type
        \/ handler'[h].pc \notin Making /\ handler[h].pc # "copy"
  <2>1. ASSUME NEW pc, NEW where \in {"validate", "get"}, NEW code, NEW type,
               Connect(u, pc, where, code, type)
        PROVE  <1>2!:
    BY <2>1 DEF Connect, ExportInv, ExportType, Making
  <2>2. CASE GetShakey(u) \/ GetFile(u)
    BY <2>1, <2>2 DEF GetShakey, GetFile
  <2>3. CASE TimedOut(u)
    BY <2>3 DEF TimedOut, GivesUp, ExportInv, ExportType
  <2>4. CASE GotShakey(u) \/ CannotGetFile(u) \/ GotFile(u) \/ Refusal(u)
    BY <2>4 DEF GotShakey, CannotGetFile, GotFile, Refusal
  <2> QED
    BY <2>2, <2>3, <2>4 DEF User, Returns
<1>3. CASE running
  BY <1>1, <1>2, <1>3, QuietKeepsMake DEF server
<1>4. CASE ~running
  BY <1>1, <1>4 DEF MakeInv, server
<1> QED
  BY <1>3, <1>4

(* A step that concerns the target of one program leaves the others alone. *)
LEMMA OthersStay ==
    ASSUME ExportInv, running, NEW h \in Handlers, NEW b, b = handler[h].code,
           NEW location, handler' = [handler EXCEPT ![h].pc = location],
           disturbed \subseteq disturbed',
           \A c \in Codes \ {b} : product'[c] = product[c] /\ output'[c] = output[c],
           b \in Codes \ disturbed' => Orderly(b)'
    PROVE  MakeInv'
<1>1. handler'[h].code = b /\ \A g \in Handlers \ {h} : handler'[g] = handler[g]
  BY DEF ExportInv, ExportType
<1> SUFFICES ASSUME NEW c \in Codes \ disturbed', c # b PROVE Orderly(c)'
  BY DEF MakeInv
<1>2. Orderly(c)
  BY DEF ExportInv, MakeInv
<1> QED
  BY <1>1, <1>2 DEF Orderly, Settled, Progress, Maker

LEMMA MakeKeepsMake ==
    ASSUME ExportInv, NEW h \in Handlers, Make(h)
    PROVE  MakeInv'
<1> PICK b \in Codes : b = handler[h].code
  BY MakeCases DEF ExportInv
<1>1. ExportType /\ handler[h].pc = "get" /\ handler[h].type \in Kinds /\ running
  BY MakeCases DEF ExportInv
<1>2. disturbed \subseteq disturbed'
  BY DEF Make, Meets, Code
<1>3. PICK location \in {"send", "copy", "tool"} : handler' = [handler EXCEPT ![h].pc = location]
  BY <1>1, MakeCases
<1>4. /\ handler'[h].code = b /\ handler'[h].type = handler[h].type /\ handler'[h].pc = location
      /\ \A g \in Handlers \ {h} : handler'[g] = handler[g]
  BY <1>1, <1>3 DEF ExportType
<1>5. \A c \in Codes \ {b} : product'[c] = product[c] /\ output'[c] = output[c]
  BY <1>1, MakeCases DEF ExportType
<1>6. \/ /\ location = "send" /\ UNCHANGED <<product, output>>
         /\ output[b]["binary.zip"] # "none"
         /\ handler[h].type = "binary.apk" => output[b]["binary.apk"] # "none"
      \/ /\ location = "copy" /\ UNCHANGED product /\ handler[h].type = "binary.apk"
         /\ output[b]["binary.zip"] # "none" /\ output[b]["binary.apk"] # "whole"
         /\ output'[b]["binary.zip"] = output[b]["binary.zip"]
      \/ location = "tool" /\ UNCHANGED output /\ output[b]["binary.zip"] = "none"
  <2>1. \A other : handler' = [handler EXCEPT ![h].pc = other] => other = location
    BY <1>1, <1>4 DEF ExportType
  <2>2. ASSUME output' = [output EXCEPT ![b]["binary.apk"] = "half"]
        PROVE  output'[b]["binary.zip"] = output[b]["binary.zip"]
    BY <1>1, <2>2 DEF ExportType, Kinds
  <2> QED
    BY <1>1, <2>1, <2>2, MakeCases
<1>7. ASSUME b \notin disturbed' PROVE Orderly(b)'
  <2>1. Orderly(b) /\ \A g \in Handlers : ~Maker(g, b)
    <3>1. \A g \in Handlers \ {h} : ~Maker(g, b)
      BY <1>7 DEF Make, Meets, Others, Code, Maker, Make1, Making
    <3> QED
      BY <1>1, <1>2, <1>7, <3>1 DEF ExportInv, MakeInv, Maker, Make1
  <2>2. output[b]["binary.apk"] \in {"none", "whole"}
    BY <2>1 DEF Orderly, Maker, Make1
  <2>3. CASE location = "send"
    <3>1. handler[h].type \in Kinds /\ UNCHANGED <<product, output>>
          /\ output[b][handler[h].type] = "whole"
      BY <1>1, <1>6, <2>1, <2>2, <2>3 DEF Orderly, Settled, Kinds
    <3> QED
      BY <1>4, <2>1, <2>2, <2>3, <3>1 DEF Orderly, Settled, Progress, Maker, Make1
  <2>4. CASE location = "copy"
    <3>1. /\ output[b]["binary.zip"] = "whole" /\ output[b]["binary.apk"] = "none"
          /\ output'[b]["binary.zip"] = "whole" /\ UNCHANGED product
          /\ \A g \in Handlers : handler[g].code = b /\ handler[g].pc = "send" =>
                 handler[g].type = "binary.zip"
      BY <1>6, <2>1, <2>2, <2>4 DEF Orderly, Settled, Progress, Kinds
    <3> QED
      BY <1>1, <1>4, <2>1, <2>4, <3>1 DEF Orderly, Settled, Progress, Maker, Make1, Kinds
  <2>5. CASE location = "tool"
    <3>1. UNCHANGED output /\ output[b]["binary.zip"] = "none" /\ output[b]["binary.apk"] = "none"
      BY <1>6, <2>1, <2>5 DEF Orderly, Settled
    <3> QED
      BY <1>1, <1>4, <2>1, <2>5, <3>1 DEF Orderly, Settled, Progress, Maker, Make1, Kinds
  <2> QED
    BY <2>3, <2>4, <2>5
<1> QED
  BY <1>1, <1>2, <1>3, <1>5, <1>7, OthersStay

LEMMA WorkKeepsMake ==
    ASSUME ExportInv, NEW h \in Handlers, ToolEnds(h) \/ Pack(h) \/ CopyEnds(h)
    PROVE  MakeInv'
<1> PICK b \in Codes : b = handler[h].code
  BY WorkCases DEF ExportInv
<1>1. ExportType /\ running /\ UNCHANGED disturbed
  BY WorkCases DEF ExportInv
<1>2. PICK location \in {"pack", "copy", "send"} : handler' = [handler EXCEPT ![h].pc = location]
  BY <1>1, WorkCases
<1>3. /\ handler'[h].code = b /\ handler'[h].type = handler[h].type /\ handler'[h].pc = location
      /\ \A g \in Handlers \ {h} : handler'[g] = handler[g]
  BY <1>1, <1>2 DEF ExportType
<1>4. \A c \in Codes \ {b} : product'[c] = product[c] /\ output'[c] = output[c]
  BY <1>1, WorkCases DEF ExportType
<1>5. ASSUME NEW other, handler' = [handler EXCEPT ![h].pc = other] PROVE location = other
  BY <1>1, <1>3, <1>5 DEF ExportType
<1>6. \/ /\ handler[h].pc = "tool" /\ location = "pack"
         /\ product'[b] = Ended(h, "tool") /\ UNCHANGED output
      \/ /\ handler[h].pc = "pack" /\ UNCHANGED product
         /\ location = IF handler[h].type = "binary.apk" THEN "copy" ELSE "send"
         /\ output'[b]["binary.zip"] = product[b]
         /\ handler[h].type # "binary.apk" /\ output[b]["binary.apk"] = "none" =>
               output'[b]["binary.apk"] = "none"
      \/ /\ handler[h].pc = "copy" /\ location = "send" /\ UNCHANGED product
         /\ output'[b]["binary.zip"] = output[b]["binary.zip"]
         /\ output'[b]["binary.apk"] = IF Ended(h, "copy") = "half" THEN "half" ELSE product[b]
  <2>1. CASE ToolEnds(h)
    BY <1>1, <1>5, <2>1 DEF ToolEnds, At, Goto, Code, ExportType
  <2>2. CASE Pack(h)
    BY <1>1, <1>5, <2>2 DEF Pack, At, Goto, Code, Type, ExportType, Absent
  <2>3. CASE CopyEnds(h)
    BY <1>1, <1>5, <2>3 DEF CopyEnds, At, Goto, Code, ExportType, Kinds
  <2> QED
    BY <2>1, <2>2, <2>3
<1>7. ASSUME b \notin disturbed' PROVE Orderly(b)'
  <2>1. Orderly(b) /\ handler[h].pc \in Make1 /\ handler[h].type \in Kinds
    BY <1>1, <1>6, <1>7 DEF ExportInv, MakeInv, Orderly, Progress, Make1
  <2>2. \A g \in Handlers \ {h} : ~Maker(g, b)
    BY <2>1 DEF Orderly, Maker
  <2>3. CASE handler[h].pc = "tool"
    <3>1. product'[b] = "whole"
      BY <1>6, <2>2, <2>3 DEF Ended, Others, Code, Maker, Make1
    <3>2. location = "pack" /\ UNCHANGED output
          /\ output[b]["binary.zip"] = "none" /\ output[b]["binary.apk"] = "none"
      BY <1>6, <2>1, <2>3 DEF Orderly, Settled, Progress
    <3> QED
      BY <1>3, <2>1, <2>2, <3>1, <3>2 DEF Orderly, Settled, Progress, Maker, Make1
  <2>4. CASE handler[h].pc = "pack"
    <3>1. /\ product'[b] = "whole" /\ output'[b]["binary.zip"] = "whole"
          /\ output[b]["binary.zip"] = "none" /\ output[b]["binary.apk"] = "none"
      BY <1>6, <2>1, <2>4 DEF Orderly, Settled, Progress
    <3>2. \A g \in Handlers : handler[g].code = b => handler[g].pc # "send"
      BY <2>1, <3>1 DEF Orderly, Progress, Kinds
    <3>3. CASE handler[h].type = "binary.apk"
      BY <1>3, <1>6, <2>1, <2>2, <2>4, <3>1, <3>2, <3>3
         DEF Orderly, Settled, Progress, Maker, Make1
    <3>4. CASE handler[h].type # "binary.apk"
      <4>1. location = "send" /\ handler[h].type = "binary.zip" /\ output'[b]["binary.apk"] = "none"
        BY <1>6, <2>1, <2>4, <3>1, <3>4 DEF Kinds
      <4> QED
        BY <1>3, <2>1, <2>2, <2>4, <3>1, <3>2, <4>1 DEF Orderly, Settled, Progress, Maker, Make1
    <3> QED
      BY <3>3, <3>4
  <2>5. CASE handler[h].pc = "copy"
    <3>1. Ended(h, "copy") = "whole"
      BY <2>2 DEF Ended, Others, Code, Maker, Make1
    <3>2. /\ location = "send" /\ product'[b] = "whole"
          /\ output'[b]["binary.zip"] = "whole" /\ output'[b]["binary.apk"] = "whole"
      BY <1>6, <2>1, <2>5, <3>1 DEF Orderly, Settled, Progress
    <3> QED
      BY <1>3, <2>1, <2>2, <2>5, <3>2 DEF Orderly, Settled, Progress, Maker, Make1, Kinds
  <2> QED
    BY <2>1, <2>3, <2>4, <2>5 DEF Make1
<1> QED
  BY <1>1, <1>2, <1>4, <1>7, OthersStay

LEMMA HandleKeepsMake ==
    ASSUME ExportInv, NEW h \in Handlers, Handle(h)
    PROVE  MakeInv'
<1>1. ASSUME NEW answer, Answer(h, answer), running, UNCHANGED <<product, output>>,
             disturbed \subseteq disturbed', handler[h].pc = "copy" => handler[h].code \in disturbed'
      PROVE  MakeInv'
  <2>1. handler'[h].pc = "free" /\ \A g \in Handlers \ {h} : handler'[g] = handler[g]
    BY <1>1 DEF Answer, Free, ExportInv, ExportType
  <2> QED
    BY <1>1, <2>1, QuietKeepsMake DEF Making
<1>2. CASE Send(h)
  BY <1>1, <1>2 DEF Send, At, server
<1> QED
  BY <1>1, <1>2, AnswerCases, MakeKeepsMake, WorkKeepsMake DEF ExportInv

LEMMA NextKeepsMake == ExportInv /\ ExportNext => MakeInv'
<1> SUFFICES ASSUME ExportInv, ExportNext PROVE MakeInv'
  OBVIOUS
<1>1. ASSUME NEW codes, Remove(codes), LoseTargets(codes), running PROVE MakeInv'
  <2> SUFFICES ASSUME NEW c \in Codes \ disturbed' PROVE Orderly(c)'
    BY DEF MakeInv
  <2>1. \A h \in Handlers :
           /\ handler'[h].code = handler[h].code /\ handler'[h].type = handler[h].type
           /\ handler'[h].pc = IF handler[h].code \in codes /\ handler[h].pc \in Making
                               THEN "lost" ELSE handler[h].pc
    BY <1>1, Removals DEF ExportInv
  <2>2. CASE c \in codes
    <3>1. product'[c] = "none" /\ output'[c] = Absent
      BY <1>1, <2>2 DEF Remove
    <3>2. \A h \in Handlers : handler'[h].code = c => handler'[h].pc \notin Making
      BY <2>1, <2>2 DEF Making
    <3> QED
      BY <3>1, <3>2 DEF Orderly, Settled, Progress, Maker, Make1, Making, Absent
  <2>3. CASE c \notin codes
    <3>1. product'[c] = product[c] /\ output'[c] = output[c] /\ Orderly(c)
      BY <1>1, <2>3 DEF Remove, ExportInv, MakeInv
    <3>2. \A h \in Handlers : handler[h].code = c => handler'[h].pc = handler[h].pc
      BY <2>1, <2>3
    <3> QED
      BY <2>1, <3>1, <3>2 DEF Orderly, Settled, Progress, Maker
  <2> QED
    BY <2>2, <2>3
<1>2. CASE Crash
  BY <1>2 DEF Crash, MakeInv
<1>3. CASE Started
  <2>1. \A h \in Handlers : handler'[h].pc = "free"
    BY <1>3 DEF Started, ExportInv, ServeInv
  <2>2. \A c \in Codes : product'[c] = "none" /\ output'[c] = Absent
    BY <1>3 DEF Started, Remove
  <2> QED
    BY <2>1, <2>2 DEF MakeInv, Orderly, Settled, Progress, Maker, Make1, Absent
<1> QED
  BY <1>1, <1>2, <1>3, UserKeepsMake, HandleKeepsMake DEF ExportNext, Evict, SecondInstance

-----------------------------------------------------------------------------
(* What is answered.                                                       *)

LEMMA HandleKeepsAnswer ==
    ASSUME ExportInv, NEW h \in Handlers, Handle(h)
    PROVE  AnswerInv'
<1> USE DEF AnswerInv
<1>1. UNCHANGED user => AnswerInv'
  BY DEF ExportInv
<1>2. ASSUME NEW answer, Answer(h, answer),
             \/ handler[h].pc = "validate" \/ answer.status # 200
             \/ answer.sure => answer.body = "whole"
      PROVE  AnswerInv'
  <2>1. \A u \in Users \ {handler[h].user} : user'[u] = user[u]
    BY <1>2 DEF Answer, ExportInv, ExportType
  <2>2. ASSUME NEW u \in Users, u = handler[h].user
        PROVE  /\ user'[u].pc = user[u].pc /\ user'[u].answer = answer
               /\ handler[h].pc = "validate" => user[u].pc = "posted"
    BY <1>2, <2>2, UserAssumption DEF Answer, ExportInv, ExportType, ServeInv, Serves
  <2> QED
    BY <1>2, <2>1, <2>2 DEF ExportInv
<1>3. CASE Make(h) \/ ToolEnds(h) \/ Pack(h) \/ CopyEnds(h)
  BY <1>1, <1>3 DEF Make, ToolEnds, Pack, CopyEnds
<1>4. CASE Send(h)
  <2> PICK type : type = handler[h].type
    OBVIOUS
  <2>1. PICK c \in Codes : c = handler[h].code
    BY <1>4 DEF Send, At, ExportInv, ExportType
  <2>2. c \notin disturbed => output[c][type] = "whole"
    BY <1>4, <2>1 DEF Send, At, ExportInv, MakeInv, Orderly, Progress
  <2>3. PICK answer : answer = Ok(output[c][type], c \notin disturbed)
    OBVIOUS
  <2>4. Answer(h, answer) /\ (answer.sure => answer.body = "whole")
    BY <1>4, <2>1, <2>2, <2>3 DEF Send, Ok, Code, Type
  <2> QED
    BY <1>2, <2>4
<1>5. Refused.status # 200
  BY DEF Refused
<1> QED
  BY <1>2, <1>3, <1>4, <1>5, AnswerCases DEF ExportInv

LEMMA UserKeepsAnswer ==
    ASSUME ExportInv, NEW u \in Users, User(u)
    PROVE  AnswerInv'
<1>1. \A v \in Users \ {u} : user'[v] = user[v]
  BY DEF User, Returns, GetShakey, GetFile, GotShakey, CannotGetFile, GotFile, Refusal, TimedOut,
         GivesUp, Connect, Returned, ExportInv, ExportType
<1>2. user'[u].pc # "asked" \/ user'[u].answer.status # 200
  <2>1. CASE GetFile(u)
    BY <2>1 DEF GetFile, Connect, Returned, ExportInv, ExportType, ServeInv, NoAnswer
  <2>2. CASE GetShakey(u)
    BY <2>2 DEF GetShakey, Connect, Returned, ExportInv, ExportType
  <2>3. CASE Returns(u)
    BY <2>3 DEF Returns, GotShakey, CannotGetFile, GotFile, Refusal, TimedOut, GivesUp, Returned,
         ExportInv, ExportType
  <2> QED
    BY <2>1, <2>2, <2>3 DEF User
<1> QED
  BY <1>1, <1>2 DEF AnswerInv, ExportInv

LEMMA NextKeepsAnswer == ExportInv /\ ExportNext => AnswerInv'
<1> SUFFICES ASSUME ExportInv, ExportNext PROVE AnswerInv'
  OBVIOUS
<1>1. CASE UNCHANGED user
  BY <1>1 DEF AnswerInv, ExportInv
<1>2. CASE Crash
  BY <1>2 DEF Crash, AnswerInv, ExportInv, ExportType, Refused
<1> QED
  BY <1>1, <1>2, UserKeepsAnswer, HandleKeepsAnswer
     DEF ExportNext, Evict, SecondInstance, Started

-----------------------------------------------------------------------------
LEMMA ExportInvHolds == ExportSpec => []ExportInv
<1>1. ExportInv /\ [ExportNext]_exportVars => ExportInv'
  <2> SUFFICES ASSUME ExportInv, [ExportNext]_exportVars PROVE ExportInv'
    OBVIOUS
  <2>1. CASE ExportNext
    BY <2>1, NextTypes, NextKeepsServe, NextKeepsMake, NextKeepsAnswer DEF ExportInv
  <2>2. CASE UNCHANGED exportVars
    BY <2>2 DEF exportVars, ExportInv, ExportType, ServeInv, Serves, MakeInv, Orderly, Settled,
         Progress, Maker, AnswerInv
  <2> QED
    BY <2>1, <2>2
<1> QED
  BY ExportInitInv, <1>1, PTL DEF ExportSpec

(* A client that fw_get_file_from_shakey gave a file, from a target that no *)
(* two threads made at once and no failed copy left behind, has all of it:  *)
(* for any number of clients, threads and programs, whatever fails, dies or *)
(* is evicted in between.                                                   *)
THEOREM FinishedExportIsWhole == ExportSpec => ExportIsWhole
<1>1. ExportInv => \A u \in Users : GotFile(u) /\ user[u].answer.sure => user[u].answer.body = "whole"
  BY DEF ExportInv, AnswerInv, GotFile
<1> QED
  BY <1>1, ExportInvHolds, PTL DEF ExportIsWhole

=============================================================================
