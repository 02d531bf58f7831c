------------------------------ MODULE Processes ------------------------------
(***************************************************************************)
(* The programs that the threads of the server run (src/process.cpp):      *)
(* runProgram waits for a program whose output goes to files, and          *)
(* captureProgram reads the output of one through a pipe.  A child has     *)
(* every descriptor that the server has when it is forked, and keeps it    *)
(* through exec: those of the pipes of other threads too.                  *)
(***************************************************************************)
EXTENDS Naturals, FiniteSets

CONSTANTS
    Callers,    \* threads of the server
    Output,     \* how many writes the output of a captured program takes
    Capacity    \* how many of them a pipe holds

ASSUME CallerAssumption == "server" \notin Callers
ASSUME OutputAssumption == Output \in Nat /\ Capacity \in Nat \ {0}

VARIABLES
    call,       \* for each thread: the call in progress, where it is, what it
                \* has read, and the status its last call returned
    child,      \* its child: "none", "forked", "running", or how it ended
    holders,    \* for each thread, who has the write end of its pipe: "server",
                \* or threads that stand for their children
    pipe        \* what is in its pipe

processVars == <<call, child, holders, pipe>>

-----------------------------------------------------------------------------
Ready == [kind |-> "none", pc |-> "ready", got |-> 0, status |-> "none"]
Endings == {"0", "error", "127"}
Returned(t, status) == call' = [call EXCEPT ![t] = [Ready EXCEPT !.status = status]]
GoOn(t, location) == call' = [call EXCEPT ![t].pc = location]

RunProgram(t) ==
    /\ call[t].pc = "ready"
    /\ call' = [call EXCEPT ![t] = [Ready EXCEPT !.kind = "run", !.pc = "fork"]]
    /\ UNCHANGED <<child, holders, pipe>>

CaptureProgram(t) ==
    /\ call[t].pc = "ready"
    /\ call' = [call EXCEPT ![t] = [Ready EXCEPT !.kind = "capture", !.pc = "fork"]]
    /\ holders' = [holders EXCEPT ![t] = {"server"}]
    /\ UNCHANGED <<child, pipe>>

Inherits(t) ==
    holders' = [u \in Callers |->
        IF "server" \in holders[u] THEN holders[u] \cup {t} ELSE holders[u]]

Fork(t) ==
    /\ call[t].pc = "fork"
    /\ child' = [child EXCEPT ![t] = "forked"]
    /\ Inherits(t)
    /\ GoOn(t, IF call[t].kind = "capture" THEN "close" ELSE "wait")
    /\ UNCHANGED pipe

\* Mutated: the pipe is left open.
CannotForkLeaves(t) ==
    /\ call[t].pc = "fork"
    /\ Returned(t, "-1")
    /\ UNCHANGED <<child, holders, pipe>>

\* Nor can a pipe be made: the result is the same.
CannotFork(t) ==
    /\ call[t].pc = "fork"
    /\ holders' = [holders EXCEPT ![t] = {}]
    /\ Returned(t, "-1")
    /\ UNCHANGED <<child, pipe>>

\* Mutated: the program is waited for before its output is read.
CloseWriteEndWaits(t) ==
    /\ call[t].pc = "close"
    /\ holders' = [holders EXCEPT ![t] = @ \ {"server"}]
    /\ IF child[t] \in Endings THEN GoOn(t, "read") ELSE UNCHANGED call
    /\ UNCHANGED <<child, pipe>>

CloseWriteEnd(t) ==
    /\ call[t].pc = "close"
    /\ holders' = [holders EXCEPT ![t] = @ \ {"server"}]
    /\ GoOn(t, "read")
    /\ UNCHANGED <<child, pipe>>

Read(t) ==
    /\ call[t].pc = "read" /\ pipe[t] > 0
    /\ pipe' = [pipe EXCEPT ![t] = @ - 1]
    /\ call' = [call EXCEPT ![t].got = @ + 1]
    /\ UNCHANGED <<child, holders>>

\* Mutated: an empty pipe is taken for one that ends.
EndOfFileEarly(t) ==
    /\ call[t].pc = "read" /\ pipe[t] = 0
    /\ GoOn(t, "wait")
    /\ UNCHANGED <<child, holders, pipe>>

\* read() returns 0 when nobody has the write end any more.
EndOfFile(t) ==
    /\ call[t].pc = "read" /\ pipe[t] = 0 /\ holders[t] = {}
    /\ GoOn(t, "wait")
    /\ UNCHANGED <<child, holders, pipe>>

WaitProgram(t) ==
    /\ call[t].pc = "wait" /\ child[t] \in Endings
    /\ child' = [child EXCEPT ![t] = "none"]
    /\ Returned(t, child[t])
    /\ UNCHANGED <<holders, pipe>>

-----------------------------------------------------------------------------
(* The child.                                                              *)

Exec(t) ==
    /\ child[t] = "forked"
    /\ child' = [child EXCEPT ![t] = "running"]
    /\ UNCHANGED <<call, holders, pipe>>

Ends(t, how) ==
    /\ child' = [child EXCEPT ![t] = how]
    /\ holders' = [u \in Callers |-> holders[u] \ {t}]
    /\ UNCHANGED <<call, pipe>>

\* The directory, a file or the program is not there.
CannotExec(t) == child[t] = "forked" /\ Ends(t, "127")

WrittenBy(t) == call[t].got + pipe[t]

Writes(t) ==
    /\ child[t] = "running" /\ call[t].kind = "capture"
    /\ WrittenBy(t) < Output /\ pipe[t] < Capacity
    /\ pipe' = [pipe EXCEPT ![t] = @ + 1]
    /\ UNCHANGED <<call, child, holders>>

Succeeds(t) ==
    /\ child[t] = "running"
    /\ call[t].kind = "capture" => WrittenBy(t) = Output
    /\ Ends(t, "0")

\* An error of its own, or a limit (setLimit) that kills it.
Fails(t) == child[t] = "running" /\ Ends(t, "error")

ProcessInit ==
    /\ call = [t \in Callers |-> Ready]
    /\ child = [t \in Callers |-> "none"]
    /\ holders = [t \in Callers |-> {}]
    /\ pipe = [t \in Callers |-> 0]

Caller(t) ==
    Fork(t) \/ CannotFork(t) \/ CloseWriteEnd(t) \/ Read(t) \/ EndOfFile(t) \/ WaitProgram(t)

GoesOn(t) == Exec(t) \/ Writes(t) \/ Succeeds(t)
Child(t) == GoesOn(t) \/ CannotExec(t) \/ Fails(t)

ProcessNext ==
    \E t \in Callers : RunProgram(t) \/ CaptureProgram(t) \/ Caller(t) \/ Child(t)

ProcessSpec == ProcessInit /\ [][ProcessNext]_processVars

\* The threads run, and so do the programs; no program has to fail, for make has
\* no limit of time.
ProcessFairness == \A t \in Callers : WF_processVars(Caller(t)) /\ WF_processVars(GoesOn(t))

-----------------------------------------------------------------------------
(* process.hh: a call gives the status of its own program, and all of its   *)
(* output if it succeeded, though other children have its pipe.             *)
OwnResult ==
    [][\A t \in Callers :
         call[t].pc = "wait" /\ call'[t].pc = "ready" =>
             /\ call'[t].status = child[t]
             /\ call[t].kind = "capture" /\ child[t] = "0" => call[t].got = Output]_processVars

(* Whatever fails, a thread that runs no program has no pipe open, no child  *)
(* is left to wait for, and no child writes to a pipe that is not read.      *)
NoDescriptorLeft ==
    \A t \in Callers :
        call[t].pc = "ready" => child[t] = "none" /\ holders[t] = {} /\ pipe[t] = 0

(* Every call ends: no thread waits for a child that waits for it, and a     *)
(* pipe that other children have is only late.                               *)
EveryCallEnds == \A t \in Callers : call[t].pc # "ready" ~> call[t].pc = "ready"

=============================================================================
