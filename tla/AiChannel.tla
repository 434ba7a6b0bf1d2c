----------------------------- MODULE AiChannel -----------------------------
(***************************************************************************)
(* NtnAiInterface and its agent.  GetAction copies an observation into     *)
(* shared memory, waits for the agent, and copies its action out;          *)
(* NotifySimulationEnd raises the finish flag.  The agent is the loop of   *)
(* the struct-based example: receive, leave if finished, compute, send.    *)
(*                                                                         *)
(* A copy of a struct is one step per field, in any order, so that a copy  *)
(* that overlaps the other process's shows.                                *)
(***************************************************************************)
EXTENDS Ns3AiMsgInterface

CONSTANTS
    Fields,    \* the fields of a message struct
    Values,    \* what a field may hold
    Policy     \* the agent: the action for each observation

Struct == [Fields -> Values]

ASSUME PolicyAssumption == Policy \in [Struct -> Struct]

VARIABLES
    cpp2py, py2cpp,   \* the two structs in shared memory
    cpp, py           \* the two processes

chanVars == <<sync, cpp2py, py2cpp, cpp, py>>

\* left: the fields of the copy in progress still to be copied.  got: what
\* GetAction returned last.
CppPc == {"idle", "sendBegin", "write", "recvBegin", "read",
          "finishBegin", "finishFlag", "finishEnd", "done"}
CppProcess == [pc : CppPc, obs : Struct, act : Struct, got : Struct,
               left : SUBSET Fields]
PyPc == {"recvBegin", "check", "read", "sendBegin", "write", "done"}
PyProcess == [pc : PyPc, alive : BOOLEAN, obs : Struct, act : Struct,
              left : SUBSET Fields]

\* No struct is initialised, and no action has been asked for.
ChanInit ==
    /\ sync = NewSync
    /\ \E x \in Struct :
          /\ cpp2py = x /\ py2cpp = x
          /\ cpp = [pc |-> "idle", obs |-> x, act |-> x, got |-> Policy[x],
                    left |-> {}]
          /\ py = [pc |-> "recvBegin", alive |-> TRUE, obs |-> x, act |-> x,
                   left |-> {}]

-----------------------------------------------------------------------------
(* The simulator: GetAction and NotifySimulationEnd.                       *)

CppAt(pc) == cpp.pc = pc
CppGoes(pc) == cpp' = [cpp EXCEPT !.pc = pc]
CppCopies(pc) == cpp' = [cpp EXCEPT !.pc = pc, !.left = Fields]

GetAction(o) ==
    /\ CppAt("idle")
    /\ cpp' = [cpp EXCEPT !.pc = "sendBegin", !.obs = o]
    /\ UNCHANGED <<sync, cpp2py, py2cpp, py>>

SendBegin ==
    /\ CppAt("sendBegin") /\ CppSendBegin
    /\ CppCopies("write")
    /\ UNCHANGED <<cpp2py, py2cpp, py>>

WriteObservation(f) ==
    /\ CppAt("write") /\ f \in cpp.left
    /\ cpp2py' = [cpp2py EXCEPT ![f] = cpp.obs[f]]
    /\ cpp' = [cpp EXCEPT !.left = @ \ {f}]
    /\ UNCHANGED <<sync, py2cpp, py>>

SlipSendEnd ==
    /\ CppAt("write") /\ CppSendEnd
    /\ CppGoes("recvBegin")
    /\ UNCHANGED <<cpp2py, py2cpp, py>>

SendEnd ==
    /\ CppAt("write") /\ cpp.left = {} /\ CppSendEnd
    /\ CppGoes("recvBegin")
    /\ UNCHANGED <<cpp2py, py2cpp, py>>

RecvBegin ==
    /\ CppAt("recvBegin") /\ CppRecvBegin
    /\ CppCopies("read")
    /\ UNCHANGED <<cpp2py, py2cpp, py>>

ReadAction(f) ==
    /\ CppAt("read") /\ f \in cpp.left
    /\ cpp' = [cpp EXCEPT !.act[f] = py2cpp[f], !.left = @ \ {f}]
    /\ UNCHANGED <<sync, cpp2py, py2cpp, py>>

RecvEnd ==
    /\ CppAt("read") /\ cpp.left = {} /\ CppRecvEnd
    /\ cpp' = [cpp EXCEPT !.pc = "idle", !.got = cpp.act]
    /\ UNCHANGED <<cpp2py, py2cpp, py>>

NotifySimulationEnd ==
    /\ CppAt("idle")
    /\ CppGoes("finishBegin")
    /\ UNCHANGED <<sync, cpp2py, py2cpp, py>>

\* CppSetFinished: SendBegin, the flag, SendEnd.
FinishBegin ==
    /\ CppAt("finishBegin") /\ CppSendBegin
    /\ CppGoes("finishFlag")
    /\ UNCHANGED <<cpp2py, py2cpp, py>>

SlipFinishFlag ==
    /\ CppAt("finishFlag")
    /\ CppGoes("finishEnd")
    /\ UNCHANGED <<sync, cpp2py, py2cpp, py>>

FinishFlag ==
    /\ CppAt("finishFlag")
    /\ sync' = [sync EXCEPT !.isFinished = TRUE]
    /\ CppGoes("finishEnd")
    /\ UNCHANGED <<cpp2py, py2cpp, py>>

FinishEnd ==
    /\ CppAt("finishEnd") /\ CppSendEnd
    /\ CppGoes("done")
    /\ UNCHANGED <<cpp2py, py2cpp, py>>

-----------------------------------------------------------------------------
(* The agent.                                                              *)

PyAt(pc) == py.alive /\ py.pc = pc
PyGoes(pc) == py' = [py EXCEPT !.pc = pc]
PyCopies(pc) == py' = [py EXCEPT !.pc = pc, !.left = Fields]

Receive ==
    /\ PyAt("recvBegin") /\ PyRecvBegin
    /\ PyGoes("check")
    /\ UNCHANGED <<cpp2py, py2cpp, cpp>>

Check ==
    /\ PyAt("check")
    /\ \/ sync.isFinished /\ PyGoes("done")
       \/ ~sync.isFinished /\ PyCopies("read")
    /\ UNCHANGED <<sync, cpp2py, py2cpp, cpp>>

ReadObservation(f) ==
    /\ PyAt("read") /\ f \in py.left
    /\ py' = [py EXCEPT !.obs[f] = cpp2py[f], !.left = @ \ {f}]
    /\ UNCHANGED <<sync, cpp2py, py2cpp, cpp>>

Decide ==
    /\ PyAt("read") /\ py.left = {} /\ PyRecvEnd
    /\ py' = [py EXCEPT !.pc = "sendBegin", !.act = Policy[py.obs]]
    /\ UNCHANGED <<cpp2py, py2cpp, cpp>>

Reply ==
    /\ PyAt("sendBegin") /\ PySendBegin
    /\ PyCopies("write")
    /\ UNCHANGED <<cpp2py, py2cpp, cpp>>

WriteAction(f) ==
    /\ PyAt("write") /\ f \in py.left
    /\ py2cpp' = [py2cpp EXCEPT ![f] = py.act[f]]
    /\ py' = [py EXCEPT !.left = @ \ {f}]
    /\ UNCHANGED <<sync, cpp2py, cpp>>

Replied ==
    /\ PyAt("write") /\ py.left = {} /\ PySendEnd
    /\ PyGoes("recvBegin")
    /\ UNCHANGED <<cpp2py, py2cpp, cpp>>

\* The agent dies, wherever it is; shared memory stays as it was.
Dies ==
    /\ py.alive
    /\ py' = [py EXCEPT !.alive = FALSE]
    /\ UNCHANGED <<sync, cpp2py, py2cpp, cpp>>

-----------------------------------------------------------------------------
CppNext ==
    \/ \E o \in Struct : GetAction(o)
    \/ SendBegin \/ SendEnd \/ RecvBegin \/ RecvEnd
    \/ \E f \in Fields : WriteObservation(f) \/ ReadAction(f)
    \/ NotifySimulationEnd \/ FinishBegin \/ FinishFlag \/ FinishEnd

PyNext ==
    \/ Receive \/ Check \/ Decide \/ Reply \/ Replied
    \/ \E f \in Fields : ReadObservation(f) \/ WriteAction(f)

ChanNext == CppNext \/ PyNext \/ Dies

ChanSpec == ChanInit /\ [][ChanNext]_chanVars

\* Both processes are scheduled by the operating system, and a wait spins.  The
\* simulator may also compute for ever without asking again.
ChanFairness == WF_chanVars(CppNext /\ ~CppAt("idle")) /\ WF_chanVars(PyNext)

FairChanSpec == ChanSpec /\ ChanFairness

-----------------------------------------------------------------------------
(* Properties.                                                             *)

\* The types, and that no semaphore ever counts more than one message or one
\* free slot.
ChanTypeOK ==
    /\ sync \in Syncs
    /\ \A s \in Semaphores : sync[s] <= 1
    /\ cpp2py \in Struct /\ py2cpp \in Struct
    /\ cpp \in CppProcess /\ py \in PyProcess

\* The two processes never copy the same struct at the same time, so no message
\* is read half written.
NoTornCopy ==
    /\ ~(cpp.pc = "write" /\ py.pc = "read")
    /\ ~(cpp.pc = "read" /\ py.pc = "write")

\* Tokens: each struct is free, full, or in the hands of one process.
CppHolds == cpp.pc \in {"write", "finishFlag", "finishEnd"}
PyHolds == py.pc \in {"check", "read", "done"}
One(b) == IF b THEN 1 ELSE 0
Tokens ==
    /\ sync.cpp2pyEmpty + sync.cpp2pyFull + One(CppHolds) + One(PyHolds) = 1
    /\ sync.py2cppEmpty + sync.py2cppFull
          + One(cpp.pc = "read") + One(py.pc = "write") = 1

\* Turns: the agent is busy only while the simulator waits for it, and the end is
\* announced before the last message.
Calm == py.pc = "recvBegin" /\ sync.cpp2pyFull = 0 /\ sync.py2cppFull = 0
Busy(pcs) == py.pc \in pcs /\ sync.cpp2pyFull = 0 /\ sync.py2cppFull = 0
Turns ==
    /\ cpp.pc \notin {"recvBegin", "done"} => Calm
    /\ cpp.pc = "recvBegin" =>
          \/ py.pc = "recvBegin" /\ sync.cpp2pyFull + sync.py2cppFull = 1
          \/ Busy({"check", "read", "sendBegin", "write"})
    /\ cpp.pc = "done" =>
          \/ py.pc = "recvBegin" /\ sync.cpp2pyFull = 1 /\ sync.py2cppFull = 0
          \/ Busy({"check", "done"})
    /\ sync.isFinished <=> cpp.pc \in {"finishEnd", "done"}

\* Copies: what has been copied is what was meant, on the way there and back.
Copies ==
    /\ cpp.pc = "write" =>
          \A f \in Fields \ cpp.left : cpp2py[f] = cpp.obs[f]
    /\ cpp.pc = "recvBegin" /\ (sync.cpp2pyFull = 1 \/ py.pc \in {"check", "read"}) =>
          cpp2py = cpp.obs
    /\ py.pc = "read" => \A f \in Fields \ py.left : py.obs[f] = cpp.obs[f]
    /\ py.pc \in {"sendBegin", "write"} => py.act = Policy[cpp.obs]
    /\ py.pc = "write" => \A f \in Fields \ py.left : py2cpp[f] = py.act[f]
    /\ cpp.pc = "read" \/ (cpp.pc = "recvBegin" /\ sync.py2cppFull = 1) =>
          py2cpp = Policy[cpp.obs]
    /\ cpp.pc = "read" => \A f \in Fields \ cpp.left : cpp.act[f] = py2cpp[f]

\* The inductive invariant behind exclusion and refinement.
ChanInv == ChanTypeOK /\ Tokens /\ Turns /\ Copies

\* GetAction returns the agent's action for the observation it was called with.
\* The answer is there when the agent has posted it.
phase ==
    IF cpp.pc \in {"idle", "finishBegin", "finishFlag", "finishEnd"} THEN "idle"
    ELSE IF cpp.pc = "done" THEN "over"
    ELSE IF cpp.pc = "read" \/ sync.py2cppFull > 0 THEN "answered"
    ELSE "asked"

Abstract == INSTANCE Exchange WITH
    Observation <- Struct, question <- cpp.obs, action <- cpp.got

Implements == Abstract!XSpec

\* An observation is answered, unless the agent dies: the wait has no timeout.
Answered == cpp.pc = "sendBegin" ~> (cpp.pc = "idle" \/ ~py.alive)

\* The end of the simulation reaches the agent, which then leaves its loop.
FinishSeen == cpp.pc = "finishBegin" ~> (py.pc = "done" \/ ~py.alive)
=============================================================================
