------------------------- MODULE Ns3AiMsgInterface -------------------------
(***************************************************************************)
(* The shared memory between the simulator (C++) and an agent (Python):    *)
(* four counting semaphores of eight bits and a flag, and the calls that   *)
(* guard the two message structs, one for each direction.                  *)
(* Definitions whose name starts with Slip are not the code: each is the   *)
(* next definition with one plausible mistake, for the mutation of the     *)
(* runs.                                                                   *)
(*                                                                         *)
(* sem_wait retries a compare-and-swap until it has taken one from a       *)
(* positive count, and takes effect at the exchange that succeeds;         *)
(* sem_post is one atomic addition.  Each is one step here.                *)
(***************************************************************************)
EXTENDS Naturals

VARIABLE sync     \* the Ns3AiMsgSync object

Counts == 0 .. 255

Semaphores == {"cpp2pyEmpty", "cpp2pyFull", "py2cppEmpty", "py2cppFull"}

Syncs == [cpp2pyEmpty : Counts, cpp2pyFull : Counts,
          py2cppEmpty : Counts, py2cppFull : Counts, isFinished : BOOLEAN]

NewSync == [cpp2pyEmpty |-> 1, cpp2pyFull |-> 0,
            py2cppEmpty |-> 1, py2cppFull |-> 0, isFinished |-> FALSE]

SlipWait(s) == sync[s] > 0 /\ UNCHANGED sync
sem_wait(s) == sync[s] > 0 /\ sync' = [sync EXCEPT ![s] = @ - 1]
sem_post(s) == sync' = [sync EXCEPT ![s] = (@ + 1) % 256]

CppSendBegin == sem_wait("cpp2pyEmpty")
CppSendEnd == sem_post("cpp2pyFull")
SlipCppRecvBegin == UNCHANGED sync
CppRecvBegin == sem_wait("py2cppFull")
CppRecvEnd == sem_post("py2cppEmpty")

PyRecvBegin == sem_wait("cpp2pyFull")
PyRecvEnd == sem_post("cpp2pyEmpty")
PySendBegin == sem_wait("py2cppEmpty")
SlipPySendEnd == UNCHANGED sync
PySendEnd == sem_post("py2cppFull")
=============================================================================
