----------------------------- MODULE GymSession -----------------------------
(***************************************************************************)
(* A training run over the Gym interface: OpenGymInterface in one          *)
(* simulator process after the other, and one Ns3Env in the agent's        *)
(* process, which starts and kills them.  The shared memory belongs to the *)
(* agent's Experiment and outlives every simulator.                        *)
(*                                                                         *)
(* A message is written between a wait and a post, which the kill of a     *)
(* simulator may separate.  AiChannel shows that copies do not overlap, so *)
(* a whole message is written and posted, or read and released, in a step. *)
(***************************************************************************)
EXTENDS Ns3AiMsgInterface

CONSTANTS
    MaxSteps,      \* bound: control periods of one simulation
    MaxSessions,   \* bound: simulations the agent starts
    EndCalls       \* calls of NotifySimulationEnd in the program

ASSUME GymAssumption ==
    /\ MaxSteps \in Nat \ {0} /\ MaxSessions \in Nat /\ EndCalls \in Nat

VARIABLES
    cpp2py, py2cpp,   \* the messages in the two structs
    sim,              \* the simulator process
    agent,            \* the agent's process
    clean             \* history: every simulator so far started on a fresh sync

gymVars == <<sync, cpp2py, py2cpp, sim, agent, clean>>

\* State n of session s is named <<s, n>>; each has an observation of its own.
States == (0 .. MaxSessions) \X (0 .. MaxSteps + EndCalls)

\* Only the fields the protocol looks at.
InitMsg == [kind |-> "SimInitMsg", over |-> FALSE, state |-> <<0, 0>>]
StateMsg(over, s) == [kind |-> "EnvStateMsg", over |-> over, state |-> s]
Ack(compatible) == [kind |-> "SimInitAck", compatible |-> compatible,
                    stop |-> FALSE, state |-> <<0, 0>>]
Act(s) == [kind |-> "EnvActMsg", compatible |-> TRUE, stop |-> FALSE, state |-> s]
Close == [kind |-> "EnvActMsg", compatible |-> TRUE, stop |-> TRUE, state |-> <<0, 0>>]

SimMessages == [kind : {"SimInitMsg", "EnvStateMsg"}, over : BOOLEAN, state : States]
AgentMessages == [kind : {"SimInitAck", "EnvActMsg"}, compatible : BOOLEAN,
                  stop : BOOLEAN, state : States]

SimPc == {"run", "initSend", "initWrite", "initRecv", "initRead",
          "send", "write", "recv", "read", "exit"}
SimProcess == [pc : SimPc, initSent : BOOLEAN, stop : BOOLEAN, simEnd : BOOLEAN,
               over : BOOLEAN, step : 0 .. MaxSteps, ends : 0 .. EndCalls,
               sent : 0 .. MaxSteps + EndCalls, acted : States]

NewSim == [pc |-> "run", initSent |-> FALSE, stop |-> FALSE, simEnd |-> FALSE,
           over |-> FALSE, step |-> 0, ends |-> 0, sent |-> 0, acted |-> <<0, 0>>]

\* call: the method the user called.  obs: the state last received.
AgentPc == {"spawn", "started", "initRecv", "initRead", "initSend", "initWrite",
            "rxRecv", "rxRead", "closeSend", "closeWrite",
            "actSend", "actWrite", "user", "closed"}
AgentProcess == [pc : AgentPc, call : {"reset", "step", "leave"},
                 newStateRx : BOOLEAN, gameOver : BOOLEAN, envDirty : BOOLEAN,
                 compatible : BOOLEAN, obs : States, session : 0 .. MaxSessions]

\* Ns3Env.__init__ up to the first exp.run.
GymInit ==
    /\ sync = NewSync
    /\ cpp2py = InitMsg /\ py2cpp = Ack(TRUE)
    /\ sim = [NewSim EXCEPT !.pc = "exit"]
    /\ agent = [pc |-> "spawn", call |-> "reset", newStateRx |-> FALSE,
                gameOver |-> FALSE, envDirty |-> FALSE, compatible |-> TRUE,
                obs |-> <<0, 0>>, session |-> 0]
    /\ clean = TRUE

-----------------------------------------------------------------------------
(* The simulator.  Each action leaves the agent and, unless it sends, the  *)
(* messages alone.                                                         *)

SimAt(pc) == sim.pc = pc
SimGoes(pc) == sim' = [sim EXCEPT !.pc = pc]
SimLocal == UNCHANGED <<cpp2py, py2cpp, agent, clean>>

\* NotifyCurrentState after Init: nothing once a stop was requested, otherwise
\* the state is collected and sent.
Collect(s, over) ==
    IF s.stop THEN [s EXCEPT !.pc = "run"]
    ELSE [s EXCEPT !.pc = "send", !.over = over \/ s.simEnd]

\* Notify, once every control period while the simulation runs.
Notify(over) ==
    /\ SimAt("run") /\ ~sim.stop /\ sim.ends = 0 /\ sim.step < MaxSteps
    /\ sim' = IF sim.initSent
              THEN Collect([sim EXCEPT !.step = @ + 1], over)
              ELSE [sim EXCEPT !.pc = "initSend", !.initSent = TRUE, !.step = @ + 1]
    /\ UNCHANGED sync /\ SimLocal

InitSend == SimAt("initSend") /\ CppSendBegin /\ SimGoes("initWrite") /\ SimLocal

InitWrite ==
    /\ SimAt("initWrite") /\ CppSendEnd
    /\ cpp2py' = InitMsg
    /\ SimGoes("initRecv")
    /\ UNCHANGED <<py2cpp, agent, clean>>

InitRecv == SimAt("initRecv") /\ CppRecvBegin /\ SimGoes("initRead") /\ SimLocal

\* An incompatible peer aborts the program.  The two kinds of reply keep the stop
\* request in the same field, so either is obeyed.
InitRead(over) ==
    /\ SimAt("initRead") /\ CppRecvEnd
    /\ sim' = IF ~py2cpp.compatible THEN [sim EXCEPT !.pc = "exit"]
              ELSE Collect([sim EXCEPT !.stop = py2cpp.stop], over)
    /\ SimLocal

Send == SimAt("send") /\ CppSendBegin /\ SimGoes("write") /\ SimLocal

Latest == <<agent.session, sim.sent>>

Write ==
    /\ SimAt("write") /\ CppSendEnd
    /\ sim' = [sim EXCEPT !.pc = "recv", !.sent = @ + 1]
    /\ cpp2py' = StateMsg(sim.over, <<agent.session, sim.sent + 1>>)
    /\ UNCHANGED <<py2cpp, agent, clean>>

Recv == SimAt("recv") /\ CppRecvBegin /\ SimGoes("read") /\ SimLocal

\* After the end the reply is only taken; a stop request ends the simulation; an
\* action is executed.
SlipRead ==
    /\ SimAt("read") /\ CppRecvEnd
    /\ sim' = [sim EXCEPT !.pc = "run", !.acted = py2cpp.state]
    /\ SimLocal

Read ==
    /\ SimAt("read") /\ CppRecvEnd
    /\ sim' = IF sim.simEnd THEN [sim EXCEPT !.pc = "run"]
              ELSE IF py2cpp.stop THEN [sim EXCEPT !.pc = "run", !.stop = TRUE]
              ELSE [sim EXCEPT !.pc = "run", !.acted = py2cpp.state]
    /\ SimLocal

\* The simulation is over, or Simulator::Stop has ended it.
NotifySimulationEnd ==
    /\ SimAt("run") /\ sim.ends < EndCalls
    /\ sim.stop \/ sim.step = MaxSteps
    /\ sim' = Collect([sim EXCEPT !.simEnd = TRUE, !.ends = @ + 1], TRUE)
    /\ UNCHANGED sync /\ SimLocal

Exit ==
    /\ SimAt("run") /\ sim.ends = EndCalls
    /\ SimGoes("exit")
    /\ UNCHANGED sync /\ SimLocal

-----------------------------------------------------------------------------
(* The agent.                                                              *)

AgentAt(pc) == agent.pc = pc
AgentGoes(pc) == agent' = [agent EXCEPT !.pc = pc]
AgentLocal == UNCHANGED <<cpp2py, py2cpp, sim, clean>>

\* Experiment.run: kills the simulator if it is still alive and starts the next.
Spawn ==
    /\ AgentAt("spawn") /\ agent.session < MaxSessions
    /\ sim' = NewSim
    /\ agent' = [agent EXCEPT !.pc = "started", !.session = @ + 1]
    /\ clean' = (clean /\ sync = NewSync)
    /\ UNCHANGED <<sync, cpp2py, py2cpp>>

\* A simulator that has died very early ends the agent.
Started ==
    /\ AgentAt("started")
    /\ AgentGoes(IF SimAt("exit") THEN "closed" ELSE "initRecv")
    /\ UNCHANGED sync /\ AgentLocal

\* initialize_env.
AgentInitRecv ==
    AgentAt("initRecv") /\ PyRecvBegin /\ AgentGoes("initRead") /\ AgentLocal

\* A state read as an init carries its free text where the schema hash is, if it
\* has any, and no version.
AgentInitRead ==
    /\ AgentAt("initRead") /\ PyRecvEnd
    /\ \E ok \in IF cpp2py.kind = "SimInitMsg" THEN {TRUE} ELSE BOOLEAN :
          agent' = [agent EXCEPT !.pc = "initSend", !.compatible = ok]
    /\ AgentLocal

AgentInitSend ==
    AgentAt("initSend") /\ PySendBegin /\ AgentGoes("initWrite") /\ AgentLocal

AgentInitWrite ==
    /\ AgentAt("initWrite") /\ PySendEnd
    /\ py2cpp' = Ack(agent.compatible)
    /\ AgentGoes("rxRecv")
    /\ UNCHANGED <<cpp2py, sim, clean>>

\* What the caller of rx_env_state does next.
Received(a) == [a EXCEPT !.pc = "user", !.newStateRx = TRUE,
                         !.envDirty = (a.call = "step")]

\* rx_env_state.
RxRecv == AgentAt("rxRecv") /\ PyRecvBegin /\ AgentGoes("rxRead") /\ AgentLocal

RxRead ==
    /\ AgentAt("rxRead") /\ PyRecvEnd
    /\ LET a == [agent EXCEPT !.obs = cpp2py.state, !.gameOver = cpp2py.over]
       IN  agent' = IF cpp2py.over THEN [a EXCEPT !.pc = "closeSend"]
                                   ELSE Received(a)
    /\ AgentLocal

\* send_close_command, from rx_env_state or from reset.
CloseSend == AgentAt("closeSend") /\ PySendBegin /\ AgentGoes("closeWrite") /\ AgentLocal

CloseWrite ==
    /\ AgentAt("closeWrite") /\ PySendEnd
    /\ py2cpp' = Close
    /\ agent' = IF agent.call = "leave"
                THEN [agent EXCEPT !.pc = "spawn", !.call = "reset",
                                   !.newStateRx = FALSE, !.gameOver = FALSE]
                ELSE Received(agent)
    /\ UNCHANGED <<cpp2py, sim, clean>>

\* step, called while the episode is not over.
Step ==
    /\ AgentAt("user") /\ ~agent.gameOver
    /\ agent' = [agent EXCEPT !.pc = "actSend", !.call = "step"]
    /\ UNCHANGED sync /\ AgentLocal

ActSend == AgentAt("actSend") /\ PySendBegin /\ AgentGoes("actWrite") /\ AgentLocal

\* The action is chosen for the state last received.
SlipActWrite ==
    /\ AgentAt("actWrite") /\ PySendEnd
    /\ agent' = [agent EXCEPT !.pc = "rxRecv", !.newStateRx = FALSE]
    /\ UNCHANGED <<cpp2py, py2cpp, sim, clean>>

ActWrite ==
    /\ AgentAt("actWrite") /\ PySendEnd
    /\ py2cpp' = Act(agent.obs)
    /\ agent' = [agent EXCEPT !.pc = "rxRecv", !.newStateRx = FALSE]
    /\ UNCHANGED <<cpp2py, sim, clean>>

\* reset, which does nothing before the first step.  The state is always received
\* by then, so rx_env_state returns at once.
Reset ==
    /\ AgentAt("user") /\ agent.envDirty
    /\ agent' = IF agent.gameOver
                THEN [agent EXCEPT !.pc = "spawn", !.call = "reset",
                                   !.newStateRx = FALSE, !.gameOver = FALSE]
                ELSE [agent EXCEPT !.pc = "closeSend", !.call = "leave"]
    /\ UNCHANGED sync /\ AgentLocal

\* close kills the simulator.
CloseEnv ==
    /\ AgentAt("user")
    /\ AgentGoes("closed")
    /\ SimGoes("exit")
    /\ UNCHANGED <<sync, cpp2py, py2cpp, clean>>

-----------------------------------------------------------------------------
SimNext ==
    \/ \E over \in BOOLEAN : Notify(over) \/ InitRead(over)
    \/ InitSend \/ InitWrite \/ InitRecv
    \/ Send \/ Write \/ Recv \/ Read
    \/ NotifySimulationEnd \/ Exit

AgentNext ==
    \/ Spawn \/ Started
    \/ AgentInitRecv \/ AgentInitRead \/ AgentInitSend \/ AgentInitWrite
    \/ RxRecv \/ RxRead
    \/ CloseSend \/ CloseWrite
    \/ ActSend \/ ActWrite

UserNext == Step \/ Reset \/ CloseEnv

GymNext == SimNext \/ AgentNext \/ UserNext

GymSpec == GymInit /\ [][GymNext]_gymVars

\* Both processes run; the user's code need not call anything again.
GymFairness == WF_gymVars(SimNext) /\ WF_gymVars(AgentNext)

FairGymSpec == GymSpec /\ GymFairness

-----------------------------------------------------------------------------
(* Properties.                                                             *)

GymTypeOK ==
    /\ sync \in Syncs
    /\ \A s \in Semaphores : sync[s] <= 1
    /\ cpp2py \in SimMessages /\ py2cpp \in AgentMessages
    /\ sim \in SimProcess /\ agent \in AgentProcess
    /\ clean \in BOOLEAN

\* A message is read as what it was written as: the handshake and the exchange of
\* states never get out of step, through any number of resets, as long as every
\* simulator finds the semaphores in their initial state.
ReadAsWritten ==
    clean => /\ AgentAt("initRead") => cpp2py.kind = "SimInitMsg"
             /\ AgentAt("rxRead") => cpp2py.kind = "EnvStateMsg"
             /\ SimAt("initRead") => py2cpp.kind = "SimInitAck"
             /\ SimAt("read") => py2cpp.kind = "EnvActMsg"

\* The simulator executes only an action chosen for the state it sent last, in
\* this simulation and no earlier one, if it started on fresh semaphores.
ActionFresh ==
    [][clean /\ Read /\ ~sim'.simEnd /\ ~sim'.stop => sim'.acted = Latest]_gymVars

\* (Does not hold, see README.)  "Semaphores reset to initial state" at every
\* reset.
SemaphoresReset == [][Spawn => sync = NewSync]_gymVars

\* What the agent asks for comes: the first state of an episode, the next one, or
\* the end of the simulator it leaves.
Waiting == clean /\ agent.pc \in {"started", "initRecv", "initSend", "rxRecv",
                                "closeSend", "actSend"}
StateArrives == Waiting ~> (AgentAt("user") \/ AgentAt("spawn") \/ ~clean)

\* A simulator that was told to stop, or is at its end, exits unless it is killed.
Ending == clean /\ ~SimAt("exit") /\ (sim.stop \/ sim.simEnd)
SimulatorExits == Ending ~> ~Ending
=============================================================================
