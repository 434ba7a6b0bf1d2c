--------------------------- MODULE GymSessionProofs ---------------------------
(***************************************************************************)
(* The Gym session, for any number of steps, sessions and calls of         *)
(* NotifySimulationEnd: a message is read as what it was written as, and   *)
(* the simulator executes only what was chosen for its latest state.       *)
(***************************************************************************)
EXTENDS GymSession, TLAPS

-----------------------------------------------------------------------------
(* What the calls of the shared memory do to the four semaphores and the   *)
(* flag.                                                                   *)

\* Only the count of s differs in y, and it is n.
Moved(x, y, s, n) ==
    /\ y \in Syncs
    /\ y[s] = n
    /\ \A r \in Semaphores \ {s} : y[r] = x[r]
    /\ y.isFinished = x.isFinished

\* The types of the fields.
LEMMA SyncFields ==
    ASSUME NEW x \in Syncs
    PROVE  /\ \A s \in Semaphores : x[s] \in Counts
           /\ x.isFinished \in BOOLEAN
BY DEF Syncs, Semaphores

\* Setting one count leaves the others and the flag alone.
LEMMA SetCount ==
    ASSUME NEW x \in Syncs, NEW s \in Semaphores, NEW n \in Counts
    PROVE  Moved(x, [x EXCEPT ![s] = n], s, n)
BY DEF Syncs, Semaphores, Moved

\* A wait finds a positive count and takes one from it.
LEMMA Wait ==
    ASSUME sync \in Syncs, NEW s \in Semaphores, sem_wait(s)
    PROVE  sync[s] > 0 /\ Moved(sync, sync', s, sync[s] - 1)
<1>1. sync[s] \in Counts /\ sync[s] > 0
  BY SyncFields DEF sem_wait
<1>2. sync[s] - 1 \in Counts
  BY <1>1 DEF Counts
<1>3. sync' = [sync EXCEPT ![s] = sync[s] - 1]
  BY DEF sem_wait
<1> QED
  BY <1>1, <1>2, <1>3, SetCount

\* A post to a semaphore that is at zero does not wrap.
LEMMA Post ==
    ASSUME sync \in Syncs, NEW s \in Semaphores, sync[s] = 0, sem_post(s)
    PROVE  Moved(sync, sync', s, 1)
<1>1. sync' = [sync EXCEPT ![s] = (sync[s] + 1) % 256]
  BY DEF sem_post
<1>2. (sync[s] + 1) % 256 = 1
  BY SMT
<1>3. 1 \in Counts
  BY DEF Counts
<1> QED
  BY <1>1, <1>2, <1>3, SetCount

\* The counts by name.
LEMMA CountsNamed ==
    ASSUME NEW x \in Syncs
    PROVE  /\ x["cpp2pyEmpty"] = x.cpp2pyEmpty
           /\ x["cpp2pyFull"] = x.cpp2pyFull
           /\ x["py2cppEmpty"] = x.py2cppEmpty
           /\ x["py2cppFull"] = x.py2cppFull
           /\ x.cpp2pyEmpty \in Nat /\ x.cpp2pyFull \in Nat
           /\ x.py2cppEmpty \in Nat /\ x.py2cppFull \in Nat
BY DEF Syncs, Counts

\* The five fields of a sync object.
SyncIs(y, e, f, e2, f2, finished) ==
    /\ y \in Syncs
    /\ y.cpp2pyEmpty = e /\ y.cpp2pyFull = f
    /\ y.py2cppEmpty = e2 /\ y.py2cppFull = f2
    /\ y.isFinished = finished

\* What each call does to them.
LEMMA CppSendBeginEffect ==
    ASSUME sync \in Syncs, CppSendBegin
    PROVE  /\ sync.cpp2pyEmpty > 0
           /\ SyncIs(sync', sync.cpp2pyEmpty - 1, sync.cpp2pyFull,
                         sync.py2cppEmpty, sync.py2cppFull, sync.isFinished)
BY Wait, CountsNamed DEF CppSendBegin, Moved, SyncIs, Semaphores

\* What PyRecvBegin does to them.
LEMMA PyRecvBeginEffect ==
    ASSUME sync \in Syncs, PyRecvBegin
    PROVE  /\ sync.cpp2pyFull > 0
           /\ SyncIs(sync', sync.cpp2pyEmpty, sync.cpp2pyFull - 1,
                         sync.py2cppEmpty, sync.py2cppFull, sync.isFinished)
BY Wait, CountsNamed DEF PyRecvBegin, Moved, SyncIs, Semaphores

\* What PySendBegin does to them.
LEMMA PySendBeginEffect ==
    ASSUME sync \in Syncs, PySendBegin
    PROVE  /\ sync.py2cppEmpty > 0
           /\ SyncIs(sync', sync.cpp2pyEmpty, sync.cpp2pyFull,
                         sync.py2cppEmpty - 1, sync.py2cppFull, sync.isFinished)
BY Wait, CountsNamed DEF PySendBegin, Moved, SyncIs, Semaphores

\* What CppRecvBegin does to them.
LEMMA CppRecvBeginEffect ==
    ASSUME sync \in Syncs, CppRecvBegin
    PROVE  /\ sync.py2cppFull > 0
           /\ SyncIs(sync', sync.cpp2pyEmpty, sync.cpp2pyFull,
                         sync.py2cppEmpty, sync.py2cppFull - 1, sync.isFinished)
BY Wait, CountsNamed DEF CppRecvBegin, Moved, SyncIs, Semaphores

\* What PyRecvEnd does to them.
LEMMA PyRecvEndEffect ==
    ASSUME sync \in Syncs, PyRecvEnd, sync.cpp2pyEmpty = 0
    PROVE  SyncIs(sync', 1, sync.cpp2pyFull,
                         sync.py2cppEmpty, sync.py2cppFull, sync.isFinished)
BY Post, CountsNamed DEF PyRecvEnd, Moved, SyncIs, Semaphores

\* What CppSendEnd does to them.
LEMMA CppSendEndEffect ==
    ASSUME sync \in Syncs, CppSendEnd, sync.cpp2pyFull = 0
    PROVE  SyncIs(sync', sync.cpp2pyEmpty, 1,
                         sync.py2cppEmpty, sync.py2cppFull, sync.isFinished)
BY Post, CountsNamed DEF CppSendEnd, Moved, SyncIs, Semaphores

\* What CppRecvEnd does to them.
LEMMA CppRecvEndEffect ==
    ASSUME sync \in Syncs, CppRecvEnd, sync.py2cppEmpty = 0
    PROVE  SyncIs(sync', sync.cpp2pyEmpty, sync.cpp2pyFull,
                         1, sync.py2cppFull, sync.isFinished)
BY Post, CountsNamed DEF CppRecvEnd, Moved, SyncIs, Semaphores

\* What PySendEnd does to them.
LEMMA PySendEndEffect ==
    ASSUME sync \in Syncs, PySendEnd, sync.py2cppFull = 0
    PROVE  SyncIs(sync', sync.cpp2pyEmpty, sync.cpp2pyFull,
                         sync.py2cppEmpty, 1, sync.isFinished)
BY Post, CountsNamed DEF PySendEnd, Moved, SyncIs, Semaphores

-----------------------------------------------------------------------------
(* One token for each direction, and the phases of the conversation.       *)

(***************************************************************************)
(* One token for each direction: it is in one of the two semaphores or     *)
(* with the one process that writes or reads the message.  The kill of a   *)
(* simulator may lose it; nothing makes a second one.                      *)
(***************************************************************************)
SimWriting == sim.pc \in {"initWrite", "write"}
SimReading == sim.pc \in {"initRead", "read"}
AgentWriting == agent.pc \in {"initWrite", "closeWrite", "actWrite"}
AgentReading == agent.pc \in {"initRead", "rxRead"}

OneToken ==
    /\ sync.cpp2pyEmpty + sync.cpp2pyFull <= 1
    /\ SimWriting \/ AgentReading => sync.cpp2pyEmpty + sync.cpp2pyFull = 0
    /\ ~(SimWriting /\ AgentReading)
    /\ sync.py2cppEmpty + sync.py2cppFull <= 1
    /\ SimReading \/ AgentWriting => sync.py2cppEmpty + sync.py2cppFull = 0
    /\ ~(SimReading /\ AgentWriting)

\* A state is sent at most once for each control period and call at the end, the
\* first of which goes with the handshake.
SentInTime ==
    IF sim.pc \in {"initSend", "initWrite", "initRecv", "initRead",
                   "send", "write"}
    THEN sim.sent < sim.step + sim.ends
    ELSE sim.sent <= sim.step + sim.ends

(***************************************************************************)
(* The five phases of the conversation.                                    *)
(***************************************************************************)
Fresh == ~sim.initSent /\ ~sim.stop /\ sim.step = 0

\* The handshake, seen from the agent.
Shaking ==
    /\ agent.pc \in {"started", "initRecv", "initRead", "initSend", "initWrite"}
    /\ sim.pc \in {"run", "initSend", "initWrite", "initRecv", "exit"}
    /\ sim.pc = "run" => Fresh
    /\ sim.pc \notin {"run", "exit"} => sim.initSent
    /\ sync.py2cppFull = 0
    /\ sync.cpp2pyFull = 1 =>
          sim.pc = "initRecv" /\ cpp2py.kind = "SimInitMsg"
             /\ agent.pc \in {"started", "initRecv"}
    /\ agent.pc \in {"initRead", "initSend", "initWrite"} =>
          sim.pc = "initRecv" /\ cpp2py.kind = "SimInitMsg"

\* The agent has replied and waits for a state.
Awaiting ==
    /\ agent.pc \in {"rxRecv", "rxRead"}
    /\ sim.pc # "exit" => sim.initSent
    /\ sim.pc # "initSend" /\ sim.pc # "initWrite"
    /\ sim.pc \in {"initRecv", "initRead"} => py2cpp.kind = "SimInitAck"
    /\ sync.py2cppFull = 1 => sim.pc \in {"initRecv", "recv"}
    /\ sim.pc = "read" \/ (sim.pc = "recv" /\ sync.py2cppFull = 1) =>
          /\ py2cpp.kind = "EnvActMsg"
          /\ py2cpp.stop \/ py2cpp.state = Latest
    /\ agent.pc = "rxRead" \/ sync.cpp2pyFull = 1 =>
          /\ sim.pc = "recv" /\ sync.py2cppFull = 0
          /\ cpp2py.kind = "EnvStateMsg" /\ cpp2py.state = Latest

\* The agent has the latest state, and the simulator waits for the reply.
Turn ==
    /\ \/ agent.pc = "user" /\ ~agent.gameOver
       \/ agent.pc \in {"actSend", "actWrite"}
       \/ /\ agent.pc \in {"closeSend", "closeWrite"}
          /\ agent.call = "leave" \/ agent.gameOver
    /\ agent.pc \in {"user", "actSend", "actWrite"} => agent.obs = Latest
    /\ sim.pc = "recv" /\ sim.initSent
    /\ sync.cpp2pyFull = 0 /\ sync.py2cppFull = 0

\* The agent is done with the simulator, which was told to stop or has gone.
Left ==
    /\ agent.pc = "spawn" \/ (agent.pc = "user" /\ agent.gameOver)
    /\ \/ sim.pc = "exit"
       \/ /\ sim.pc \in {"run", "send", "write", "recv", "read"}
          /\ sim.initSent
          /\ py2cpp.kind = "EnvActMsg" /\ py2cpp.stop

Gone == agent.pc = "closed" /\ sim.pc = "exit"

InStep == clean => Shaking \/ Awaiting \/ Turn \/ Left \/ Gone

GymInv == GymTypeOK /\ OneToken /\ SentInTime /\ InStep

-----------------------------------------------------------------------------
(* The records.                                                            *)

\* The fields of the simulator's process.
SimIs(s, pc, initSent, stop, simEnd, over, step, ends, sent, acted) ==
    /\ s \in SimProcess
    /\ s.pc = pc /\ s.initSent = initSent /\ s.stop = stop
    /\ s.simEnd = simEnd /\ s.over = over /\ s.step = step
    /\ s.ends = ends /\ s.sent = sent /\ s.acted = acted

\* The types of the simulator's fields.
LEMMA SimFields ==
    ASSUME NEW s \in SimProcess
    PROVE  /\ s.pc \in SimPc /\ s.initSent \in BOOLEAN /\ s.stop \in BOOLEAN
           /\ s.simEnd \in BOOLEAN /\ s.over \in BOOLEAN
           /\ s.step \in 0 .. MaxSteps /\ s.ends \in 0 .. EndCalls
           /\ s.sent \in 0 .. MaxSteps + EndCalls /\ s.acted \in States
BY DEF SimProcess

\* A step of the simulator that only moves its control.
LEMMA SimGoesFacts ==
    ASSUME sim \in SimProcess, NEW p \in SimPc, SimGoes(p)
    PROVE  SimIs(sim', p, sim.initSent, sim.stop, sim.simEnd, sim.over,
                 sim.step, sim.ends, sim.sent, sim.acted)
BY DEF SimProcess, SimGoes, SimIs

\* The types of the agent's fields.
LEMMA AgentFields ==
    ASSUME NEW a \in AgentProcess
    PROVE  /\ a.pc \in AgentPc /\ a.call \in {"reset", "step", "leave"}
           /\ a.gameOver \in BOOLEAN /\ a.obs \in States
           /\ a.session \in 0 .. MaxSessions
BY DEF AgentProcess

\* The fields of the agent's process that the invariant looks at.
AgentIs(a, pc, call, gameOver, obs, session) ==
    /\ a \in AgentProcess
    /\ a.pc = pc /\ a.call = call /\ a.gameOver = gameOver
    /\ a.obs = obs /\ a.session = session

\* A step of the agent that only moves its control.
LEMMA AgentGoesFacts ==
    ASSUME agent \in AgentProcess, NEW p \in AgentPc, AgentGoes(p)
    PROVE  AgentIs(agent', p, agent.call, agent.gameOver, agent.obs,
                   agent.session)
BY DEF AgentProcess, AgentGoes, AgentIs

\* A new simulator.
LEMMA NewSimFacts ==
    /\ NewSim \in SimProcess
    /\ SimIs(NewSim, "run", FALSE, FALSE, FALSE, FALSE, 0, 0, 0, <<0, 0>>)
<1>1. /\ 0 \in 0 .. MaxSteps /\ 0 \in 0 .. EndCalls
      /\ 0 \in 0 .. MaxSteps + EndCalls /\ 0 \in 0 .. MaxSessions
  BY GymAssumption
<1>2. <<0, 0>> \in States
  BY <1>1 DEF States
<1> QED
  BY <1>1, <1>2 DEF NewSim, SimProcess, SimPc, SimIs

\* The invariant at the start.
LEMMA InitGym == GymInit => GymInv
<1> SUFFICES ASSUME GymInit PROVE GymInv
  OBVIOUS
<1>1. GymTypeOK
  <2>1. /\ MaxSteps \in Nat \ {0} /\ MaxSessions \in Nat /\ EndCalls \in Nat
    BY GymAssumption
  <2>2. <<0, 0>> \in States
    BY <2>1 DEF States
  <2>3. sync \in Syncs /\ \A s \in Semaphores : sync[s] <= 1
    BY DEF GymInit, Syncs, NewSync, Semaphores, Counts
  <2>4. cpp2py \in SimMessages /\ py2cpp \in AgentMessages
    BY <2>2 DEF GymInit, SimMessages, AgentMessages, InitMsg, Ack
  <2>5. sim \in SimProcess
    <3>1. \A s \in SimProcess : [s EXCEPT !.pc = "exit"] \in SimProcess
      BY DEF SimProcess, SimPc
    <3> QED
      BY <3>1, NewSimFacts DEF GymInit
  <2>6. agent \in AgentProcess /\ clean \in BOOLEAN
    BY <2>1, <2>2 DEF GymInit, AgentProcess, AgentPc
  <2> QED
    BY <2>3, <2>4, <2>5, <2>6 DEF GymTypeOK
<1>2. OneToken /\ SentInTime /\ InStep
  BY DEF GymInit, NewSync, NewSim, OneToken, SentInTime, InStep, Left,
         SimWriting, SimReading, AgentWriting, AgentReading
<1> QED
  BY <1>1, <1>2 DEF GymInv

\* The types, with those of the counts and of the simulator's numbers.
Types ==
    /\ sync \in Syncs /\ sim \in SimProcess /\ agent \in AgentProcess
    /\ cpp2py \in SimMessages /\ py2cpp \in AgentMessages /\ clean \in BOOLEAN
    /\ sync.cpp2pyEmpty \in Nat /\ sync.cpp2pyFull \in Nat
    /\ sync.py2cppEmpty \in Nat /\ sync.py2cppFull \in Nat
    /\ sim.step \in Nat /\ sim.ends \in Nat /\ sim.sent \in Nat

\* The parts of the invariant.
LEMMA Parts ==
    ASSUME GymInv
    PROVE  Types /\ OneToken /\ SentInTime /\ InStep
BY CountsNamed, SimFields, GymAssumption DEF GymInv, GymTypeOK, Types

\* What is left to show of a step once its parts are.
LEMMA Assemble ==
    ASSUME sync' \in Syncs, sim' \in SimProcess, agent' \in AgentProcess,
           cpp2py' \in SimMessages, py2cpp' \in AgentMessages,
           clean' \in BOOLEAN, OneToken', SentInTime', InStep'
    PROVE  GymInv'
<1>1. \A s \in Semaphores : sync'[s] <= 1
  BY CountsNamed DEF OneToken, Semaphores
<1> QED
  BY <1>1 DEF GymInv, GymTypeOK

\* The handshake of the simulator.
LEMMA InitMsgFacts == InitMsg \in SimMessages /\ InitMsg.kind = "SimInitMsg"
BY GymAssumption DEF InitMsg, SimMessages, States

\* The replies of the agent.
LEMMA ReplyFacts ==
    /\ \A c \in BOOLEAN : /\ Ack(c) \in AgentMessages
                          /\ Ack(c).kind = "SimInitAck"
    /\ \A s \in States : /\ Act(s) \in AgentMessages
                         /\ Act(s).kind = "EnvActMsg" /\ Act(s).state = s
    /\ Close \in AgentMessages /\ Close.kind = "EnvActMsg" /\ Close.stop
<1>1. <<0, 0>> \in States
  BY GymAssumption DEF States
<1> QED
  BY <1>1 DEF Ack, Act, Close, AgentMessages

-----------------------------------------------------------------------------
(* The steps of the simulator.                                             *)

\* The simulator begins to write the handshake.
LEMMA InitSendStep ==
    ASSUME GymInv, InitSend
    PROVE  GymInv'
<1>1. /\ sim.pc = "initSend"
      /\ CppSendBegin
      /\ UNCHANGED <<cpp2py, py2cpp, agent, clean>>
      /\ SimGoes("initWrite") /\ "initWrite" \in SimPc
  BY DEF InitSend, SimAt, SimLocal, SimPc
<1>2. Types /\ OneToken /\ SentInTime /\ InStep
  BY Parts
<1>3. /\ sync.cpp2pyEmpty > 0
      /\ SyncIs(sync', sync.cpp2pyEmpty - 1, sync.cpp2pyFull,
                sync.py2cppEmpty, sync.py2cppFull, sync.isFinished)
  BY <1>1, <1>2, CppSendBeginEffect DEF Types
<1>4. sync.cpp2pyEmpty = 1 /\ sync.cpp2pyFull = 0
  BY <1>2, <1>3 DEF Types, OneToken
<1>5. SimIs(sim', "initWrite", sim.initSent, sim.stop, sim.simEnd, sim.over,
            sim.step, sim.ends, sim.sent, sim.acted)
  BY <1>1, <1>2, SimGoesFacts DEF Types
<1>6. OneToken'
  BY <1>1, <1>2, <1>3, <1>4, <1>5, CountsNamed
  DEF Types, OneToken, SimWriting, SimReading, AgentWriting, AgentReading,
      SyncIs, SimIs, AgentIs
<1>7. SentInTime'
  BY <1>1, <1>2, <1>3, <1>4, <1>5 DEF Types, SentInTime, SimIs, AgentIs
<1>8. InStep'
  BY <1>1, <1>2, <1>3, <1>4, <1>5, CountsNamed
  DEF Types, InStep, Shaking, Awaiting, Turn, Left, Gone, Fresh, Latest,
      SyncIs, SimIs, AgentIs
<1> QED
  BY <1>1, <1>2, <1>3, <1>4, <1>5, <1>6, <1>7, <1>8, Assemble
  DEF Types, SyncIs, SimIs, AgentIs

\* The simulator has written the handshake.
LEMMA InitWriteStep ==
    ASSUME GymInv, InitWrite
    PROVE  GymInv'
<1>1. /\ sim.pc = "initWrite"
      /\ CppSendEnd
      /\ UNCHANGED <<py2cpp, agent, clean>>
      /\ cpp2py' = InitMsg
      /\ SimGoes("initRecv") /\ "initRecv" \in SimPc
  BY DEF InitWrite, SimAt, SimPc
<1>2. Types /\ OneToken /\ SentInTime /\ InStep
  BY Parts
<1>3. sync.cpp2pyFull = 0
  BY <1>1, <1>2
  DEF Types, OneToken, SimWriting, SimReading, AgentWriting, AgentReading
<1>4. SyncIs(sync', sync.cpp2pyEmpty, 1,
             sync.py2cppEmpty, sync.py2cppFull, sync.isFinished)
  BY <1>1, <1>2, <1>3, CppSendEndEffect DEF Types
<1>5. SimIs(sim', "initRecv", sim.initSent, sim.stop, sim.simEnd, sim.over,
            sim.step, sim.ends, sim.sent, sim.acted)
  BY <1>1, <1>2, SimGoesFacts DEF Types
<1>6. cpp2py' \in SimMessages /\ cpp2py'.kind = "SimInitMsg"
  BY <1>1, InitMsgFacts
<1>7. OneToken'
  BY <1>1, <1>2, <1>4, <1>5, <1>6, CountsNamed
  DEF Types, OneToken, SimWriting, SimReading, AgentWriting, AgentReading,
      SyncIs, SimIs, AgentIs
<1>8. SentInTime'
  BY <1>1, <1>2, <1>4, <1>5, <1>6 DEF Types, SentInTime, SimIs, AgentIs
<1>9. InStep'
  BY <1>1, <1>2, <1>4, <1>5, <1>6, CountsNamed
  DEF Types, InStep, Shaking, Awaiting, Turn, Left, Gone, Fresh, Latest,
      SyncIs, SimIs, AgentIs
<1> QED
  BY <1>1, <1>2, <1>4, <1>5, <1>6, <1>7, <1>8, <1>9, Assemble
  DEF Types, SyncIs, SimIs, AgentIs

\* The simulator begins to read the reply to the handshake.
LEMMA InitRecvStep ==
    ASSUME GymInv, InitRecv
    PROVE  GymInv'
<1>1. /\ sim.pc = "initRecv"
      /\ CppRecvBegin
      /\ UNCHANGED <<cpp2py, py2cpp, agent, clean>>
      /\ SimGoes("initRead") /\ "initRead" \in SimPc
  BY DEF InitRecv, SimAt, SimLocal, SimPc
<1>2. Types /\ OneToken /\ SentInTime /\ InStep
  BY Parts
<1>3. /\ sync.py2cppFull > 0
      /\ SyncIs(sync', sync.cpp2pyEmpty, sync.cpp2pyFull,
                sync.py2cppEmpty, sync.py2cppFull - 1, sync.isFinished)
  BY <1>1, <1>2, CppRecvBeginEffect DEF Types
<1>4. sync.py2cppFull = 1 /\ sync.py2cppEmpty = 0
  BY <1>2, <1>3 DEF Types, OneToken
<1>5. SimIs(sim', "initRead", sim.initSent, sim.stop, sim.simEnd, sim.over,
            sim.step, sim.ends, sim.sent, sim.acted)
  BY <1>1, <1>2, SimGoesFacts DEF Types
<1>6. OneToken'
  BY <1>1, <1>2, <1>3, <1>4, <1>5, CountsNamed
  DEF Types, OneToken, SimWriting, SimReading, AgentWriting, AgentReading,
      SyncIs, SimIs, AgentIs
<1>7. SentInTime'
  BY <1>1, <1>2, <1>3, <1>4, <1>5 DEF Types, SentInTime, SimIs, AgentIs
<1>8. InStep'
  BY <1>1, <1>2, <1>3, <1>4, <1>5, CountsNamed
  DEF Types, InStep, Shaking, Awaiting, Turn, Left, Gone, Fresh, Latest,
      SyncIs, SimIs, AgentIs
<1> QED
  BY <1>1, <1>2, <1>3, <1>4, <1>5, <1>6, <1>7, <1>8, Assemble
  DEF Types, SyncIs, SimIs, AgentIs

\* The simulator has read the reply to the handshake.
LEMMA InitReadStep ==
    ASSUME GymInv, NEW over \in BOOLEAN, InitRead(over)
    PROVE  GymInv'
<1>1. /\ sim.pc = "initRead"
      /\ CppRecvEnd
      /\ UNCHANGED <<cpp2py, py2cpp, agent, clean>>
  BY DEF InitRead, SimAt, SimLocal
<1>2. Types /\ OneToken /\ SentInTime /\ InStep
  BY Parts
<1>3. sync.py2cppEmpty = 0
  BY <1>1, <1>2
  DEF Types, OneToken, SimWriting, SimReading, AgentWriting, AgentReading
<1>4. SyncIs(sync', sync.cpp2pyEmpty, sync.cpp2pyFull,
             1, sync.py2cppFull, sync.isFinished)
  BY <1>1, <1>2, <1>3, CppRecvEndEffect DEF Types
<1>5. /\ sim' \in SimProcess /\ sim'.pc \in {"exit", "run", "send"}
      /\ sim'.initSent = sim.initSent /\ sim'.step = sim.step
      /\ sim'.ends = sim.ends /\ sim'.sent = sim.sent
  BY <1>1, <1>2
  DEF Types, InitRead, Collect, SimProcess, SimPc, AgentMessages
<1>6. OneToken'
  BY <1>1, <1>2, <1>4, <1>5, CountsNamed
  DEF Types, OneToken, SimWriting, SimReading, AgentWriting, AgentReading,
      SyncIs, SimIs, AgentIs
<1>7. SentInTime'
  BY <1>1, <1>2, <1>4, <1>5 DEF Types, SentInTime, SimIs, AgentIs
<1>8. InStep'
  BY <1>1, <1>2, <1>4, <1>5, CountsNamed
  DEF Types, InStep, Shaking, Awaiting, Turn, Left, Gone, Fresh, Latest,
      SyncIs, SimIs, AgentIs
<1> QED
  BY <1>1, <1>2, <1>4, <1>5, <1>6, <1>7, <1>8, Assemble
  DEF Types, SyncIs, SimIs, AgentIs

\* The simulator begins to write a state.
LEMMA SendStep ==
    ASSUME GymInv, Send
    PROVE  GymInv'
<1>1. /\ sim.pc = "send"
      /\ CppSendBegin
      /\ UNCHANGED <<cpp2py, py2cpp, agent, clean>>
      /\ SimGoes("write") /\ "write" \in SimPc
  BY DEF Send, SimAt, SimLocal, SimPc
<1>2. Types /\ OneToken /\ SentInTime /\ InStep
  BY Parts
<1>3. /\ sync.cpp2pyEmpty > 0
      /\ SyncIs(sync', sync.cpp2pyEmpty - 1, sync.cpp2pyFull,
                sync.py2cppEmpty, sync.py2cppFull, sync.isFinished)
  BY <1>1, <1>2, CppSendBeginEffect DEF Types
<1>4. sync.cpp2pyEmpty = 1 /\ sync.cpp2pyFull = 0
  BY <1>2, <1>3 DEF Types, OneToken
<1>5. SimIs(sim', "write", sim.initSent, sim.stop, sim.simEnd, sim.over,
            sim.step, sim.ends, sim.sent, sim.acted)
  BY <1>1, <1>2, SimGoesFacts DEF Types
<1>6. OneToken'
  BY <1>1, <1>2, <1>3, <1>4, <1>5, CountsNamed
  DEF Types, OneToken, SimWriting, SimReading, AgentWriting, AgentReading,
      SyncIs, SimIs, AgentIs
<1>7. SentInTime'
  BY <1>1, <1>2, <1>3, <1>4, <1>5 DEF Types, SentInTime, SimIs, AgentIs
<1>8. InStep'
  BY <1>1, <1>2, <1>3, <1>4, <1>5, CountsNamed
  DEF Types, InStep, Shaking, Awaiting, Turn, Left, Gone, Fresh, Latest,
      SyncIs, SimIs, AgentIs
<1> QED
  BY <1>1, <1>2, <1>3, <1>4, <1>5, <1>6, <1>7, <1>8, Assemble
  DEF Types, SyncIs, SimIs, AgentIs

\* The simulator has written a state.
LEMMA WriteStep ==
    ASSUME GymInv, Write
    PROVE  GymInv'
<1>1. /\ sim.pc = "write"
      /\ CppSendEnd
      /\ UNCHANGED <<py2cpp, agent, clean>>
      /\ sim' = [sim EXCEPT !.pc = "recv", !.sent = sim.sent + 1]
      /\ cpp2py' = StateMsg(sim.over, <<agent.session, sim.sent + 1>>)
  BY DEF Write, SimAt
<1>2. Types /\ OneToken /\ SentInTime /\ InStep
  BY Parts
<1>3. sync.cpp2pyFull = 0
  BY <1>1, <1>2
  DEF Types, OneToken, SimWriting, SimReading, AgentWriting, AgentReading
<1>4. SyncIs(sync', sync.cpp2pyEmpty, 1,
             sync.py2cppEmpty, sync.py2cppFull, sync.isFinished)
  BY <1>1, <1>2, <1>3, CppSendEndEffect DEF Types
<1>5. /\ sim.sent + 1 \in 0 .. MaxSteps + EndCalls
      /\ <<agent.session, sim.sent + 1>> \in States
  BY <1>1, <1>2, SimFields, AgentFields, GymAssumption
  DEF Types, SentInTime, States
<1>6. SimIs(sim', "recv", sim.initSent, sim.stop, sim.simEnd, sim.over,
            sim.step, sim.ends, sim.sent + 1, sim.acted)
  BY <1>1, <1>2, <1>5 DEF Types, SimProcess, SimPc, SimIs
<1>7. /\ cpp2py' \in SimMessages /\ cpp2py'.kind = "EnvStateMsg"
      /\ cpp2py'.state = <<agent.session, sim.sent + 1>>
  BY <1>1, <1>2, <1>5, SimFields DEF Types, StateMsg, SimMessages
<1>8. OneToken'
  BY <1>1, <1>2, <1>4, <1>5, <1>6, <1>7, CountsNamed
  DEF Types, OneToken, SimWriting, SimReading, AgentWriting, AgentReading,
      SyncIs, SimIs, AgentIs
<1>9. SentInTime'
  BY <1>1, <1>2, <1>4, <1>5, <1>6, <1>7
  DEF Types, SentInTime, SimIs, AgentIs
<1>10. InStep'
  BY <1>1, <1>2, <1>4, <1>5, <1>6, <1>7, CountsNamed
  DEF Types, InStep, Shaking, Awaiting, Turn, Left, Gone, Fresh, Latest,
      OneToken, SimWriting, AgentReading, SyncIs, SimIs, AgentIs
<1> QED
  BY <1>1, <1>2, <1>4, <1>5, <1>6, <1>7, <1>8, <1>9, <1>10, Assemble
  DEF Types, SyncIs, SimIs, AgentIs

\* The simulator begins to read a reply.
LEMMA RecvStep ==
    ASSUME GymInv, Recv
    PROVE  GymInv'
<1>1. /\ sim.pc = "recv"
      /\ CppRecvBegin
      /\ UNCHANGED <<cpp2py, py2cpp, agent, clean>>
      /\ SimGoes("read") /\ "read" \in SimPc
  BY DEF Recv, SimAt, SimLocal, SimPc
<1>2. Types /\ OneToken /\ SentInTime /\ InStep
  BY Parts
<1>3. /\ sync.py2cppFull > 0
      /\ SyncIs(sync', sync.cpp2pyEmpty, sync.cpp2pyFull,
                sync.py2cppEmpty, sync.py2cppFull - 1, sync.isFinished)
  BY <1>1, <1>2, CppRecvBeginEffect DEF Types
<1>4. sync.py2cppFull = 1 /\ sync.py2cppEmpty = 0
  BY <1>2, <1>3 DEF Types, OneToken
<1>5. SimIs(sim', "read", sim.initSent, sim.stop, sim.simEnd, sim.over,
            sim.step, sim.ends, sim.sent, sim.acted)
  BY <1>1, <1>2, SimGoesFacts DEF Types
<1>6. OneToken'
  BY <1>1, <1>2, <1>3, <1>4, <1>5, CountsNamed
  DEF Types, OneToken, SimWriting, SimReading, AgentWriting, AgentReading,
      SyncIs, SimIs, AgentIs
<1>7. SentInTime'
  BY <1>1, <1>2, <1>3, <1>4, <1>5 DEF Types, SentInTime, SimIs, AgentIs
<1>8. InStep'
  BY <1>1, <1>2, <1>3, <1>4, <1>5, CountsNamed
  DEF Types, InStep, Shaking, Awaiting, Turn, Left, Gone, Fresh, Latest,
      SyncIs, SimIs, AgentIs
<1> QED
  BY <1>1, <1>2, <1>3, <1>4, <1>5, <1>6, <1>7, <1>8, Assemble
  DEF Types, SyncIs, SimIs, AgentIs

\* The simulator has read a reply.
LEMMA ReadStep ==
    ASSUME GymInv, Read
    PROVE  GymInv'
<1>1. /\ sim.pc = "read"
      /\ CppRecvEnd
      /\ UNCHANGED <<cpp2py, py2cpp, agent, clean>>
  BY DEF Read, SimAt, SimLocal
<1>2. Types /\ OneToken /\ SentInTime /\ InStep
  BY Parts
<1>3. sync.py2cppEmpty = 0
  BY <1>1, <1>2
  DEF Types, OneToken, SimWriting, SimReading, AgentWriting, AgentReading
<1>4. SyncIs(sync', sync.cpp2pyEmpty, sync.cpp2pyFull,
             1, sync.py2cppFull, sync.isFinished)
  BY <1>1, <1>2, <1>3, CppRecvEndEffect DEF Types
<1>5. /\ sim' \in SimProcess /\ sim'.pc = "run" /\ sim'.initSent = sim.initSent
      /\ sim'.step = sim.step /\ sim'.ends = sim.ends /\ sim'.sent = sim.sent
  BY <1>1, <1>2 DEF Types, Read, SimProcess, SimPc, AgentMessages
<1>6. OneToken'
  BY <1>1, <1>2, <1>4, <1>5, CountsNamed
  DEF Types, OneToken, SimWriting, SimReading, AgentWriting, AgentReading,
      SyncIs, SimIs, AgentIs
<1>7. SentInTime'
  BY <1>1, <1>2, <1>4, <1>5 DEF Types, SentInTime, SimIs, AgentIs
<1>8. InStep'
  BY <1>1, <1>2, <1>4, <1>5, CountsNamed
  DEF Types, InStep, Shaking, Awaiting, Turn, Left, Gone, Fresh, Latest,
      SyncIs, SimIs, AgentIs
<1> QED
  BY <1>1, <1>2, <1>4, <1>5, <1>6, <1>7, <1>8, Assemble
  DEF Types, SyncIs, SimIs, AgentIs

\* A control period begins.
LEMMA NotifyStep ==
    ASSUME GymInv, NEW over \in BOOLEAN, Notify(over)
    PROVE  GymInv'
<1>1. /\ sim.pc = "run"
      /\ UNCHANGED sync
      /\ UNCHANGED <<cpp2py, py2cpp, agent, clean>>
      /\ ~sim.stop /\ sim.ends = 0 /\ sim.step < MaxSteps
  BY DEF Notify, SimAt, SimLocal
<1>2. Types /\ OneToken /\ SentInTime /\ InStep
  BY Parts
<1>3. sim.step + 1 \in 0 .. MaxSteps
  BY <1>1, <1>2, GymAssumption DEF Types
<1>4. /\ sim' \in SimProcess /\ sim'.initSent
      /\ sim'.pc = IF sim.initSent THEN "send" ELSE "initSend"
      /\ sim'.step = sim.step + 1
      /\ sim'.ends = sim.ends /\ sim'.sent = sim.sent
  BY <1>1, <1>2, <1>3 DEF Types, Notify, Collect, SimProcess, SimPc
<1>5. OneToken'
  BY <1>1, <1>2, <1>3, <1>4, CountsNamed
  DEF Types, OneToken, SimWriting, SimReading, AgentWriting, AgentReading,
      SyncIs, SimIs, AgentIs
<1>6. SentInTime'
  BY <1>1, <1>2, <1>3, <1>4 DEF Types, SentInTime, SimIs, AgentIs
<1>7. InStep'
  BY <1>1, <1>2, <1>3, <1>4, CountsNamed
  DEF Types, InStep, Shaking, Awaiting, Turn, Left, Gone, Fresh, Latest,
      SyncIs, SimIs, AgentIs
<1> QED
  BY <1>1, <1>2, <1>3, <1>4, <1>5, <1>6, <1>7, Assemble
  DEF Types, SyncIs, SimIs, AgentIs

\* The simulation is over.
LEMMA NotifySimulationEndStep ==
    ASSUME GymInv, NotifySimulationEnd
    PROVE  GymInv'
<1>1. /\ sim.pc = "run"
      /\ UNCHANGED sync
      /\ UNCHANGED <<cpp2py, py2cpp, agent, clean>>
      /\ sim.ends < EndCalls /\ (sim.stop \/ sim.step = MaxSteps)
  BY DEF NotifySimulationEnd, SimAt, SimLocal
<1>2. Types /\ OneToken /\ SentInTime /\ InStep
  BY Parts
<1>3. sim.ends + 1 \in 0 .. EndCalls
  BY <1>1, <1>2, GymAssumption DEF Types
<1>4. /\ sim' \in SimProcess /\ sim'.initSent = sim.initSent
      /\ sim'.pc \in {"run", "send"}
      /\ sim'.step = sim.step /\ sim'.ends = sim.ends + 1
      /\ sim'.sent = sim.sent
  BY <1>1, <1>2, <1>3
  DEF Types, NotifySimulationEnd, Collect, SimProcess, SimPc
<1>5. MaxSteps # 0
  BY GymAssumption
<1>6. OneToken'
  BY <1>1, <1>2, <1>3, <1>4, <1>5, CountsNamed
  DEF Types, OneToken, SimWriting, SimReading, AgentWriting, AgentReading,
      SyncIs, SimIs, AgentIs
<1>7. SentInTime'
  BY <1>1, <1>2, <1>3, <1>4, <1>5 DEF Types, SentInTime, SimIs, AgentIs
<1>8. InStep'
  BY <1>1, <1>2, <1>3, <1>4, <1>5, CountsNamed
  DEF Types, InStep, Shaking, Awaiting, Turn, Left, Gone, Fresh, Latest,
      SyncIs, SimIs, AgentIs
<1> QED
  BY <1>1, <1>2, <1>3, <1>4, <1>5, <1>6, <1>7, <1>8, Assemble
  DEF Types, SyncIs, SimIs, AgentIs

\* The simulator exits.
LEMMA ExitStep ==
    ASSUME GymInv, Exit
    PROVE  GymInv'
<1>1. /\ sim.pc = "run"
      /\ UNCHANGED sync
      /\ UNCHANGED <<cpp2py, py2cpp, agent, clean>>
      /\ SimGoes("exit") /\ "exit" \in SimPc
  BY DEF Exit, SimAt, SimLocal, SimPc
<1>2. Types /\ OneToken /\ SentInTime /\ InStep
  BY Parts
<1>3. SimIs(sim', "exit", sim.initSent, sim.stop, sim.simEnd, sim.over,
            sim.step, sim.ends, sim.sent, sim.acted)
  BY <1>1, <1>2, SimGoesFacts DEF Types
<1>4. OneToken'
  BY <1>1, <1>2, <1>3, CountsNamed
  DEF Types, OneToken, SimWriting, SimReading, AgentWriting, AgentReading,
      SyncIs, SimIs, AgentIs
<1>5. SentInTime'
  BY <1>1, <1>2, <1>3 DEF Types, SentInTime, SimIs, AgentIs
<1>6. InStep'
  BY <1>1, <1>2, <1>3, CountsNamed
  DEF Types, InStep, Shaking, Awaiting, Turn, Left, Gone, Fresh, Latest,
      SyncIs, SimIs, AgentIs
<1> QED
  BY <1>1, <1>2, <1>3, <1>4, <1>5, <1>6, Assemble
  DEF Types, SyncIs, SimIs, AgentIs

-----------------------------------------------------------------------------
(* The steps of the agent and of its user.                                 *)

\* The agent begins to read the handshake.
LEMMA AgentInitRecvStep ==
    ASSUME GymInv, AgentInitRecv
    PROVE  GymInv'
<1>1. /\ agent.pc = "initRecv"
      /\ PyRecvBegin
      /\ UNCHANGED <<cpp2py, py2cpp, sim, clean>>
      /\ AgentGoes("initRead") /\ "initRead" \in AgentPc
  BY DEF AgentInitRecv, AgentAt, AgentLocal, AgentPc
<1>2. Types /\ OneToken /\ SentInTime /\ InStep
  BY Parts
<1>3. /\ sync.cpp2pyFull > 0
      /\ SyncIs(sync', sync.cpp2pyEmpty, sync.cpp2pyFull - 1,
                sync.py2cppEmpty, sync.py2cppFull, sync.isFinished)
  BY <1>1, <1>2, PyRecvBeginEffect DEF Types
<1>4. sync.cpp2pyFull = 1 /\ sync.cpp2pyEmpty = 0
  BY <1>2, <1>3 DEF Types, OneToken
<1>5. AgentIs(agent', "initRead", agent.call, agent.gameOver, agent.obs,
              agent.session)
  BY <1>1, <1>2, AgentGoesFacts DEF Types
<1>6. OneToken'
  BY <1>1, <1>2, <1>3, <1>4, <1>5, CountsNamed
  DEF Types, OneToken, SimWriting, SimReading, AgentWriting, AgentReading,
      SyncIs, SimIs, AgentIs
<1>7. SentInTime'
  BY <1>1, <1>2, <1>3, <1>4, <1>5 DEF Types, SentInTime, SimIs, AgentIs
<1>8. InStep'
  BY <1>1, <1>2, <1>3, <1>4, <1>5, CountsNamed
  DEF Types, InStep, Shaking, Awaiting, Turn, Left, Gone, Fresh, Latest,
      SyncIs, SimIs, AgentIs
<1> QED
  BY <1>1, <1>2, <1>3, <1>4, <1>5, <1>6, <1>7, <1>8, Assemble
  DEF Types, SyncIs, SimIs, AgentIs

\* The agent has read the handshake.
LEMMA AgentInitReadStep ==
    ASSUME GymInv, AgentInitRead
    PROVE  GymInv'
<1>1. /\ agent.pc = "initRead"
      /\ PyRecvEnd
      /\ UNCHANGED <<cpp2py, py2cpp, sim, clean>>
  BY DEF AgentInitRead, AgentAt, AgentLocal
<1>2. Types /\ OneToken /\ SentInTime /\ InStep
  BY Parts
<1>3. sync.cpp2pyEmpty = 0
  BY <1>1, <1>2
  DEF Types, OneToken, SimWriting, SimReading, AgentWriting, AgentReading
<1>4. SyncIs(sync', 1, sync.cpp2pyFull,
             sync.py2cppEmpty, sync.py2cppFull, sync.isFinished)
  BY <1>1, <1>2, <1>3, PyRecvEndEffect DEF Types
<1>5. AgentIs(agent', "initSend", agent.call, agent.gameOver, agent.obs,
              agent.session)
  BY <1>1, <1>2 DEF Types, AgentInitRead, AgentProcess, AgentPc, AgentIs
<1>6. OneToken'
  BY <1>1, <1>2, <1>4, <1>5, CountsNamed
  DEF Types, OneToken, SimWriting, SimReading, AgentWriting, AgentReading,
      SyncIs, SimIs, AgentIs
<1>7. SentInTime'
  BY <1>1, <1>2, <1>4, <1>5 DEF Types, SentInTime, SimIs, AgentIs
<1>8. InStep'
  BY <1>1, <1>2, <1>4, <1>5, CountsNamed
  DEF Types, InStep, Shaking, Awaiting, Turn, Left, Gone, Fresh, Latest,
      SyncIs, SimIs, AgentIs
<1> QED
  BY <1>1, <1>2, <1>4, <1>5, <1>6, <1>7, <1>8, Assemble
  DEF Types, SyncIs, SimIs, AgentIs

\* The agent begins to write its reply to the handshake.
LEMMA AgentInitSendStep ==
    ASSUME GymInv, AgentInitSend
    PROVE  GymInv'
<1>1. /\ agent.pc = "initSend"
      /\ PySendBegin
      /\ UNCHANGED <<cpp2py, py2cpp, sim, clean>>
      /\ AgentGoes("initWrite") /\ "initWrite" \in AgentPc
  BY DEF AgentInitSend, AgentAt, AgentLocal, AgentPc
<1>2. Types /\ OneToken /\ SentInTime /\ InStep
  BY Parts
<1>3. /\ sync.py2cppEmpty > 0
      /\ SyncIs(sync', sync.cpp2pyEmpty, sync.cpp2pyFull,
                sync.py2cppEmpty - 1, sync.py2cppFull, sync.isFinished)
  BY <1>1, <1>2, PySendBeginEffect DEF Types
<1>4. sync.py2cppEmpty = 1 /\ sync.py2cppFull = 0
  BY <1>2, <1>3 DEF Types, OneToken
<1>5. AgentIs(agent', "initWrite", agent.call, agent.gameOver, agent.obs,
              agent.session)
  BY <1>1, <1>2, AgentGoesFacts DEF Types
<1>6. OneToken'
  BY <1>1, <1>2, <1>3, <1>4, <1>5, CountsNamed
  DEF Types, OneToken, SimWriting, SimReading, AgentWriting, AgentReading,
      SyncIs, SimIs, AgentIs
<1>7. SentInTime'
  BY <1>1, <1>2, <1>3, <1>4, <1>5 DEF Types, SentInTime, SimIs, AgentIs
<1>8. InStep'
  BY <1>1, <1>2, <1>3, <1>4, <1>5, CountsNamed
  DEF Types, InStep, Shaking, Awaiting, Turn, Left, Gone, Fresh, Latest,
      SyncIs, SimIs, AgentIs
<1> QED
  BY <1>1, <1>2, <1>3, <1>4, <1>5, <1>6, <1>7, <1>8, Assemble
  DEF Types, SyncIs, SimIs, AgentIs

\* The agent has written its reply to the handshake.
LEMMA AgentInitWriteStep ==
    ASSUME GymInv, AgentInitWrite
    PROVE  GymInv'
<1>1. /\ agent.pc = "initWrite"
      /\ PySendEnd
      /\ UNCHANGED <<cpp2py, sim, clean>>
      /\ py2cpp' = Ack(agent.compatible)
      /\ AgentGoes("rxRecv") /\ "rxRecv" \in AgentPc
  BY DEF AgentInitWrite, AgentAt, AgentPc
<1>2. Types /\ OneToken /\ SentInTime /\ InStep
  BY Parts
<1>3. sync.py2cppFull = 0
  BY <1>1, <1>2
  DEF Types, OneToken, SimWriting, SimReading, AgentWriting, AgentReading
<1>4. SyncIs(sync', sync.cpp2pyEmpty, sync.cpp2pyFull,
             sync.py2cppEmpty, 1, sync.isFinished)
  BY <1>1, <1>2, <1>3, PySendEndEffect DEF Types
<1>5. AgentIs(agent', "rxRecv", agent.call, agent.gameOver, agent.obs,
              agent.session)
  BY <1>1, <1>2, AgentGoesFacts DEF Types
<1>6. agent.compatible \in BOOLEAN
  BY <1>2 DEF Types, AgentProcess
<1>7. py2cpp' \in AgentMessages /\ py2cpp'.kind = "SimInitAck"
  BY <1>1, <1>6, ReplyFacts
<1>8. OneToken'
  BY <1>1, <1>2, <1>4, <1>5, <1>6, <1>7, CountsNamed
  DEF Types, OneToken, SimWriting, SimReading, AgentWriting, AgentReading,
      SyncIs, SimIs, AgentIs
<1>9. SentInTime'
  BY <1>1, <1>2, <1>4, <1>5, <1>6, <1>7
  DEF Types, SentInTime, SimIs, AgentIs
<1>10. InStep'
  BY <1>1, <1>2, <1>4, <1>5, <1>6, <1>7, CountsNamed
  DEF Types, InStep, Shaking, Awaiting, Turn, Left, Gone, Fresh, Latest,
      SyncIs, SimIs, AgentIs
<1> QED
  BY <1>1, <1>2, <1>4, <1>5, <1>6, <1>7, <1>8, <1>9, <1>10, Assemble
  DEF Types, SyncIs, SimIs, AgentIs

\* The agent begins to read a state.
LEMMA RxRecvStep ==
    ASSUME GymInv, RxRecv
    PROVE  GymInv'
<1>1. /\ agent.pc = "rxRecv"
      /\ PyRecvBegin
      /\ UNCHANGED <<cpp2py, py2cpp, sim, clean>>
      /\ AgentGoes("rxRead") /\ "rxRead" \in AgentPc
  BY DEF RxRecv, AgentAt, AgentLocal, AgentPc
<1>2. Types /\ OneToken /\ SentInTime /\ InStep
  BY Parts
<1>3. /\ sync.cpp2pyFull > 0
      /\ SyncIs(sync', sync.cpp2pyEmpty, sync.cpp2pyFull - 1,
                sync.py2cppEmpty, sync.py2cppFull, sync.isFinished)
  BY <1>1, <1>2, PyRecvBeginEffect DEF Types
<1>4. sync.cpp2pyFull = 1 /\ sync.cpp2pyEmpty = 0
  BY <1>2, <1>3 DEF Types, OneToken
<1>5. AgentIs(agent', "rxRead", agent.call, agent.gameOver, agent.obs,
              agent.session)
  BY <1>1, <1>2, AgentGoesFacts DEF Types
<1>6. OneToken'
  BY <1>1, <1>2, <1>3, <1>4, <1>5, CountsNamed
  DEF Types, OneToken, SimWriting, SimReading, AgentWriting, AgentReading,
      SyncIs, SimIs, AgentIs
<1>7. SentInTime'
  BY <1>1, <1>2, <1>3, <1>4, <1>5 DEF Types, SentInTime, SimIs, AgentIs
<1>8. InStep'
  BY <1>1, <1>2, <1>3, <1>4, <1>5, CountsNamed
  DEF Types, InStep, Shaking, Awaiting, Turn, Left, Gone, Fresh, Latest,
      SyncIs, SimIs, AgentIs
<1> QED
  BY <1>1, <1>2, <1>3, <1>4, <1>5, <1>6, <1>7, <1>8, Assemble
  DEF Types, SyncIs, SimIs, AgentIs

\* The agent has read a state.
LEMMA RxReadStep ==
    ASSUME GymInv, RxRead
    PROVE  GymInv'
<1>1. /\ agent.pc = "rxRead"
      /\ PyRecvEnd
      /\ UNCHANGED <<cpp2py, py2cpp, sim, clean>>
  BY DEF RxRead, AgentAt, AgentLocal
<1>2. Types /\ OneToken /\ SentInTime /\ InStep
  BY Parts
<1>3. sync.cpp2pyEmpty = 0
  BY <1>1, <1>2
  DEF Types, OneToken, SimWriting, SimReading, AgentWriting, AgentReading
<1>4. SyncIs(sync', 1, sync.cpp2pyFull,
             sync.py2cppEmpty, sync.py2cppFull, sync.isFinished)
  BY <1>1, <1>2, <1>3, PyRecvEndEffect DEF Types
<1>5. AgentIs(agent', IF cpp2py.over THEN "closeSend" ELSE "user", agent.call,
              cpp2py.over, cpp2py.state, agent.session)
  BY <1>1, <1>2
  DEF Types, RxRead, Received, AgentProcess, AgentPc, SimMessages, AgentIs
<1>6. cpp2py.over \in BOOLEAN /\ sync.cpp2pyFull = 0
  BY <1>2, <1>1 DEF Types, SimMessages, OneToken, AgentReading
<1>7. OneToken'
  BY <1>1, <1>2, <1>4, <1>5, <1>6, CountsNamed
  DEF Types, OneToken, SimWriting, SimReading, AgentWriting, AgentReading,
      SyncIs, SimIs, AgentIs
<1>8. SentInTime'
  BY <1>1, <1>2, <1>4, <1>5, <1>6 DEF Types, SentInTime, SimIs, AgentIs
<1>9. InStep'
  BY <1>1, <1>2, <1>4, <1>5, <1>6, CountsNamed
  DEF Types, InStep, Shaking, Awaiting, Turn, Left, Gone, Fresh, Latest,
      SyncIs, SimIs, AgentIs
<1> QED
  BY <1>1, <1>2, <1>4, <1>5, <1>6, <1>7, <1>8, <1>9, Assemble
  DEF Types, SyncIs, SimIs, AgentIs

\* The agent begins to write the request to stop.
LEMMA CloseSendStep ==
    ASSUME GymInv, CloseSend
    PROVE  GymInv'
<1>1. /\ agent.pc = "closeSend"
      /\ PySendBegin
      /\ UNCHANGED <<cpp2py, py2cpp, sim, clean>>
      /\ AgentGoes("closeWrite") /\ "closeWrite" \in AgentPc
  BY DEF CloseSend, AgentAt, AgentLocal, AgentPc
<1>2. Types /\ OneToken /\ SentInTime /\ InStep
  BY Parts
<1>3. /\ sync.py2cppEmpty > 0
      /\ SyncIs(sync', sync.cpp2pyEmpty, sync.cpp2pyFull,
                sync.py2cppEmpty - 1, sync.py2cppFull, sync.isFinished)
  BY <1>1, <1>2, PySendBeginEffect DEF Types
<1>4. sync.py2cppEmpty = 1 /\ sync.py2cppFull = 0
  BY <1>2, <1>3 DEF Types, OneToken
<1>5. AgentIs(agent', "closeWrite", agent.call, agent.gameOver, agent.obs,
              agent.session)
  BY <1>1, <1>2, AgentGoesFacts DEF Types
<1>6. OneToken'
  BY <1>1, <1>2, <1>3, <1>4, <1>5, CountsNamed
  DEF Types, OneToken, SimWriting, SimReading, AgentWriting, AgentReading,
      SyncIs, SimIs, AgentIs
<1>7. SentInTime'
  BY <1>1, <1>2, <1>3, <1>4, <1>5 DEF Types, SentInTime, SimIs, AgentIs
<1>8. InStep'
  BY <1>1, <1>2, <1>3, <1>4, <1>5, CountsNamed
  DEF Types, InStep, Shaking, Awaiting, Turn, Left, Gone, Fresh, Latest,
      SyncIs, SimIs, AgentIs
<1> QED
  BY <1>1, <1>2, <1>3, <1>4, <1>5, <1>6, <1>7, <1>8, Assemble
  DEF Types, SyncIs, SimIs, AgentIs

\* The agent has written the request to stop.
LEMMA CloseWriteStep ==
    ASSUME GymInv, CloseWrite
    PROVE  GymInv'
<1>1. /\ agent.pc = "closeWrite"
      /\ PySendEnd
      /\ UNCHANGED <<cpp2py, sim, clean>>
      /\ py2cpp' = Close
  BY DEF CloseWrite, AgentAt
<1>2. Types /\ OneToken /\ SentInTime /\ InStep
  BY Parts
<1>3. sync.py2cppFull = 0
  BY <1>1, <1>2
  DEF Types, OneToken, SimWriting, SimReading, AgentWriting, AgentReading
<1>4. SyncIs(sync', sync.cpp2pyEmpty, sync.cpp2pyFull,
             sync.py2cppEmpty, 1, sync.isFinished)
  BY <1>1, <1>2, <1>3, PySendEndEffect DEF Types
<1>5. /\ agent' \in AgentProcess /\ agent'.session = agent.session
      /\ IF agent.call = "leave" THEN agent'.pc = "spawn"
         ELSE agent'.pc = "user" /\ agent'.gameOver = agent.gameOver
  BY <1>1, <1>2 DEF Types, CloseWrite, Received, AgentProcess, AgentPc
<1>6. py2cpp' \in AgentMessages /\ py2cpp'.kind = "EnvActMsg" /\ py2cpp'.stop
  BY <1>1, ReplyFacts
<1>7. OneToken'
  BY <1>1, <1>2, <1>4, <1>5, <1>6, CountsNamed
  DEF Types, OneToken, SimWriting, SimReading, AgentWriting, AgentReading,
      SyncIs, SimIs, AgentIs
<1>8. SentInTime'
  BY <1>1, <1>2, <1>4, <1>5, <1>6 DEF Types, SentInTime, SimIs, AgentIs
<1>9. InStep'
  BY <1>1, <1>2, <1>4, <1>5, <1>6, CountsNamed
  DEF Types, InStep, Shaking, Awaiting, Turn, Left, Gone, Fresh, Latest,
      SyncIs, SimIs, AgentIs
<1> QED
  BY <1>1, <1>2, <1>4, <1>5, <1>6, <1>7, <1>8, <1>9, Assemble
  DEF Types, SyncIs, SimIs, AgentIs

\* The user takes a step.
LEMMA StepStep ==
    ASSUME GymInv, Step
    PROVE  GymInv'
<1>1. /\ agent.pc = "user"
      /\ UNCHANGED sync
      /\ UNCHANGED <<cpp2py, py2cpp, sim, clean>>
      /\ ~agent.gameOver
  BY DEF Step, AgentAt, AgentLocal
<1>2. Types /\ OneToken /\ SentInTime /\ InStep
  BY Parts
<1>3. AgentIs(agent', "actSend", "step", agent.gameOver, agent.obs,
              agent.session)
  BY <1>1, <1>2 DEF Types, Step, AgentProcess, AgentPc, AgentIs
<1>4. OneToken'
  BY <1>1, <1>2, <1>3, CountsNamed
  DEF Types, OneToken, SimWriting, SimReading, AgentWriting, AgentReading,
      SyncIs, SimIs, AgentIs
<1>5. SentInTime'
  BY <1>1, <1>2, <1>3 DEF Types, SentInTime, SimIs, AgentIs
<1>6. InStep'
  BY <1>1, <1>2, <1>3, CountsNamed
  DEF Types, InStep, Shaking, Awaiting, Turn, Left, Gone, Fresh, Latest,
      SyncIs, SimIs, AgentIs
<1> QED
  BY <1>1, <1>2, <1>3, <1>4, <1>5, <1>6, Assemble
  DEF Types, SyncIs, SimIs, AgentIs

\* The agent begins to write an action.
LEMMA ActSendStep ==
    ASSUME GymInv, ActSend
    PROVE  GymInv'
<1>1. /\ agent.pc = "actSend"
      /\ PySendBegin
      /\ UNCHANGED <<cpp2py, py2cpp, sim, clean>>
      /\ AgentGoes("actWrite") /\ "actWrite" \in AgentPc
  BY DEF ActSend, AgentAt, AgentLocal, AgentPc
<1>2. Types /\ OneToken /\ SentInTime /\ InStep
  BY Parts
<1>3. /\ sync.py2cppEmpty > 0
      /\ SyncIs(sync', sync.cpp2pyEmpty, sync.cpp2pyFull,
                sync.py2cppEmpty - 1, sync.py2cppFull, sync.isFinished)
  BY <1>1, <1>2, PySendBeginEffect DEF Types
<1>4. sync.py2cppEmpty = 1 /\ sync.py2cppFull = 0
  BY <1>2, <1>3 DEF Types, OneToken
<1>5. AgentIs(agent', "actWrite", agent.call, agent.gameOver, agent.obs,
              agent.session)
  BY <1>1, <1>2, AgentGoesFacts DEF Types
<1>6. OneToken'
  BY <1>1, <1>2, <1>3, <1>4, <1>5, CountsNamed
  DEF Types, OneToken, SimWriting, SimReading, AgentWriting, AgentReading,
      SyncIs, SimIs, AgentIs
<1>7. SentInTime'
  BY <1>1, <1>2, <1>3, <1>4, <1>5 DEF Types, SentInTime, SimIs, AgentIs
<1>8. InStep'
  BY <1>1, <1>2, <1>3, <1>4, <1>5, CountsNamed
  DEF Types, InStep, Shaking, Awaiting, Turn, Left, Gone, Fresh, Latest,
      SyncIs, SimIs, AgentIs
<1> QED
  BY <1>1, <1>2, <1>3, <1>4, <1>5, <1>6, <1>7, <1>8, Assemble
  DEF Types, SyncIs, SimIs, AgentIs

\* The agent has written an action.
LEMMA ActWriteStep ==
    ASSUME GymInv, ActWrite
    PROVE  GymInv'
<1>1. /\ agent.pc = "actWrite"
      /\ PySendEnd
      /\ UNCHANGED <<cpp2py, sim, clean>>
      /\ py2cpp' = Act(agent.obs)
  BY DEF ActWrite, AgentAt
<1>2. Types /\ OneToken /\ SentInTime /\ InStep
  BY Parts
<1>3. sync.py2cppFull = 0
  BY <1>1, <1>2
  DEF Types, OneToken, SimWriting, SimReading, AgentWriting, AgentReading
<1>4. SyncIs(sync', sync.cpp2pyEmpty, sync.cpp2pyFull,
             sync.py2cppEmpty, 1, sync.isFinished)
  BY <1>1, <1>2, <1>3, PySendEndEffect DEF Types
<1>5. AgentIs(agent', "rxRecv", agent.call, agent.gameOver, agent.obs,
              agent.session)
  BY <1>1, <1>2 DEF Types, ActWrite, AgentProcess, AgentPc, AgentIs
<1>6. /\ py2cpp' \in AgentMessages /\ py2cpp'.kind = "EnvActMsg"
      /\ py2cpp'.state = agent.obs
  BY <1>1, <1>2, AgentFields, ReplyFacts DEF Types
<1>7. OneToken'
  BY <1>1, <1>2, <1>4, <1>5, <1>6, CountsNamed
  DEF Types, OneToken, SimWriting, SimReading, AgentWriting, AgentReading,
      SyncIs, SimIs, AgentIs
<1>8. SentInTime'
  BY <1>1, <1>2, <1>4, <1>5, <1>6 DEF Types, SentInTime, SimIs, AgentIs
<1>9. InStep'
  BY <1>1, <1>2, <1>4, <1>5, <1>6, CountsNamed
  DEF Types, InStep, Shaking, Awaiting, Turn, Left, Gone, Fresh, Latest,
      SyncIs, SimIs, AgentIs
<1> QED
  BY <1>1, <1>2, <1>4, <1>5, <1>6, <1>7, <1>8, <1>9, Assemble
  DEF Types, SyncIs, SimIs, AgentIs

\* The user resets the environment.
LEMMA ResetStep ==
    ASSUME GymInv, Reset
    PROVE  GymInv'
<1>1. /\ agent.pc = "user"
      /\ UNCHANGED sync
      /\ UNCHANGED <<cpp2py, py2cpp, sim, clean>>
  BY DEF Reset, AgentAt, AgentLocal
<1>2. Types /\ OneToken /\ SentInTime /\ InStep
  BY Parts
<1>3. /\ agent' \in AgentProcess /\ agent'.session = agent.session
      /\ IF agent.gameOver THEN agent'.pc = "spawn"
         ELSE agent'.pc = "closeSend" /\ agent'.call = "leave"
  BY <1>1, <1>2 DEF Types, Reset, AgentProcess, AgentPc
<1>4. OneToken'
  BY <1>1, <1>2, <1>3, CountsNamed
  DEF Types, OneToken, SimWriting, SimReading, AgentWriting, AgentReading,
      SyncIs, SimIs, AgentIs
<1>5. SentInTime'
  BY <1>1, <1>2, <1>3 DEF Types, SentInTime, SimIs, AgentIs
<1>6. InStep'
  BY <1>1, <1>2, <1>3, CountsNamed
  DEF Types, InStep, Shaking, Awaiting, Turn, Left, Gone, Fresh, Latest,
      SyncIs, SimIs, AgentIs
<1> QED
  BY <1>1, <1>2, <1>3, <1>4, <1>5, <1>6, Assemble
  DEF Types, SyncIs, SimIs, AgentIs

\* The user closes the environment, which kills the simulator.
LEMMA CloseEnvStep ==
    ASSUME GymInv, CloseEnv
    PROVE  GymInv'
<1>1. /\ agent.pc = "user"
      /\ UNCHANGED sync
      /\ UNCHANGED <<cpp2py, py2cpp, clean>>
      /\ SimGoes("exit") /\ "exit" \in SimPc
      /\ AgentGoes("closed") /\ "closed" \in AgentPc
  BY DEF CloseEnv, AgentAt, SimPc, AgentPc
<1>2. Types /\ OneToken /\ SentInTime /\ InStep
  BY Parts
<1>3. SimIs(sim', "exit", sim.initSent, sim.stop, sim.simEnd, sim.over,
            sim.step, sim.ends, sim.sent, sim.acted)
  BY <1>1, <1>2, SimGoesFacts DEF Types
<1>4. AgentIs(agent', "closed", agent.call, agent.gameOver, agent.obs,
              agent.session)
  BY <1>1, <1>2, AgentGoesFacts DEF Types
<1>5. OneToken'
  BY <1>1, <1>2, <1>3, <1>4, CountsNamed
  DEF Types, OneToken, SimWriting, SimReading, AgentWriting, AgentReading,
      SyncIs, SimIs, AgentIs
<1>6. SentInTime'
  BY <1>1, <1>2, <1>3, <1>4 DEF Types, SentInTime, SimIs, AgentIs
<1>7. InStep'
  BY <1>1, <1>2, <1>3, <1>4, CountsNamed
  DEF Types, InStep, Shaking, Awaiting, Turn, Left, Gone, Fresh, Latest,
      SyncIs, SimIs, AgentIs
<1> QED
  BY <1>1, <1>2, <1>3, <1>4, <1>5, <1>6, <1>7, Assemble
  DEF Types, SyncIs, SimIs, AgentIs

\* The agent looks whether the simulator has died very early.
LEMMA StartedStep ==
    ASSUME GymInv, Started
    PROVE  GymInv'
<1>1. /\ agent.pc = "started"
      /\ UNCHANGED sync
      /\ UNCHANGED <<cpp2py, py2cpp, sim, clean>>
  BY DEF Started, AgentAt, AgentLocal
<1>2. Types /\ OneToken /\ SentInTime /\ InStep
  BY Parts
<1>3. AgentIs(agent', IF sim.pc = "exit" THEN "closed" ELSE "initRecv",
              agent.call, agent.gameOver, agent.obs, agent.session)
  BY <1>1, <1>2
  DEF Types, Started, AgentGoes, SimAt, AgentProcess, AgentPc, AgentIs
<1>4. OneToken'
  BY <1>1, <1>2, <1>3, CountsNamed
  DEF Types, OneToken, SimWriting, SimReading, AgentWriting, AgentReading,
      SyncIs, SimIs, AgentIs
<1>5. SentInTime'
  BY <1>1, <1>2, <1>3 DEF Types, SentInTime, SimIs, AgentIs
<1>6. InStep'
  BY <1>1, <1>2, <1>3, CountsNamed
  DEF Types, InStep, Shaking, Awaiting, Turn, Left, Gone, Fresh, Latest,
      SyncIs, SimIs, AgentIs
<1> QED
  BY <1>1, <1>2, <1>3, <1>4, <1>5, <1>6, Assemble
  DEF Types, SyncIs, SimIs, AgentIs

\* The agent kills the simulator if there is one and starts the next.
LEMMA SpawnStep ==
    ASSUME GymInv, Spawn
    PROVE  GymInv'
<1>1. /\ agent.pc = "spawn"
      /\ UNCHANGED sync
      /\ UNCHANGED <<cpp2py, py2cpp>>
      /\ clean' = (clean /\ sync = NewSync)
  BY DEF Spawn, AgentAt
<1>2. Types /\ OneToken /\ SentInTime /\ InStep
  BY Parts
<1>3. clean' \in BOOLEAN
  BY <1>1, <1>2 DEF Types
<1>4. SimIs(sim', "run", FALSE, FALSE, FALSE, FALSE, 0, 0, 0, <<0, 0>>)
  BY NewSimFacts DEF Spawn
<1>5. agent.session < MaxSessions /\ agent.session + 1 \in 0 .. MaxSessions
  BY <1>2, GymAssumption, AgentFields DEF Types, Spawn
<1>6. /\ agent' \in AgentProcess /\ agent'.pc = "started"
  BY <1>1, <1>2, <1>5 DEF Types, Spawn, AgentProcess, AgentPc
<1>7. clean' => sync = NewSync
  BY <1>1, Zenon
<1>8. clean' => sync.cpp2pyFull = 0 /\ sync.py2cppFull = 0
  BY <1>7 DEF NewSync
<1>9. OneToken'
  BY <1>1, <1>2, <1>3, <1>4, <1>5, <1>6, <1>7, <1>8, CountsNamed
  DEF Types, OneToken, SimWriting, SimReading, AgentWriting, AgentReading,
      SyncIs, SimIs, AgentIs
<1>10. SentInTime'
  BY <1>1, <1>2, <1>3, <1>4, <1>5, <1>6, <1>7, <1>8
  DEF Types, SentInTime, SimIs, AgentIs
<1>11. InStep'
  BY <1>1, <1>2, <1>3, <1>4, <1>5, <1>6, <1>7, <1>8, CountsNamed
  DEF Types, InStep, Shaking, Awaiting, Turn, Left, Gone, Fresh, Latest,
      SyncIs, SimIs, AgentIs
<1> QED
  BY <1>1, <1>2, <1>3, <1>4, <1>5, <1>6, <1>7, <1>8, <1>9, <1>10, <1>11,
     Assemble
  DEF Types, SyncIs, SimIs, AgentIs

-----------------------------------------------------------------------------
(* What follows.                                                           *)

\* Every step keeps the invariant.
LEMMA NextGym == GymInv /\ [GymNext]_gymVars => GymInv'
<1> SUFFICES ASSUME GymInv, [GymNext]_gymVars PROVE GymInv'
  OBVIOUS
<1>1. CASE SimNext
  BY <1>1, NotifyStep, InitReadStep, InitSendStep, InitWriteStep,
     InitRecvStep, SendStep, WriteStep, RecvStep, ReadStep,
     NotifySimulationEndStep, ExitStep DEF SimNext
<1>2. CASE AgentNext
  BY <1>2, SpawnStep, StartedStep, AgentInitRecvStep, AgentInitReadStep,
     AgentInitSendStep, AgentInitWriteStep, RxRecvStep, RxReadStep,
     CloseSendStep, CloseWriteStep, ActSendStep, ActWriteStep DEF AgentNext
<1>3. CASE UserNext
  BY <1>3, StepStep, ResetStep, CloseEnvStep DEF UserNext
<1>4. CASE UNCHANGED gymVars
  <2>1. UNCHANGED <<sync, cpp2py, py2cpp, sim, agent, clean>>
    BY <1>4 DEF gymVars
  <2>2. OneToken' /\ SentInTime' /\ InStep'
    BY <2>1, Parts
    DEF OneToken, SentInTime, InStep, SimWriting, SimReading, AgentWriting,
        AgentReading, Shaking, Awaiting, Turn, Left, Gone, Fresh, Latest
  <2> QED
    BY <2>1, <2>2, Parts, Assemble DEF Types
<1> QED
  BY <1>1, <1>2, <1>3, <1>4 DEF GymNext

\* The invariant holds in every reachable state.
LEMMA GymInvHolds == GymSpec => []GymInv
BY InitGym, NextGym, PTL DEF GymSpec

\* The types; no semaphore ever counts more than one, whenever a simulator is
\* killed.
THEOREM GymTypeCorrect == GymSpec => []GymTypeOK
<1>1. GymInv => GymTypeOK
  BY DEF GymInv
<1> QED
  BY <1>1, GymInvHolds, PTL

\* Through any number of resets, a message is read as what it was written as, as
\* long as every simulator finds the semaphores in their initial state.
THEOREM KindsAgree == GymSpec => []ReadAsWritten
<1>1. GymInv => ReadAsWritten
  BY DEF GymInv, InStep, Shaking, Awaiting, Turn, Left, Gone, ReadAsWritten,
         AgentAt, SimAt
<1> QED
  BY <1>1, GymInvHolds, PTL

\* The action that the simulator executes was chosen for its latest state.
LEMMA ReadIsFresh ==
    ASSUME GymInv, [GymNext]_gymVars, clean, Read, ~sim'.simEnd, ~sim'.stop
    PROVE  sim'.acted = Latest
<1>1. /\ sim \in SimProcess /\ InStep /\ sim.pc = "read"
      /\ sim' = IF sim.simEnd THEN [sim EXCEPT !.pc = "run"]
                ELSE IF py2cpp.stop
                     THEN [sim EXCEPT !.pc = "run", !.stop = TRUE]
                ELSE [sim EXCEPT !.pc = "run", !.acted = py2cpp.state]
  BY Parts DEF Types, Read, SimAt
<1>2. ~sim.simEnd /\ ~py2cpp.stop /\ sim'.acted = py2cpp.state
  BY <1>1 DEF SimProcess
<1>3. py2cpp.stop \/ py2cpp.state = Latest
  BY <1>1 DEF InStep, Shaking, Awaiting, Turn, Left, Gone
<1> QED
  BY <1>2, <1>3

\* The simulator executes only an action chosen for the state it sent last, in
\* this simulation and no earlier one, if it started on fresh semaphores.
THEOREM ActionsAreFresh == GymSpec => ActionFresh
BY GymInvHolds, ReadIsFresh, PTL DEF GymSpec, ActionFresh

=============================================================================
