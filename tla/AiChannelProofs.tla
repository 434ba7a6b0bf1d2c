-------------------------- MODULE AiChannelProofs --------------------------
(***************************************************************************)
(* The exchange over shared memory, for any struct, any values and any     *)
(* agent: ChanInv is inductive, the two processes never copy the same      *)
(* struct, and the channel implements Exchange.                            *)
(***************************************************************************)
EXTENDS AiChannel, TLAPS

-----------------------------------------------------------------------------
(* What the calls of the shared memory do to the four semaphores and the   *)
(* flag.                                                                   *)

\* Only the count of s differs in y, and it is n.
Moved(x, y, s, n) ==
    /\ y \in Syncs
    /\ y[s] = n
    /\ \A r \in Semaphores \ {s} : y[r] = x[r]
    /\ y.isFinished = x.isFinished

\* The types of the fields.
LEMMA SyncFields ==
    ASSUME NEW x \in Syncs
    PROVE  /\ \A s \in Semaphores : x[s] \in Counts
           /\ x.isFinished \in BOOLEAN
BY DEF Syncs, Semaphores

\* Setting one count leaves the others and the flag alone.
LEMMA SetCount ==
    ASSUME NEW x \in Syncs, NEW s \in Semaphores, NEW n \in Counts
    PROVE  Moved(x, [x EXCEPT ![s] = n], s, n)
BY DEF Syncs, Semaphores, Moved

\* A wait finds a positive count and takes one from it.
LEMMA Wait ==
    ASSUME sync \in Syncs, NEW s \in Semaphores, sem_wait(s)
    PROVE  sync[s] > 0 /\ Moved(sync, sync', s, sync[s] - 1)
<1>1. sync[s] \in Counts /\ sync[s] > 0
  BY SyncFields DEF sem_wait
<1>2. sync[s] - 1 \in Counts
  BY <1>1 DEF Counts
<1>3. sync' = [sync EXCEPT ![s] = sync[s] - 1]
  BY DEF sem_wait
<1> QED
  BY <1>1, <1>2, <1>3, SetCount

\* A post to a semaphore that is at zero does not wrap.
LEMMA Post ==
    ASSUME sync \in Syncs, NEW s \in Semaphores, sync[s] = 0, sem_post(s)
    PROVE  Moved(sync, sync', s, 1)
<1>1. sync' = [sync EXCEPT ![s] = (sync[s] + 1) % 256]
  BY DEF sem_post
<1>2. (sync[s] + 1) % 256 = 1
  BY SMT
<1>3. 1 \in Counts
  BY DEF Counts
<1> QED
  BY <1>1, <1>2, <1>3, SetCount

\* The counts by name.
LEMMA CountsNamed ==
    ASSUME NEW x \in Syncs
    PROVE  /\ x["cpp2pyEmpty"] = x.cpp2pyEmpty
           /\ x["cpp2pyFull"] = x.cpp2pyFull
           /\ x["py2cppEmpty"] = x.py2cppEmpty
           /\ x["py2cppFull"] = x.py2cppFull
           /\ x.cpp2pyEmpty \in Nat /\ x.cpp2pyFull \in Nat
           /\ x.py2cppEmpty \in Nat /\ x.py2cppFull \in Nat
BY DEF Syncs, Counts

\* The five fields of a sync object.
SyncIs(y, e, f, e2, f2, finished) ==
    /\ y \in Syncs
    /\ y.cpp2pyEmpty = e /\ y.cpp2pyFull = f
    /\ y.py2cppEmpty = e2 /\ y.py2cppFull = f2
    /\ y.isFinished = finished

\* What each call does to them.
LEMMA CppSendBeginEffect ==
    ASSUME sync \in Syncs, CppSendBegin
    PROVE  /\ sync.cpp2pyEmpty > 0
           /\ SyncIs(sync', sync.cpp2pyEmpty - 1, sync.cpp2pyFull,
                         sync.py2cppEmpty, sync.py2cppFull, sync.isFinished)
BY Wait, CountsNamed DEF CppSendBegin, Moved, SyncIs, Semaphores

\* What PyRecvBegin does to them.
LEMMA PyRecvBeginEffect ==
    ASSUME sync \in Syncs, PyRecvBegin
    PROVE  /\ sync.cpp2pyFull > 0
           /\ SyncIs(sync', sync.cpp2pyEmpty, sync.cpp2pyFull - 1,
                         sync.py2cppEmpty, sync.py2cppFull, sync.isFinished)
BY Wait, CountsNamed DEF PyRecvBegin, Moved, SyncIs, Semaphores

\* What PySendBegin does to them.
LEMMA PySendBeginEffect ==
    ASSUME sync \in Syncs, PySendBegin
    PROVE  /\ sync.py2cppEmpty > 0
           /\ SyncIs(sync', sync.cpp2pyEmpty, sync.cpp2pyFull,
                         sync.py2cppEmpty - 1, sync.py2cppFull, sync.isFinished)
BY Wait, CountsNamed DEF PySendBegin, Moved, SyncIs, Semaphores

\* What CppRecvBegin does to them.
LEMMA CppRecvBeginEffect ==
    ASSUME sync \in Syncs, CppRecvBegin
    PROVE  /\ sync.py2cppFull > 0
           /\ SyncIs(sync', sync.cpp2pyEmpty, sync.cpp2pyFull,
                         sync.py2cppEmpty, sync.py2cppFull - 1, sync.isFinished)
BY Wait, CountsNamed DEF CppRecvBegin, Moved, SyncIs, Semaphores

\* What PyRecvEnd does to them.
LEMMA PyRecvEndEffect ==
    ASSUME sync \in Syncs, PyRecvEnd, sync.cpp2pyEmpty = 0
    PROVE  SyncIs(sync', 1, sync.cpp2pyFull,
                         sync.py2cppEmpty, sync.py2cppFull, sync.isFinished)
BY Post, CountsNamed DEF PyRecvEnd, Moved, SyncIs, Semaphores

\* What CppSendEnd does to them.
LEMMA CppSendEndEffect ==
    ASSUME sync \in Syncs, CppSendEnd, sync.cpp2pyFull = 0
    PROVE  SyncIs(sync', sync.cpp2pyEmpty, 1,
                         sync.py2cppEmpty, sync.py2cppFull, sync.isFinished)
BY Post, CountsNamed DEF CppSendEnd, Moved, SyncIs, Semaphores

\* What CppRecvEnd does to them.
LEMMA CppRecvEndEffect ==
    ASSUME sync \in Syncs, CppRecvEnd, sync.py2cppEmpty = 0
    PROVE  SyncIs(sync', sync.cpp2pyEmpty, sync.cpp2pyFull,
                         1, sync.py2cppFull, sync.isFinished)
BY Post, CountsNamed DEF CppRecvEnd, Moved, SyncIs, Semaphores

\* What PySendEnd does to them.
LEMMA PySendEndEffect ==
    ASSUME sync \in Syncs, PySendEnd, sync.py2cppFull = 0
    PROVE  SyncIs(sync', sync.cpp2pyEmpty, sync.cpp2pyFull,
                         sync.py2cppEmpty, 1, sync.isFinished)
BY Post, CountsNamed DEF PySendEnd, Moved, SyncIs, Semaphores

-----------------------------------------------------------------------------
(* ChanInv is inductive.                                                   *)

\* The types that ChanInv gives.
LEMMA ChanTypes ==
    ASSUME ChanInv
    PROVE  /\ sync \in Syncs /\ cpp \in CppProcess /\ py \in PyProcess
           /\ cpp2py \in Struct /\ py2cpp \in Struct
BY DEF ChanInv, ChanTypeOK

\* No semaphore counts more than one when the tokens add up.
LEMMA AtMostOne ==
    ASSUME NEW x \in Syncs, NEW a \in Nat, NEW b \in Nat, NEW c \in Nat, NEW d \in Nat,
           x.cpp2pyEmpty + x.cpp2pyFull + a + b = 1,
           x.py2cppEmpty + x.py2cppFull + c + d = 1
    PROVE  \A s \in Semaphores : x[s] <= 1
BY CountsNamed DEF Semaphores

\* What is left to show of a step once its types are known.
LEMMA NextInv ==
    ASSUME sync' \in Syncs, cpp' \in CppProcess, py' \in PyProcess,
           cpp2py' \in Struct, py2cpp' \in Struct,
           Tokens', Turns', Copies'
    PROVE  ChanInv'
<1>1. /\ One(CppHolds)' \in Nat /\ One(PyHolds)' \in Nat
      /\ One(cpp.pc = "read")' \in Nat /\ One(py.pc = "write")' \in Nat
  BY DEF One
<1>2. /\ (sync.cpp2pyEmpty + sync.cpp2pyFull + One(CppHolds) + One(PyHolds) = 1)'
      /\ (sync.py2cppEmpty + sync.py2cppFull
             + One(cpp.pc = "read") + One(py.pc = "write") = 1)'
  BY DEF Tokens
<1>3. \A s \in Semaphores : sync'[s] <= 1
  BY <1>1, <1>2, AtMostOne
<1> QED
  BY <1>3 DEF ChanInv, ChanTypeOK

\* Structs that agree on every field are the same.
LEMMA SameStruct ==
    ASSUME NEW x \in Struct, NEW y \in Struct, \A f \in Fields : x[f] = y[f]
    PROVE  x = y
BY DEF Struct

\* The agent's action is a struct.
LEMMA PolicyType ==
    ASSUME NEW p \in PyProcess
    PROVE  Policy[p.obs] \in Struct
BY PolicyAssumption DEF PyProcess

\* The next lemmas: each step keeps ChanInv, the simulator's first.
LEMMA GetActionInv ==
    ASSUME ChanInv, NEW o \in Struct, GetAction(o)
    PROVE  ChanInv'
<1>1. /\ cpp.pc = "idle"
      /\ cpp' = [cpp EXCEPT !.pc = "sendBegin", !.obs = o]
      /\ UNCHANGED <<sync, cpp2py, py2cpp, py>>
  BY DEF GetAction, CppAt
<1>2. cpp' \in CppProcess /\ cpp'.pc = "sendBegin"
  BY <1>1, ChanTypes DEF CppProcess, CppPc, Struct
<1>5. Tokens'
  BY <1>1, <1>2, ChanTypes, CountsNamed
     DEF ChanInv, Tokens, One, CppHolds, PyHolds
<1>6. Turns'
  BY <1>1, <1>2, ChanTypes, CountsNamed
     DEF ChanInv, Turns, Calm, Busy, Tokens, One, CppHolds, PyHolds
<1>7. Copies'
  BY <1>1, <1>2, ChanTypes, CountsNamed DEF ChanInv, Copies, Turns, Calm, Busy
<1> QED
  BY <1>1, <1>2, <1>5, <1>6, <1>7, ChanTypes, NextInv

\* The wait takes the free slot of cpp2py while the agent waits for a message.
LEMMA SendBeginInv ==
    ASSUME ChanInv, SendBegin
    PROVE  ChanInv'
<1>1. /\ cpp.pc = "sendBegin"
      /\ cpp' = [cpp EXCEPT !.pc = "write", !.left = Fields]
      /\ UNCHANGED <<cpp2py, py2cpp, py>>
  BY DEF SendBegin, CppAt, CppCopies
<1>2. cpp' \in CppProcess /\ cpp'.pc = "write" /\ cpp'.left = Fields /\ cpp'.obs = cpp.obs
  BY <1>1, ChanTypes DEF CppProcess, CppPc, Struct
<1>4. /\ sync.cpp2pyEmpty > 0
      /\ SyncIs(sync', sync.cpp2pyEmpty - 1, sync.cpp2pyFull,
                    sync.py2cppEmpty, sync.py2cppFull, sync.isFinished)
  BY ChanTypes, CppSendBeginEffect DEF SendBegin
<1>5. Tokens'
  BY <1>1, <1>2, <1>4, ChanTypes, CountsNamed
     DEF ChanInv, Tokens, One, CppHolds, PyHolds, SyncIs
<1>6. Turns'
  BY <1>1, <1>2, <1>4, ChanTypes, CountsNamed
     DEF ChanInv, Turns, Calm, Busy, Tokens, One, CppHolds, PyHolds, SyncIs
<1>7. Copies'
  BY <1>1, <1>2, <1>4, ChanTypes, CountsNamed
     DEF ChanInv, Copies, Turns, Calm, Busy, SyncIs
<1> QED
  BY <1>1, <1>2, <1>4, <1>5, <1>6, <1>7, ChanTypes, NextInv DEF SyncIs

\* cpp2py is complete when it is posted, and the post cannot overflow.
LEMMA SendEndInv ==
    ASSUME ChanInv, SendEnd
    PROVE  ChanInv'
<1>1. /\ cpp.pc = "write" /\ cpp.left = {}
      /\ cpp' = [cpp EXCEPT !.pc = "recvBegin"]
      /\ UNCHANGED <<cpp2py, py2cpp, py>>
  BY DEF SendEnd, CppAt, CppGoes
<1>2. cpp' \in CppProcess /\ cpp'.pc = "recvBegin" /\ cpp'.obs = cpp.obs
  BY <1>1, ChanTypes DEF CppProcess, CppPc, Struct
<1>3. sync.cpp2pyFull = 0
  BY <1>1, ChanTypes, CountsNamed
     DEF ChanInv, Tokens, Turns, Calm, Busy, One, CppHolds, PyHolds
<1>4. SyncIs(sync', sync.cpp2pyEmpty, 1,
                    sync.py2cppEmpty, sync.py2cppFull, sync.isFinished)
  BY <1>3, ChanTypes, CppSendEndEffect DEF SendEnd
<1>8. cpp2py = cpp.obs
  BY <1>1, ChanTypes, SameStruct DEF ChanInv, Copies, CppProcess
<1>5. Tokens'
  BY <1>1, <1>2, <1>4, <1>3, <1>8, ChanTypes, CountsNamed
     DEF ChanInv, Tokens, One, CppHolds, PyHolds, SyncIs
<1>6. Turns'
  BY <1>1, <1>2, <1>4, <1>3, <1>8, ChanTypes, CountsNamed
     DEF ChanInv, Turns, Calm, Busy, Tokens, One, CppHolds, PyHolds, SyncIs
<1>7. Copies'
  BY <1>1, <1>2, <1>4, <1>3, <1>8, ChanTypes, CountsNamed
     DEF ChanInv, Copies, Turns, Calm, Busy, SyncIs
<1> QED
  BY <1>1, <1>2, <1>4, <1>3, <1>8, <1>5, <1>6, <1>7, ChanTypes, NextInv
     DEF SyncIs

\* A full py2cpp holds the policy's action, and the agent waits again.
LEMMA RecvBeginInv ==
    ASSUME ChanInv, RecvBegin
    PROVE  ChanInv'
<1>1. /\ cpp.pc = "recvBegin"
      /\ cpp' = [cpp EXCEPT !.pc = "read", !.left = Fields]
      /\ UNCHANGED <<cpp2py, py2cpp, py>>
  BY DEF RecvBegin, CppAt, CppCopies
<1>2. cpp' \in CppProcess /\ cpp'.pc = "read" /\ cpp'.left = Fields /\ cpp'.obs = cpp.obs
  BY <1>1, ChanTypes DEF CppProcess, CppPc, Struct
<1>4. /\ sync.py2cppFull > 0
      /\ SyncIs(sync', sync.cpp2pyEmpty, sync.cpp2pyFull,
                    sync.py2cppEmpty, sync.py2cppFull - 1, sync.isFinished)
  BY ChanTypes, CppRecvBeginEffect DEF RecvBegin
<1>5. Tokens'
  BY <1>1, <1>2, <1>4, ChanTypes, CountsNamed
     DEF ChanInv, Tokens, One, CppHolds, PyHolds, SyncIs
<1>6. Turns'
  BY <1>1, <1>2, <1>4, ChanTypes, CountsNamed
     DEF ChanInv, Turns, Calm, Busy, Tokens, One, CppHolds, PyHolds, SyncIs
<1>7. Copies'
  BY <1>1, <1>2, <1>4, ChanTypes, CountsNamed
     DEF ChanInv, Copies, Turns, Calm, Busy, SyncIs
<1> QED
  BY <1>1, <1>2, <1>4, <1>5, <1>6, <1>7, ChanTypes, NextInv DEF SyncIs

\* The slot of py2cpp is free again.
LEMMA RecvEndInv ==
    ASSUME ChanInv, RecvEnd
    PROVE  ChanInv'
<1>1. /\ cpp.pc = "read"
      /\ cpp' = [cpp EXCEPT !.pc = "idle", !.got = cpp.act]
      /\ UNCHANGED <<cpp2py, py2cpp, py>>
  BY DEF RecvEnd, CppAt
<1>2. cpp' \in CppProcess /\ cpp'.pc = "idle"
  BY <1>1, ChanTypes DEF CppProcess, CppPc, Struct
<1>3. sync.py2cppEmpty = 0
  BY <1>1, ChanTypes, CountsNamed
     DEF ChanInv, Tokens, Turns, Calm, Busy, One, CppHolds, PyHolds
<1>4. SyncIs(sync', sync.cpp2pyEmpty, sync.cpp2pyFull,
                    1, sync.py2cppFull, sync.isFinished)
  BY <1>3, ChanTypes, CppRecvEndEffect DEF RecvEnd
<1>5. Tokens'
  BY <1>1, <1>2, <1>4, <1>3, ChanTypes, CountsNamed
     DEF ChanInv, Tokens, One, CppHolds, PyHolds, SyncIs
<1>6. Turns'
  BY <1>1, <1>2, <1>4, <1>3, ChanTypes, CountsNamed
     DEF ChanInv, Turns, Calm, Busy, Tokens, One, CppHolds, PyHolds, SyncIs
<1>7. Copies'
  BY <1>1, <1>2, <1>4, <1>3, ChanTypes, CountsNamed
     DEF ChanInv, Copies, Turns, Calm, Busy, SyncIs
<1> QED
  BY <1>1, <1>2, <1>4, <1>3, <1>5, <1>6, <1>7, ChanTypes, NextInv DEF SyncIs

\* Nothing is in flight when the end is announced.
LEMMA NotifySimulationEndInv ==
    ASSUME ChanInv, NotifySimulationEnd
    PROVE  ChanInv'
<1>1. /\ cpp.pc = "idle"
      /\ cpp' = [cpp EXCEPT !.pc = "finishBegin"]
      /\ UNCHANGED <<sync, cpp2py, py2cpp, py>>
  BY DEF NotifySimulationEnd, CppAt, CppGoes
<1>2. cpp' \in CppProcess /\ cpp'.pc = "finishBegin"
  BY <1>1, ChanTypes DEF CppProcess, CppPc, Struct
<1>5. Tokens'
  BY <1>1, <1>2, ChanTypes, CountsNamed
     DEF ChanInv, Tokens, One, CppHolds, PyHolds
<1>6. Turns'
  BY <1>1, <1>2, ChanTypes, CountsNamed
     DEF ChanInv, Turns, Calm, Busy, Tokens, One, CppHolds, PyHolds
<1>7. Copies'
  BY <1>1, <1>2, ChanTypes, CountsNamed DEF ChanInv, Copies, Turns, Calm, Busy
<1> QED
  BY <1>1, <1>2, <1>5, <1>6, <1>7, ChanTypes, NextInv

\* The end takes the free slot of cpp2py.
LEMMA FinishBeginInv ==
    ASSUME ChanInv, FinishBegin
    PROVE  ChanInv'
<1>1. /\ cpp.pc = "finishBegin"
      /\ cpp' = [cpp EXCEPT !.pc = "finishFlag"]
      /\ UNCHANGED <<cpp2py, py2cpp, py>>
  BY DEF FinishBegin, CppAt, CppGoes
<1>2. cpp' \in CppProcess /\ cpp'.pc = "finishFlag"
  BY <1>1, ChanTypes DEF CppProcess, CppPc, Struct
<1>4. /\ sync.cpp2pyEmpty > 0
      /\ SyncIs(sync', sync.cpp2pyEmpty - 1, sync.cpp2pyFull,
                    sync.py2cppEmpty, sync.py2cppFull, sync.isFinished)
  BY ChanTypes, CppSendBeginEffect DEF FinishBegin
<1>5. Tokens'
  BY <1>1, <1>2, <1>4, ChanTypes, CountsNamed
     DEF ChanInv, Tokens, One, CppHolds, PyHolds, SyncIs
<1>6. Turns'
  BY <1>1, <1>2, <1>4, ChanTypes, CountsNamed
     DEF ChanInv, Turns, Calm, Busy, Tokens, One, CppHolds, PyHolds, SyncIs
<1>7. Copies'
  BY <1>1, <1>2, <1>4, ChanTypes, CountsNamed
     DEF ChanInv, Copies, Turns, Calm, Busy, SyncIs
<1> QED
  BY <1>1, <1>2, <1>4, <1>5, <1>6, <1>7, ChanTypes, NextInv DEF SyncIs

\* The post follows the flag.
LEMMA FinishEndInv ==
    ASSUME ChanInv, FinishEnd
    PROVE  ChanInv'
<1>1. /\ cpp.pc = "finishEnd"
      /\ cpp' = [cpp EXCEPT !.pc = "done"]
      /\ UNCHANGED <<cpp2py, py2cpp, py>>
  BY DEF FinishEnd, CppAt, CppGoes
<1>2. cpp' \in CppProcess /\ cpp'.pc = "done"
  BY <1>1, ChanTypes DEF CppProcess, CppPc, Struct
<1>3. sync.cpp2pyFull = 0
  BY <1>1, ChanTypes, CountsNamed
     DEF ChanInv, Tokens, Turns, Calm, Busy, One, CppHolds, PyHolds
<1>4. SyncIs(sync', sync.cpp2pyEmpty, 1,
                    sync.py2cppEmpty, sync.py2cppFull, sync.isFinished)
  BY <1>3, ChanTypes, CppSendEndEffect DEF FinishEnd
<1>5. Tokens'
  BY <1>1, <1>2, <1>4, <1>3, ChanTypes, CountsNamed
     DEF ChanInv, Tokens, One, CppHolds, PyHolds, SyncIs
<1>6. Turns'
  BY <1>1, <1>2, <1>4, <1>3, ChanTypes, CountsNamed
     DEF ChanInv, Turns, Calm, Busy, Tokens, One, CppHolds, PyHolds, SyncIs
<1>7. Copies'
  BY <1>1, <1>2, <1>4, <1>3, ChanTypes, CountsNamed
     DEF ChanInv, Copies, Turns, Calm, Busy, SyncIs
<1> QED
  BY <1>1, <1>2, <1>4, <1>3, <1>5, <1>6, <1>7, ChanTypes, NextInv DEF SyncIs

\* The agent's steps.  Its wait takes the message over from the simulator.
LEMMA ReceiveInv ==
    ASSUME ChanInv, Receive
    PROVE  ChanInv'
<1>1. /\ py.pc = "recvBegin"
      /\ py' = [py EXCEPT !.pc = "check"]
      /\ UNCHANGED <<cpp2py, py2cpp, cpp>>
  BY DEF Receive, PyAt, PyGoes
<1>2. py' \in PyProcess /\ py'.pc = "check"
  BY <1>1, ChanTypes DEF PyProcess, PyPc, Struct
<1>4. /\ sync.cpp2pyFull > 0
      /\ SyncIs(sync', sync.cpp2pyEmpty, sync.cpp2pyFull - 1,
                    sync.py2cppEmpty, sync.py2cppFull, sync.isFinished)
  BY ChanTypes, PyRecvBeginEffect DEF Receive
<1>5. Tokens'
  BY <1>1, <1>2, <1>4, ChanTypes, CountsNamed
     DEF ChanInv, Tokens, One, CppHolds, PyHolds, SyncIs
<1>6. Turns'
  BY <1>1, <1>2, <1>4, ChanTypes, CountsNamed
     DEF ChanInv, Turns, Calm, Busy, Tokens, One, CppHolds, PyHolds, SyncIs
<1>7. Copies'
  BY <1>1, <1>2, <1>4, ChanTypes, CountsNamed
     DEF ChanInv, Copies, Turns, Calm, Busy, SyncIs
<1> QED
  BY <1>1, <1>2, <1>4, <1>5, <1>6, <1>7, ChanTypes, NextInv DEF SyncIs

\* The copy is complete, so the action is the policy's for the question.
LEMMA DecideInv ==
    ASSUME ChanInv, Decide
    PROVE  ChanInv'
<1>1. /\ py.pc = "read" /\ py.left = {}
      /\ py' = [py EXCEPT !.pc = "sendBegin", !.act = Policy[py.obs]]
      /\ UNCHANGED <<cpp2py, py2cpp, cpp>>
  BY DEF Decide, PyAt
<1>2. py' \in PyProcess /\ py'.pc = "sendBegin" /\ py'.act = Policy[py.obs]
  BY <1>1, ChanTypes, PolicyType DEF PyProcess, PyPc
<1>3. sync.cpp2pyEmpty = 0
  BY <1>1, ChanTypes, CountsNamed
     DEF ChanInv, Tokens, Turns, Calm, Busy, One, CppHolds, PyHolds
<1>4. SyncIs(sync', 1, sync.cpp2pyFull,
                    sync.py2cppEmpty, sync.py2cppFull, sync.isFinished)
  BY <1>3, ChanTypes, PyRecvEndEffect DEF Decide
<1>8. py.obs = cpp.obs
  BY <1>1, ChanTypes, SameStruct DEF ChanInv, Copies, CppProcess, PyProcess
<1>5. Tokens'
  BY <1>1, <1>2, <1>4, <1>3, <1>8, ChanTypes, CountsNamed
     DEF ChanInv, Tokens, One, CppHolds, PyHolds, SyncIs
<1>6. Turns'
  BY <1>1, <1>2, <1>4, <1>3, <1>8, ChanTypes, CountsNamed
     DEF ChanInv, Turns, Calm, Busy, Tokens, One, CppHolds, PyHolds, SyncIs
<1>7. Copies'
  BY <1>1, <1>2, <1>4, <1>3, <1>8, ChanTypes, CountsNamed
     DEF ChanInv, Copies, Turns, Calm, Busy, SyncIs
<1> QED
  BY <1>1, <1>2, <1>4, <1>3, <1>8, <1>5, <1>6, <1>7, ChanTypes, NextInv
     DEF SyncIs

\* The slot of py2cpp is free while the simulator waits.
LEMMA ReplyInv ==
    ASSUME ChanInv, Reply
    PROVE  ChanInv'
<1>1. /\ py.pc = "sendBegin"
      /\ py' = [py EXCEPT !.pc = "write", !.left = Fields]
      /\ UNCHANGED <<cpp2py, py2cpp, cpp>>
  BY DEF Reply, PyAt, PyCopies
<1>2. py' \in PyProcess /\ py'.pc = "write" /\ py'.left = Fields /\ py'.act = py.act
  BY <1>1, ChanTypes DEF PyProcess, PyPc, Struct
<1>4. /\ sync.py2cppEmpty > 0
      /\ SyncIs(sync', sync.cpp2pyEmpty, sync.cpp2pyFull,
                    sync.py2cppEmpty - 1, sync.py2cppFull, sync.isFinished)
  BY ChanTypes, PySendBeginEffect DEF Reply
<1>5. Tokens'
  BY <1>1, <1>2, <1>4, ChanTypes, CountsNamed
     DEF ChanInv, Tokens, One, CppHolds, PyHolds, SyncIs
<1>6. Turns'
  BY <1>1, <1>2, <1>4, ChanTypes, CountsNamed
     DEF ChanInv, Turns, Calm, Busy, Tokens, One, CppHolds, PyHolds, SyncIs
<1>7. Copies'
  BY <1>1, <1>2, <1>4, ChanTypes, CountsNamed
     DEF ChanInv, Copies, Turns, Calm, Busy, SyncIs
<1> QED
  BY <1>1, <1>2, <1>4, <1>5, <1>6, <1>7, ChanTypes, NextInv DEF SyncIs

\* py2cpp holds the policy's action when it is posted.
LEMMA RepliedInv ==
    ASSUME ChanInv, Replied
    PROVE  ChanInv'
<1>1. /\ py.pc = "write" /\ py.left = {}
      /\ py' = [py EXCEPT !.pc = "recvBegin"]
      /\ UNCHANGED <<cpp2py, py2cpp, cpp>>
  BY DEF Replied, PyAt, PyGoes
<1>2. py' \in PyProcess /\ py'.pc = "recvBegin" /\ py'.act = py.act
  BY <1>1, ChanTypes DEF PyProcess, PyPc, Struct
<1>3. sync.py2cppFull = 0
  BY <1>1, ChanTypes, CountsNamed
     DEF ChanInv, Tokens, Turns, Calm, Busy, One, CppHolds, PyHolds
<1>4. SyncIs(sync', sync.cpp2pyEmpty, sync.cpp2pyFull,
                    sync.py2cppEmpty, 1, sync.isFinished)
  BY <1>3, ChanTypes, PySendEndEffect DEF Replied
<1>8. py2cpp = Policy[cpp.obs]
  BY <1>1, ChanTypes, SameStruct DEF ChanInv, Copies, PyProcess
<1>5. Tokens'
  BY <1>1, <1>2, <1>4, <1>3, <1>8, ChanTypes, CountsNamed
     DEF ChanInv, Tokens, One, CppHolds, PyHolds, SyncIs
<1>6. Turns'
  BY <1>1, <1>2, <1>4, <1>3, <1>8, ChanTypes, CountsNamed
     DEF ChanInv, Turns, Calm, Busy, Tokens, One, CppHolds, PyHolds, SyncIs
<1>7. Copies'
  BY <1>1, <1>2, <1>4, <1>3, <1>8, ChanTypes, CountsNamed
     DEF ChanInv, Copies, Turns, Calm, Busy, SyncIs
<1> QED
  BY <1>1, <1>2, <1>4, <1>3, <1>8, <1>5, <1>6, <1>7, ChanTypes, NextInv
     DEF SyncIs

\* One more field of the observation is in cpp2py.
LEMMA WriteObservationInv ==
    ASSUME ChanInv, NEW f \in Fields, WriteObservation(f)
    PROVE  ChanInv'
<1>1. /\ cpp.pc = "write" /\ f \in cpp.left
      /\ cpp2py' = [cpp2py EXCEPT ![f] = cpp.obs[f]]
      /\ cpp' = [cpp EXCEPT !.left = cpp.left \ {f}]
      /\ UNCHANGED <<sync, py2cpp, py>>
  BY DEF WriteObservation, CppAt
<1>2. cpp' \in CppProcess /\ cpp'.pc = "write" /\ cpp'.obs = cpp.obs
      /\ cpp'.left = cpp.left \ {f}
  BY <1>1, ChanTypes DEF CppProcess, CppPc, Struct
<1>3. cpp2py' \in Struct /\ cpp2py'[f] = cpp.obs[f]
      /\ \A g \in Fields \ {f} : cpp2py'[g] = cpp2py[g]
  BY <1>1, ChanTypes DEF CppProcess, Struct
<1>5. Tokens'
  BY <1>1, <1>2, ChanTypes, CountsNamed
     DEF ChanInv, Tokens, One, CppHolds, PyHolds
<1>6. Turns'
  BY <1>1, <1>2, ChanTypes, CountsNamed DEF ChanInv, Turns, Calm, Busy
<1>7. Copies'
  BY <1>1, <1>2, <1>3, ChanTypes, CountsNamed
     DEF ChanInv, Copies, Turns, Calm, Busy
<1> QED
  BY <1>1, <1>2, <1>3, <1>5, <1>6, <1>7, ChanTypes, NextInv

\* One more field of the action is copied out of py2cpp.
LEMMA ReadActionInv ==
    ASSUME ChanInv, NEW f \in Fields, ReadAction(f)
    PROVE  ChanInv'
<1> DEFINE act == [cpp.act EXCEPT ![f] = py2cpp[f]]
<1>1. /\ cpp.pc = "read" /\ f \in cpp.left
      /\ cpp' = [cpp EXCEPT !.act = act, !.left = cpp.left \ {f}]
      /\ UNCHANGED <<sync, cpp2py, py2cpp, py>>
  BY DEF ReadAction, CppAt
<1>3. act \in Struct /\ act[f] = py2cpp[f]
      /\ \A g \in Fields \ {f} : act[g] = cpp.act[g]
  BY ChanTypes DEF CppProcess, Struct
<1> HIDE DEF act
<1>2. cpp' \in CppProcess /\ cpp'.pc = "read" /\ cpp'.obs = cpp.obs
      /\ cpp'.act = act /\ cpp'.left = cpp.left \ {f}
  BY <1>1, <1>3, ChanTypes DEF CppProcess, CppPc
<1>5. Tokens'
  BY <1>1, <1>2, ChanTypes, CountsNamed
     DEF ChanInv, Tokens, One, CppHolds, PyHolds
<1>6. Turns'
  BY <1>1, <1>2, ChanTypes, CountsNamed DEF ChanInv, Turns, Calm, Busy
<1>7. Copies'
  BY <1>1, <1>2, <1>3, ChanTypes, CountsNamed
     DEF ChanInv, Copies, Turns, Calm, Busy
<1> QED
  BY <1>1, <1>2, <1>5, <1>6, <1>7, ChanTypes, NextInv

\* The flag goes up while the simulator holds cpp2py.
LEMMA FinishFlagInv ==
    ASSUME ChanInv, FinishFlag
    PROVE  ChanInv'
<1>1. /\ cpp.pc = "finishFlag"
      /\ sync' = [sync EXCEPT !.isFinished = TRUE]
      /\ cpp' = [cpp EXCEPT !.pc = "finishEnd"]
      /\ UNCHANGED <<cpp2py, py2cpp, py>>
  BY DEF FinishFlag, CppAt, CppGoes
<1>2. cpp' \in CppProcess /\ cpp'.pc = "finishEnd"
  BY <1>1, ChanTypes DEF CppProcess, CppPc
<1>4. SyncIs(sync', sync.cpp2pyEmpty, sync.cpp2pyFull,
                    sync.py2cppEmpty, sync.py2cppFull, TRUE)
  BY <1>1, ChanTypes DEF Syncs, SyncIs
<1>5. Tokens'
  BY <1>1, <1>2, <1>4, ChanTypes, CountsNamed
     DEF ChanInv, Tokens, One, CppHolds, PyHolds, SyncIs
<1>6. Turns'
  BY <1>1, <1>2, <1>4, ChanTypes, CountsNamed
     DEF ChanInv, Turns, Calm, Busy, SyncIs
<1>7. Copies'
  BY <1>1, <1>2, <1>4, ChanTypes, CountsNamed
     DEF ChanInv, Copies, Turns, Calm, Busy, SyncIs
<1> QED
  BY <1>1, <1>2, <1>4, <1>5, <1>6, <1>7, ChanTypes, NextInv DEF SyncIs

\* The agent leaves its loop only when the end has been announced.
LEMMA CheckInv ==
    ASSUME ChanInv, Check
    PROVE  ChanInv'
<1>1. py.pc = "check" /\ UNCHANGED <<sync, cpp2py, py2cpp, cpp>>
  BY DEF Check, PyAt
<1>2. CASE sync.isFinished /\ py' = [py EXCEPT !.pc = "done"]
  <2>1. py' \in PyProcess /\ py'.pc = "done"
    BY <1>2, ChanTypes DEF PyProcess, PyPc
  <2>2. cpp.pc = "done"
    BY <1>1, <1>2 DEF ChanInv, Turns, Calm
  <2>3. Tokens'
    BY <1>1, <2>1, ChanTypes, CountsNamed
       DEF ChanInv, Tokens, One, CppHolds, PyHolds
  <2>4. Turns'
    BY <1>1, <2>1, <2>2, ChanTypes, CountsNamed DEF ChanInv, Turns, Calm, Busy
  <2>5. Copies'
    BY <1>1, <2>1, <2>2, ChanTypes, CountsNamed DEF ChanInv, Copies
  <2> QED
    BY <1>1, <2>1, <2>3, <2>4, <2>5, ChanTypes, NextInv
<1>3. CASE ~sync.isFinished /\ py' = [py EXCEPT !.pc = "read", !.left = Fields]
  <2>1. py' \in PyProcess /\ py'.pc = "read" /\ py'.left = Fields
    BY <1>3, ChanTypes DEF PyProcess, PyPc
  <2>2. cpp.pc = "recvBegin"
    BY <1>1, <1>3 DEF ChanInv, Turns, Calm
  <2>3. Tokens'
    BY <1>1, <2>1, ChanTypes, CountsNamed
       DEF ChanInv, Tokens, One, CppHolds, PyHolds
  <2>4. Turns'
    BY <1>1, <2>1, <2>2, ChanTypes, CountsNamed DEF ChanInv, Turns, Calm, Busy
  <2>5. Copies'
    BY <1>1, <2>1, <2>2, ChanTypes, CountsNamed
       DEF ChanInv, Copies, Turns, Busy
  <2> QED
    BY <1>1, <2>1, <2>3, <2>4, <2>5, ChanTypes, NextInv
<1> QED
  BY <1>2, <1>3 DEF Check, PyGoes, PyCopies

\* One more field of the observation is copied out of cpp2py.
LEMMA ReadObservationInv ==
    ASSUME ChanInv, NEW f \in Fields, ReadObservation(f)
    PROVE  ChanInv'
<1> DEFINE obs == [py.obs EXCEPT ![f] = cpp2py[f]]
<1>1. /\ py.pc = "read" /\ f \in py.left
      /\ py' = [py EXCEPT !.obs = obs, !.left = py.left \ {f}]
      /\ UNCHANGED <<sync, cpp2py, py2cpp, cpp>>
  BY DEF ReadObservation, PyAt
<1>3. obs \in Struct /\ obs[f] = cpp2py[f]
      /\ \A g \in Fields \ {f} : obs[g] = py.obs[g]
  BY ChanTypes DEF PyProcess, Struct
<1> HIDE DEF obs
<1>2. py' \in PyProcess /\ py'.pc = "read" /\ py'.obs = obs
      /\ py'.left = py.left \ {f}
  BY <1>1, <1>3, ChanTypes DEF PyProcess, PyPc
<1>4. cpp.pc = "recvBegin"
  BY <1>1 DEF ChanInv, Turns, Calm, Busy
<1>5. Tokens'
  BY <1>1, <1>2, ChanTypes, CountsNamed
     DEF ChanInv, Tokens, One, CppHolds, PyHolds
<1>6. Turns'
  BY <1>1, <1>2, ChanTypes, CountsNamed DEF ChanInv, Turns, Calm, Busy
<1>7. Copies'
  BY <1>1, <1>2, <1>3, <1>4, ChanTypes, CountsNamed
     DEF ChanInv, Copies, Turns, Busy
<1> QED
  BY <1>1, <1>2, <1>5, <1>6, <1>7, ChanTypes, NextInv

\* One more field of the action is in py2cpp.
LEMMA WriteActionInv ==
    ASSUME ChanInv, NEW f \in Fields, WriteAction(f)
    PROVE  ChanInv'
<1>1. /\ py.pc = "write" /\ f \in py.left
      /\ py2cpp' = [py2cpp EXCEPT ![f] = py.act[f]]
      /\ py' = [py EXCEPT !.left = py.left \ {f}]
      /\ UNCHANGED <<sync, cpp2py, cpp>>
  BY DEF WriteAction, PyAt
<1>2. py' \in PyProcess /\ py'.pc = "write" /\ py'.act = py.act
      /\ py'.left = py.left \ {f}
  BY <1>1, ChanTypes DEF PyProcess, PyPc
<1>3. py2cpp' \in Struct /\ py2cpp'[f] = py.act[f]
      /\ \A g \in Fields \ {f} : py2cpp'[g] = py2cpp[g]
  BY <1>1, ChanTypes DEF PyProcess, Struct
<1>4. cpp.pc = "recvBegin" /\ sync.py2cppFull = 0
  BY <1>1 DEF ChanInv, Turns, Calm, Busy
<1>5. Tokens'
  BY <1>1, <1>2, ChanTypes, CountsNamed
     DEF ChanInv, Tokens, One, CppHolds, PyHolds
<1>6. Turns'
  BY <1>1, <1>2, ChanTypes, CountsNamed DEF ChanInv, Turns, Calm, Busy
<1>7. Copies'
  BY <1>1, <1>2, <1>3, <1>4, ChanTypes, CountsNamed
     DEF ChanInv, Copies, Turns, Busy
<1> QED
  BY <1>1, <1>2, <1>3, <1>5, <1>6, <1>7, ChanTypes, NextInv

\* No conjunct but the types mentions whether the agent lives.
LEMMA DiesInv ==
    ASSUME ChanInv, Dies
    PROVE  ChanInv'
<1>1. /\ py' = [py EXCEPT !.alive = FALSE]
      /\ UNCHANGED <<sync, cpp2py, py2cpp, cpp>>
  BY DEF Dies
<1>2. py' \in PyProcess /\ py'.pc = py.pc /\ py'.obs = py.obs
      /\ py'.act = py.act /\ py'.left = py.left
  BY <1>1, ChanTypes DEF PyProcess, PyPc
<1>5. Tokens'
  BY <1>1, <1>2 DEF ChanInv, Tokens, One, CppHolds, PyHolds
<1>6. Turns'
  BY <1>1, <1>2 DEF ChanInv, Turns, Calm, Busy
<1>7. Copies'
  BY <1>1, <1>2 DEF ChanInv, Copies
<1> QED
  BY <1>1, <1>2, <1>5, <1>6, <1>7, ChanTypes, NextInv

\* A step that changes nothing.
LEMMA StutterInv ==
    ASSUME ChanInv, UNCHANGED chanVars
    PROVE  ChanInv'
<1>1. UNCHANGED <<sync, cpp2py, py2cpp, cpp, py>>
  BY DEF chanVars
<1>2. Tokens' /\ Turns' /\ Copies'
  BY <1>1
     DEF ChanInv, Tokens, Turns, Calm, Busy, Copies, One, CppHolds, PyHolds
<1> QED
  BY <1>1, <1>2, ChanTypes, NextInv

\* The new semaphores, no message, and both processes at their start.
LEMMA InitInv == ChanInit => ChanInv
<1> SUFFICES ASSUME ChanInit
             PROVE  ChanInv
  OBVIOUS
<1>1. PICK x \in Struct :
          /\ sync = NewSync /\ cpp2py = x /\ py2cpp = x
          /\ cpp = [pc |-> "idle", obs |-> x, act |-> x, got |-> Policy[x],
                    left |-> {}]
          /\ py = [pc |-> "recvBegin", alive |-> TRUE, obs |-> x, act |-> x,
                   left |-> {}]
  BY DEF ChanInit
<1>2. SyncIs(sync, 1, 0, 1, 0, FALSE)
  BY <1>1 DEF SyncIs, NewSync, Syncs, Counts
<1>3. Policy[x] \in Struct
  BY PolicyAssumption
<1>4. cpp \in CppProcess /\ py \in PyProcess
  BY <1>1, <1>3 DEF CppProcess, CppPc, PyProcess, PyPc
<1>5. \A s \in Semaphores : sync[s] <= 1
  BY <1>2 DEF SyncIs, Semaphores
<1>6. ChanTypeOK
  BY <1>1, <1>2, <1>4, <1>5 DEF ChanTypeOK, SyncIs
<1>7. Tokens
  BY <1>1, <1>2 DEF SyncIs, Tokens, One, CppHolds, PyHolds
<1>8. Turns
  BY <1>1, <1>2 DEF SyncIs, Turns, Calm
<1>9. Copies
  BY <1>1, <1>2 DEF SyncIs, Copies
<1> QED
  BY <1>6, <1>7, <1>8, <1>9 DEF ChanInv

\* Every step keeps ChanInv.
LEMMA StepInv == ChanInv /\ [ChanNext]_chanVars => ChanInv'
<1> SUFFICES ASSUME ChanInv, [ChanNext]_chanVars
             PROVE  ChanInv'
  OBVIOUS
<1>1. CASE CppNext
  BY <1>1, GetActionInv, SendBeginInv, WriteObservationInv, SendEndInv,
     RecvBeginInv, ReadActionInv, RecvEndInv, NotifySimulationEndInv,
     FinishBeginInv, FinishFlagInv, FinishEndInv DEF CppNext
<1>2. CASE PyNext
  BY <1>2, ReceiveInv, CheckInv, ReadObservationInv, DecideInv, ReplyInv,
     WriteActionInv, RepliedInv DEF PyNext
<1>3. CASE Dies
  BY <1>3, DiesInv
<1>4. CASE UNCHANGED chanVars
  BY <1>4, StutterInv
<1> QED
  BY <1>1, <1>2, <1>3, <1>4 DEF ChanNext

\* Whatever the struct, the values and the agent: every struct is free, full or
\* in one process's hands, the two take turns, and what is copied is what was
\* meant.
THEOREM ChanInvariant == ChanSpec => []ChanInv
<1>1. ChanInit => ChanInv
  BY InitInv
<1>2. ChanInv /\ [ChanNext]_chanVars => ChanInv'
  BY StepInv
<1> QED
  BY <1>1, <1>2, PTL DEF ChanSpec

\* The types, and that no semaphore counts more than one.
THEOREM ChanTypeCorrect == ChanSpec => []ChanTypeOK
<1>1. ChanInv => ChanTypeOK
  BY DEF ChanInv
<1> QED
  BY <1>1, ChanInvariant, PTL

\* The two processes are never inside the same struct: the C++ begin/end calls
\* and the Python ones exclude each other.
THEOREM Exclusion == ChanSpec => []NoTornCopy
<1>1. ChanInv => NoTornCopy
  BY DEF ChanInv, Turns, Calm, Busy, NoTornCopy
<1> QED
  BY <1>1, ChanInvariant, PTL

-----------------------------------------------------------------------------
(* The channel implements Exchange.                                        *)

\* The initial states.
LEMMA InitMaps == ChanInit => Abstract!XInit
<1> SUFFICES ASSUME ChanInit
             PROVE  Abstract!XInit
  OBVIOUS
<1>1. cpp.pc = "idle" /\ cpp.obs \in Struct /\ cpp.got = Policy[cpp.obs]
  BY DEF ChanInit
<1> QED
  BY <1>1 DEF Abstract!XInit, phase

\* A step that changes neither the question, nor the action, nor the phase.
LEMMA Stutters ==
    ASSUME cpp'.obs = cpp.obs, cpp'.got = cpp.got, phase' = phase
    PROVE  UNCHANGED Abstract!xvars
BY DEF Abstract!xvars

\* GetAction asks.
LEMMA AskMaps ==
    ASSUME ChanInv, NEW o \in Struct, GetAction(o)
    PROVE  Abstract!Ask
<1>1. cpp.pc = "idle" /\ cpp' = [cpp EXCEPT !.pc = "sendBegin", !.obs = o]
      /\ sync' = sync
  BY DEF GetAction, CppAt
<1>2. cpp'.pc = "sendBegin" /\ cpp'.obs = o /\ cpp'.got = cpp.got
  BY <1>1, ChanTypes DEF CppProcess
<1>3. sync.py2cppFull = 0
  BY <1>1 DEF ChanInv, Turns, Calm
<1> QED
  BY <1>1, <1>2, <1>3 DEF Abstract!Ask, phase

\* The agent's post is the answer.
LEMMA AnswerMaps ==
    ASSUME ChanInv, Replied
    PROVE  Abstract!Answer
<1>1. py.pc = "write" /\ cpp' = cpp
  BY DEF Replied, PyAt
<1>2. cpp.pc = "recvBegin" /\ sync.py2cppFull = 0
  BY <1>1 DEF ChanInv, Turns, Calm, Busy
<1>3. sync'.py2cppFull = 1
  BY <1>2, ChanTypes, PySendEndEffect DEF Replied, SyncIs
<1> QED
  BY <1>1, <1>2, <1>3 DEF Abstract!Answer, phase

\* GetAction returns the policy's action for its own observation.
LEMMA ReturnMaps ==
    ASSUME ChanInv, RecvEnd
    PROVE  Abstract!Return
<1>1. cpp.pc = "read" /\ cpp.left = {}
      /\ cpp' = [cpp EXCEPT !.pc = "idle", !.got = cpp.act]
  BY DEF RecvEnd, CppAt
<1>2. cpp'.pc = "idle" /\ cpp'.obs = cpp.obs /\ cpp'.got = cpp.act
  BY <1>1, ChanTypes DEF CppProcess
<1>3. cpp.act = py2cpp
  BY <1>1, ChanTypes, SameStruct DEF ChanInv, Copies, CppProcess
<1>4. py2cpp = Policy[cpp.obs]
  BY <1>1 DEF ChanInv, Copies
<1> QED
  BY <1>1, <1>2, <1>3, <1>4 DEF Abstract!Return, phase

\* The post after the flag ends the exchange.
LEMMA FinishMaps ==
    ASSUME ChanInv, FinishEnd
    PROVE  Abstract!Finish
<1>1. cpp.pc = "finishEnd" /\ cpp' = [cpp EXCEPT !.pc = "done"]
  BY DEF FinishEnd, CppAt, CppGoes
<1>2. cpp'.pc = "done" /\ cpp'.obs = cpp.obs /\ cpp'.got = cpp.got
  BY <1>1, ChanTypes DEF CppProcess
<1> QED
  BY <1>1, <1>2 DEF Abstract!Finish, phase

\* The simulator's other steps, by their program counters.
LEMMA CppStutters ==
    ASSUME ChanInv,
           \/ SendBegin \/ SendEnd \/ RecvBegin \/ NotifySimulationEnd
           \/ FinishBegin \/ FinishFlag
           \/ \E f \in Fields : WriteObservation(f) \/ ReadAction(f)
    PROVE  UNCHANGED Abstract!xvars
<1> USE ChanTypes
<1>1. CASE SendBegin
  <2>1. cpp.pc = "sendBegin" /\ cpp' = [cpp EXCEPT !.pc = "write", !.left = Fields]
    BY <1>1 DEF SendBegin, CppAt, CppCopies
  <2>2. cpp'.pc = "write" /\ cpp'.obs = cpp.obs /\ cpp'.got = cpp.got
    BY <2>1 DEF CppProcess
  <2>3. sync'.py2cppFull = sync.py2cppFull
    BY <1>1, CppSendBeginEffect DEF SendBegin, SyncIs
  <2> QED
    BY <2>1, <2>2, <2>3, Stutters DEF phase
<1>2. CASE SendEnd
  <2>1. cpp.pc = "write" /\ cpp' = [cpp EXCEPT !.pc = "recvBegin"]
    BY <1>2 DEF SendEnd, CppAt, CppGoes
  <2>2. cpp'.pc = "recvBegin" /\ cpp'.obs = cpp.obs /\ cpp'.got = cpp.got
    BY <2>1 DEF CppProcess
  <2>3. sync.cpp2pyFull = 0
    BY <2>1 DEF ChanInv, Turns, Calm
  <2>4. sync'.py2cppFull = sync.py2cppFull
    BY <1>2, <2>3, CppSendEndEffect DEF SendEnd, SyncIs
  <2> QED
    BY <2>1, <2>2, <2>4, Stutters DEF phase
<1>3. CASE RecvBegin
  <2>1. cpp.pc = "recvBegin" /\ cpp' = [cpp EXCEPT !.pc = "read", !.left = Fields]
    BY <1>3 DEF RecvBegin, CppAt, CppCopies
  <2>2. cpp'.pc = "read" /\ cpp'.obs = cpp.obs /\ cpp'.got = cpp.got
    BY <2>1 DEF CppProcess
  <2>3. sync.py2cppFull > 0
    BY <1>3, CppRecvBeginEffect DEF RecvBegin
  <2> QED
    BY <2>1, <2>2, <2>3, Stutters DEF phase
<1>4. CASE NotifySimulationEnd
  <2>1. cpp.pc = "idle" /\ cpp' = [cpp EXCEPT !.pc = "finishBegin"]
    BY <1>4 DEF NotifySimulationEnd, CppAt, CppGoes
  <2>2. cpp'.pc = "finishBegin" /\ cpp'.obs = cpp.obs /\ cpp'.got = cpp.got
    BY <2>1 DEF CppProcess
  <2> QED
    BY <2>1, <2>2, Stutters DEF phase
<1>5. CASE FinishBegin
  <2>1. cpp.pc = "finishBegin" /\ cpp' = [cpp EXCEPT !.pc = "finishFlag"]
    BY <1>5 DEF FinishBegin, CppAt, CppGoes
  <2>2. cpp'.pc = "finishFlag" /\ cpp'.obs = cpp.obs /\ cpp'.got = cpp.got
    BY <2>1 DEF CppProcess
  <2> QED
    BY <2>1, <2>2, Stutters DEF phase
<1>6. CASE FinishFlag
  <2>1. cpp.pc = "finishFlag" /\ cpp' = [cpp EXCEPT !.pc = "finishEnd"]
    BY <1>6 DEF FinishFlag, CppAt, CppGoes
  <2>2. cpp'.pc = "finishEnd" /\ cpp'.obs = cpp.obs /\ cpp'.got = cpp.got
    BY <2>1 DEF CppProcess
  <2> QED
    BY <2>1, <2>2, Stutters DEF phase
<1>7. ASSUME NEW f \in Fields, WriteObservation(f)
      PROVE  UNCHANGED Abstract!xvars
  <2>1. /\ cpp' = [cpp EXCEPT !.left = cpp.left \ {f}]
        /\ sync' = sync
    BY <1>7 DEF WriteObservation
  <2>2. cpp'.pc = cpp.pc /\ cpp'.obs = cpp.obs /\ cpp'.got = cpp.got
    BY <2>1 DEF CppProcess
  <2> QED
    BY <2>1, <2>2, Stutters DEF phase
<1>8. ASSUME NEW f \in Fields, ReadAction(f)
      PROVE  UNCHANGED Abstract!xvars
  <2>1. /\ cpp' = [cpp EXCEPT !.act = [cpp.act EXCEPT ![f] = py2cpp[f]],
                              !.left = cpp.left \ {f}]
        /\ sync' = sync
    BY <1>8 DEF ReadAction
  <2>2. cpp'.pc = cpp.pc /\ cpp'.obs = cpp.obs /\ cpp'.got = cpp.got
    BY <2>1 DEF CppProcess
  <2> QED
    BY <2>1, <2>2, Stutters DEF phase
<1> QED
  BY <1>1, <1>2, <1>3, <1>4, <1>5, <1>6, <1>7, <1>8

\* The agent's other steps leave the simulator and the answer slot alone.
LEMMA PyStutters ==
    ASSUME ChanInv,
           \/ Receive \/ Check \/ Decide \/ Reply \/ Dies
           \/ \E f \in Fields : ReadObservation(f) \/ WriteAction(f)
    PROVE  UNCHANGED Abstract!xvars
<1>1. cpp' = cpp
  BY DEF Receive, Check, Decide, Reply, Dies, ReadObservation, WriteAction
<1>2. sync'.py2cppFull = sync.py2cppFull
  <2>1. CASE Receive
    BY <2>1, ChanTypes, PyRecvBeginEffect DEF Receive, SyncIs
  <2>2. CASE Decide
    <3>1. py.pc = "read"
      BY <2>2 DEF Decide, PyAt
    <3>2. sync.cpp2pyEmpty = 0
      BY <3>1, ChanTypes, CountsNamed
         DEF ChanInv, Tokens, Turns, Calm, Busy, One,
         CppHolds, PyHolds
    <3> QED
      BY <2>2, <3>2, ChanTypes, PyRecvEndEffect DEF Decide, SyncIs
  <2>3. CASE Reply
    BY <2>3, ChanTypes, PySendBeginEffect DEF Reply, SyncIs
  <2>4. CASE ~(Receive \/ Decide \/ Reply)
    BY <2>4 DEF Check, Dies, ReadObservation, WriteAction
  <2> QED
    BY <2>1, <2>2, <2>3, <2>4
<1> QED
  BY <1>1, <1>2, Stutters DEF phase

\* GetAction returns the agent's action for the observation it was called with,
\* for any struct, any values and any policy.
THEOREM ChannelImplements == ChanSpec => Implements
<1>1. ChanInit => Abstract!XInit
  BY InitMaps
<1>2. ChanInv /\ [ChanNext]_chanVars => [Abstract!XNext]_(Abstract!xvars)
  <2> SUFFICES ASSUME ChanInv, [ChanNext]_chanVars
               PROVE  Abstract!XNext \/ UNCHANGED Abstract!xvars
    OBVIOUS
  <2>1. CASE CppNext
    BY <2>1, AskMaps, ReturnMaps, FinishMaps, CppStutters
       DEF CppNext, Abstract!XNext
  <2>2. CASE PyNext
    BY <2>2, AnswerMaps, PyStutters DEF PyNext, Abstract!XNext
  <2>3. CASE Dies
    BY <2>3, PyStutters
  <2>4. CASE UNCHANGED chanVars
    BY <2>4, Stutters DEF chanVars, phase
  <2> QED
    BY <2>1, <2>2, <2>3, <2>4 DEF ChanNext
<1> QED
  BY <1>1, <1>2, ChanInvariant, PTL DEF ChanSpec, Implements, Abstract!XSpec
=============================================================================
