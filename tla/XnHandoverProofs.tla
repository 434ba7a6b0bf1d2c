-------------------------- MODULE XnHandoverProofs --------------------------
(***************************************************************************)
(* Handovers over Xn, for any gNBs, UEs and PDCP states, any number of     *)
(* starts, losses, cancels and changes: the records stay well formed, no   *)
(* procedure has two outcomes, and an outcome tells the truth about the    *)
(* context.  The three are inductive only together, and with ChainInv.     *)
(***************************************************************************)
EXTENDS XnHandover, TLAPS

XnInv == XnTypeOK /\ ChainInv /\ ContextMoved /\ OneOutcome

-----------------------------------------------------------------------------
(* Messages and records.                                                   *)

\* A message is what its fields say.
LEMMA MsgFields ==
    ASSUME NEW k, NEW to, NEW g, NEW t, NEW u, NEW s, NEW n
    PROVE  LET m == Msg(k, to, g, t, u, s, n) IN
           /\ m.kind = k /\ m.to = to /\ m.source = g /\ m.target = t
           /\ m.ue = u /\ m.sn = s /\ m.proc = n
BY DEF Msg

\* A message of gNBs, a UE and a procedure is one the code may send.
LEMMA MsgType ==
    ASSUME NEW k \in Kinds, NEW to \in Gnb, NEW g \in Gnb, NEW t \in Gnb,
           NEW u \in Ue, NEW s \in Sn \cup {0}, NEW n \in Procs
    PROVE  Msg(k, to, g, t, u, s, n) \in Message
BY DEF Msg, Message

\* The kinds of message that Receive handles.
LEMMA KindsType ==
    /\ "HandoverRequest" \in Kinds /\ "HandoverRequestAcknowledge" \in Kinds
    /\ "HandoverPreparationFailure" \in Kinds /\ "SnStatusTransfer" \in Kinds
    /\ "UeContextRelease" \in Kinds /\ "HandoverCancel" \in Kinds
BY DEF Kinds

\* A gNB has at most one record of a UE.
LEMMA OnePending ==
    ASSUME XnTypeOK, NEW g, NEW u, NEW p \in PendingOf(g, u)
    PROVE  PendingOf(g, u) = {p}
BY DEF XnTypeOK, PendingOf

-----------------------------------------------------------------------------
(* Type correctness.                                                       *)

\* Before the first call there is nothing to be wrong.
LEMMA InitType == Init => XnTypeOK
BY XnAssumption DEF Init, XnTypeOK, Procs

\* StartHandover replaces the record of its UE by a well-formed one.
LEMMA StartType ==
    ASSUME XnTypeOK, NEW g \in Gnb, NEW t \in Gnb, NEW u \in Ue, NEW s \in Sn,
           StartHandover(g, t, u, s)
    PROVE  XnTypeOK'
<1> DEFINE new == [gnb |-> g, ue |-> u, target |-> t, sn |-> s, proc |-> starts']
<1>1. starts' \in Procs
  BY XnAssumption DEF XnTypeOK, StartHandover, Procs
<1>2. new \in Pending
  BY <1>1 DEF Pending
<1>3. Msg("HandoverRequest", t, g, t, u, 0, starts') \in Message
  BY <1>1, KindsType, MsgType
<1>4. pending' = (pending \ PendingOf(g, u)) \cup {new}
  BY DEF StartHandover
<1>5. \A p, q \in pending' : p.gnb = q.gnb /\ p.ue = q.ue => p = q
  BY <1>4 DEF XnTypeOK, PendingOf
<1>6. pending' \subseteq Pending /\ net' \subseteq Message
  BY <1>2, <1>3, <1>4 DEF XnTypeOK, StartHandover
<1>7. clean' \subseteq Procs
  BY <1>1 DEF XnTypeOK, StartHandover
<1> QED
  BY <1>1, <1>5, <1>6, <1>7 DEF XnTypeOK, StartHandover

\* What a message that leaves is replaced by, and the records it takes away,
\* keep the types.
LEMMA AnswerType ==
    ASSUME XnTypeOK, NEW m \in net, NEW reply, reply \subseteq Message,
           Answer(m, reply)
    PROVE  net' \subseteq Message
BY DEF XnTypeOK, Answer

\* Whatever message is handled, what it is answered with is well formed.
LEMMA ReceiveType ==
    ASSUME XnTypeOK, NEW m \in net, Receive(m)
    PROVE  XnTypeOK'
<1>0. /\ m \in Message
      /\ m.to \in Gnb /\ m.source \in Gnb /\ m.target \in Gnb /\ m.ue \in Ue
      /\ m.sn \in Sn \cup {0} /\ m.proc \in Procs
  BY DEF XnTypeOK, Message
<1>00. UNCHANGED <<admit, regen, starts, lost, cancels, changes>>
  BY DEF Receive
<1>1. CASE ReceiveRequest(m)
  <2> DEFINE kind == IF admit[m.to] /\ regen[m.to]
                     THEN "HandoverRequestAcknowledge"
                     ELSE "HandoverPreparationFailure"
  <2>1. Msg(kind, m.source, m.source, m.to, m.ue, 0, m.proc) \in Message
    BY <1>0, KindsType, MsgType
  <2>2. net' \subseteq Message
    BY <1>1, <2>1, AnswerType DEF ReceiveRequest
  <2> QED
    BY <1>00, <1>1, <2>2 DEF XnTypeOK, ReceiveRequest, history
<1>2. CASE ReceiveAck(m)
  <2> DEFINE reply == {Msg("SnStatusTransfer", m.target, m.to, m.target, m.ue,
                           p.sn, m.proc) : p \in PendingOf(m.to, m.ue)}
  <2>1. ASSUME NEW p \in PendingOf(m.to, m.ue)
        PROVE  Msg("SnStatusTransfer", m.target, m.to, m.target, m.ue, p.sn,
                   m.proc) \in Message
    <3>1. p.sn \in Sn \cup {0}
      BY DEF XnTypeOK, PendingOf, Pending
    <3> QED
      BY <1>0, <3>1, KindsType, MsgType
  <2>2. reply \subseteq Message
    BY <2>1
  <2>3. Answer(m, reply)
    BY <1>2 DEF ReceiveAck
  <2>4. net' \subseteq Message
    BY <2>2, <2>3, AnswerType
  <2> QED
    BY <1>00, <1>2, <2>4 DEF XnTypeOK, ReceiveAck, history
<1>3. CASE ReceiveSn(m)
  <2>1. Msg("UeContextRelease", m.source, m.source, m.to, m.ue, 0, m.proc)
            \in Message
    BY <1>0, KindsType, MsgType
  <2>2. net' \subseteq Message
    BY <1>3, <2>1, AnswerType DEF ReceiveSn
  <2>3. contexts' \subseteq Context
    BY <1>0, <1>3 DEF XnTypeOK, ReceiveSn, Context
  <2> QED
    BY <1>00, <1>3, <2>2, <2>3 DEF XnTypeOK, ReceiveSn
<1>4. ASSUME NEW ok \in BOOLEAN, Finish(m, ok) PROVE XnTypeOK'
  <2>1. net' \subseteq Message
    BY <1>4, AnswerType DEF Finish
  <2>2. outcomes' \subseteq [of : Pending, ok : BOOLEAN]
    BY <1>4 DEF XnTypeOK, Finish, PendingOf
  <2> QED
    BY <1>00, <1>4, <2>1, <2>2 DEF XnTypeOK, Finish
<1>5. CASE ReceiveCancel(m)
  <2>1. net' \subseteq Message
    BY <1>5, AnswerType DEF ReceiveCancel
  <2> QED
    BY <1>00, <1>5, <2>1 DEF XnTypeOK, ReceiveCancel, history
<1> QED
  BY <1>1, <1>2, <1>3, <1>4, <1>5
  DEF Receive, ReceiveRelease, ReceiveFailure

\* Every call, message and loss keeps the types.
LEMMA NextType == XnTypeOK /\ [Next]_vars => XnTypeOK'
<1> SUFFICES ASSUME XnTypeOK, [Next]_vars PROVE XnTypeOK'
  OBVIOUS
<1>1. ASSUME NEW g \in Gnb, NEW u \in Ue, NEW t \in Gnb \ {g}, NEW s \in Sn,
             StartHandover(g, t, u, s)
      PROVE  XnTypeOK'
  BY <1>1, StartType
<1>2. ASSUME NEW g \in Gnb, NEW u \in Ue, SendCancel(g, u) PROVE XnTypeOK'
  <2>1. Msg("HandoverCancel", g, g, g, u, 0, 0) \in Message
    BY KindsType, MsgType, XnAssumption DEF Procs
  <2>2. net' \subseteq Message /\ cancels' \in 0 .. MaxCancels
    BY <1>2, <2>1, XnAssumption DEF XnTypeOK, SendCancel
  <2> QED
    BY <1>2, <2>2 DEF XnTypeOK, SendCancel, history
<1>3. ASSUME NEW g \in Gnb, NEW b \in BOOLEAN, SetAdmitIncoming(g, b)
      PROVE  XnTypeOK'
  BY <1>3, XnAssumption DEF XnTypeOK, SetAdmitIncoming, history
<1>4. ASSUME NEW g \in Gnb, NEW b \in BOOLEAN, SetRegenerative(g, b)
      PROVE  XnTypeOK'
  BY <1>4, XnAssumption DEF XnTypeOK, SetRegenerative, history
<1>5. ASSUME NEW m \in net, Receive(m) PROVE XnTypeOK'
  BY <1>5, ReceiveType
<1>6. ASSUME NEW m \in net, Lose(m) PROVE XnTypeOK'
  BY <1>6, XnAssumption DEF XnTypeOK, Lose, history
<1>7. CASE UNCHANGED vars
  BY <1>7 DEF vars, XnTypeOK
<1> QED
  BY <1>1, <1>2, <1>3, <1>4, <1>5, <1>6, <1>7 DEF Next

\* Whatever is started, sent, lost or overtaken, the records and messages are
\* well formed and a gNB keeps one record of a UE.
THEOREM XnTypeCorrect == Spec => []XnTypeOK
BY InitType, NextType, PTL DEF Spec

-----------------------------------------------------------------------------
(* The chain of messages.                                                  *)

\* At the start no procedure has a message, a record or an outcome.
LEMMA InitChain == Init => XnInv
BY InitType DEF Init, XnInv, ChainInv, OneToken, ContextMoved, OneOutcome, Steps

\* Messages and records may vanish: what is said of them is said of those left.
LEMMA Quiet ==
    ASSUME XnInv, Steps' \subseteq Steps, pending' \subseteq pending,
           UNCHANGED <<starts, clean, contexts, outcomes>>
    PROVE  ChainInv' /\ ContextMoved' /\ OneOutcome'
<1>1. OneToken'
  BY DEF XnInv, ChainInv, OneToken
<1>2. ASSUME NEW p \in pending', p.proc \in clean' PROVE OwnMessages(p)'
  BY <1>2 DEF XnInv, ChainInv, OwnMessages, Moved
<1>3. ChainInv'
  BY <1>1, <1>2 DEF XnInv, ChainInv
<1>4. ContextMoved' /\ OneOutcome'
  BY DEF XnInv, ContextMoved, OneOutcome, Moved
<1> QED
  BY <1>3, <1>4

\* A step of the procedure: m has arrived, r goes on in its place, and the
\* context c may be recorded.
LEMMA Forward ==
    ASSUME XnInv, NEW m \in Steps, NEW r, NEW c,
           r.proc = m.proc, r.source = m.source, r.ue = m.ue,
           r.target = m.target,
           r.to = IF r.kind \in {"HandoverRequest", "SnStatusTransfer"}
                  THEN r.target ELSE r.source,
           c.proc = m.proc,
           Steps' \subseteq (Steps \ {m}) \cup {r},
           contexts \subseteq contexts', contexts' \subseteq contexts \cup {c},
           \A p \in pending : p.proc \in clean /\ p.proc = m.proc =>
               /\ r.kind = "SnStatusTransfer" => r.sn = p.sn
               /\ r.kind = "UeContextRelease" <=> Moved(p) \in contexts',
           UNCHANGED <<starts, pending, clean, outcomes>>
    PROVE  ChainInv' /\ ContextMoved' /\ OneOutcome'
<1>1. m.proc \in 1 .. starts /\ \A n \in Steps : n.proc = m.proc => n = m
  BY DEF XnInv, ChainInv, OneToken
<1>2. OneToken'
  BY <1>1 DEF XnInv, ChainInv, OneToken
<1>3. ASSUME NEW p, p.proc # m.proc
      PROVE  Moved(p) \in contexts' <=> Moved(p) \in contexts
  BY <1>3 DEF Moved
<1>4. ASSUME NEW p \in pending', p.proc \in clean' PROVE OwnMessages(p)'
  <2>1. OwnMessages(p)
    BY <1>4 DEF XnInv, ChainInv
  <2>2. CASE p.proc = m.proc
    <3>1. ASSUME NEW n \in Steps', n.proc = p.proc PROVE n = r
      BY <1>1, <2>2, <3>1
    <3>2. r.source = p.gnb /\ r.ue = p.ue /\ r.target = p.target
      BY <2>1, <2>2 DEF OwnMessages
    <3>3. ASSUME NEW n \in Steps'
          PROVE  n.source = p.gnb /\ n.ue = p.ue <=> n.proc = p.proc
      BY <2>1, <2>2, <3>2 DEF OwnMessages
    <3> QED
      BY <1>4, <2>2, <3>1, <3>2, <3>3 DEF OwnMessages, Moved
  <2>3. CASE p.proc # m.proc
    <3>1. ~(r.source = p.gnb /\ r.ue = p.ue) /\ r.proc # p.proc
      BY <2>1, <2>3 DEF OwnMessages
    <3>2. Moved(p) \in contexts' <=> Moved(p) \in contexts
      BY <1>3, <2>3
    <3> QED
      BY <2>1, <3>1, <3>2 DEF OwnMessages, Moved
  <2> QED
    BY <2>2, <2>3
<1>5. \A o \in outcomes' : o.of.proc \in clean' =>
          \A n \in Steps' : n.proc # o.of.proc
  BY DEF XnInv, ChainInv
<1>6. ChainInv'
  BY <1>1, <1>2, <1>4, <1>5 DEF XnInv, ChainInv
<1>7. ContextMoved'
  <2>1. ASSUME NEW o \in outcomes', o.of.proc \in clean'
        PROVE  o.ok <=> Moved(o.of)' \in contexts'
    <3>1. o.of.proc # m.proc
      BY <2>1 DEF XnInv, ChainInv
    <3> QED
      BY <1>3, <2>1, <3>1 DEF XnInv, ContextMoved, Moved
  <2> QED
    BY <2>1 DEF ContextMoved
<1>8. OneOutcome'
  BY DEF XnInv, OneOutcome
<1> QED
  BY <1>6, <1>7, <1>8

-----------------------------------------------------------------------------
(* The actions.                                                            *)

\* The start of a procedure: its number is new, and if it is clean the only
\* message of its UE is its own request.
LEMMA StartChain ==
    ASSUME XnInv, NEW g \in Gnb, NEW t \in Gnb, NEW u \in Ue, NEW s \in Sn,
           StartHandover(g, t, u, s)
    PROVE  ChainInv' /\ ContextMoved' /\ OneOutcome'
<1> DEFINE new == [gnb |-> g, ue |-> u, target |-> t, sn |-> s, proc |-> starts']
           r == Msg("HandoverRequest", t, g, t, u, 0, starts')
<1>1. /\ starts \in Nat /\ starts' = starts + 1
      /\ starts' \notin 1 .. starts /\ 1 .. starts \subseteq 1 .. starts'
      /\ starts' \in 1 .. starts'
  BY XnAssumption DEF XnInv, XnTypeOK, Procs, StartHandover
<1>2. /\ r.kind = "HandoverRequest" /\ r.to = t /\ r.source = g /\ r.target = t
      /\ r.ue = u /\ r.sn = 0 /\ r.proc = starts'
  BY MsgFields
<1>3. /\ new.gnb = g /\ new.ue = u /\ new.target = t /\ new.proc = starts'
  OBVIOUS
<1>4. Steps' = Steps \cup {r}
  BY <1>2 DEF StartHandover, Steps
<1>5. /\ pending' \subseteq pending \cup {new}
      /\ UNCHANGED <<contexts, outcomes>>
      /\ clean' = clean \cup {starts'} \/ clean' = clean
      /\ starts' \in clean' => UnderWay(g, u) = {}
  <2>1. starts' \notin clean
    BY <1>1 DEF XnInv, ChainInv
  <2> QED
    BY <2>1 DEF StartHandover
<1>6. \A m \in Steps : m.proc \in 1 .. starts
  BY DEF XnInv, ChainInv, OneToken
<1>7. \A p \in pending : p.proc \in 1 .. starts
  BY DEF XnInv, ChainInv
<1>8. \A c \in contexts : c.proc \in 1 .. starts
  BY DEF XnInv, ChainInv
<1>9. \A o \in outcomes : o.of.proc \in 1 .. starts
  BY DEF XnInv, ChainInv
<1> HIDE DEF new, r
<1>10. OneToken'
  BY <1>1, <1>2, <1>4, <1>6 DEF XnInv, ChainInv, OneToken
<1>11. ASSUME NEW p \in pending', p.proc \in clean' PROVE OwnMessages(p)'
  <2>1. CASE p = new
    <3>1. Moved(p) \notin contexts
      BY <1>1, <1>3, <1>8, <2>1 DEF Moved
    <3>2. \A m \in Steps : ~(m.source = g /\ m.ue = u)
      BY <1>3, <1>5, <1>11, <2>1 DEF UnderWay
    <3>3. \A m \in Steps : m.proc # starts'
      BY <1>1, <1>6
    <3> QED
      BY <1>2, <1>3, <1>4, <1>5, <2>1, <3>1, <3>2, <3>3 DEF OwnMessages, Moved
  <2>2. CASE p \in pending /\ p # new
    <3>1. p.proc # starts' /\ p.proc \in clean
      BY <1>1, <1>5, <1>7, <1>11, <2>2
    <3>2. OwnMessages(p)
      BY <2>2, <3>1 DEF XnInv, ChainInv
    <3>3. ~(p.gnb = g /\ p.ue = u)
      <4>1. p \notin PendingOf(g, u)
        BY <1>11, <2>2 DEF StartHandover, new
      <4> QED
        BY <2>2, <4>1 DEF PendingOf
    <3> QED
      BY <1>2, <1>4, <1>5, <3>1, <3>2, <3>3 DEF OwnMessages, Moved
  <2> QED
    BY <1>5, <2>1, <2>2
<1>12. \A p \in pending' : /\ p.proc \in 1 .. starts'
                           /\ \A q \in pending' : q.proc = p.proc => q = p
  BY <1>1, <1>3, <1>5, <1>7 DEF XnInv, ChainInv
<1>13. ASSUME NEW o \in outcomes', o.of.proc \in clean'
       PROVE  \A m \in Steps' : m.proc # o.of.proc
  <2>1. o.of.proc \in clean /\ o.of.proc # starts'
    BY <1>1, <1>5, <1>9, <1>13
  <2> QED
    BY <1>2, <1>4, <1>5, <2>1 DEF XnInv, ChainInv
<1>14. clean' \subseteq 1 .. starts'
  BY <1>1, <1>5 DEF XnInv, ChainInv
<1>15. ChainInv'
  BY <1>1, <1>5, <1>8, <1>9, <1>10, <1>11, <1>12, <1>13, <1>14 DEF ChainInv
<1>16. ContextMoved'
  BY <1>1, <1>5, <1>9 DEF XnInv, ContextMoved, Moved
<1>17. OneOutcome'
  BY <1>1, <1>3, <1>5, <1>9 DEF XnInv, OneOutcome
<1> QED
  BY <1>15, <1>16, <1>17

\* An acknowledgement or a refusal takes the place of the request.
LEMMA RequestChain ==
    ASSUME XnInv, NEW m \in net, ReceiveRequest(m), UNCHANGED starts
    PROVE  ChainInv' /\ ContextMoved' /\ OneOutcome'
<1> DEFINE kind == IF admit[m.to] /\ regen[m.to]
                   THEN "HandoverRequestAcknowledge"
                   ELSE "HandoverPreparationFailure"
           r == Msg(kind, m.source, m.source, m.to, m.ue, 0, m.proc)
<1>1. m \in Steps /\ m.kind = "HandoverRequest"
  BY DEF ReceiveRequest, Steps
<1>2. m.to = m.target
  BY <1>1 DEF XnInv, ChainInv, OneToken
<1>3. /\ r.kind = kind /\ r.to = m.source /\ r.source = m.source
      /\ r.target = m.target /\ r.ue = m.ue /\ r.proc = m.proc
  BY <1>2, MsgFields
<1>4. net' = (net \ {m}) \cup {r}
  BY DEF ReceiveRequest, Answer
<1>5. kind \notin {"HandoverRequest", "SnStatusTransfer", "UeContextRelease"}
  OBVIOUS
<1>6. UNCHANGED <<pending, clean, contexts, outcomes>>
  BY DEF ReceiveRequest, history
<1> HIDE DEF r, kind
<1>7. Steps' \subseteq (Steps \ {m}) \cup {r}
  BY <1>4 DEF Steps
<1>8. \A p \in pending : p.proc \in clean /\ p.proc = m.proc =>
          Moved(p) \notin contexts
  BY <1>1 DEF XnInv, ChainInv, OwnMessages
<1> QED
  BY <1>1, <1>3, <1>5, <1>6, <1>7, <1>8, Forward

\* The transfer takes the place of the acknowledgement, with the record's state
\* when the procedure is clean.
LEMMA AckChain ==
    ASSUME XnInv, NEW m \in net, ReceiveAck(m), UNCHANGED starts
    PROVE  ChainInv' /\ ContextMoved' /\ OneOutcome'
<1>1. m \in Steps /\ m.kind = "HandoverRequestAcknowledge"
  BY DEF ReceiveAck, Steps
<1>2. m.to = m.source
  BY <1>1 DEF XnInv, ChainInv, OneToken
<1>3. UNCHANGED <<pending, clean, contexts, outcomes>>
  BY DEF ReceiveAck, history
<1>4. CASE PendingOf(m.to, m.ue) = {}
  <2>1. net' = net \ {m}
    BY <1>4 DEF ReceiveAck, Answer
  <2>2. Steps' \subseteq Steps
    BY <2>1 DEF Steps
  <2> QED
    BY <1>3, <2>2, Quiet
<1>5. ASSUME NEW q \in PendingOf(m.to, m.ue)
      PROVE  ChainInv' /\ ContextMoved' /\ OneOutcome'
  <2> DEFINE r == Msg("SnStatusTransfer", m.target, m.to, m.target, m.ue, q.sn,
                      m.proc)
  <2>1. PendingOf(m.to, m.ue) = {q}
    BY <1>5, OnePending DEF XnInv
  <2>2. net' = (net \ {m}) \cup {r}
    BY <2>1 DEF ReceiveAck, Answer
  <2>3. /\ r.kind = "SnStatusTransfer" /\ r.to = m.target
        /\ r.source = m.source /\ r.target = m.target /\ r.ue = m.ue
        /\ r.sn = q.sn /\ r.proc = m.proc
    BY <1>2, MsgFields
  <2> HIDE DEF r
  <2>4. Steps' \subseteq (Steps \ {m}) \cup {r}
    BY <2>2 DEF Steps
  <2>5. ASSUME NEW p \in pending, p.proc \in clean, p.proc = m.proc
        PROVE  p.sn = q.sn /\ Moved(p) \notin contexts
    <3>1. OwnMessages(p)
      BY <2>5 DEF XnInv, ChainInv
    <3>2. m.source = p.gnb /\ m.ue = p.ue /\ Moved(p) \notin contexts
      BY <1>1, <2>5, <3>1 DEF OwnMessages
    <3>3. p \in PendingOf(m.to, m.ue)
      BY <1>2, <3>2 DEF PendingOf
    <3> QED
      BY <2>1, <3>2, <3>3
  <2> QED
    BY <1>1, <1>3, <2>3, <2>4, <2>5, Forward
<1> QED
  BY <1>4, <1>5

\* The release takes the place of the transfer, as the context is recorded.
LEMMA SnChain ==
    ASSUME XnInv, NEW m \in net, ReceiveSn(m), UNCHANGED starts
    PROVE  ChainInv' /\ ContextMoved' /\ OneOutcome'
<1> DEFINE r == Msg("UeContextRelease", m.source, m.source, m.to, m.ue, 0,
                    m.proc)
           c == [at |-> m.to, source |-> m.source, ue |-> m.ue, sn |-> m.sn,
                 proc |-> m.proc]
<1>1. m \in Steps /\ m.kind = "SnStatusTransfer"
  BY DEF ReceiveSn, Steps
<1>2. m.to = m.target
  BY <1>1 DEF XnInv, ChainInv, OneToken
<1>3. /\ r.kind = "UeContextRelease" /\ r.to = m.source
      /\ r.source = m.source /\ r.target = m.target /\ r.ue = m.ue
      /\ r.proc = m.proc
  BY <1>2, MsgFields
<1>4. net' = (net \ {m}) \cup {r} /\ contexts' = contexts \cup {c}
  BY DEF ReceiveSn, Answer
<1>5. UNCHANGED <<pending, clean, outcomes>>
  BY DEF ReceiveSn
<1>6. c.proc = m.proc
  OBVIOUS
<1>7. ASSUME NEW p \in pending, p.proc \in clean, p.proc = m.proc
      PROVE  Moved(p) \in contexts'
  <2>1. OwnMessages(p)
    BY <1>7 DEF XnInv, ChainInv
  <2>2. /\ m.source = p.gnb /\ m.ue = p.ue /\ m.target = p.target
        /\ m.sn = p.sn
    BY <1>1, <1>7, <2>1 DEF OwnMessages
  <2> QED
    BY <1>2, <1>4, <1>7, <2>2 DEF Moved
<1> HIDE DEF r, c
<1>8. Steps' \subseteq (Steps \ {m}) \cup {r}
  BY <1>4 DEF Steps
<1> QED
  BY <1>1, <1>3, <1>4, <1>5, <1>6, <1>7, <1>8, Forward

\* The end of a procedure: what a clean record is told is about itself.
LEMMA FinishChain ==
    ASSUME XnInv, NEW m \in net, NEW ok \in BOOLEAN, UNCHANGED starts,
           m.kind = IF ok THEN "UeContextRelease"
                    ELSE "HandoverPreparationFailure",
           Finish(m, ok)
    PROVE  ChainInv' /\ ContextMoved' /\ OneOutcome'
<1>1. m \in Steps /\ (m.kind = "UeContextRelease" <=> ok)
  BY DEF Steps
<1>2. m.to = m.source
  BY <1>1 DEF XnInv, ChainInv, OneToken
<1>3. /\ pending' = pending \ PendingOf(m.to, m.ue)
      /\ outcomes' = outcomes \cup
             {[of |-> p, ok |-> ok] : p \in PendingOf(m.to, m.ue)}
      /\ UNCHANGED <<clean, contexts>>
      /\ PendingOf(m.to, m.ue) \subseteq pending
  BY DEF Finish, PendingOf
<1>4. Steps' = Steps \ {m}
  BY DEF Finish, Answer, Steps
<1>5. OneToken'
  BY <1>4 DEF XnInv, ChainInv, OneToken
<1>6. ASSUME NEW p \in pending', p.proc \in clean' PROVE OwnMessages(p)'
  BY <1>3, <1>4, <1>6 DEF XnInv, ChainInv, OwnMessages, Moved
<1>7. ASSUME NEW o \in outcomes', o \notin outcomes
      PROVE  o.ok = ok /\ o.of \in PendingOf(m.to, m.ue)
  BY <1>3, <1>7
<1>8. ASSUME NEW p \in PendingOf(m.to, m.ue), p.proc \in clean
      PROVE  m.proc = p.proc /\ (ok <=> Moved(p) \in contexts)
  <2>1. OwnMessages(p)
    BY <1>3, <1>8 DEF XnInv, ChainInv
  <2>2. p.gnb = m.source /\ p.ue = m.ue
    BY <1>2 DEF PendingOf
  <2> QED
    BY <1>1, <2>1, <2>2 DEF OwnMessages
<1>9. ASSUME NEW o \in outcomes', o.of.proc \in clean'
      PROVE  \A n \in Steps' : n.proc # o.of.proc
  <2>1. CASE o \in outcomes
    BY <1>3, <1>4, <1>9, <2>1 DEF XnInv, ChainInv
  <2>2. CASE o \notin outcomes
    <3>1. o.of.proc = m.proc
      BY <1>3, <1>7, <1>8, <1>9, <2>2
    <3> QED
      BY <1>1, <1>4, <3>1 DEF XnInv, ChainInv, OneToken
  <2> QED
    BY <2>1, <2>2
<1>10. \A o \in outcomes' : o.of.proc \in 1 .. starts
  BY <1>3, <1>7 DEF XnInv, ChainInv
<1>11. ChainInv'
  BY <1>3, <1>5, <1>6, <1>9, <1>10 DEF XnInv, ChainInv
<1>12. ContextMoved'
  <2>1. ASSUME NEW o \in outcomes', o.of.proc \in clean'
        PROVE  o.ok <=> Moved(o.of)' \in contexts'
    <3>1. CASE o \in outcomes
      BY <1>3, <2>1, <3>1 DEF XnInv, ContextMoved, Moved
    <3>2. CASE o \notin outcomes
      BY <1>3, <1>7, <1>8, <2>1, <3>2 DEF Moved
    <3> QED
      BY <3>1, <3>2
  <2> QED
    BY <2>1 DEF ContextMoved
<1>13. OneOutcome'
  <2>1. ASSUME NEW o \in outcomes', NEW p \in pending' PROVE p.proc # o.of.proc
    <3>1. CASE o \in outcomes
      BY <1>3, <3>1 DEF XnInv, OneOutcome
    <3>2. CASE o \notin outcomes
      BY <1>3, <1>7, <3>2 DEF XnInv, ChainInv
    <3> QED
      BY <3>1, <3>2
  <2>2. ASSUME NEW o \in outcomes', NEW r \in outcomes', r.of.proc = o.of.proc
        PROVE  r = o
    <3>1. CASE o \in outcomes /\ r \in outcomes
      BY <2>2, <3>1 DEF XnInv, OneOutcome
    <3>2. CASE o \in outcomes /\ r \notin outcomes
      BY <1>3, <1>7, <2>2, <3>2 DEF XnInv, OneOutcome
    <3>3. CASE o \notin outcomes /\ r \in outcomes
      BY <1>3, <1>7, <2>2, <3>3 DEF XnInv, OneOutcome
    <3>4. CASE o \notin outcomes /\ r \notin outcomes
      <4>1. PICK p \in PendingOf(m.to, m.ue) : o = [of |-> p, ok |-> ok]
        BY <1>3, <3>4
      <4>2. PICK q \in PendingOf(m.to, m.ue) : r = [of |-> q, ok |-> ok]
        BY <1>3, <3>4
      <4>3. p = q
        BY OnePending DEF XnInv
      <4> QED
        BY <4>1, <4>2, <4>3
    <3> QED
      BY <3>1, <3>2, <3>3, <3>4
  <2> QED
    BY <2>1, <2>2 DEF OneOutcome
<1> QED
  BY <1>11, <1>12, <1>13

\* Every message handled keeps the invariant.
LEMMA ReceiveChain ==
    ASSUME XnInv, NEW m \in net, Receive(m)
    PROVE  ChainInv' /\ ContextMoved' /\ OneOutcome'
<1>0. UNCHANGED starts
  BY DEF Receive
<1>1. CASE ReceiveRequest(m)
  BY <1>0, <1>1, RequestChain
<1>2. CASE ReceiveAck(m)
  BY <1>0, <1>2, AckChain
<1>3. CASE ReceiveSn(m)
  BY <1>0, <1>3, SnChain
<1>4. CASE ReceiveRelease(m)
  BY <1>0, <1>4, FinishChain DEF ReceiveRelease
<1>5. CASE ReceiveFailure(m)
  BY <1>0, <1>5, FinishChain DEF ReceiveFailure
<1>6. CASE ReceiveCancel(m)
  <2>1. Steps' \subseteq Steps /\ pending' \subseteq pending
    BY <1>6 DEF ReceiveCancel, Answer, Steps
  <2> QED
    BY <1>0, <1>6, <2>1, Quiet DEF ReceiveCancel, history
<1> QED
  BY <1>1, <1>2, <1>3, <1>4, <1>5, <1>6 DEF Receive

\* Every call, message and loss keeps the invariant.
LEMMA NextChain == XnInv /\ [Next]_vars => XnInv'
<1> SUFFICES ASSUME XnInv, [Next]_vars
             PROVE  ChainInv' /\ ContextMoved' /\ OneOutcome'
  BY NextType DEF XnInv
<1>1. ASSUME NEW g \in Gnb, NEW u \in Ue, NEW t \in Gnb \ {g}, NEW s \in Sn,
             StartHandover(g, t, u, s)
      PROVE  ChainInv' /\ ContextMoved' /\ OneOutcome'
  BY <1>1, StartChain
<1>2. ASSUME NEW g \in Gnb, NEW u \in Ue, SendCancel(g, u)
      PROVE  ChainInv' /\ ContextMoved' /\ OneOutcome'
  <2>1. Msg("HandoverCancel", g, g, g, u, 0, 0).kind = "HandoverCancel"
    BY MsgFields
  <2>2. Steps' \subseteq Steps
    BY <1>2, <2>1 DEF SendCancel, Steps
  <2> QED
    BY <1>2, <2>2, Quiet DEF SendCancel, history
<1>3. ASSUME NEW g \in Gnb, NEW b \in BOOLEAN,
             SetAdmitIncoming(g, b) \/ SetRegenerative(g, b)
      PROVE  ChainInv' /\ ContextMoved' /\ OneOutcome'
  BY <1>3, Quiet DEF SetAdmitIncoming, SetRegenerative, history, Steps
<1>4. ASSUME NEW m \in net, Receive(m)
      PROVE  ChainInv' /\ ContextMoved' /\ OneOutcome'
  BY <1>4, ReceiveChain
<1>5. ASSUME NEW m \in net, Lose(m)
      PROVE  ChainInv' /\ ContextMoved' /\ OneOutcome'
  BY <1>5, Quiet DEF Lose, history, Steps
<1>6. CASE UNCHANGED vars
  BY <1>6, Quiet DEF vars, Steps
<1> QED
  BY <1>1, <1>2, <1>3, <1>4, <1>5, <1>6 DEF Next

\* The inductive invariant holds of every run.
LEMMA Invariant == Spec => []XnInv
BY InitChain, NextChain, PTL DEF Spec

\* A handover started with nothing of an earlier one of its UE under way is
\* reported a success exactly when its target has its PDCP state.
THEOREM ContextFollows == Spec => []ContextMoved
<1>1. XnInv => ContextMoved
  BY DEF XnInv
<1> QED
  BY <1>1, Invariant, PTL

\* A procedure is reported at most once, and is no longer pending then.
THEOREM SingleOutcome == Spec => []OneOutcome
<1>1. XnInv => OneOutcome
  BY DEF XnInv
<1> QED
  BY <1>1, Invariant, PTL
=============================================================================
