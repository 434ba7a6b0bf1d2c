----------------------------- MODULE XnHandover -----------------------------
(***************************************************************************)
(* Handover of a UE between the gNBs on board of two satellites            *)
(* (ntn-xn-handover.cc).  Every gNB plays both roles:                      *)
(*                                                                         *)
(*   source -> target  HANDOVER REQUEST                                    *)
(*   target -> source  HANDOVER REQUEST ACKNOWLEDGE or PREPARATION FAILURE *)
(*   source -> target  SN STATUS TRANSFER                                  *)
(*   target -> source  UE CONTEXT RELEASE                                  *)
(*                                                                         *)
(* The links are the scenario's: a message arrives after the delay its     *)
(* sender had for the peer when it sent it, so messages overtake each      *)
(* other, and nothing in the class notices one that is lost.  The pending  *)
(* record of a UE is overwritten by a second StartHandover; the messages   *)
(* of the first are then still under way.                                  *)
(*                                                                         *)
(* Left out: the counters the class only shows, and the target's UE id,    *)
(* which is echoed and never read.  proc, clean, contexts and outcomes are *)
(* history: no guard reads them.                                           *)
(***************************************************************************)
EXTENDS Naturals, FiniteSets

CONSTANTS
    Gnb,         \* the satellites with an Xn endpoint
    Ue,          \* source UE XnAP ids; every gNB numbers its own UEs
    Sn,          \* PDCP states (SNs and HFN of a bearer)
    MaxStarts,   \* bound: handovers started
    MaxLost,     \* bound: messages lost
    MaxCancels,  \* bound: cancels the scenario sends
    MaxChanges   \* bound: changes of what a gNB admits

ASSUME XnAssumption ==
    /\ 0 \notin Sn
    /\ {MaxStarts, MaxLost, MaxCancels, MaxChanges} \subseteq Nat

VARIABLES
    admit,     \* m_admit of every gNB
    regen,     \* m_regenerative of every gNB
    pending,   \* m_pending: the handovers a source has not seen the end of
    net,       \* messages under way
    starts,    \* StartHandover calls that were not refused
    lost, cancels, changes,
    clean,     \* procedures begun with no message of an earlier one under way
    contexts,  \* the PDCP states the targets recorded
    outcomes   \* what the completion callbacks reported

vars == <<admit, regen, pending, net, starts, lost, cancels, changes,
          clean, contexts, outcomes>>
history == <<clean, contexts, outcomes>>

Kinds == {"HandoverRequest", "HandoverRequestAcknowledge",
          "HandoverPreparationFailure", "SnStatusTransfer",
          "UeContextRelease", "HandoverCancel"}
Procs == 0 .. MaxStarts

Pending == [gnb : Gnb, ue : Ue, target : Gnb, sn : Sn, proc : Procs]
Message == [kind : Kinds, to : Gnb, source : Gnb, target : Gnb, ue : Ue,
            sn : Sn \cup {0}, proc : Procs]
Context == [at : Gnb, source : Gnb, ue : Ue, sn : Sn \cup {0}, proc : Procs]

Msg(kind, to, source, target, ue, sn, proc) ==
    [kind |-> kind, to |-> to, source |-> source, target |-> target,
     ue |-> ue, sn |-> sn, proc |-> proc]

PendingOf(g, u) == {p \in pending : p.gnb = g /\ p.ue = u}
Steps == {m \in net : m.kind # "HandoverCancel"}
UnderWay(g, u) == {m \in Steps : m.source = g /\ m.ue = u}
-----------------------------------------------------------------------------
Init ==
    /\ admit = [g \in Gnb |-> TRUE]
    /\ regen = [g \in Gnb |-> TRUE]
    /\ pending = {} /\ net = {}
    /\ starts = 0 /\ lost = 0 /\ cancels = 0 /\ changes = 0
    /\ clean = {} /\ contexts = {} /\ outcomes = {}

\* Fault: the record is added to that of the earlier handover.
SlipStartHandover(g, t, u, s) ==
    /\ starts < MaxStarts
    /\ regen[g]
    /\ starts' = starts + 1
    /\ pending' = pending \cup {[gnb |-> g, ue |-> u, target |-> t, sn |-> s,
                                 proc |-> starts']}
    /\ net' = net \cup {Msg("HandoverRequest", t, g, t, u, 0, starts')}
    /\ clean' = IF UnderWay(g, u) = {} THEN clean \cup {starts'} ELSE clean
    /\ UNCHANGED <<admit, regen, lost, cancels, changes, contexts, outcomes>>

\* A payload without a gNB on board refuses (lines 57-64).
StartHandover(g, t, u, s) ==
    /\ starts < MaxStarts
    /\ regen[g]
    /\ starts' = starts + 1
    /\ pending' = (pending \ PendingOf(g, u)) \cup
                  {[gnb |-> g, ue |-> u, target |-> t, sn |-> s,
                    proc |-> starts']}
    /\ net' = net \cup {Msg("HandoverRequest", t, g, t, u, 0, starts')}
    /\ clean' = IF UnderWay(g, u) = {} THEN clean \cup {starts'} ELSE clean
    /\ UNCHANGED <<admit, regen, lost, cancels, changes, contexts, outcomes>>

SetAdmitIncoming(g, b) ==
    /\ changes < MaxChanges /\ changes' = changes + 1
    /\ b # admit[g] /\ admit' = [admit EXCEPT ![g] = b]
    /\ UNCHANGED <<regen, pending, net, starts, lost, cancels, history>>

SetRegenerative(g, b) ==
    /\ changes < MaxChanges /\ changes' = changes + 1
    /\ b # regen[g] /\ regen' = [regen EXCEPT ![g] = b]
    /\ UNCHANGED <<admit, pending, net, starts, lost, cancels, history>>

\* The class handles a cancel and never sends one: the scenario does.  Who
\* sent it makes no difference to the receiver.
SendCancel(t, u) ==
    /\ cancels < MaxCancels /\ cancels' = cancels + 1
    /\ net' = net \cup {Msg("HandoverCancel", t, t, t, u, 0, 0)}
    /\ UNCHANGED <<admit, regen, pending, starts, lost, changes, history>>
-----------------------------------------------------------------------------
\* m leaves the link and reply takes its place.
Answer(m, reply) == net' = (net \ {m}) \cup reply

\* Fault: a target that cannot admit says nothing.
SlipReceiveRequest(m) ==
    /\ m.kind = "HandoverRequest"
    /\ Answer(m, IF admit[m.to] /\ regen[m.to]
                 THEN {Msg("HandoverRequestAcknowledge", m.source, m.source,
                           m.to, m.ue, 0, m.proc)}
                 ELSE {})
    /\ UNCHANGED <<pending, history>>

\* Target: admit or refuse, never silence.
ReceiveRequest(m) ==
    /\ m.kind = "HandoverRequest"
    /\ LET kind == IF admit[m.to] /\ regen[m.to]
                   THEN "HandoverRequestAcknowledge"
                   ELSE "HandoverPreparationFailure"
       IN Answer(m, {Msg(kind, m.source, m.source, m.to, m.ue, 0, m.proc)})
    /\ UNCHANGED <<pending, history>>

\* Fault: the sequence numbers are left at the header's default.
SlipReceiveAck(m) ==
    /\ m.kind = "HandoverRequestAcknowledge"
    /\ Answer(m, {Msg("SnStatusTransfer", m.target, m.to, m.target, m.ue, 0,
                      m.proc) : p \in PendingOf(m.to, m.ue)})
    /\ UNCHANGED <<pending, history>>

\* Source: the state of the record found now goes to the gNB that answered.
ReceiveAck(m) ==
    /\ m.kind = "HandoverRequestAcknowledge"
    /\ Answer(m, {Msg("SnStatusTransfer", m.target, m.to, m.target, m.ue,
                      p.sn, m.proc) : p \in PendingOf(m.to, m.ue)})
    /\ UNCHANGED <<pending, history>>

ReceiveSn(m) ==
    /\ m.kind = "SnStatusTransfer"
    /\ contexts' = contexts \cup {[at |-> m.to, source |-> m.source,
                                   ue |-> m.ue, sn |-> m.sn, proc |-> m.proc]}
    /\ Answer(m, {Msg("UeContextRelease", m.source, m.source, m.to, m.ue, 0,
                      m.proc)})
    /\ UNCHANGED <<pending, clean, outcomes>>

\* Fault: the record outlives the outcome.
SlipFinish(m, ok) ==
    /\ outcomes' = outcomes \cup {[of |-> p, ok |-> ok] :
                                  p \in PendingOf(m.to, m.ue)}
    /\ Answer(m, {})
    /\ UNCHANGED <<pending, clean, contexts>>

\* Source: whatever record the UE has now is finished and reported.
Finish(m, ok) ==
    /\ pending' = pending \ PendingOf(m.to, m.ue)
    /\ outcomes' = outcomes \cup {[of |-> p, ok |-> ok] :
                                  p \in PendingOf(m.to, m.ue)}
    /\ Answer(m, {})
    /\ UNCHANGED <<clean, contexts>>

ReceiveRelease(m) == m.kind = "UeContextRelease" /\ Finish(m, TRUE)
ReceiveFailure(m) == m.kind = "HandoverPreparationFailure" /\ Finish(m, FALSE)

\* The receiver drops its own record of that UE id, reporting nothing.
ReceiveCancel(m) ==
    /\ m.kind = "HandoverCancel"
    /\ pending' = pending \ PendingOf(m.to, m.ue)
    /\ Answer(m, {})
    /\ UNCHANGED history

Receive(m) ==
    /\ \/ ReceiveRequest(m) \/ ReceiveAck(m) \/ ReceiveSn(m)
       \/ ReceiveRelease(m) \/ ReceiveFailure(m) \/ ReceiveCancel(m)
    /\ UNCHANGED <<admit, regen, starts, lost, cancels, changes>>

\* The scenario's transport drops a message.
Lose(m) ==
    /\ lost < MaxLost /\ lost' = lost + 1
    /\ net' = net \ {m}
    /\ UNCHANGED <<admit, regen, pending, starts, cancels, changes, history>>

Next ==
    \/ \E g \in Gnb, u \in Ue :
           \/ \E t \in Gnb \ {g}, s \in Sn : StartHandover(g, t, u, s)
           \/ SendCancel(g, u)
    \/ \E g \in Gnb, b \in BOOLEAN :
           SetAdmitIncoming(g, b) \/ SetRegenerative(g, b)
    \/ \E m \in net : Receive(m) \/ Lose(m)

Spec == Init /\ [][Next]_vars

\* Every message on its way is a scheduled event of the simulator: it arrives.
\* With the starts bounded, some message arriving is enough for all of them.
FairSpec == Spec /\ WF_vars(\E m \in net : Receive(m))
-----------------------------------------------------------------------------
\* The records and messages the code builds, and one record per UE.
XnTypeOK ==
    /\ admit \in [Gnb -> BOOLEAN] /\ regen \in [Gnb -> BOOLEAN]
    /\ pending \subseteq Pending /\ net \subseteq Message
    /\ starts \in Procs /\ lost \in 0 .. MaxLost
    /\ cancels \in 0 .. MaxCancels /\ changes \in 0 .. MaxChanges
    /\ clean \subseteq Procs /\ contexts \subseteq Context
    /\ outcomes \subseteq [of : Pending, ok : BOOLEAN]
    /\ \A p, q \in pending : p.gnb = q.gnb /\ p.ue = q.ue => p = q

Moved(p) == [at |-> p.target, source |-> p.gnb, ue |-> p.ue, sn |-> p.sn,
             proc |-> p.proc]

\* A handover started when nothing of an earlier one of its UE was under way
\* ends with success exactly when its target holds its PDCP state: whatever
\* is lost, delayed, overtaken or refused (the target "must have RECEIVED
\* the PDCP state, not merely been told a handover happened").
ContextMoved ==
    \A o \in outcomes : o.of.proc \in clean =>
        (o.ok <=> Moved(o.of) \in contexts)

\* No handover is reported twice, and none that was reported is pending
\* again, however answers, cancels and second starts interleave.
OneOutcome ==
    \A o \in outcomes :
        /\ \A p \in pending : p.proc # o.of.proc
        /\ \A r \in outcomes : r.of.proc = o.of.proc => r = o

\* A source never waits for ever: its record goes away, by an outcome, a
\* cancel or a newer handover.  Only a lost message, for which the procedure
\* has no timer, leaves it there.
Resolved ==
    \A n \in Procs : (\E p \in pending : p.proc = n) ~>
                     ((\A p \in pending : p.proc # n) \/ lost > 0)
-----------------------------------------------------------------------------
(***************************************************************************)
(* The inductive invariant behind ContextMoved and OneOutcome.             *)
(***************************************************************************)
\* A procedure has at most one message under way, addressed by its role.
OneToken ==
    \A m \in Steps :
        /\ m.proc \in 1 .. starts
        /\ m.to = IF m.kind \in {"HandoverRequest", "SnStatusTransfer"}
                  THEN m.target ELSE m.source
        /\ \A n \in Steps : n.proc = m.proc => n = m

\* What is under way for a clean procedure that is pending is its own, and
\* its target has the context exactly when the release has been sent.
OwnMessages(p) ==
    \A m \in Steps :
        /\ m.source = p.gnb /\ m.ue = p.ue <=> m.proc = p.proc
        /\ m.proc = p.proc =>
              /\ m.target = p.target
              /\ m.kind = "SnStatusTransfer" => m.sn = p.sn
              /\ m.kind = "UeContextRelease" <=> Moved(p) \in contexts

ChainInv ==
    /\ OneToken
    /\ clean \subseteq 1 .. starts
    /\ \A c \in contexts : c.proc \in 1 .. starts
    /\ \A p \in pending :
          /\ p.proc \in 1 .. starts
          /\ \A q \in pending : q.proc = p.proc => q = p
          /\ p.proc \in clean => OwnMessages(p)
    /\ \A o \in outcomes :
          /\ o.of.proc \in 1 .. starts
          /\ o.of.proc \in clean => \A m \in Steps : m.proc # o.of.proc
=============================================================================
