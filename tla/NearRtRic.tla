----------------------------- MODULE NearRtRic ------------------------------
(***************************************************************************)
(* The control path of the O-RAN control plane: an xApp submits an RC      *)
(* action, the near-RT RIC checks it against the A1 policies, has the      *)
(* conflict manager judge it against the recent actions of other xApps,    *)
(* and the E2 termination sends it over the feeder link to one node or to  *)
(* all of them (oran-ntn-near-rt-ric.cc, oran-ntn-conflict-manager.cc, the *)
(* policy check of oran-ntn-xapp-base.cc and the control half of           *)
(* oran-ntn-e2-interface.cc).                                              *)
(*                                                                         *)
(* Nothing outside the tests locks a resource or supplies the conflict     *)
(* manager with policies: no lock is ever found, and A1_GUIDED falls back  *)
(* to priority.  Left out: refusals that change nothing (an unknown xApp,  *)
(* a candidate below the SINR or the time to exit of a policy, a slice     *)
(* without resources), the counters and the conflict log.  log is history. *)
(*                                                                         *)
(* The two deques that are trimmed at the front are kept as sets of        *)
(* positions in the log: they are filled in the order of time, so what the *)
(* loop at the front pops is all that is old.                              *)
(***************************************************************************)
EXTENDS Integers, Sequences, FiniteSets, SequencesExt, RcActions

CONSTANTS
    Xapp, Priority,  \* registered xApps and their priorities (0 = highest)
    Node,            \* registered E2 nodes
    Action,          \* what each of them submits: [type, gnb, ue, part,
                     \* confidence]
    Window,          \* m_conflictWindow
    RateWindow,      \* the 60 s of the handover rate
    Caps,            \* values of maxHandoverRate; 0 is no limit
    MaxSubmit,       \* bound: submissions
    MaxTime,         \* bound: time
    MaxLevel         \* bound: shortenings of a node's feeder delay

Strategies == {"PRIORITY", "TEMPORAL", "CONFIDENCE"}

ASSUME RicAssumption ==
    /\ Priority \in [Xapp -> Nat] /\ Node \subseteq Nat \ {0}
    /\ Caps \subseteq Nat /\ 0 \in Caps
    /\ {Window, RateWindow, MaxSubmit, MaxTime, MaxLevel} \subseteq Nat

VARIABLES
    now,
    strategy,  \* m_strategy (MERGE and ML_BASED compare the confidence)
    cap,       \* maxHandoverRate of the active HO_THRESHOLD policy
    hoTimes,   \* m_recentHoTimes of every xApp, as positions in the log
    recent,    \* m_recentActions, as positions in the log
    level,     \* how often a node's m_feederLinkDelay was shortened
    flight,    \* actions crossing the feeder link, in the order sent
    executed,  \* actions a node has executed, oldest first
    log        \* submissions: who, what, when, and the outcome

vars == <<now, strategy, cap, hoTimes, recent, level, flight, executed, log>>

Outcomes == {"policy", "conflict", "unroutable", "routed"}
Entry == [xapp : Xapp, action : UNION {Action[x] : x \in Xapp},
          at : 0 .. MaxTime, outcome : Outcomes]
Sent == [id : 1 .. MaxSubmit, level : 0 .. MaxLevel]
-----------------------------------------------------------------------------
Init ==
    /\ now = 0 /\ strategy \in Strategies /\ cap = 0
    /\ hoTimes = [x \in Xapp |-> {}] /\ recent = {}
    /\ level = [n \in Node |-> 0]
    /\ flight = [n \in Node |-> <<>>] /\ executed = [n \in Node |-> <<>>]
    /\ log = <<>>

Log(x, a, outcome) ==
    /\ Len(log) < MaxSubmit
    /\ log' = Append(log, [xapp |-> x, action |-> a, at |-> now,
                           outcome |-> outcome])

IsHandover(a) == a.type = "HANDOVER_TRIGGER"

\* The handovers the rate check looks at, those of one xApp only: without a limit nothing is trimmed.
Trimmed(x) == IF cap = 0 THEN hoTimes[x]
              ELSE {i \in hoTimes[x] : now - log[i].at <= RateWindow}

\* Fault: one more than the cap.
SlipRateAllows(x) == cap = 0 \/ Cardinality(Trimmed(x)) <= cap

RateAllows(x) == cap = 0 \/ Cardinality(Trimmed(x)) < cap

RefusedByPolicy(x, a) ==
    /\ IsHandover(a) /\ ~RateAllows(x)
    /\ hoTimes' = [hoTimes EXCEPT ![x] = Trimmed(x)]
    /\ Log(x, a, "policy")
    /\ UNCHANGED <<recent, flight>>

\* A compliant handover counts, whatever becomes of it.
Compliant(x, a) ==
    /\ IsHandover(a) => RateAllows(x)
    /\ hoTimes' = IF IsHandover(a)
                  THEN [hoTimes EXCEPT ![x] = Trimmed(x) \cup {Len(log) + 1}]
                  ELSE hoTimes
-----------------------------------------------------------------------------
\* Fault: actions are forgotten when the window is over, not after it.
SlipPruned == {i \in recent : now - log[i].at < Window}

\* PruneOldActions.
Pruned == {i \in recent : now - log[i].at <= 2 * Window}

\* The recent actions of others that a must be judged against.
Rivals(x, a) == {i \in Pruned :
    log[i].xapp # x /\ now - log[i].at <= Window /\ Related(a, log[i].action)}

\* ResolveConflict: does a newer action of x win against the entry e?
Wins(x, a, e) ==
    CASE strategy = "PRIORITY"   -> Priority[x] <= Priority[e.xapp]
      [] strategy = "TEMPORAL"   -> TRUE
      [] strategy = "CONFIDENCE" -> a.confidence >= e.action.confidence

RefusedByConflict(x, a) ==
    /\ Compliant(x, a)
    /\ \E i \in Rivals(x, a) : ~Wins(x, a, log[i])
    /\ recent' = Pruned
    /\ Log(x, a, "conflict")
    /\ UNCHANGED flight

\* gNB 0 stands for all nodes.
Targets(a) == IF a.gnb = 0 THEN Node ELSE {a.gnb} \cap Node

\* Recorded before it is routed, which may fail.
Accepted(x, a) ==
    LET sent(n) == [id |-> Len(log) + 1, level |-> level[n]] IN
    /\ Compliant(x, a)
    /\ \A i \in Rivals(x, a) : Wins(x, a, log[i])
    /\ recent' = Pruned \cup {Len(log) + 1}
    /\ flight' = [n \in Node |-> IF n \in Targets(a)
                                 THEN Append(flight[n], sent(n))
                                 ELSE flight[n]]
    /\ Log(x, a, IF Targets(a) = {} THEN "unroutable" ELSE "routed")

SubmitAction(x, a) ==
    /\ RefusedByPolicy(x, a) \/ RefusedByConflict(x, a) \/ Accepted(x, a)
    /\ UNCHANGED <<now, strategy, cap, level, executed>>
-----------------------------------------------------------------------------
\* Fault: the actions in the air arrive in any order.
SlipExecuteRcAction(n, i) ==
    /\ flight' = [flight EXCEPT ![n] = RemoveAt(@, i)]
    /\ executed' = [executed EXCEPT ![n] = Append(@, flight[n][i])]
    /\ UNCHANGED <<now, strategy, cap, hoTimes, recent, level, log>>

\* The i-th action in the air reaches the node.
ExecuteRcAction(n, i) ==
    /\ \A j \in 1 .. i - 1 : flight[n][j].level < flight[n][i].level
    /\ flight' = [flight EXCEPT ![n] = RemoveAt(@, i)]
    /\ executed' = [executed EXCEPT ![n] = Append(@, flight[n][i])]
    /\ UNCHANGED <<now, strategy, cap, hoTimes, recent, level, log>>

SetFeederLinkDelay(n) ==
    /\ level[n] < MaxLevel
    /\ level' = [level EXCEPT ![n] = @ + 1]
    /\ UNCHANGED <<now, strategy, cap, hoTimes, recent, flight, executed, log>>

HandleA1Policy(c) ==
    /\ c # cap /\ cap' = c
    /\ UNCHANGED <<now, strategy, hoTimes, recent, level, flight, executed,
                   log>>

Tick ==
    /\ now < MaxTime /\ now' = now + 1
    /\ UNCHANGED <<strategy, cap, hoTimes, recent, level, flight, executed,
                   log>>

Next ==
    \/ \E x \in Xapp : \E a \in Action[x] : SubmitAction(x, a)
    \/ \E n \in Node : \/ \E i \in DOMAIN flight[n] : ExecuteRcAction(n, i)
                       \/ SetFeederLinkDelay(n)
    \/ \E c \in Caps : HandleA1Policy(c)
    \/ Tick

Spec == Init /\ [][Next]_vars
-----------------------------------------------------------------------------
Recorded(i) == log[i].outcome \in {"routed", "unroutable"}

\* The handovers of an xApp the RIC let through, within the rate window.
LetThrough(x) == {i \in DOMAIN log :
    /\ log[i].xapp = x /\ IsHandover(log[i].action) /\ Recorded(i)
    /\ now - log[i].at <= RateWindow}

\* The types; the log is in the order of time; recent actions are accepted
\* ones, and neither they nor the counted handovers lack one that is young
\* enough to matter.
RicTypeOK ==
    /\ now \in 0 .. MaxTime /\ strategy \in Strategies /\ cap \in Caps
    /\ log \in Seq(Entry) /\ Len(log) <= MaxSubmit
    /\ hoTimes \in [Xapp -> SUBSET DOMAIN log]
    /\ level \in [Node -> 0 .. MaxLevel]
    /\ flight \in [Node -> Seq(Sent)] /\ executed \in [Node -> Seq(Sent)]
    /\ \A i, j \in DOMAIN log : i < j => log[i].at <= log[j].at
    /\ \A i \in DOMAIN log : log[i].at <= now
    /\ recent \subseteq {i \in DOMAIN log : Recorded(i)}
    /\ \A i \in DOMAIN log :
          Recorded(i) /\ now - log[i].at <= Window => i \in recent
    /\ \A x \in Xapp : LetThrough(x) \subseteq hoTimes[x]

\* Of two actions of different xApps that are accepted within the window and
\* are in conflict by the WG3 taxonomy (one parameter, one family of a gNB, one
\* UE), the later one has won: no index, no pruning and no third action in
\* between lets a weaker one through.
AcceptedDominates ==
    \A i, j \in DOMAIN log :
        /\ i < j /\ Recorded(i) /\ Recorded(j)
        /\ log[i].xapp # log[j].xapp
        /\ log[j].at - log[i].at <= Window
        /\ ClassifyConflict(log[j].action, log[i].action) # "UNKNOWN"
        => Wins(log[j].xapp, log[j].action, log[i])

\* No handover of an xApp goes through when as many of that xApp as the policy
\* allows already have, even if the policy is newer than they are.  Every xApp
\* counts its own, m_recentHoTimes.
XappRateHonoured == [][
    \A i \in DOMAIN log' \ DOMAIN log :
        Recorded(i)' /\ IsHandover(log'[i].action) /\ cap > 0 =>
            Cardinality(LetThrough(log'[i].xapp)) < cap]_vars

\* (Fails, see README.)  No handover goes through when the xApps together have
\* had as many as the policy allows: what a1-interface.h says of
\* maxHandoverRate, "Max HO/min for this scope".
ScopeRateHonoured == [][
    \A i \in DOMAIN log' \ DOMAIN log :
        Recorded(i)' /\ IsHandover(log'[i].action) /\ cap > 0 =>
            Cardinality(UNION {LetThrough(x) : x \in Xapp}) < cap]_vars

\* An action executes once on every node it names and nowhere else, and the
\* winner of a conflict has the last word there: actions execute in the order
\* they were accepted, unless the feeder delay was shortened in between.
LastWord ==
    \A n \in Node :
        LET path == executed[n] \o flight[n] IN
        /\ \A i, j \in DOMAIN path : i < j =>
              \/ path[i].id < path[j].id
              \/ path[i].id > path[j].id /\ path[i].level > path[j].level
        /\ {s.id : s \in Range(path)} =
              {i \in DOMAIN log : Recorded(i) /\ n \in Targets(log[i].action)}

\* (Fails, see README.)  What the comment at the rate check says: it counts "previously-accepted"
\* handovers.
RateCountsAccepted == [][
    \A i \in DOMAIN log' \ DOMAIN log :
        log'[i].outcome = "policy" =>
            Cardinality(LetThrough(log'[i].xapp)) >= cap]_vars
=============================================================================
