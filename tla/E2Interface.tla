---------------------------- MODULE E2Interface -----------------------------
(***************************************************************************)
(* The indication path of the O-RAN control plane                          *)
(* (oran-ntn-e2-interface.cc and the life cycle in oran-ntn-xapp-base.cc). *)
(* An xApp subscribes on every connected E2 node when it starts; a node on *)
(* board of a satellite reports over a feeder link with a delay, keeps     *)
(* what it may batch while the link is down, and a node that is aligned    *)
(* holds what has crossed the link until the next tick of the RIC.         *)
(*                                                                         *)
(*   measurement --> buffer (link down) --> air --> aligned --> xApps      *)
(*                                                                         *)
(* A report is scheduled with the delay of the moment, which               *)
(* oran-ntn-ric-placement.cc changes while reports are in the air: one     *)
(* sent after the delay was shortened may overtake one sent before.        *)
(*                                                                         *)
(* Left out: what a report says, but for a weak signal; direct calls of    *)
(* HandleSubscriptionRequest, which only tests make; CheckBufferAge and    *)
(* RouteIndicationToXapps, which nothing calls.  emitted, dropped, left    *)
(* and handed are history.                                                 *)
(***************************************************************************)
EXTENDS Integers, Sequences, FiniteSets, SequencesExt

CONSTANTS
    Node,       \* E2 node ids
    Xapp,       \* xApps
    Required,   \* [xApp |-> what GetRequiredSubscription asks for]
    Ue,         \* UEs the nodes measure
    MaxBuffer,  \* m_maxBufferSize
    MaxInd,     \* bound: indications
    MaxSub,     \* bound: subscription ids
    MaxLevel    \* bound: shortenings of a node's feeder delay

ASSUME E2Assumption ==
    /\ Node \subseteq Nat \ {0} /\ \A S \in {Node, Xapp, Ue} : IsFiniteSet(S)
    /\ Required \in [Xapp -> [event : BOOLEAN, batch : BOOLEAN]]
    /\ MaxBuffer \in Nat \ {0} /\ {MaxInd, MaxSub, MaxLevel} \subseteq Nat

VARIABLES
    \* the termination and the xApps
    registered,  \* m_e2Nodes
    routes,      \* m_subscriptionRoutes, with the one callback of each
    nextSub,     \* m_nextSubscriptionId
    xstate,      \* m_state of every xApp
    xsubs,       \* m_subscriptionIds of every xApp
    cycles,      \* decision events pending for every xApp
    \* the nodes
    conf,        \* how they are set up: nodes with RAN function 2, with
                 \* AlignToControlLoop and with SetPeriodicReporting(true)
    wired,       \* those whose indication callback is set
    subs,        \* m_subscriptions
    timers,      \* m_reportTimers: subscriptions with a pending event
    latest,      \* m_latestReport: UEs measured so far
    feeder,      \* m_feederLinkAvailable
    level,       \* how often m_feederLinkDelay was shortened
    buffer,      \* m_reportBuffer
    air,         \* reports crossing the feeder link, in the order sent
    aligned,     \* m_alignedQueue
    tick,        \* m_alignedDispatchEvent is pending
    \* history
    emitted, dropped, left, handed

ric == <<registered, routes, nextSub, xstate, xsubs, cycles>>
desk == <<conf, subs, timers, latest>>
path == <<feeder, level, buffer, air, aligned, tick>>
history == <<emitted, dropped, handed>>
vars == <<ric, wired, desk, path, history, left>>

States == {"REGISTERED", "RUNNING", "SUSPENDED", "DEREGISTERED"}
Sub == [id : 1 .. MaxSub, xapp : Xapp]
Route == [id : 1 .. MaxSub, node : Node, xapp : Xapp]
Indication == [id : 1 .. MaxInd, sub : 1 .. MaxSub, level : 0 .. MaxLevel]
Handed == [id : 1 .. MaxInd, level : 0 .. MaxLevel]
-----------------------------------------------------------------------------
Init ==
    /\ registered = {} /\ routes = {} /\ nextSub = 1
    /\ xstate = [x \in Xapp |-> "REGISTERED"]
    /\ xsubs = [x \in Xapp |-> {}] /\ cycles = [x \in Xapp |-> 0]
    /\ conf \in [kpm : SUBSET Node, align : SUBSET Node, periodic : SUBSET Node]
    /\ wired = {}
    /\ subs = [n \in Node |-> {}] /\ timers = [n \in Node |-> {}]
    /\ latest = [n \in Node |-> {}]
    /\ feeder = [n \in Node |-> TRUE] /\ level = [n \in Node |-> 0]
    /\ buffer = [n \in Node |-> <<>>] /\ air = [n \in Node |-> <<>>]
    /\ aligned = [n \in Node |-> <<>>] /\ tick = [n \in Node |-> FALSE]
    /\ emitted = 0 /\ dropped = {} /\ left = {}
    /\ handed = [n \in Node |-> <<>>]

RegisterE2Node(n) ==
    /\ n \notin registered
    /\ registered' = registered \cup {n} /\ wired' = wired \cup {n}
    /\ UNCHANGED <<routes, nextSub, xstate, xsubs, cycles, desk, path,
                   history, left>>

\* The node keeps its subscriptions, and the termination its routes.
\* (Bound: once for every node.)
DeregisterE2Node(n) ==
    /\ n \in registered /\ n \notin left
    /\ registered' = registered \ {n} /\ left' = left \cup {n}
    /\ UNCHANGED <<routes, nextSub, xstate, xsubs, cycles, wired, desk, path,
                   history>>
-----------------------------------------------------------------------------
\* The subscriptions an xApp gets now: every connected node takes an id, in
\* the order of the map, and one without the RAN function wastes it.
Granted(x) ==
    {[id |-> nextSub + Cardinality({m \in registered : m < n}),
      node |-> n, xapp |-> x] : n \in registered \cap conf.kpm}

\* The methods of the life cycle check nothing: that each is called in the
\* state it is meant for is up to the callers (StartAllXapps, DeregisterXapp and
\* the scenarios), and the guards on xstate say so.
\* Start subscribes on the nodes connected now, and on no later one.
Start(x) ==
    /\ xstate[x] \in {"REGISTERED", "DEREGISTERED"}
    /\ nextSub + Cardinality(registered) - 1 <= MaxSub
    /\ xstate' = [xstate EXCEPT ![x] = "RUNNING"]
    /\ cycles' = [cycles EXCEPT ![x] = @ + 1]
    /\ nextSub' = nextSub + Cardinality(registered)
    /\ routes' = routes \cup Granted(x)
    /\ xsubs' = [xsubs EXCEPT ![x] = @ \cup {r.id : r \in Granted(x)}]
    /\ subs' = [n \in Node |-> subs[n] \cup
           {[id |-> r.id, xapp |-> x] : r \in {q \in Granted(x) : q.node = n}}]
    /\ timers' = [n \in Node |-> timers[n] \cup
           {r.id : r \in {q \in Granted(x) : q.node = n /\ ~Required[x].event}}]
    /\ UNCHANGED <<registered, conf, wired, latest, path, history, left>>

\* The decision event that is pending, if there is one, is cancelled.
Cancelled(x) == [cycles EXCEPT ![x] = IF @ > 0 THEN @ - 1 ELSE 0]

\* Fault: the nodes are told, the routes stay.
SlipStop(x) ==
    LET gone(n) == {r.id : r \in {q \in routes : q.node = n /\ q.id \in xsubs[x]
                                                 /\ n \in registered}} IN
    /\ xstate[x] # "DEREGISTERED"
    /\ xstate' = [xstate EXCEPT ![x] = "DEREGISTERED"]
    /\ cycles' = Cancelled(x)
    /\ subs' = [n \in Node |-> {s \in subs[n] : s.id \notin gone(n)}]
    /\ timers' = [n \in Node |-> timers[n] \ gone(n)]
    /\ xsubs' = [xsubs EXCEPT ![x] = {}]
    /\ UNCHANGED <<registered, routes, nextSub, conf, wired, latest, path,
                   history, left>>

\* DeleteSubscription of each: a node that is gone is not told.
Stop(x) ==
    LET gone(n) == {r.id : r \in {q \in routes : q.node = n /\ q.id \in xsubs[x]
                                                 /\ n \in registered}} IN
    /\ xstate[x] # "DEREGISTERED"
    /\ xstate' = [xstate EXCEPT ![x] = "DEREGISTERED"]
    /\ cycles' = Cancelled(x)
    /\ subs' = [n \in Node |-> {s \in subs[n] : s.id \notin gone(n)}]
    /\ timers' = [n \in Node |-> timers[n] \ gone(n)]
    /\ routes' = {r \in routes : r.id \notin xsubs[x]}
    /\ xsubs' = [xsubs EXCEPT ![x] = {}]
    /\ UNCHANGED <<registered, nextSub, conf, wired, latest, path, history,
                   left>>

\* Fault: the decision event stays, to find the xApp suspended or resumed.
SlipSuspend(x) ==
    /\ xstate[x] = "RUNNING"
    /\ xstate' = [xstate EXCEPT ![x] = "SUSPENDED"]
    /\ UNCHANGED <<registered, routes, nextSub, xsubs, cycles, wired, desk,
                   path, history, left>>

\* A suspended xApp stops deciding; its indications go on.
Suspend(x) ==
    /\ xstate[x] = "RUNNING"
    /\ xstate' = [xstate EXCEPT ![x] = "SUSPENDED"]
    /\ cycles' = Cancelled(x)
    /\ UNCHANGED <<registered, routes, nextSub, xsubs, wired, desk, path,
                   history, left>>

Resume(x) ==
    /\ xstate[x] = "SUSPENDED"
    /\ xstate' = [xstate EXCEPT ![x] = "RUNNING"]
    /\ cycles' = [cycles EXCEPT ![x] = @ + 1]
    /\ UNCHANGED <<registered, routes, nextSub, xsubs, wired, desk, path,
                   history, left>>
-----------------------------------------------------------------------------
Ids(inds) == {inds[i].id : i \in DOMAIN inds}

\* The members of a map whose keys are the ids, in the order of the map.
ById(S) == {f \in [1 .. Cardinality(S) -> S] :
               \A i, j \in DOMAIN f : i < j => f[i].id < f[j].id}

\* Whether the subscription that is due wants reports kept in an outage.
Batches(sub) == Required[sub.xapp].batch

\* One report for each subscription of the sequence due.
Made(n, due) == [i \in DOMAIN due |->
    [id |-> emitted + i, sub |-> due[i].id, level |-> level[n]]]

Batched(n, due) == {Made(n, due)[i] : i \in {j \in DOMAIN due : Batches(due[j])}}

\* Fault: a full buffer takes one more.
SlipEmit(n, due) ==
    /\ emitted' = emitted + Len(due) /\ emitted' <= MaxInd
    /\ IF feeder[n]
       THEN /\ air' = [air EXCEPT ![n] = @ \o Made(n, due)]
            /\ UNCHANGED <<buffer, dropped>>
       ELSE \E batch \in ById(Batched(n, due)) :
            /\ buffer' = [buffer EXCEPT ![n] = @ \o batch]
            /\ dropped' = dropped \cup (Ids(Made(n, due)) \ Ids(batch))
            /\ UNCHANGED air
    /\ UNCHANGED <<ric, conf, wired, subs, feeder, level, aligned, tick, handed,
                   left>>

\* Fault: a report that is not for the buffer vanishes without being counted.
SlipEmitUncounted(n, due) ==
    /\ emitted' = emitted + Len(due) /\ emitted' <= MaxInd
    /\ IF feeder[n]
       THEN /\ air' = [air EXCEPT ![n] = @ \o Made(n, due)]
            /\ UNCHANGED <<buffer, dropped>>
       ELSE \E batch \in ById(Batched(n, due)) :
            LET all == buffer[n] \o batch
                over == IF Len(all) > MaxBuffer THEN Len(all) - MaxBuffer ELSE 0
            IN
            /\ buffer' = [buffer EXCEPT ![n] = SubSeq(all, over + 1, Len(all))]
            /\ dropped' = dropped \cup Ids(SubSeq(all, 1, over))
            /\ UNCHANGED air
    /\ UNCHANGED <<ric, conf, wired, subs, feeder, level, aligned, tick, handed,
                   left>>

\* What is made goes into the air, or while the link is down into the buffer
\* (the oldest make room), or is lost.
Emit(n, due) ==
    /\ emitted' = emitted + Len(due) /\ emitted' <= MaxInd
    /\ IF feeder[n]
       THEN /\ air' = [air EXCEPT ![n] = @ \o Made(n, due)]
            /\ UNCHANGED <<buffer, dropped>>
       ELSE \E batch \in ById(Batched(n, due)) :
            LET all == buffer[n] \o batch
                over == IF Len(all) > MaxBuffer THEN Len(all) - MaxBuffer ELSE 0
            IN
            /\ buffer' = [buffer EXCEPT ![n] = SubSeq(all, over + 1, Len(all))]
            /\ dropped' = dropped \cup (Ids(Made(n, due)) \ Ids(batch))
                                  \cup Ids(SubSeq(all, 1, over))
            /\ UNCHANGED air
    /\ UNCHANGED <<ric, conf, wired, subs, feeder, level, aligned, tick, handed,
                   left>>

\* An event-driven subscription hears of a weak signal only.
SubmitKpmMeasurement(n, u, weak) ==
    LET due == {s \in subs[n] : Required[s.xapp].event => weak} IN
    /\ latest' = [latest EXCEPT ![n] = @ \cup {u}]
    /\ \E reports \in ById(due) : Emit(n, reports)
    /\ UNCHANGED timers

\* The latest measurement of every UE once more, and the timer is set again
\* unless the subscription is gone.
PeriodicReportTimer(n, id) ==
    LET due == {s \in subs[n] : s.id = id}
        count == IF n \in conf.periodic THEN Cardinality(latest[n]) ELSE 0
    IN
    /\ id \in timers[n]
    /\ timers' = [timers EXCEPT ![n] = (@ \ {id}) \cup {s.id : s \in due}]
    /\ Emit(n, IF due = {} THEN <<>>
               ELSE [i \in 1 .. count |-> CHOOSE s \in due : TRUE])
    /\ UNCHANGED latest
-----------------------------------------------------------------------------
\* Fault: what was flushed stays in the buffer.
SlipSetFeederLinkAvailable(n, b) ==
    LET flushed == [i \in DOMAIN buffer[n] |->
                       [buffer[n][i] EXCEPT !.level = level[n]]]
    IN
    /\ feeder' = [feeder EXCEPT ![n] = b]
    /\ air' = [air EXCEPT ![n] = IF b /\ ~feeder[n] THEN @ \o flushed ELSE @]
    /\ UNCHANGED <<ric, wired, desk, level, buffer, aligned, tick, history,
                   left>>

\* What was buffered leaves when the link comes back, before anything new.
SetFeederLinkAvailable(n, b) ==
    LET flushed == [i \in DOMAIN buffer[n] |->
                       [buffer[n][i] EXCEPT !.level = level[n]]]
        up == b /\ ~feeder[n]
    IN
    /\ feeder' = [feeder EXCEPT ![n] = b]
    /\ air' = [air EXCEPT ![n] = IF up THEN @ \o flushed ELSE @]
    /\ buffer' = [buffer EXCEPT ![n] = IF up THEN <<>> ELSE @]
    /\ UNCHANGED <<ric, wired, desk, level, aligned, tick, history, left>>

\* Only a shorter delay matters to the order of arrival.
SetFeederLinkDelay(n) ==
    /\ level[n] < MaxLevel
    /\ level' = [level EXCEPT ![n] = @ + 1]
    /\ UNCHANGED <<ric, wired, desk, feeder, buffer, air, aligned, tick,
                   history, left>>

\* HandleIndication: whoever has the route of the subscription now.
Receivers(n, ind) ==
    {r.xapp : r \in {q \in routes : q.id = ind.sub /\ n \in wired}}

Dispatch(n, inds) ==
    handed' = [handed EXCEPT ![n] = @ \o [i \in DOMAIN inds |->
                  [id |-> inds[i].id, level |-> inds[i].level]]]

\* The i-th report in the air arrives.
DeliverReport(n, i) ==
    /\ \A j \in 1 .. i - 1 : air[n][j].level < air[n][i].level
    /\ air' = [air EXCEPT ![n] = RemoveAt(@, i)]
    /\ IF n \in conf.align
       THEN /\ aligned' = [aligned EXCEPT ![n] = Append(@, air[n][i])]
            /\ tick' = [tick EXCEPT ![n] = TRUE]
            /\ UNCHANGED handed
       ELSE Dispatch(n, <<air[n][i]>>) /\ UNCHANGED <<aligned, tick>>
    /\ UNCHANGED <<ric, wired, desk, feeder, level, buffer, emitted, dropped,
                   left>>

\* Fault: a tick hands over the first report only.
SlipDispatchAlignedIndications(n) ==
    /\ tick[n]
    /\ Dispatch(n, <<Head(aligned[n])>>)
    /\ aligned' = [aligned EXCEPT ![n] = Tail(@)]
    /\ tick' = [tick EXCEPT ![n] = FALSE]
    /\ UNCHANGED <<ric, wired, desk, feeder, level, buffer, air, emitted,
                   dropped, left>>

DispatchAlignedIndications(n) ==
    /\ tick[n]
    /\ Dispatch(n, aligned[n])
    /\ aligned' = [aligned EXCEPT ![n] = <<>>]
    /\ tick' = [tick EXCEPT ![n] = FALSE]
    /\ UNCHANGED <<ric, wired, desk, feeder, level, buffer, air, emitted,
                   dropped, left>>

Progress(n) == (\E i \in DOMAIN air[n] : DeliverReport(n, i))
               \/ DispatchAlignedIndications(n)

Next ==
    \/ \E x \in Xapp : Start(x) \/ Stop(x) \/ Suspend(x) \/ Resume(x)
    \/ \E n \in Node :
        \/ RegisterE2Node(n) \/ DeregisterE2Node(n)
        \/ \E u \in Ue, weak \in BOOLEAN : SubmitKpmMeasurement(n, u, weak)
        \/ \E id \in timers[n] : PeriodicReportTimer(n, id)
        \/ \E b \in BOOLEAN : SetFeederLinkAvailable(n, b)
        \/ SetFeederLinkDelay(n)
        \/ Progress(n)

Spec == Init /\ [][Next]_vars

\* Reports in the air and ticks are scheduled events; an orbit opens and
\* closes the feeder link again and again.
FairSpec == Spec /\ \A n \in Node :
    /\ WF_vars(Progress(n))
    /\ WF_vars(\E b \in BOOLEAN : b # feeder[n] /\ SetFeederLinkAvailable(n, b))
-----------------------------------------------------------------------------
\* The types, one route per subscription, and a buffer within its limit.
E2TypeOK ==
    /\ registered \subseteq wired /\ wired \subseteq Node
    /\ left \subseteq wired
    /\ routes \subseteq Route /\ nextSub \in 1 .. MaxSub + 1
    /\ \A r, q \in routes : r.id = q.id => r = q
    /\ xstate \in [Xapp -> States]
    /\ xsubs \in [Xapp -> SUBSET (1 .. MaxSub)] /\ cycles \in [Xapp -> Nat]
    /\ conf \in [kpm : SUBSET Node, align : SUBSET Node,
                 periodic : SUBSET Node]
    /\ subs \in [Node -> SUBSET Sub]
    /\ timers \in [Node -> SUBSET (1 .. MaxSub)]
    /\ latest \in [Node -> SUBSET Ue]
    /\ feeder \in [Node -> BOOLEAN] /\ level \in [Node -> 0 .. MaxLevel]
    /\ \A s \in {buffer, air, aligned} : s \in [Node -> Seq(Indication)]
    /\ \A n \in Node : Len(buffer[n]) <= MaxBuffer
    /\ tick \in [Node -> BOOLEAN]
    /\ emitted \in 0 .. MaxInd /\ dropped \subseteq 1 .. MaxInd
    /\ handed \in [Node -> Seq(Handed)]

\* Everything a node has emitted and not dropped, oldest place first.
Path(n) == handed[n] \o aligned[n] \o air[n] \o buffer[n]

\* What a node reports keeps its order through buffer, link and tick: only a
\* delay shortened in between lets one report overtake another.
InOrder ==
    \A n \in Node : \A i, j \in DOMAIN Path(n) : i < j =>
        LET a == Path(n)[i]
            b == Path(n)[j]
        IN a.id < b.id \/ (a.id > b.id /\ a.level > b.level)

\* Every report made is with one node or counted as dropped, never both and
\* never with two: an outage loses none without a trace.
OnePlace ==
    /\ 1 .. emitted = dropped \cup UNION {Ids(Path(n)) : n \in Node}
    /\ \A n \in Node :
        /\ Ids(Path(n)) \cap dropped = {}
        /\ \A m \in Node \ {n} : Ids(Path(n)) \cap Ids(Path(m)) = {}

\* What a node hands over is heard only under subscriptions that are held.
OwnHeard(n) ==
    \A ind \in Range(air[n] \o aligned[n]) :
        (\E i \in DOMAIN handed'[n] \ DOMAIN handed[n] : handed'[n][i].id = ind.id)
        => \A x \in Receivers(n, ind) : /\ xstate[x] \in {"RUNNING", "SUSPENDED"}
                                        /\ ind.sub \in xsubs[x]
\* An indication reaches an xApp only under a subscription the xApp holds at
\* that moment: what was under way when it stopped is heard neither by it,
\* nor by its next life, nor by anybody else (HandleIndication).
OnlyOwn == [][\A n \in Node : OwnHeard(n)]_vars

\* What an xApp has set up is there exactly as long as it needs it: a route
\* and a subscription on the node for each id it holds, a report timer for
\* each that is periodic, one decision event while it runs.  Only a node that
\* was deregistered may keep what it should have forgotten.
NothingLeftBehind ==
    /\ \A x \in Xapp :
        /\ xsubs[x] = {r.id : r \in {q \in routes : q.xapp = x}}
        /\ cycles[x] = (IF xstate[x] = "RUNNING" THEN 1 ELSE 0)
        /\ xsubs[x] # {} => xstate[x] \in {"RUNNING", "SUSPENDED"}
    /\ \A n \in Node :
        /\ n \notin left =>
              subs[n] = {[id |-> r.id, xapp |-> r.xapp] :
                            r \in {q \in routes : q.node = n}}
        /\ timers[n] = {s.id : s \in {t \in subs[n] : ~Required[t.xapp].event}}

\* A report that is not dropped to make room arrives, whatever happens to the
\* link and to the tick.
Waiting(n, id) == \E ind \in Range(aligned[n] \o air[n] \o buffer[n]) :
                      ind.id = id
ReportsArrive == \A n \in Node, id \in 1 .. MaxInd :
                     Waiting(n, id) ~> ~Waiting(n, id)
=============================================================================
