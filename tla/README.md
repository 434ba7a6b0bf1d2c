# TLA+ models of the NTN toolkit

The repository is a fork of ns-3 with a toolkit for non-terrestrial networks on
top: satellites, conditional handover, O-RAN control, and reinforcement-learning
agents in a process of their own.  The models here are about the toolkit's own
control logic, `contrib/ntn-*`, `contrib/oran-ntn`, `contrib/ns3-ai-ntn` and
`contrib/thz-ntn`; ns-3 (`src/`) and the vendored radio stacks (`contrib/nr`,
`contrib/mmwave`) are the environment.

Paths below are relative to the root of the repository.  `ALG` stands for
`contrib/ntn-cho/model/ntn-cho-algorithm.cc`, `RS` for
`contrib/ntn-cho/examples/ntn-cho-real-stack.cc`.  Every definition and its lines
are in `PROJECT.json`, "map".

## 1. Inventory

A simulation is one thread that takes events from one queue; a method called from
an event runs to its end before anything else does.  So what can interleave is
events: timers, deliveries, callbacks of the radio, periodic ticks.  Real
concurrency exists in one place, between the simulator's process and an agent's.

| Part | State | Operations | Interacts with | What is hard |
|---|---|---|---|---|
| Conditional handover, `NtnChoAlgorithm` | candidate table, serving record, state, monitor event, T304 | add/remove/clear, measurements, evaluate, select, execute, complete, cancel | scenario ticks, radio callback, event queue | handles overwritten while their event is pending, timers that race completions, records copied with stale fields |
| Decision loop, `ntn-cho-real-stack` | the loop's own idea of the serving cell | a tick per second, execution callback, HandoverEndOk trace | CHO object, radio, a second UE | lost, late and unrequested handovers; completions of another UE; three ideas of the serving cell |
| Shared memory, `Ns3AiMsgInterfaceImpl` | four 8-bit semaphores, a flag, two structs | begin/end of send and receive on both sides | simulator process, agent process | two processes, no timeouts, deaths |
| Struct agent interface, `NtnAiInterface` | active flag | GetAction, NotifySimulationEnd | shared memory | torn or stale messages, the end reaching the agent |
| Gym interface, `OpenGymInterface`, `Ns3Env`, `Experiment` | handshake and end flags; observation, dirty and game-over flags; the child process | Notify, NotifySimulationEnd; step, reset, close; run, kill | shared memory that outlives simulators | a kill in the middle of an exchange, phases out of step |
| Xn handover, `NtnXnHandover` | pending procedures by UE, admission flags | start, six messages | ISL messages with delay | no timer, overwritten and late procedures, cancels |
| Custody queue, `SaginCustodyQueue` | FIFO with bytes and ages, contact | offer, contact up/down, expire, drain | contact plan, forwarder | capacity, expiry, a refused drain |
| E2 node and termination, `OranNtnE2Node`, `OranNtnE2Termination` | subscriptions, report timers, outage buffer, aligned queue, routes | subscribe, measure, report, deliver, act, feeder up/down | xApps, near-RT RIC, feeder link | bounded buffer, reports in flight, delays that change |
| xApp base, `OranNtnXappBase` | state, subscriptions, decision event, times of its handovers | start, stop, suspend, resume, submit | RIC, E2 termination | events and subscriptions left behind |
| Near-RT RIC and conflict manager | recent actions under three keys | policy check, conflict check, prune, route | xApps, A1, E2 | pairs no key brings together, window edges, actions that fail after they were accepted |
| FAPI bridge | slot times, HARQ ids | scheduling trace, PHY receive | MAC, PHY traces | one-shot entries shared by UEs |
| Inference channel | socket, pending requests | send, try-receive, accept | inference server | a timeout inside a frame |
| DRX, RACH, timing advance, SIB19, reports | timers | per-slot and per-message | RRC | timer interplay |
| Slices, routing, V2X, THz MAC, orbits, twin, observability | mostly real-valued | formulas, averages, schedulers | | numerics rather than order |

What makes each of the modelled parts correct:

* **CHO object** - its records stay well formed whatever is called; an execution
  is always supervised by T304 and ends.
* **CHO loop** - the algorithm knows the cell UE 0 is on, unless another UE's
  completion has misled it; handovers do not drain the candidate table or mix up
  satellites; a decision rests on conditions that really held as long as
  configured, and improves on the cell taken for the serving one; executions end,
  and in step with the radio proposals are not ignored for ever.
* **Tie-break** - the chosen candidate is not dominated.
* **Shared memory** - messages are exclusive, an action answers the observation it
  was asked for, a living agent answers, the end arrives.
* **Xn handover** - a reported success means that the target has the PDCP state, a
  failure that it has not; one outcome per procedure; only a loss leaves it open.
* **Custody** - packets and bytes are accounted for, nothing stale or out of order is
  delivered, custody ends.
* **E2 indications** - every report is in one place or counted as dropped, arrives in
  order and only under a subscription held now; stopping leaves nothing behind.
* **RC actions** - of two conflicting accepted actions the later one won, and the
  nodes execute in the order of acceptance; no xApp exceeds the handover rate by
  itself (together, within one scope, they may: section 3).
* **Gym** - handshake and steps stay in phase across restarts; actions are for the
  state just sent; resets and ends terminate.

The hazards, each at its line, are in `PROJECT.json`.

## 2. Modules

```
ChoCandidates         candidate records, the eight triggers, the selection  (pure)
  NtnChoAlgorithm     the object, its events and time
    MCNtnCho          instance: the object called in any order
    ChoRealStack      the closed loop with a radio
      NtnChoProofs    theorems about the object and about the loop
      MCChoRealStack  instances
TieBreakWalk          the tie-break loop, any length     TieBreakWalkProofs, MCTieBreakWalk
Ns3AiMsgInterface     semaphores and flag, the eight calls
  AiChannel           GetAction against an agent, field by field
                      (INSTANCE Exchange)    AiChannelProofs, MCAiChannel
  GymSession          handshake, steps, resets, kills    GymSessionProofs
Exchange              what GetAction promises
XnHandover            gNBs on satellites and the messages between them
                      XnHandoverProofs, MCXnHandover
LossyFifo             what a store-and-forward buffer promises
  CustodyQueue        the queue and its contact (INSTANCE LossyFifo)
                      CustodyQueueProofs, MCCustodyQueue
E2Interface           xApps, termination, nodes: the indication path
                      E2InterfaceProofs, MCE2Interface
RcActions             RC actions, their keys and families  (pure)
  NearRtRic           the control path                NearRtRicProofs, MCNearRtRic
```

`E2Interface` and `NearRtRic` model the two directions of the same link.  They share
no state but the feeder delay and the set of registered nodes, and no property
relates a report to an action, so they are not composed: a composition would only
multiply the states.

Definitions named `Slip...` are not the code: each is a plausible mistake in the
definition after it, and `PROJECT.json`, "mutants", says which property it breaks.

### 2.1 ChoCandidates, NtnChoAlgorithm

The object is one record `cho`; each method is an operator from the object it finds
to the object it leaves, so inline calls compose and stay one step, as they do in a
single-threaded simulator.

| Model | Code |
|---|---|
| `cho.cands[c]`, `Absent` | `m_candidates` |
| `cho.serving`, `dwell` | `m_servingCellId`, time since `m_servingSince` |
| `cho.have`, `servCell`, `serv` | `m_haveServingState`, `m_servingState` |
| `cho.mon`, `t304` | `m_monitorEvent`, `m_t304Event`: time until they fire, or `Off` |
| `cho.oldMon`, `oldT304` | events still in the queue whose handle was overwritten |
| `a3`, `a4` in a record | time since `a3MetSince`, `a4MetSince`, capped |
| `world[c]` | the answers of orbit predictor and time-to-exit estimator for a satellite |

Overwriting an `EventId` does not cancel the event.  That is why the orphans are
state: two calls of `StartMonitoring` or `ExecuteHandover` leave one behind, and it
fires.  A SINR is a small integer, a geometric condition one Boolean of the world,
a time to exit a natural number; the tables keep what thresholds and comparisons
tell apart.  `Configs` is a set, and a configuration is state, so `Configure` may be
called while a timer runs.

Left out: the trajectory-predictive and THz triggers, the mean filter of L1
(`ltmL1FilterK = 1`), the fallback of the T1 trigger to the serving cell's time to
exit (ALG:532-559, taken when `t1ThresholdEpoch` is zero; with an epoch T1 is a
condition of time, the geometric Boolean), and latency, ping-pong and mechanism
statistics.

### 2.2 ChoRealStack

`ChoTick` is one run of the tick of `RS`: measurements and ranges, evaluation,
selection, the guard, and `ExecuteHandover` with its callback.  `MeasureAll` is the
fold of `UpdateMeasurement` and `UpdateCandidateSlantRange` over the cells.  With two
cells the module is this scenario; with three it is the same loop with the
neighbours that `ntn-cho-full-constellation` prepares.

Four ideas of a cell are kept apart, because the code does: `lastChosen`
(`g_serving`, moved by the loop when it executes), `cho.serving` (moved by a
completion), `ueCell` (where UE 0's physical layer is) and `inFlight` (where a
handover of it goes).  A handover of UE 0 takes these steps:

| Step | Code |
|---|---|
| `request` set by `ChoTick` | `TriggerHandover` accepts, and schedules `DoHandoverRequest` |
| `RequestRuns` | the event: the source gNB prepares the target, or the program aborts |
| `RadioHandover` | instead of both: the A3-RSRP algorithm of the radio, which the scenario always installs (RS:316), starts one |
| `HandoverMoves` | the UE obeys the reconfiguration: `ueCell = inFlight` |
| `HandoverEndOk` | the path is switched; the trace tells the algorithm |
| `PreparationFails`, `HandoverLost` | the target refuses; a timeout of the gNBs or the random access ends it, and the UE is released |

A tick, a T304 expiry, seconds and completions of others may fall between any two of
them, so a completion may come long after its T304.  `OtherUeEnds(c)` is the
completion of a UE other than 0: the trace is connected to every gNB and its
callback discards the imsi (RS:454-462), so the algorithm is told of it as if it were
UE 0's.  The cells of those UEs are not kept; any completion may come at any time.

`RequestRuns` aborts when the radio has a handover of UE 0 under way, or has finished
one to the very cell meanwhile: `PrepareHandover` is fatal for a UE that is not
`CONNECTED_NORMALLY` (`nr-gnb-rrc.cc`:779), and a request to a gNB the UE has left
finds no such UE.  An abort ends the program (`running`), and no action follows it.

`hist` is a history variable: what an observer of radio and reports knows.  Without
it "the condition held for the whole time to trigger" could only be stated with the
stamps of the code, which are what is in question.  Its `held` and `reports` are
about the cell the algorithm takes for the serving one, which is what it is told;
that this is the cell of UE 0 is `ServingIsRadioCell`, and needs `mine`: the last
completion was UE 0's.  `inStep` says that since the loop, the algorithm and the
radio last named one cell nothing but the loop moved UE 0, each time as it asked,
and no other UE completed a handover.

### 2.3 TieBreakWalk

The last loop of `SelectBestCandidate` (ALG:1089-1105), one iteration per step.
`ChoCandidates!TieBreak` states the same walk as a fold, for use inside one step.

### 2.4 Ns3AiMsgInterface, AiChannel, Exchange

`sem_wait` and `sem_post` are one step each: the compare-and-swap loop takes effect
at the exchange that succeeds.  Counts are 8-bit and wrap.  `AiChannel` copies the
structs one field at a time, in any order, so that overlapping copies would show.
The agent is the receive-compute-send loop of
`contrib/ns3-ai-ntn/examples/a-plus-b/use-msg-stru/apb.py`; it may die at any step.
`Exchange` is the promise: ask, answer, return `Policy[question]`, once finished
never again.  The refinement maps the question to the argument of `GetAction`, the
action to its last result, and the phase to the positions of the call.

### 2.5 GymSession

Simulators come and go over one shared memory.  `AiChannel` shows that copies do not
overlap, so here a message is one value that is written and posted, or read and
released, in one step, while the wait before it is a step of its own: a kill may fall
between.  Messages carry the fields the protocol looks at; a message parsed as
another kind is modelled by what protobuf makes of the shared field numbers
(`stopSimReq` is field 2 of `SimInitAck` and of `EnvActMsg`).  `clean` is history:
all simulators so far started on fresh semaphores.  The properties assume it; that
the code does not ensure it is the first of the disagreements below.

### 2.6 XnHandover

One step per message received (`contrib/ntn-constellation/model/ntn-xn-handover.cc`).

| Model | Code |
|---|---|
| `pending`, a set of records with their gNB and UE | `m_pending` of every gNB |
| `admit`, `regen` | `m_admit`, `m_regenerative` |
| `net` | events the scenario schedules with `GetPeerDelay` |
| `Sn` | DL and UL PDCP SN and HFN; the message carries all three, of which the target keeps the DL SN and the HFN (`m_lastDlSn`, `m_lastHfn`) |

`proc` numbers the procedures; no guard reads it, since the messages of the code do
not carry it, and that is the hazard: an acknowledgement is matched by UE id only.
`net` is a set without order because every message has its sender's delay of the
moment, and delays change with the geometry.  The class never sends HANDOVER CANCEL
but handles it, so the scenario may send one.  `ContextMoved` speaks of the `clean`
procedures, those started when nothing of an earlier one of the UE was under way.

### 2.7 CustodyQueue, LossyFifo

`cq` is the object; `Expired`, `WithRoom`, `Pushed` and `Drained` are its steps from
object to object, and `Offer`, `SetContactUp` and `ExpireStale` are the calls
(`contrib/ntn-sagin/model/sagin-custody-queue.cc`).  Loops that pop from the front
are a number `k` of oldest items: those that are stale, those in the way of the new
packet, those the forwarder takes before it refuses.  Time is the age of each item.
`LossyFifo` says only that items leave once, delivered or not, and that what is
delivered keeps its order (of those that leave, some increasing choice of positions,
`Picks`, is handed on); the mapping takes the ids of the items held.

### 2.8 E2Interface

One state machine for the termination (`registered`, `routes`), the xApps (`xstate`,
`xsubs`, `cycles`: decision events pending) and the nodes (`subs`, `timers`,
`buffer`, `air`, `aligned`, `tick`).  `air` keeps the reports in the order sent; a
report overtakes an earlier one only if the delay was shortened in between, and
`level` counts the shortenings (`oran-ntn-ric-placement.cc` sets the delay while
reports are in the air).  The configuration of a node (KPM function, alignment,
whether a periodic subscription finds measurements) is chosen at the start.  The
guards on `xstate` are the callers' discipline, not checks of the code.

The code walks `std::map`s in the order of their keys.  `ById` is such a walk, of
subscriptions or of the reports made for them; `Granted` gives each connected node
the id of its rank, since every one of them takes an id, with the RAN function or
without.  Reports are numbered as they are made, and `dropped` keeps the numbers of
those `m_totalReportsDropped` counts, so that `OnePlace` can say of every report
where it is, which a counter could not.

### 2.9 RcActions, NearRtRic

`SubmitAction` is the whole call `SubmitAction` - `ProcessXappAction` - policy -
conflict manager - routing, with its three outcomes.  The conflict manager's keys are
strings; `GetResourceKey`, `SameFamily` and `SameUe` keep what makes two of them
equal.  Its three indices hold copies of one action; `recent` holds each once, and
`Related` says whether some index brings two together (lock-step: all copies are
stamped, pruned and consulted together).  `log` is history: who submitted what, when,
with which outcome; `recent` and the times `hoTimes` of an xApp's handovers are sets of
positions in it.  `hoTimes` is per xApp, as `m_recentHoTimes` is; `cap` is one, as the
check looks at every active policy whatever its scope.  Time, the window and the rate window are small numbers;
MERGE and ML_BASED resolve as CONFIDENCE does, and A1_GUIDED without an A1 source,
which only tests set, as PRIORITY.

## 3. Runs

| Run | Question | Instance |
|---|---|---|
| `MCNtnCho` | the object, every method in any order, every event | 1 cell, 2 configurations with T304 of 1 and 2, location trigger |
| `ChoSafety` | the closed loop: knowledge of the cell, table, geometry, decisions | 3 cells, 2 UEs, A3 (TTT 2), D2 with A4 (TTT 1, T304 1), TTE with epsilon 0; radio with losses and A3 |
| `ChoLive` | executions end; in step, nothing is ignored for ever | 2 cells, 2 UEs, TTE; the same radio |
| `TieBreakWalk` | no dominated choice | every sorted list of up to 4 candidates, 5 times, 3 SINRs, epsilon 1 |
| `AiChannel` | exclusion, its inductive invariant, refinement, liveness | structs of 2 fields with 2 values, all observations |
| `GymSession` | phases across restarts | 3 simulators of 2 control periods, one end each |
| `XnHandover` | outcomes true, single, and reached | 3 gNBs, 1 UE, 2 PDCP states; 2 starts, 1 loss, 1 cancel, 1 change of admission or payload |
| `CustodyQueue` | accounting, freshness, order, end of custody | 5 packets of 1, 2 or 4 bytes, capacity 3, lifetime 1 |
| `E2Interface` | reports: place, order, owner, arrival; nothing left behind | 1 node in all 8 configurations, 2 xApps (periodic and batching, event-driven and not), 2 subscriptions, 2 reports, buffer of 1, one shorter delay |
| `NearRtRic` | winners, order of execution, rate of each xApp | 2 xApps with 5 actions, 3 submissions in 3 time units, window 1, rate window 2, cap 0 or 1, 3 strategies |

Bounds, and why they are enough: a third cell lets a UE leave, come back and meet a
cell that was neither; a second UE, as in the scenario, is one whose completions name
any cell at any time, so more of them add nothing; T304 longer than a tick lets an
old timer meet a new execution; `ChoSafety` has two SINRs for A3
and D2, two times to exit for TTE, whose SINRs only break ties, and lets the geometric
condition of D2 always hold, so that its A4 half alone decides; a TTT of 2 is the first that a single gap can break in the middle;
`MaxOrphans = 1` leaves one orphan per due time, and since T304 is at most 2 an
orphan and its successor are always distinguishable; two fields are the least a copy
can tear; three simulators are the least for a used memory to be used again.
`maxCandidates` 4 is the default.  Two starts are the least for one handover to
overwrite another, and three gNBs let them have different targets while a cancel
comes from anywhere.  Capacity 3 with packets of 1, 2 and 4 lets a packet push out
none, one, two, or everything for nothing; ages saturate one above the lifetime, where
all comparisons are decided.  Two reports and a buffer of one fill it, and let one
report overtake another; two subscription ids let an xApp be stopped and started with
reports of its first life in the air.  One node is enough for the order, and
that two nodes never hold one report, the last line of `OnePlace`, is shown by the
proof instead.  Three submissions let a third action come
between two that conflict, and the node's actions are those of one xApp against the
other's by every key: same resource, same family, same UE across gNBs.  The liveness runs use the same bounds; no
fairness is asked of an action a bound disables.

Runs that show the code doing other than it says ("findings" in `PROJECT.json`):

| Run | What happens |
|---|---|
| `ChoOldT304` | T304 of a lost attempt ends the next execution |
| `RicRateCount` | a handover that loses its conflict still uses up the rate |

Other disagreements met while modelling.  The first eight are stated in the modules
as properties that do not hold.  The first four of them have a configuration of
their own, under which TLC shows how they fail; the others can be seen by naming them
in one:

* `ChoRealStack!ServingIsWhereUeIs` (`ChoTwoUes.cfg`, lossless radio), RS:457 - the
  HandoverEndOk callback discards the imsi, so a completion of the second UE moves the
  algorithm's serving cell while UE 0 stays where it is.
  `contrib/ntn-cho/model/ntn-cho-algorithm.h`:466 says that the serving cell "is
  committed by NotifyHandoverComplete() on CONFIRMED radio completion, so it reflects
  where the UE actually is".
* `ChoRealStack!AlwaysAttemptedAgain` (`ChoIgnored.cfg`, one UE, lossless radio),
  RS:146 - A3 moves UE 0 from cell 1 to cell 2, `g_serving` stays 1, and every
  proposal of cell 1 is ignored for ever.  The same follows a handover that was refused
  or lost, since RS:165 sets `g_serving = chosen` when it asks, and a completion of the
  other UE.  RS:310 says "the CHO decision below drives handovers explicitly via
  TriggerHandover".  `AttemptedAgain` is what is left: it holds while the loop, the
  algorithm and the radio are in step.
* `ChoRealStack!NeverAborts` (`ChoCollides.cfg`, one UE, lossless radio),
  `contrib/ntn-traffic/helper/ntn-real-stack-helper.cc`:1867 - `TriggerHandover`
  checks the cells and not whether the UE is in a handover; a request that meets one
  A3 has under way ends in the `NS_FATAL_ERROR` of `nr-gnb-rrc.cc`:779.  RS:313 says
  that the A3 values "damp the vendored algorithm so the two do not fight over the same
  UE": that makes it rare, and nothing excludes it.
* `NearRtRic!ScopeRateHonoured` (`RicScopeRate.cfg`),
  `contrib/oran-ntn/model/oran-ntn-xapp-base.cc`:501 - the cap is compared with the
  handovers of one xApp, so two xApps have one each within the window when the cap is
  one.  `oran-ntn-a1-interface.h`:63 documents it as "Max HO/min for this scope".
* `GymSession!SemaphoresReset`, `contrib/ns3-ai-ntn/python_utils/ns3ai_utils.py`:148
  - `reset` sends the close message and starts the next simulator, which begins with
  `kill`; one killed before it took the message leaves it posted, and the next takes
  it for the reply to its handshake.  `ns3_environment.py`:370 says the kill is
  avoided "in order for semaphores to reset to initial state".
* `ChoRealStack!DwellRespected`, ALG:1348 - a completion moves `m_servingCellId`
  without restamping `m_servingSince`, so from the second handover on the dwell is
  counted from an earlier cell (`Configs <- DwellConfigs`, `MaxDwell = 3`).
* `ChoRealStack!ReportsConsecutive`, ALG:1395 - a re-armed record keeps the
  `l1AboveCount` it had before its cell was served (`Configs <- LtmConfigs`,
  `LtmCap = 2`); ALG:1386 says "its condition timers reset".
* `TieBreakWalk!WithinEpsilonOfBest`, ALG:1095 - the loop compares with the running
  best, so a chain of near ties drifts away from the longest time to exit; ALG:1091
  says "within epsilon of the best TTE, pick highest SINR".
* `contrib/ntn-constellation/model/ntn-xn-handover.cc`:120 - "the target admitted, so
  move the PDCP state": the state goes to whichever target answered, also when a
  second `StartHandover` has meanwhile replaced the record.  Without `clean`,
  `ContextMoved` fails.
* `contrib/oran-ntn/model/oran-ntn-e2-interface.cc`:619 - `CheckBufferAge` has no
  caller; `oran-ntn-e2-interface.h`:80 calls `maxBufferAge` "Max age before discarding
  buffered reports".
* `contrib/oran-ntn/model/oran-ntn-xapp-base.cc`:190 - the methods of the life cycle
  check no state: a second `Start` of a running xApp subscribes again and leaves a
  second chain of decision events, of which `Stop` cancels one.  A node connected
  after `Start` gets no subscription.
* `contrib/oran-ntn/model/oran-ntn-conflict-manager.cc`:473 - "a pair reachable
  through two indices is judged once", but the indices hold copies and duplicates are
  recognised by address, so a pair is counted and logged up to three times; the
  verdict is the same each time.
* `oran-ntn-conflict-manager.cc`:306 and 374 - the policies live in a static vector
  that the second `MatchPolicy` assigns again, under the pointer the first returned.
  Only tests set the source.
* `oran-ntn-conflict-manager.cc`:531 - an action is recorded as accepted before
  routing, so one for a gNB that has no node refuses its rivals for a window.
* `oran-ntn-near-rt-ric.cc`:414 - an action refused by a lock notifies the xApp of the
  latest conflict of the last 100 ms, which may be another's.
* ALG:738 - the event `StartMonitoring` orphans is not cancelled by
  `StopMonitoring` ("Stop condition monitoring").
* ALG:1294 - a T304 expiry leaves the state idle; the comment above it says "go back
  to monitoring".
* ALG:1095 - with epsilon above 0 the tie-break may pick a cell below the serving
  one that the A19 rule had just compared the best with; `OutlastsServing` is about
  epsilon 0.
* ALG:306 - `SetServingCell` before `AddCandidateCell` gives the serving record
  satellite 0, beam 0, and nothing fills it in; harmless where, as in `RS`, the
  initial cell is satellite 0 (`ZeroSat = InitialCell` is assumed).
* RS:138 - the serving SINR is reported under the initial cell's id for the whole
  run, also after the UE has left it.
* `contrib/oran-ntn/examples/oran-ntn-gym-handover-example.cc`:327 and 341 - the
  environment is ended twice; the second end posts a state that nobody answers and
  the simulator waits for ever (`GymSession` with `EndCalls = 2`).
* `contrib/ns3-ai-ntn/model/msg-interface/ns3-ai-msg-interface.h`:218 - the finish
  message waits for a slot that a dead agent never frees.
* `contrib/ns3-ai-ntn/model/gym-interface/cpp/ns3-ai-gym-interface.cc`:195 - an
  aborted handshake leaves the agent waiting for a first state.

## 4. Fairness

* **CHO object** - the event queue fires what it holds and time moves on: weak
  fairness of `Tick` and of the four events.  Callers need not call.
* **CHO loop** - the same for the events, the scheduled request (`RequestRuns`) among
  them, and for `Second`; the radio ends every handover one way or the other
  (`RadioGoesOn`: its joining and leaving timeouts are 200 and 500 ms), weakly fair,
  and no fairness is asked of `RadioHandover`, of `OtherUeEnds`, or of either
  outcome.  `Decide` is strongly fair: a tick without a SINR sample is skipped and
  retried a second later, and traffic keeps samples coming, so a run of ticks
  without samples does not last for ever.
* **Processes** - each process is scheduled, and a wait that could succeed does,
  weakly fair.  With a single waiter per semaphore a token, once there, stays until
  taken, so weak fairness of the waiting process suffices.  The simulator need not
  ask again (`~CppAt("idle")`), the user need not call again (no fairness of
  `UserNext`), the agent may die.

* **Xn handover** - a message under way is an event of the simulator: some message is
  always received eventually, weakly fair; starts are bounded, so all of them are.
  Losing is another step, and no fairness is asked of it.
* **Custody** - time passes, and the orbit opens and closes the contact again and
  again, both weakly fair.  The forwarder may refuse for ever, and nobody need offer.
* **E2 indications** - deliveries and ticks are events of the simulator, and the
  feeder link comes and goes with the orbit, weakly fair.  Nobody need measure.

`CHECK_DEADLOCK FALSE` is set where programs end: after the finish message, after
`close`, or with a dead agent; in the runs of `ChoRealStack` when the program has
aborted; in `XnHandover` and `NearRtRic` when every bounded
call has been made and nothing is under way.

## 5. Proofs

Proved with TLAPS for every value of the constants that meets the named assumptions:

* **CHO object** (`NtnChoProofs!TypeCorrect`, `Supervision`) - `TypeOK` and
  `ExecutionSupervised`, for all sets of cells, of configurations, and all bounds.
  One lemma per method says that it maps an object to an object, one per helper what
  records and events it yields; the step case then has one step per action.  The
  conjunction of the two is inductive: the only action that enters `EXECUTING` arms
  the timer in the same step, every action that cancels the timer leaves
  `EXECUTING`, and firing it does too.  `TypeOK` is needed for the delay: `Elapse`
  takes one from a timer that is not due and not off, which stays a delay, and not
  `Off`, only because it was a positive one.
* **CHO loop** (`StackTypeCorrect`, `ServingIsTracked`, `TableNeverDrains`,
  `GeometryFollows`, `TimeToTrigger`) - `StackTypeOK`, `ServingIsRadioCell`,
  `NeighboursKept`, `GeometryOwn` and the action property `TttHonoured`, for any
  radio, any number of UEs, any triggers and any cells the table has room for.  The
  inductive invariant `StackInv` is `StackTypeOK`, `ServingIsRadioCell` and, of the
  object and the cell it takes for the serving one, `Settled`: serving cell and
  serving record name that cell; every other cell has a record, of its own
  satellite; a serving cell that is in the table too has no stamp; and a stamp claims
  no more than an observer of the reports knows (`Stamped`).  None of this asks where
  UE 0 is, so a completion of another UE keeps it like one of UE 0's does
  (`ArrivalKeeps`), and the theorems on decisions are about the cell taken for the
  serving one.  Where UE 0 is, `ServingIsRadioCell` says: a completion of UE 0's names
  the cell it is on, a move takes it off only to join a target, which it leaves by
  the next completion or for good, and after another UE's completion the property
  claims nothing until the next of UE 0's.  `Settled` and the types are needed for
  each other: a completion copies the serving record into the table, so its satellite must be
  right while it is not a candidate.  Types need that a selection names a cell of the
  table or none, for which a best candidate must exist (`BestExists`) and, with the
  tie-break, the walk of a list that ends somewhere in it (`WalkExists`).
* **A19** (`HandoversOutlast`) - the action property `OutlastsServing`, for every
  configuration, of the cell a decision leaves by the algorithm's account.  It needs
  more of the choice than that it is in the table: with
  epsilon 0 the walk starts at a cell that lasts longest and never leaves those that
  last as long (`TieBreakStays`, whose set `M` is an invariant of the walk), so what
  the rule compared with the serving cell is what is chosen.  And it needs that both
  times were computed for the right satellites in this very tick (`SeenExits`), which
  `Settled` gives.
* **Tie-break** (`TieBreakWalkProofs!LoopInvHolds`, `ChoiceNotDominated`) - the loop
  invariant, for lists of any length and any epsilon: a candidate passed and stronger
  than the running best lies more than epsilon below it.  When the best moves down to
  `i` the distance to a passed candidate must not shrink, which is where the order of
  the list enters; at the end `NotDominated` follows for `epsilon >= 0`.
* **Agent interface** (`AiChannelProofs!ChanInvariant`, `Exclusion`,
  `ChannelImplements`) - `ChanInv`, `NoTornCopy` and the refinement `Implements`, for
  structs of any fields and values and any policy; the agent may die anywhere.
  Exclusion alone is not inductive.  `Tokens` says that each struct is free, full or
  in one process's hands; `Turns` that the agent works only while the simulator waits
  for it and that the flag is up when the last message is posted; `Copies` that what
  has been copied so far, there and back, is what was meant.  `Tokens` bounds the
  counts by one, so no 8-bit post wraps, and needs `Turns` where a struct is handed
  back.  For the refinement `GetAction` asks, the agent's post answers, `CppRecvEnd`
  returns, the post after the flag finishes, and every other step stutters; `Copies`
  gives the returned action.  The lemmas about semaphores and the eight calls stand at
  the beginning, and again in the next item's module, where `sync` is another variable.
* **Gym** (`GymSessionProofs!GymTypeCorrect`, `KindsAgree`, `ActionsAreFresh`) -
  `GymTypeOK`, `ReadAsWritten` and `ActionFresh`, for any number of steps,
  simulators and ends.  `ReadAsWritten` looks only at the moment of a read, so the
  inductive invariant `GymInv` says in which phase of the protocol the pair is:
  `Shaking`, `Awaiting` a state, `Turn` of the agent, `Left` after a close, or `Gone`.
  Each phase fixes the position of both ends, the token and the kind of message under
  way.  `OneToken` holds through kills (a kill loses a token and makes none);
  `InStep`, the phases, is stated while `clean`.
* **Xn handover** (`XnHandoverProofs!XnTypeCorrect`, `ContextFollows`,
  `SingleOutcome`) - `XnTypeOK`, `ContextMoved` and `OneOutcome`, for any gNBs, UEs
  and PDCP states and any number of starts, losses, cancels and changes.  An outcome
  is reported on a message that names the UE and no procedure, so neither property is
  inductive.  `ChainInv` adds that a procedure has at most one message under way,
  addressed by its role (`OneToken`); that what is under way for the UE of a clean
  pending record is that record's own, goes to its target with its state, and is the
  release exactly when the target has the context (`OwnMessages`); and that a clean
  procedure with an outcome has nothing under way.  `Quiet` covers the steps that only
  take messages or records away, `Forward` those where an answer takes the place of a
  message; `StartChain` is where `clean` is needed (the new record's UE had nothing
  under way) and `FinishChain` where an outcome is shown to be about its record.
  `XnAssumption` keeps 0, the state of a message that carries none, out of `Sn`.
* **Custody** (`CustodyQueueProofs!CustodyTypeCorrect`, `EveryPacketCounted`,
  `NothingStaleDelivered`, `QueueIsFifo`) - `CustodyTypeOK`, `Accounted`,
  `FreshDelivery`, and the refinement of `LossyFifo`, for any capacity, lifetime and
  sizes.  The conjunction `CInv` of the three invariants is inductive; the work is in
  the operators.  `Bytes` is a recursive function, and that it splits where a front
  of the list is cut off (`BytesSplit`) is an induction.  Ages fall from the front,
  so the stale items are a front (`FrontSize`) and after `Expired` all that is left
  is fresh: this is why the loop of the code may stop at the first item that is not
  stale, and why the longest custody is that of the first item drained.  A call is
  then expiry, room, push and drain in a row, each of which loses a front of what
  there was (`Loses`) and keeps the counts; `HandedAfter` puts them together to one
  step of the FIFO, in which the last of those that leave are delivered.
* **E2 indications** (`E2InterfaceProofs!E2TypeCorrect`, `NothingStays`,
  `HeardByItsOwner`, `ReportsInOrder`, `NothingLost`) - `E2TypeOK`,
  `NothingLeftBehind`, `OnlyOwn`, `InOrder` and `OnePlace`, for any nodes and xApps,
  any buffer, and any number of reports, subscriptions and changes of the delay.  The
  inductive invariant `E2Inv` has two halves.  `Booked` is about the xApps and the
  termination: the routes are the record from which the xApps' ids, the nodes'
  subscriptions and the timers can be told, so it adds to `NothingLeftBehind` only
  what a new subscription needs, that ids not given yet are in no route, and what a
  deletion needs, that a route's node is registered or has left (`RoutesKnown`).
  `OnlyOwn` follows from it: an indication is handed on by its route, and a route is
  held by its xApp.  `Way` is about the reports: the sets of numbers a node holds,
  disjoint and complete (`Placed`), and the order of the four places (`Lined`).  The
  order is inductive only with three facts the property does not mention: the buffer
  is empty while the link is up, what is buffered is in the order of the numbers
  and follows everything ahead of it, and without alignment nothing is aligned.  A
  flush may then append the buffer to the air, at whatever level.  `EmitKeeps` is the
  step both ways of reporting share; `ArrivalKeeps` is where a report is taken out of
  the middle, and only past those with an older delay.
* **RIC** (`NearRtRicProofs!RicTypeCorrect`, `LaterWinnerStands`, `XappCapIsKept`,
  `OneXappKeepsScopeCap`, `WinnerHasTheLastWord`) - `RicTypeOK`,
  `AcceptedDominates`, the action property `XappRateHonoured`, and `LastWord`, for any xApps, actions, policies, windows and
  strategies.  `RicTypeOK` carries the strengthening: submissions are in the order of
  time, and every recorded action that is within the window is in `recent`, so the
  conflict check has seen each earlier action the property speaks of; likewise
  `hoTimes` holds at least the accepted handovers of the rate window.  All this is per
  xApp.  The cap of the scope, which fails with two (`RicScopeRate.cfg`), is proved where
  one xApp alone triggers handovers: every entry of the log is an action of its xApp
  (`OwnActions`), so the scope's handovers are that one's.  For `LastWord`
  the path of a node, what it executed and then what is under way, is one sequence: an
  execution moves one element from behind to before the point where the two meet, and
  the elements it passes have an older delay (`Place`).

The assumptions are the named `ASSUME`s (`ConfigAssumption`, `RealStackAssumption`,
`WalkAssumption`, `PolicyAssumption`, `GymAssumption`, `CustodyAssumption`,
`RicAssumption`, `E2Assumption`, ...), each where its constants are declared; TLC evaluates them in
every run.  `RealStackAssumption` says of the scenario that the initial cell is cell
0's satellite (`ZeroSat = InitialCell`, RS:436; `GeometryOwn` needs it, because the
serving record still names satellite 0 until the first completion) and that the table has room for all cells.

Induction over the naturals is used in `NtnChoProofs` and `CustodyQueueProofs` for one
set at a time: a set that holds 0 and every successor has no least element outside it,
`WFMin` of `WellFoundedInduction` with `<` as a set of pairs (`Induct`).

Only model-checked: the liveness properties of all runs, which are beyond the prover,
as is `ENABLED`.  Every other property of a passing run is a theorem.

## 6. Not modelled, and the plan

In this order:

1. `SemaphoreCas`: the compare-and-swap loop of `sem_wait`, refining the atomic one.
2. `FapiBridge`: slots, HARQ ids and their one-shot timing entries.
3. `InferenceChannel`: length-prefixed frames with timeouts, pending requests.
4. `Drx`, and `ContactGraph`: earliest arrival as a function, against all paths.

Not planned: floating-point geometry and link budgets (orbits, time to exit,
antennas, THz), statistics, output and plotting, code of ns-3 and vendored modules;
what they give to the modelled parts is nondeterministic there.
