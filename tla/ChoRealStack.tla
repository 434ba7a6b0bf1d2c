---------------------------- MODULE ChoRealStack ----------------------------
(***************************************************************************)
(* The closed loop of the scenario ntn-cho-real-stack: a decision tick     *)
(* every second feeds the algorithm with measurements, asks it for the     *)
(* best candidate and executes it for UE 0; the radio answers through the  *)
(* callback, and later through its HandoverEndOk trace.  The radio runs    *)
(* its own A3 algorithm besides, and the trace carries the handovers of    *)
(* every UE: the loop drops the imsi.  One time unit is one second, and    *)
(* t304 and the other delays are in seconds.                               *)
(* With two cells this is the scenario; with more it is the same loop with *)
(* as many neighbours as ntn-cho-full-constellation prepares.              *)
(*                                                                         *)
(* A handover of UE 0 has two phases: while inFlight is another cell than  *)
(* ueCell it is being prepared, and the UE is where it was; once inFlight  *)
(* is ueCell the UE is joining its target, and the trace is still to come. *)
(*                                                                         *)
(* hist is history: what an observer of the loop and of the radio knows    *)
(* and the algorithm has to reconstruct.  No action reads it.              *)
(***************************************************************************)
EXTENDS NtnChoAlgorithm

CONSTANTS
    InitialCell,   \* the cell the UE attaches to first, g_servingCellId
    Lossy,         \* the radio may refuse or lose a handover
    NumUes         \* numUes; the cells of UEs other than 0 are not kept

\* The scenario puts the initial cell on satellite 0, beam 0.
ASSUME RealStackAssumption ==
    /\ InitialCell \in Cells /\ ZeroSat = InitialCell
    /\ \A k \in Configs : Cardinality(Cells) <= k.maxCandidates
    /\ Lossy \in BOOLEAN /\ NumUes \in Nat \ {0}
    /\ HasCallback

VARIABLES
    lastChosen,    \* g_serving
    ueCell,        \* the cell of UE 0's physical layer, NoCell once released
    inFlight,      \* target of the handover of UE 0 under way, or NoCell
    request,       \* target of the DoHandoverRequest event to run, or NoCell
    running,       \* the program has not aborted
    tickDue,       \* the decision tick of this second is still to run
    hist

\* attached: time since UE 0 came to ueCell.  held: time since a cell was first
\* reported above the A3 threshold over the algorithm's serving cell, without a
\* break.  good: time since it was first reported above the quality threshold.
\* reports: how many reports in a row had it above the LTM threshold.  All are
\* capped where the configuration stops looking.  mine: the last completion the
\* algorithm was told of was UE 0's.  inStep: since the loop, the algorithm and the
\* radio last agreed on the cell, UE 0 was moved by the loop alone, each time as it
\* asked, and no other UE was.
Histories == [attached : Nat, held : [Cells -> Ages], good : [Cells -> Ages],
              reports : [Cells -> Nat], mine : BOOLEAN, inStep : BOOLEAN]

NewHistory == [attached |-> 0, held |-> [c \in Cells |-> NotMet],
               good |-> [c \in Cells |-> NotMet],
               reports |-> [c \in Cells |-> 0], mine |-> TRUE, inStep |-> TRUE]

\* The age of a condition observed once more, met or not.
Since(met, age) == IF ~met THEN NotMet ELSE IF age < 0 THEN 0 ELSE age

Observed(h, m) ==
    LET k == cho.config
        serving == cho.serving
        neighbour(c) == c # serving
        more(n) == IF n = k.ltmReports THEN n ELSE n + 1
    IN  [h EXCEPT
           !.held = [c \in Cells |->
               Since(neighbour(c) /\ m[c] > m[serving] + k.a3Offset, @[c])],
           !.good = [c \in Cells |-> Since(m[c] >= k.quality, @[c])],
           !.reports = [c \in Cells |->
               IF neighbour(c) /\ m[c] >= m[serving] + k.ltmHyst
               THEN more(@[c]) ELSE 0]]

\* The algorithm is told that c serves the UE, of UE 0 or of another one.
Arrived(h, c, own, agreed) ==
    [h EXCEPT !.held[c] = NotMet, !.reports[c] = 0,
              !.mine = own, !.inStep = agreed]

OutOfStep(h) == [h EXCEPT !.inStep = FALSE]

Older(h) ==
    LET k == cho.config
    IN  [h EXCEPT !.attached = Later(@, k.dwell),
                  !.held = [c \in Cells |-> Later(@[c], k.a3Ttt)],
                  !.good = [c \in Cells |-> Later(@[c], k.a3Ttt)]]

radioVars == <<ueCell, inFlight, request, running>>
stackVars == <<cho, world, lastChosen, radioVars, tickDue, hist>>

\* SetServingCell, then AddCandidateCell for every cell, the initial one included.
Connected(k) ==
    [SetServing(NewAlgorithm(k), InitialCell) EXCEPT
        !.cands = [c \in Cells |-> NewCandidate(c)], !.state = "PREPARED"]

StackInit ==
    /\ \E k \in Configs : cho = Connected(k) /\ world \in SkyFor(k)
    /\ lastChosen = InitialCell /\ ueCell = InitialCell
    /\ inFlight = NoCell /\ request = NoCell
    /\ running = TRUE
    /\ tickDue = TRUE
    /\ hist = NewHistory

\* The measurements and slant ranges of one tick, m[c] reported under cell id c.
Sampled(r, x) == IF r = Absent THEN Absent
                 ELSE [r EXCEPT !.sinr = x, !.l1Sinr = x, !.slant = TRUE]
MeasureAll(s, m) ==
    [s EXCEPT !.cands = [c \in Cells |-> Sampled(@[c], m[c])],
              !.servSinr = m[s.serving],
              !.serv.sinr = m[s.serving], !.serv.slant = TRUE,
              !.servCell = s.serving, !.have = TRUE]

ChoTick(m) ==
    LET seen == Evaluate(MeasureAll(cho, m), world)
        chosen == SelectBestCandidate(seen, world)
    IN  /\ running /\ tickDue /\ ~Due(cho)
        /\ tickDue' = FALSE
        /\ UNCHANGED <<world, ueCell, inFlight, running>>
        /\ \/ /\ chosen \in {lastChosen, NoCell, seen.serving}
              /\ cho' = seen
              /\ hist' = Observed(hist, m)
              /\ UNCHANGED <<lastChosen, request>>
           \/ /\ chosen \notin {lastChosen, NoCell, seen.serving}
              /\ lastChosen' = chosen
              /\ \/ /\ chosen # ueCell
                    /\ cho' = Execute(seen)
                    /\ request' = chosen
                    /\ hist' = Observed(hist, m)
                 \/ /\ chosen = ueCell \/ Lossy   \* TriggerHandover refuses
                    /\ cho' = Notify(Execute(seen), chosen, FALSE)
                    /\ hist' = OutOfStep(Observed(hist, m))
                    /\ UNCHANGED request

Decide == \E m \in [Cells -> SinrsFor(cho.config)] : ChoTick(m)

\* No transport block received yet on the serving cell: the tick does nothing.
ChoTickNoSample ==
    /\ running /\ tickDue /\ ~Due(cho)
    /\ tickDue' = FALSE
    /\ UNCHANGED <<cho, world, lastChosen, radioVars, hist>>

-----------------------------------------------------------------------------
(* The radio.  Only HandoverEndOk reaches the algorithm.                   *)

\* UE 0 is attached and its gNB has it CONNECTED_NORMALLY.
Idle == running /\ ueCell # NoCell /\ inFlight = NoCell

\* The event TriggerHandover scheduled.  NrUeManager::PrepareHandover is fatal for a
\* UE in a handover already, and the UE is not to be asked for the cell it is on.
RequestRuns ==
    /\ running /\ request # NoCell
    /\ request' = NoCell
    /\ \/ Idle /\ ueCell # request /\ inFlight' = request /\ UNCHANGED running
       \/ ~(Idle /\ ueCell # request) /\ running' = FALSE /\ UNCHANGED inFlight
    /\ UNCHANGED <<cho, world, lastChosen, ueCell, tickDue, hist>>

\* The A3-RSRP algorithm of the radio starts a handover of UE 0; it leaves a UE alone
\* that is in one.
RadioHandover(c) ==
    /\ Idle /\ c # ueCell
    /\ inFlight' = c
    /\ hist' = OutOfStep(hist)
    /\ UNCHANGED <<cho, world, lastChosen, ueCell, request, running, tickDue>>

\* UE 0 obeys the handover command: its physical layer is on the target.
HandoverMoves ==
    /\ running /\ inFlight \notin {NoCell, ueCell}
    /\ ueCell' = inFlight
    /\ hist' = [hist EXCEPT !.attached = 0]
    /\ UNCHANGED <<cho, world, lastChosen, inFlight, request, running, tickDue>>

\* The path is switched.
HandoverEndOk ==
    /\ running /\ inFlight # NoCell /\ inFlight = ueCell
    /\ inFlight' = NoCell
    /\ cho' = Notify(cho, ueCell, TRUE)
    /\ hist' = Arrived(hist, ueCell, TRUE, ueCell = lastChosen)
    /\ UNCHANGED <<world, lastChosen, ueCell, request, running, tickDue>>

\* The target refuses, and the UE stays.
PreparationFails ==
    /\ running /\ Lossy
    /\ inFlight \notin {NoCell, ueCell}
    /\ inFlight' = NoCell
    /\ hist' = OutOfStep(hist)
    /\ UNCHANGED <<cho, world, lastChosen, ueCell, request, running, tickDue>>

\* The joining or the leaving timeout of the gNBs, or the random access, fails: the
\* UE is released and does not come back.
HandoverLost ==
    /\ running /\ Lossy
    /\ inFlight # NoCell
    /\ inFlight' = NoCell /\ ueCell' = NoCell
    /\ hist' = OutOfStep(hist)
    /\ UNCHANGED <<cho, world, lastChosen, request, running, tickDue>>

\* A handover of another UE ends on c, and the algorithm is told as if it were UE 0's.
OtherUeEnds(c) ==
    /\ running /\ NumUes > 1
    /\ cho' = Notify(cho, c, TRUE)
    /\ hist' = Arrived(hist, c, FALSE, FALSE)
    /\ UNCHANGED <<world, lastChosen, radioVars, tickDue>>

-----------------------------------------------------------------------------

OnlyCho == UNCHANGED <<lastChosen, radioVars, tickDue, hist>>
T304Fires == running /\ T304Event /\ OnlyCho
OldT304Fires == running /\ OldT304Event /\ OnlyCho

\* A handover may outlast the second, and T304 as well: the timeouts of the gNBs are
\* attributes.
Second ==
    /\ running /\ ~tickDue /\ request = NoCell /\ ~Due(cho)
    /\ tickDue' = TRUE
    /\ cho' = Elapse(cho)
    /\ world' \in SkyFor(cho.config)
    /\ hist' = Older(hist)
    /\ UNCHANGED <<lastChosen, radioVars>>

\* An abort ends the program.
StackNext ==
    \/ Decide
    \/ ChoTickNoSample
    \/ RequestRuns
    \/ \E c \in Cells : RadioHandover(c)
    \/ HandoverMoves
    \/ HandoverEndOk
    \/ PreparationFails
    \/ HandoverLost
    \/ \E c \in Cells : OtherUeEnds(c)
    \/ T304Fires \/ OldT304Fires
    \/ Second

StackSpec == StackInit /\ [][StackNext]_stackVars

\* The simulator runs every event it has scheduled, the radio ends every handover
\* one way or the other, and the UE's traffic keeps samples coming.
RadioGoesOn == HandoverMoves \/ HandoverEndOk \/ PreparationFails \/ HandoverLost

StackFairness ==
    /\ SF_stackVars(Decide)
    /\ WF_stackVars(RequestRuns)
    /\ WF_stackVars(RadioGoesOn)
    /\ WF_stackVars(T304Fires)
    /\ WF_stackVars(OldT304Fires)
    /\ WF_stackVars(Second)

FairStackSpec == StackSpec /\ StackFairness

-----------------------------------------------------------------------------
(* Safety.                                                                 *)

StackTypeOK ==
    /\ TypeOK
    /\ lastChosen \in Cells
    /\ {ueCell, inFlight, request} \subseteq Cells \cup {NoCell}
    /\ {running, tickDue} \subseteq BOOLEAN
    /\ hist \in Histories

\* Between the moves of UE 0.
Settles == ueCell \notin {NoCell, inFlight}

\* The algorithm's serving cell is the cell of UE 0 except while UE 0 is joining a
\* target or released, and except after another UE's completion until the next one
\* of UE 0's: whatever was decided, refused, failed, late, or done by the radio.
ServingIsRadioCell == hist.mine /\ Settles => cho.serving = ueCell

\* (Fails, see README.)  GetServingCellId "reflects where the UE actually is".
ServingIsWhereUeIs == Settles => cho.serving = ueCell

\* (Fails, see README.)  No request meets a handover of the radio's own, nor one the
\* algorithm has given up.
NeverAborts == running

\* An execution does not drain the table: the cell left becomes a neighbour, so
\* every cell stays either the serving cell or a candidate.
NeighboursKept == Known(cho.cands) \cup {cho.serving} = Cells

\* The serving record and every candidate record name their own satellite and
\* beam, through any sequence of handovers and re-armings.
GeometryOwn == /\ \A c \in Known(cho.cands) : cho.cands[c].sat = c
               /\ cho.have => cho.serv.sat = cho.servCell

\* T304 runs exactly while an execution is waiting for the radio's answer.
T304GuardsExecution == (cho.t304 # Off) <=> (cho.state = "EXECUTING")

-----------------------------------------------------------------------------
(* Action properties: what a decision to hand over rests on.  A decision   *)
(* is the step that changes lastChosen, and names its target.              *)

Decides(trigger) == lastChosen' # lastChosen /\ cho.config.trigger = trigger

\* A3: the target was reported above the cell taken for the serving one, by the
\* offset, in every report of the last a3TimeToTrigger; D2 combined with A4: above the quality
\* threshold in every one of them.
TttHonoured ==
    [][/\ Decides("EVENT_A3") => hist'.held[lastChosen'] >= cho.config.a3Ttt
       /\ Decides("DISTANCE_D2") /\ cho.config.combineWithA4 =>
             hist'.good[lastChosen'] >= cho.config.a3Ttt]_stackVars

\* (Does not hold, see README.)  Beam dwell: the UE has been on its serving beam
\* for beamDwellThreshold.
DwellRespected ==
    [][Decides("TIME_BASED") => hist.attached >= cho.config.dwell]_stackVars

\* (Does not hold, see README.)  LTM: the last ltmConsecutiveReports reports
\* all had the target above.
ReportsConsecutive ==
    [][Decides("LTM_CONDITIONAL") =>
          hist'.reports[lastChosen'] >= cho.config.ltmReports]_stackVars

\* The cell c lasts longer than d, or both outlast the prediction.
Outlasts(c, d) == \/ world[c].exit > world[d].exit
                  \/ /\ world[c].exit >= cho.config.horizon
                     /\ world[d].exit >= cho.config.horizon

\* A19: where a better time to exit is required and none is given away for a
\* stronger signal, a handover is to a cell that lasts longer than the one taken for
\* the serving one, unless both outlast the prediction.
OutlastsServing ==
    [][Decides("TTE_AWARE") /\ cho.config.requireBetter /\ cho.config.tteEpsilon = 0
          => Outlasts(lastChosen', cho.serving)]_stackVars

-----------------------------------------------------------------------------
(* Liveness.                                                               *)

\* The algorithm keeps proposing a cell the loop takes for the one it is on.
Ignored == /\ SelectBestCandidate(cho, world) = lastChosen
           /\ lastChosen # cho.serving

\* No execution is under way for ever, and no proposal is ignored for ever as long as
\* the loop, the algorithm and the radio are in step: a later attempt is made.
AttemptedAgain ==
    []<>(running => cho.state # "EXECUTING" /\ (hist.inStep => ~Ignored))

\* (Fails, see README.)  The same, in step or not.
AlwaysAttemptedAgain == []<>(running => cho.state # "EXECUTING" /\ ~Ignored)
=============================================================================
