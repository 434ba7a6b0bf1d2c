-------------------------- MODULE NtnChoAlgorithm --------------------------
(***************************************************************************)
(* One NtnChoAlgorithm object: its candidate table, its serving record,    *)
(* the periodic evaluation it schedules for itself, and the execution of a *)
(* handover guarded by T304.                                               *)
(*                                                                         *)
(* The object is the record cho.  Each method of the class is an operator  *)
(* from the object (and the method's arguments) to the object the method   *)
(* leaves behind, so a method that calls another one inline is the         *)
(* composition of the two and stays one atomic step, as it is in the       *)
(* single-threaded simulator.  Events that wait in the simulator's queue   *)
(* are kept as the time left until they fire.                              *)
(***************************************************************************)
EXTENDS ChoCandidates

CONSTANTS
    HasCallback,   \* SetHandoverExecutionCallback was called
    Sinrs,         \* the SINR values each trigger tells apart in a report
    Skies,         \* the Geometry values each trigger tells apart
    MaxOrphans     \* bound: events due together that no handle names any more

ASSUME ParameterAssumption ==
    /\ HasCallback \in BOOLEAN
    /\ Sinrs \in [Triggers -> SUBSET Int]
    /\ Skies \in [Triggers -> (SUBSET Geometry) \ {{}}]
    /\ MaxOrphans \in Nat

VARIABLES cho, world

Off == -1              \* an EventId that is not pending

States == {"IDLE", "PREPARED", "MONITORING", "EXECUTING"}

Delays == 0 .. MaxDelay

\* mon and t304 are the events m_monitorEvent and m_t304Event name.  A handle
\* that is overwritten does not cancel the event it named: oldMon[d] and
\* oldT304[d] count the events no handle names any more, due in d.
Objects ==
    [config : Configs, state : States, cands : Table,
     serving : Cells \cup {NoCell}, dwell : Nat,
     have : BOOLEAN, servCell : Cells \cup {NoCell}, serv : Candidate,
     servSinr : Int,
     mon : Delays \cup {Off}, oldMon : [Delays -> Nat],
     t304 : Delays \cup {Off}, oldT304 : [Delays -> Nat]]

NewAlgorithm(k) ==
    [config |-> k, state |-> "IDLE", cands |-> [c \in Cells |-> Absent],
     serving |-> NoCell, dwell |-> 0,
     have |-> FALSE, servCell |-> NoCell, serv |-> NewCandidate(ZeroSat),
     servSinr |-> DefaultSinr,
     mon |-> Off, oldMon |-> [d \in Delays |-> 0],
     t304 |-> Off, oldT304 |-> [d \in Delays |-> 0]]

SetConfig(s, k) == [s EXCEPT !.config = k]

\* What is left behind when the handle h is overwritten.
Orphaned(old, h) == IF h = Off THEN old ELSE [old EXCEPT ![h] = @ + 1]

-----------------------------------------------------------------------------
(* The candidate table and the serving record.                             *)

AddCandidate(s, c) ==
    IF Cardinality(Known(s.cands)) >= s.config.maxCandidates THEN s
    ELSE [s EXCEPT !.cands[c] = NewCandidate(c),
                   !.state = IF @ = "IDLE" THEN "PREPARED" ELSE @]

RemoveCandidate(s, c) == [s EXCEPT !.cands[c] = Absent]

Stop(s) == [s EXCEPT !.mon = Off]

Clear(s) ==
    LET t == [s EXCEPT !.cands = [c \in Cells |-> Absent]]
    IN  IF s.state \in {"PREPARED", "MONITORING"}
        THEN [Stop(t) EXCEPT !.state = "IDLE"]
        ELSE t

Measure(s, c, x) ==
    LET t == IF s.cands[c] = Absent THEN s
             ELSE [s EXCEPT !.cands[c].sinr = x, !.cands[c].l1Sinr = x]
    IN  IF c # s.serving THEN t
        ELSE [t EXCEPT !.servSinr = x, !.servCell = c,
                       !.serv.sinr = x, !.have = TRUE]

MeasureRange(s, c) ==
    LET t == IF s.cands[c] = Absent THEN s ELSE [s EXCEPT !.cands[c].slant = TRUE]
    IN  IF c # s.serving THEN t
        ELSE [t EXCEPT !.servCell = c, !.serv.slant = TRUE, !.have = TRUE]

SetServing(s, c) ==
    LET t == [s EXCEPT !.serving = c, !.dwell = IF c = s.serving THEN @ ELSE 0]
    IN  IF s.cands[c] # Absent
        THEN [t EXCEPT !.serv = s.cands[c], !.servCell = c,
                       !.have = s.cands[c].slant]
        ELSE IF s.servCell = c THEN t
        ELSE [t EXCEPT !.serv = NewCandidate(ZeroSat), !.servCell = c,
                       !.have = FALSE]

\* The serving record the triggers compare with, or Absent.
ServingState(s) ==
    IF s.have /\ s.servCell = s.serving THEN s.serv
    ELSE IF s.serving \in Cells THEN s.cands[s.serving]
    ELSE Absent

-----------------------------------------------------------------------------
(* Evaluation and its periodic event.                                      *)

EvaluateCandidate(s, r, w) ==
    LET sv == ServingState(s)
        g == Sky(w, r)
    IN  CASE s.config.trigger = "LTM_CONDITIONAL" ->
                 EvaluateLtmConditional(s.config, r, s.servSinr, g)
          [] s.config.trigger = "TIME_BASED" ->
                 IF s.serving = NoCell THEN [r EXCEPT !.admitted = FALSE]
                 ELSE EvaluateBeamDwell(s.config, r, s.have, s.serv, s.dwell)
          [] s.config.trigger \in {"TIME_T1", "ELEVATION", "DISTANCE_D2"} ->
                 EvaluateStandardNtnTrigger(s.config, r, sv, g)
          [] s.config.trigger = "EVENT_A3" -> EvaluateEventA3(s.config, r, sv)
          [] OTHER -> EvaluateLocation(s.config, r, g)

\* The serving cell may be in the table; it is never admitted as a target.
Evaluate(s, w) ==
    [s EXCEPT !.cands =
        [c \in Cells |->
            IF @[c] = Absent THEN Absent
            ELSE IF c = s.serving THEN [@[c] EXCEPT !.admitted = FALSE]
            ELSE EvaluateCandidate(s, @[c], w)]]

SelectBestCandidate(s, w) == SelectBest(s.config, s.cands, ServingState(s), w)

DoEvaluate(s, w) ==
    IF s.state # "MONITORING" THEN s
    ELSE [Evaluate(s, w) EXCEPT !.oldMon = Orphaned(@, s.mon),
                                !.mon = s.config.monitorPeriod]

Start(s, w) ==
    IF s.state \in {"PREPARED", "MONITORING"}
    THEN DoEvaluate([s EXCEPT !.state = "MONITORING"], w)
    ELSE s

-----------------------------------------------------------------------------
(* Execution.                                                              *)

\* T304 is stopped and the state goes back to idle, whatever the outcome.
SlipFinishedCompleted(s) == [s EXCEPT !.t304 = Off, !.state = "COMPLETED"]
Finished(s) == [s EXCEPT !.t304 = Off, !.state = "IDLE"]

\* The record of the cell just left, as the neighbour it becomes.
SlipRearmedA3(r) == [r EXCEPT !.admitted = FALSE, !.d1Met = FALSE, !.tte = 0]
SlipRearmedBlank(r) == NewCandidate(ZeroSat)
Rearmed(r) == [r EXCEPT !.admitted = FALSE, !.d1Met = FALSE, !.tte = 0,
                        !.a3 = NotMet, !.a4 = NotMet]

\* The table without the cell moved to, and with the cell left if there is room.
SlipRearm(k, t, left, c, r) == t
Rearm(k, t, left, c, r) ==
    IF /\ left # NoCell /\ left # c
       /\ t[left] = Absent
       /\ Cardinality(Known(t)) < k.maxCandidates
    THEN [t EXCEPT ![left] = Rearmed(r)]
    ELSE t

\* The success path.  CHO_COMPLETED is left again before the method returns.
Completed(s, c) ==
    LET left == IF s.have THEN s.serv ELSE NewCandidate(ZeroSat)
        t == [Finished(s) EXCEPT
                !.serving = c,
                !.cands = Rearm(s.config, [@ EXCEPT ![c] = Absent], s.serving, c, left)]
    IN  IF s.cands[c] = Absent THEN t
        ELSE [t EXCEPT !.serv = s.cands[c], !.servCell = c, !.have = TRUE]

\* NotifyHandoverComplete.
SlipNotifyAlwaysMoves(s, c, success) == Completed(s, c)
SlipNotifyNeverMoves(s, c, success) == Finished(s)
Notify(s, c, success) == IF success THEN Completed(s, c) ELSE Finished(s)

\* ExecuteHandover as far as the call of the execution callback, which is given
\* the target.  The ping-pong label and the latency accounting are left out, and
\* so are the counters of m_mechStats.
SlipExecute(s) == [s EXCEPT !.state = "EXECUTING"]
Execute(s) ==
    [s EXCEPT !.state = "EXECUTING",
              !.oldT304 = Orphaned(@, s.t304), !.t304 = s.config.t304]

\* The body of the event ExecuteHandover schedules.
SlipT304OnlyLogs(s) == s
T304Expired(s) == [s EXCEPT !.state = "IDLE"]

Cancel(s) == [Stop(s) EXCEPT !.t304 = Off, !.state = "IDLE"]

-----------------------------------------------------------------------------
(* The object alone, called in any order, against a changing sky.          *)

vars == <<cho, world>>

\* A sky as the configured trigger sees it.
SkyFor(k) == [Cells -> Skies[k.trigger]]

\* The reports it tells apart.
SinrsFor(k) == Sinrs[k.trigger]

Init == \E k \in Configs : cho = NewAlgorithm(k) /\ world \in SkyFor(k)

Call(s) == cho' = s /\ UNCHANGED world
Bounded(old) == \A d \in DOMAIN old : old[d] < MaxOrphans

Configure(k) == Call(SetConfig(cho, k))
AddCandidateCell(c) == Call(AddCandidate(cho, c))
RemoveCandidateCell(c) == Call(RemoveCandidate(cho, c))
ClearCandidates == Call(Clear(cho))
UpdateMeasurement(c, x) == Call(Measure(cho, c, x))
UpdateCandidateSlantRange(c) == Call(MeasureRange(cho, c))
SetServingCell(c) == Call(SetServing(cho, c))
StartMonitoring == Bounded(cho.oldMon) /\ Call(Start(cho, world))
StopMonitoring == Call(Stop(cho))
EvaluateConditions == Call(Evaluate(cho, world))
NotifyHandoverComplete(c, success) == Call(Notify(cho, c, success))
CancelHandover == Call(Cancel(cho))

\* Without a callback the decision completes itself.
ExecuteHandover(c) ==
    /\ Bounded(cho.oldT304)
    /\ Call(IF HasCallback THEN Execute(cho)
            ELSE Notify(Execute(cho), c, TRUE))

MonitorEvent ==
    /\ cho.mon = 0
    /\ Call(DoEvaluate([cho EXCEPT !.mon = Off], world))

OldMonitorEvent ==
    /\ cho.oldMon[0] > 0
    /\ Call(DoEvaluate([cho EXCEPT !.oldMon[0] = @ - 1], world))

T304Event ==
    /\ cho.t304 = 0
    /\ Call(T304Expired([cho EXCEPT !.t304 = Off]))

OldT304Event ==
    /\ cho.oldT304[0] > 0
    /\ Call(T304Expired([cho EXCEPT !.oldT304[0] = @ - 1]))

SkyMoves ==
    /\ cho' = cho
    /\ \E c \in Cells, g \in Skies[cho.config.trigger] :
          world' = [world EXCEPT ![c] = g]

-----------------------------------------------------------------------------
(* Time.  An event that is due fires before time moves on.                 *)

Due(s) == s.mon = 0 \/ s.oldMon[0] > 0 \/ s.t304 = 0 \/ s.oldT304[0] > 0

Sooner(e) == IF e = Off THEN Off ELSE e - 1
AllSooner(old) == [d \in Delays |-> IF d = MaxDelay THEN 0 ELSE old[d + 1]]
Later(age, cap) == IF age = NotMet \/ age >= cap THEN age ELSE age + 1
Aged(r) == IF r = Absent THEN Absent
           ELSE [r EXCEPT !.a3 = Later(@, MaxAge),
                          !.a4 = Later(@, MaxAge)]

Elapse(s) ==
    [s EXCEPT !.mon = Sooner(@), !.oldMon = AllSooner(@),
              !.t304 = Sooner(@), !.oldT304 = AllSooner(@),
              !.dwell = Later(@, MaxDwell),
              !.cands = [c \in Cells |-> Aged(@[c])]]

Tick == ~Due(cho) /\ Call(Elapse(cho))

Next ==
    \/ \E c \in Cells : \/ AddCandidateCell(c)
                        \/ RemoveCandidateCell(c)
                        \/ \E x \in SinrsFor(cho.config) : UpdateMeasurement(c, x)
                        \/ UpdateCandidateSlantRange(c)
                        \/ SetServingCell(c)
                        \/ ExecuteHandover(c)
                        \/ \E b \in BOOLEAN : NotifyHandoverComplete(c, b)
    \/ \E k \in Configs : Configure(k)
    \/ ClearCandidates
    \/ StartMonitoring \/ StopMonitoring \/ EvaluateConditions
    \/ CancelHandover
    \/ MonitorEvent \/ OldMonitorEvent
    \/ T304Event \/ OldT304Event
    \/ SkyMoves
    \/ Tick

Spec == Init /\ [][Next]_vars

\* The simulator runs every event it has scheduled and then moves time on.
Fairness == /\ WF_vars(Tick)
            /\ WF_vars(MonitorEvent) /\ WF_vars(OldMonitorEvent)
            /\ WF_vars(T304Event) /\ WF_vars(OldT304Event)

FairSpec == Spec /\ Fairness

-----------------------------------------------------------------------------
(* Properties.                                                             *)

\* Type correctness of the object: every record stays well formed, every pending
\* event within its delay, every age within its cap.
TypeOK == cho \in Objects /\ world \in Worlds

\* Whatever is called, and in whatever order, an execution never loses the T304
\* that ends it.
ExecutionSupervised == cho.state = "EXECUTING" => cho.t304 # Off

\* Every execution ends, even when the radio never answers.
ExecutionTimesOut == cho.state = "EXECUTING" ~> cho.state # "EXECUTING"
=============================================================================
