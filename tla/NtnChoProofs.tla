---------------------------- MODULE NtnChoProofs ----------------------------
(***************************************************************************)
(* The algorithm object and the loop it is used in, for every              *)
(* configuration and every set of cells.                                   *)
(*                                                                         *)
(* First the object alone: each method maps well-formed objects to         *)
(* well-formed objects, so TypeOK is inductive, and an execution is        *)
(* supervised by its T304.  Then the choice of the best candidate: it      *)
(* names a cell of the table or none, which for the tie-break takes an     *)
(* induction over the list it walks.  Last the closed loop: StackInv, its  *)
(* inductive invariant, and what it says of the serving cell, of the       *)
(* table and of the decisions.                                             *)
(***************************************************************************)
EXTENDS ChoRealStack, FiniteSetTheorems, WellFoundedInduction, TLAPS

-----------------------------------------------------------------------------
(* The constants.                                                          *)

\* What the triggers read of a configuration is well typed.
LEMMA ConfigType ==
    ASSUME NEW k \in Configs
    PROVE  /\ k.quality \in Int /\ k.maxCandidates \in Nat
           /\ k.monitorPeriod \in Delays /\ k.monitorPeriod # Off
           /\ k.t304 \in Delays /\ k.t304 # Off
           /\ k.a3Offset \in Int /\ k.a3Ttt \in Nat
           /\ k.combineWithA4 \in BOOLEAN /\ k.dwell \in Nat
           /\ k.dwellHyst \in Int /\ k.ltmReports \in Nat
           /\ k.ltmHyst \in Int /\ k.tteMin \in Nat
           /\ k.estimator \in BOOLEAN
<1>1. k \in ChoConfig /\ k.monitorPeriod <= MaxDelay /\ k.t304 <= MaxDelay
  BY ConfigAssumption
<1> QED
  BY <1>1, ConfigAssumption DEF ChoConfig, Delays, Off

\* The bounds are naturals, and Off is no delay.
LEMMA BoundsType ==
    /\ MaxAge \in Nat /\ MaxDwell \in Nat /\ LtmCap \in Nat /\ MaxDelay \in Nat
    /\ Off \notin Delays
    /\ 0 \in Delays
BY ConfigAssumption DEF Delays, Off

-----------------------------------------------------------------------------
(* Candidate records.                                                      *)

\* A cell is added with a well-formed record: no stamp, the default SINR.
LEMMA NewCandidateType ==
    ASSUME NEW c \in Cells \cup {NoCell}
    PROVE  NewCandidate(c) \in Candidate
BY BoundsType DEF NewCandidate, Candidate, Ages, NotMet, DefaultSinr, NoCell

\* So is the record of satellite 0, beam 0, that an unfilled serving state is.
LEMMA ZeroType == NewCandidate(ZeroSat) \in Candidate
BY NewCandidateType, CellsAssumption

\* A stamp is kept, set to now, or dropped.
LEMMA HeldType ==
    ASSUME NEW met, NEW age \in Ages
    PROVE  Held(met, age) \in Ages
BY BoundsType DEF Held, Ages, NotMet

\* An age grows to its cap, and a stamp that is not set stays so.
LEMMA LaterType ==
    ASSUME NEW cap \in Nat, NEW age \in NotMet .. cap
    PROVE  Later(age, cap) \in NotMet .. cap
BY DEF Later, NotMet

\* Each record sees one geometry of the world.
LEMMA SkyType ==
    ASSUME NEW w \in Worlds, NEW r \in Candidate
    PROVE  Sky(w, r) \in Geometry
BY DEF Sky, Worlds, Geometry, Candidate

\* The eight triggers: each maps a record to a record.  Beam dwell.
LEMMA DwellType ==
    ASSUME NEW k, NEW r \in Candidate, NEW have \in BOOLEAN, NEW sv \in Candidate,
           NEW dwell
    PROVE  EvaluateBeamDwell(k, r, have, sv, dwell) \in Candidate
<1> DEFINE b == (/\ dwell >= k.dwell
                 /\ r.sinr >= k.quality
                 /\ have => r.sinr > sv.sinr + k.dwellHyst)
<1>1. b \in BOOLEAN
  OBVIOUS
<1>2. EvaluateBeamDwell(k, r, have, sv, dwell) = [r EXCEPT !.admitted = b]
  BY DEF EvaluateBeamDwell
<1> HIDE DEF b
<1> QED
  BY <1>1, <1>2 DEF Candidate

\* A3: a cell that is better than the serving one by the offset.
LEMMA A3Type ==
    ASSUME NEW k, NEW r \in Candidate, NEW sv \in Candidate \cup {Absent}
    PROVE  EvaluateEventA3(k, r, sv) \in Candidate
<1> DEFINE entering == IF sv = Absent THEN FALSE
                                      ELSE r.sinr > sv.sinr + k.a3Offset
           age == Held(entering, r.a3)
           b == entering /\ age >= k.a3Ttt
<1>1. age \in Ages
  BY HeldType DEF Candidate
<1>2. b \in BOOLEAN
  OBVIOUS
<1>3. EvaluateEventA3(k, r, sv) = [r EXCEPT !.tte = 0, !.a3 = age, !.admitted = b]
  BY DEF EvaluateEventA3
<1> HIDE DEF age, b
<1>4. [r EXCEPT !.tte = 0, !.a3 = age, !.admitted = b] \in Candidate
  BY <1>1, <1>2 DEF Candidate
<1> QED
  BY <1>3, <1>4, Zenon

\* The 3GPP NTN triggers: quality and geometry together.
LEMMA StandardNtnType ==
    ASSUME NEW k, NEW r \in Candidate, NEW sv, NEW w
    PROVE  EvaluateStandardNtnTrigger(k, r, sv, w) \in Candidate
<1> DEFINE quality == r.sinr >= k.quality
           age == Held(quality, r.a4)
           b == (/\ quality
                 /\ k.combineWithA4 => age >= k.a3Ttt
                 /\ k.trigger # "TIME_T1" => sv # Absent
                 /\ k.trigger = "ELEVATION" => r.slant /\ sv.slant
                 /\ w.geo) 
<1>1. age \in Ages
  BY HeldType DEF Candidate
<1>2. b \in BOOLEAN
  OBVIOUS
<1>3. EvaluateStandardNtnTrigger(k, r, sv, w)
         = [r EXCEPT !.tte = 0, !.a4 = age, !.admitted = b]
  BY DEF EvaluateStandardNtnTrigger
<1> HIDE DEF age, b
<1>4. [r EXCEPT !.tte = 0, !.a4 = age, !.admitted = b] \in Candidate
  BY <1>1, <1>2 DEF Candidate
<1> QED
  BY <1>3, <1>4, Zenon

\* Conditional LTM, with its count of L1 reports.
LEMMA LtmType ==
    ASSUME NEW k \in Configs, NEW r \in Candidate, NEW servingSinr \in Int, NEW w \in Geometry
    PROVE  EvaluateLtmConditional(k, r, servingSinr, w) \in Candidate
<1> DEFINE above == r.l1Sinr >= servingSinr + k.ltmHyst
           l1 == IF ~above THEN 0
                 ELSE IF r.l1 < LtmCap THEN r.l1 + 1 ELSE LtmCap
           tte == IF k.estimator THEN w.exit ELSE r.tte
           b == (/\ l1 >= k.ltmReports
                 /\ \/ ~k.estimator
                    \/ tte = 0
                    \/ tte >= k.tteMin
                 /\ r.sinr >= k.quality)
<1>1. l1 \in 0 .. LtmCap
  BY BoundsType DEF Candidate
<1>2. tte \in Nat
  BY ConfigType DEF Candidate, Geometry
<1>3. b \in BOOLEAN
  OBVIOUS
<1>4. EvaluateLtmConditional(k, r, servingSinr, w)
         = [r EXCEPT !.tte = tte, !.l1 = l1, !.admitted = b]
  BY DEF EvaluateLtmConditional
<1> HIDE DEF l1, tte, b
<1>5. [r EXCEPT !.tte = tte, !.l1 = l1, !.admitted = b] \in Candidate
  BY <1>1, <1>2, <1>3 DEF Candidate
<1> QED
  BY <1>4, <1>5, Zenon

\* Location.
LEMMA LocationType ==
    ASSUME NEW k, NEW r \in Candidate, NEW w \in Geometry
    PROVE  EvaluateLocation(k, r, w) \in Candidate
<1> DEFINE usable == w.geo /\ r.sinr >= k.quality
           d1 == k.trigger = "LOCATION_D1"
           tte == IF ~usable THEN r.tte ELSE IF d1 THEN 0 ELSE w.exit
           b == usable /\ (d1 \/ w.exit >= k.tteMin)
<1>1. tte \in Nat
  BY DEF Candidate, Geometry
<1>2. b \in BOOLEAN /\ w.geo \in BOOLEAN
  BY DEF Geometry
<1>3. EvaluateLocation(k, r, w)
         = [r EXCEPT !.d1Met = w.geo, !.tte = tte, !.admitted = b]
  BY DEF EvaluateLocation
<1> HIDE DEF tte, b
<1>4. [r EXCEPT !.d1Met = w.geo, !.tte = tte, !.admitted = b] \in Candidate
  BY <1>1, <1>2 DEF Candidate
<1> QED
  BY <1>3, <1>4, Zenon

-----------------------------------------------------------------------------
(* The object.  One lemma per method: it keeps an object well formed.      *)

\* A cell has a record or none, and any record may replace it.
LEMMA TableType ==
    ASSUME NEW s \in Objects, NEW c \in Cells
    PROVE  /\ s.cands[c] \in Candidate \cup {Absent}
           /\ \A r \in Candidate \cup {Absent} :
                 [s.cands EXCEPT ![c] = r] \in Table
BY DEF Objects, Table

\* The serving record, where there is one.
LEMMA ServingStateType ==
    ASSUME NEW s \in Objects
    PROVE  ServingState(s) \in Candidate \cup {Absent}
BY DEF ServingState, Objects, Table

\* AddCandidateCell.
LEMMA AddCandidateType ==
    ASSUME NEW s \in Objects, NEW c \in Cells
    PROVE  AddCandidate(s, c) \in Objects
<1>1. [s.cands EXCEPT ![c] = NewCandidate(c)] \in Table
  BY TableType, NewCandidateType
<1> QED
  BY <1>1 DEF AddCandidate, Objects, States

\* RemoveCandidateCell.
LEMMA RemoveCandidateType ==
    ASSUME NEW s \in Objects, NEW c \in Cells
    PROVE  RemoveCandidate(s, c) \in Objects
<1>1. [s.cands EXCEPT ![c] = Absent] \in Table
  BY TableType
<1> QED
  BY <1>1 DEF RemoveCandidate, Objects

\* StopMonitoring.
LEMMA StopType ==
    ASSUME NEW s \in Objects
    PROVE  Stop(s) \in Objects
BY DEF Stop, Objects

\* ClearCandidates.
LEMMA ClearType ==
    ASSUME NEW s \in Objects
    PROVE  Clear(s) \in Objects
<1> DEFINE t == [s EXCEPT !.cands = [c \in Cells |-> Absent]]
<1>1. t \in Objects
  BY DEF Objects, Table
<1>2. Stop(t) \in Objects
  BY <1>1, StopType
<1>3. \A o \in Objects : [o EXCEPT !.state = "IDLE"] \in Objects
  BY DEF Objects, States
<1>4. Clear(s) = IF s.state \in {"PREPARED", "MONITORING"}
                 THEN [Stop(t) EXCEPT !.state = "IDLE"] ELSE t
  BY DEF Clear
<1> HIDE DEF t
<1> QED
  BY <1>1, <1>2, <1>3, <1>4

\* UpdateMeasurement, for the candidate and the serving record.
LEMMA MeasureType ==
    ASSUME NEW s \in Objects, NEW c \in Cells, NEW x \in Int
    PROVE  Measure(s, c, x) \in Objects
<1> DEFINE t == IF s.cands[c] = Absent THEN s
                ELSE [s EXCEPT !.cands[c].sinr = x, !.cands[c].l1Sinr = x]
<1>1. t \in Objects
  <2>1. CASE s.cands[c] = Absent
    BY <2>1
  <2>2. CASE s.cands[c] # Absent
    <3>1. s.cands[c] \in Candidate
      BY <2>2, TableType
    <3>2. [s.cands[c] EXCEPT !.sinr = x, !.l1Sinr = x] \in Candidate
      BY <3>1 DEF Candidate
    <3>3. [s.cands EXCEPT ![c] = [s.cands[c] EXCEPT !.sinr = x, !.l1Sinr = x]]
             \in Table
      BY <3>2, TableType
    <3>4. t = [s EXCEPT !.cands = [s.cands EXCEPT
                  ![c] = [s.cands[c] EXCEPT !.sinr = x, !.l1Sinr = x]]]
      BY <2>2 DEF Objects, Table
    <3> HIDE DEF t
    <3> QED
      BY <3>3, <3>4 DEF Objects
  <2> QED
    BY <2>1, <2>2
<1>2. [t EXCEPT !.servSinr = x, !.servCell = c, !.serv.sinr = x, !.have = TRUE]
         \in Objects
  <2> HIDE DEF t
  <2>1. t.serv \in Candidate
    BY <1>1 DEF Objects
  <2>2. [t.serv EXCEPT !.sinr = x] \in Candidate
    BY <2>1 DEF Candidate
  <2> QED
    BY <1>1, <2>2 DEF Objects
<1>3. Measure(s, c, x) =
         IF c # s.serving THEN t
         ELSE [t EXCEPT !.servSinr = x, !.servCell = c,
                        !.serv.sinr = x, !.have = TRUE]
  BY DEF Measure
<1> HIDE DEF t
<1> QED
  BY <1>1, <1>2, <1>3

\* Whatever the trigger, a record stays a record.
LEMMA EvaluateCandidateType ==
    ASSUME NEW s \in Objects, NEW r \in Candidate, NEW w \in Worlds
    PROVE  EvaluateCandidate(s, r, w) \in Candidate
<1> DEFINE sv == ServingState(s)
           g == Sky(w, r)
<1> DEFINE k == s.config
<1>0. k \in Configs
  BY DEF Objects
<1>1. sv \in Candidate \cup {Absent} /\ g \in Geometry
  BY ServingStateType, SkyType
<1>2. /\ s.have \in BOOLEAN /\ s.serv \in Candidate /\ s.servSinr \in Int
  BY DEF Objects
<1>3. EvaluateLtmConditional(k, r, s.servSinr, g) \in Candidate
  BY <1>0, <1>1, <1>2, LtmType
<1>4. EvaluateBeamDwell(k, r, s.have, s.serv, s.dwell) \in Candidate
  BY <1>2, DwellType
<1>5. EvaluateStandardNtnTrigger(k, r, sv, g) \in Candidate
  BY StandardNtnType
<1>6. EvaluateEventA3(k, r, sv) \in Candidate
  BY <1>1, A3Type
<1>7. EvaluateLocation(k, r, g) \in Candidate
  BY <1>1, LocationType
<1>8. [r EXCEPT !.admitted = FALSE] \in Candidate
  BY DEF Candidate
<1> HIDE DEF sv, g, k
<1> QED
  BY <1>3, <1>4, <1>5, <1>6, <1>7, <1>8 DEF EvaluateCandidate, sv, g, k

\* EvaluateConditions maps the whole table.
LEMMA EvaluateType ==
    ASSUME NEW s \in Objects, NEW w \in Worlds
    PROVE  Evaluate(s, w) \in Objects
<1> DEFINE e(c) == IF s.cands[c] = Absent THEN Absent
                   ELSE IF c = s.serving
                        THEN [s.cands[c] EXCEPT !.admitted = FALSE]
                   ELSE EvaluateCandidate(s, s.cands[c], w)
<1>1. ASSUME NEW c \in Cells PROVE e(c) \in Candidate \cup {Absent}
  <2>1. CASE s.cands[c] = Absent
    BY <2>1
  <2>2. CASE s.cands[c] # Absent
    <3>1. s.cands[c] \in Candidate
      BY <2>2, TableType
    <3>2. [s.cands[c] EXCEPT !.admitted = FALSE] \in Candidate
      BY <3>1 DEF Candidate
    <3>3. EvaluateCandidate(s, s.cands[c], w) \in Candidate
      BY <3>1, EvaluateCandidateType
    <3> QED
      BY <2>2, <3>2, <3>3
  <2> QED
    BY <2>1, <2>2
<1>2. Evaluate(s, w) = [s EXCEPT !.cands = [c \in Cells |-> e(c)]]
  BY DEF Evaluate
<1> HIDE DEF e
<1>3. [c \in Cells |-> e(c)] \in Table
  BY <1>1 DEF Table
<1> QED
  BY <1>2, <1>3 DEF Objects

\* UpdateCandidateSlantRange, for the candidate and the serving record.
LEMMA MeasureRangeType ==
    ASSUME NEW s \in Objects, NEW c \in Cells
    PROVE  MeasureRange(s, c) \in Objects
<1> DEFINE t == IF s.cands[c] = Absent THEN s
                ELSE [s EXCEPT !.cands[c].slant = TRUE]
<1>1. t \in Objects
  <2>1. CASE s.cands[c] = Absent
    BY <2>1
  <2>2. CASE s.cands[c] # Absent
    <3>1. s.cands[c] \in Candidate
      BY <2>2, TableType
    <3>2. [s.cands[c] EXCEPT !.slant = TRUE] \in Candidate
      BY <3>1 DEF Candidate
    <3>3. [s.cands EXCEPT ![c] = [s.cands[c] EXCEPT !.slant = TRUE]] \in Table
      BY <3>2, TableType
    <3>4. t = [s EXCEPT !.cands = [s.cands EXCEPT
                  ![c] = [s.cands[c] EXCEPT !.slant = TRUE]]]
      BY <2>2 DEF Objects, Table
    <3> HIDE DEF t
    <3> QED
      BY <3>3, <3>4 DEF Objects
  <2> QED
    BY <2>1, <2>2
<1>2. [t EXCEPT !.servCell = c, !.serv.slant = TRUE, !.have = TRUE] \in Objects
  <2> HIDE DEF t
  <2>1. [t.serv EXCEPT !.slant = TRUE] \in Candidate
    BY <1>1 DEF Objects, Candidate
  <2> QED
    BY <1>1, <2>1 DEF Objects
<1>3. MeasureRange(s, c) =
         IF c # s.serving THEN t
         ELSE [t EXCEPT !.servCell = c, !.serv.slant = TRUE, !.have = TRUE]
  BY DEF MeasureRange
<1> HIDE DEF t
<1> QED
  BY <1>1, <1>2, <1>3

\* SetServingCell.
LEMMA SetServingType ==
    ASSUME NEW s \in Objects, NEW c \in Cells
    PROVE  SetServing(s, c) \in Objects
<1> DEFINE t == [s EXCEPT !.serving = c, !.dwell = IF c = s.serving THEN @ ELSE 0]
<1>1. t \in Objects
  BY DEF Objects
<1>2. ASSUME NEW r \in Candidate, NEW b \in BOOLEAN
      PROVE  [t EXCEPT !.serv = r, !.servCell = c, !.have = b] \in Objects
  <2> HIDE DEF t
  <2> QED
    BY <1>1 DEF Objects
<1>3. s.cands[c] # Absent => s.cands[c] \in Candidate /\ s.cands[c].slant \in BOOLEAN
  BY TableType DEF Candidate
<1>4. SetServing(s, c) =
         IF s.cands[c] # Absent
         THEN [t EXCEPT !.serv = s.cands[c], !.servCell = c,
                        !.have = s.cands[c].slant]
         ELSE IF s.servCell = c THEN t
         ELSE [t EXCEPT !.serv = NewCandidate(ZeroSat), !.servCell = c,
                        !.have = FALSE]
  BY DEF SetServing
<1> HIDE DEF t
<1> QED
  BY <1>1, <1>2, <1>3, <1>4, ZeroType

\* An overwritten handle leaves one event more, due when the handle was.
LEMMA OrphanedType ==
    ASSUME NEW old \in [Delays -> Nat], NEW h \in Delays \cup {Off}
    PROVE  Orphaned(old, h) \in [Delays -> Nat]
BY DEF Orphaned

\* The monitor event: it evaluates and arms itself again.
LEMMA DoEvaluateType ==
    ASSUME NEW s \in Objects, NEW w \in Worlds
    PROVE  DoEvaluate(s, w) \in Objects
<1>1. Evaluate(s, w) \in Objects
  BY EvaluateType
<1>2. Orphaned(Evaluate(s, w).oldMon, s.mon) \in [Delays -> Nat]
  BY <1>1, OrphanedType DEF Objects
<1>3. s.config.monitorPeriod \in Delays
  BY ConfigType DEF Objects
<1> QED
  BY <1>1, <1>2, <1>3 DEF DoEvaluate, Objects

\* StartMonitoring.
LEMMA StartType ==
    ASSUME NEW s \in Objects, NEW w \in Worlds
    PROVE  Start(s, w) \in Objects
<1>1. [s EXCEPT !.state = "MONITORING"] \in Objects
  BY DEF Objects, States
<1> QED
  BY <1>1, DoEvaluateType DEF Start

\* The end of an execution: idle, no T304.
LEMMA FinishedType ==
    ASSUME NEW s \in Objects
    PROVE  Finished(s) \in Objects
BY DEF Finished, Objects, States

\* The cell that is left comes back as a candidate, if there is room.
LEMMA RearmType ==
    ASSUME NEW k, NEW t \in Table, NEW left \in Cells \cup {NoCell}, NEW c \in Cells,
           NEW r \in Candidate
    PROVE  Rearm(k, t, left, c, r) \in Table
<1>1. Rearmed(r) \in Candidate
  <2>1. NotMet \in Ages
    BY BoundsType DEF Ages, NotMet
  <2> QED
    BY <2>1 DEF Rearmed, Candidate
<1>2. [t EXCEPT ![left] = Rearmed(r)] \in Table
  BY <1>1 DEF Table
<1> QED
  BY <1>2 DEF Rearm

\* NotifyHandoverComplete after a success.
LEMMA CompletedType ==
    ASSUME NEW s \in Objects, NEW c \in Cells
    PROVE  Completed(s, c) \in Objects
<1> DEFINE left == IF s.have THEN s.serv ELSE NewCandidate(ZeroSat)
           f == Finished(s)
           table == Rearm(s.config, [f.cands EXCEPT ![c] = Absent], s.serving, c, left)
           t == [f EXCEPT !.serving = c, !.cands = table]
<1>1. f \in Objects
  BY FinishedType
<1>2. table \in Table
  <2>1. left \in Candidate
    BY ZeroType DEF Objects
  <2>2. [f.cands EXCEPT ![c] = Absent] \in Table
    BY <1>1, TableType
  <2>3. s.serving \in Cells \cup {NoCell}
    BY DEF Objects
  <2> HIDE DEF left, f
  <2> QED
    BY <2>1, <2>2, <2>3, RearmType
<1>3. t \in Objects
  <2> HIDE DEF f, table
  <2> QED
    BY <1>1, <1>2 DEF Objects
<1>4. s.cands[c] # Absent =>
         [t EXCEPT !.serv = s.cands[c], !.servCell = c, !.have = TRUE] \in Objects
  <2>1. s.cands[c] # Absent => s.cands[c] \in Candidate
    BY TableType
  <2> HIDE DEF t
  <2> QED
    BY <1>3, <2>1 DEF Objects
<1>5. Completed(s, c) =
         IF s.cands[c] = Absent THEN t
         ELSE [t EXCEPT !.serv = s.cands[c], !.servCell = c, !.have = TRUE]
  BY DEF Completed
<1> HIDE DEF t
<1> QED
  BY <1>3, <1>4, <1>5

\* NotifyHandoverComplete, either way.
LEMMA NotifyType ==
    ASSUME NEW s \in Objects, NEW c \in Cells, NEW success \in BOOLEAN
    PROVE  Notify(s, c, success) \in Objects
BY CompletedType, FinishedType DEF Notify

\* ExecuteHandover: the old T304 may stay in the queue.
LEMMA ExecuteType ==
    ASSUME NEW s \in Objects
    PROVE  Execute(s) \in Objects
<1>1. Orphaned(s.oldT304, s.t304) \in [Delays -> Nat]
  BY OrphanedType DEF Objects
<1>2. s.config.t304 \in Delays
  BY ConfigType DEF Objects
<1> QED
  BY <1>1, <1>2 DEF Execute, Objects, States

\* The expiry of T304.
LEMMA T304ExpiredType ==
    ASSUME NEW s \in Objects
    PROVE  T304Expired(s) \in Objects
BY DEF T304Expired, Objects, States

\* CancelHandover.
LEMMA CancelType ==
    ASSUME NEW s \in Objects
    PROVE  Cancel(s) \in Objects
<1>1. Stop(s) \in Objects
  BY StopType
<1> QED
  BY <1>1 DEF Cancel, Objects, States

\* Time passes for every pending event, timer and record.
LEMMA ElapseType ==
    ASSUME NEW s \in Objects, ~Due(s)
    PROVE  Elapse(s) \in Objects
<1>1. ASSUME NEW e \in Delays \cup {Off}, e # 0
      PROVE  Sooner(e) \in Delays \cup {Off}
  BY <1>1, BoundsType DEF Sooner, Delays, Off
<1>2. /\ Sooner(s.mon) \in Delays \cup {Off}
      /\ Sooner(s.t304) \in Delays \cup {Off}
  <2>1. /\ s.mon \in Delays \cup {Off} /\ s.mon # 0
        /\ s.t304 \in Delays \cup {Off} /\ s.t304 # 0
    BY DEF Objects, Due
  <2> QED
    BY <1>1, <2>1
<1>3. ASSUME NEW old \in [Delays -> Nat]
      PROVE  AllSooner(old) \in [Delays -> Nat]
  <2>1. ASSUME NEW d \in Delays, d # MaxDelay PROVE d + 1 \in Delays
    BY <2>1, BoundsType DEF Delays
  <2> QED
    BY <2>1 DEF AllSooner
<1>4. /\ AllSooner(s.oldMon) \in [Delays -> Nat]
      /\ AllSooner(s.oldT304) \in [Delays -> Nat]
  BY <1>3 DEF Objects
<1>5. Later(s.dwell, MaxDwell) \in Nat
  <2>1. s.dwell \in Nat
    BY DEF Objects
  <2> QED
    BY <2>1 DEF Later
<1>6. ASSUME NEW r \in Candidate \cup {Absent}
      PROVE  Aged(r) \in Candidate \cup {Absent}
  <2>1. CASE r = Absent
    BY <2>1 DEF Aged
  <2>2. CASE r # Absent
    <3>1. Later(r.a3, MaxAge) \in Ages /\ Later(r.a4, MaxAge) \in Ages
      BY <2>2, LaterType, BoundsType DEF Candidate, Ages
    <3>2. [r EXCEPT !.a3 = Later(@, MaxAge), !.a4 = Later(@, MaxAge)]
             \in Candidate
      BY <2>2, <3>1 DEF Candidate
    <3> QED
      BY <2>2, <3>2 DEF Aged
  <2> QED
    BY <2>1, <2>2
<1>7. [c \in Cells |-> Aged(s.cands[c])] \in Table
  BY <1>6, TableType DEF Table
<1> QED
  BY <1>2, <1>4, <1>5, <1>7 DEF Elapse, Objects

-----------------------------------------------------------------------------
(* The specification.                                                      *)

\* A new object.
LEMMA NewAlgorithmType ==
    ASSUME NEW k \in Configs
    PROVE  NewAlgorithm(k) \in Objects
<1>1. [c \in Cells |-> Absent] \in Table
  BY DEF Table
<1> QED
  BY <1>1, ZeroType DEF NewAlgorithm, Objects, States, DefaultSinr

\* Configure.
LEMMA SetConfigType ==
    ASSUME NEW s \in Objects, NEW k \in Configs
    PROVE  SetConfig(s, k) \in Objects
BY DEF SetConfig, Objects

\* Every sky a trigger can see is one of the worlds.
LEMMA SkyForType ==
    ASSUME NEW k \in Configs
    PROVE  Skies[k.trigger] \subseteq Geometry /\ SkyFor(k) \subseteq Worlds
<1>1. Skies[k.trigger] \subseteq Geometry
  BY ParameterAssumption, ConfigAssumption DEF ChoConfig
<1> QED
  BY <1>1 DEF SkyFor, Worlds

\* What is reported is an integer.
LEMMA SinrsType ==
    ASSUME NEW k \in Configs PROVE SinrsFor(k) \subseteq Int
BY ParameterAssumption, ConfigAssumption DEF ChoConfig, SinrsFor

\* The initial states.
LEMMA InitTypeOK == Init => TypeOK
BY NewAlgorithmType, SkyForType DEF Init, TypeOK

\* The events that fire are taken off the queue before their body runs.
LEMMA FiredType ==
    ASSUME NEW s \in Objects
    PROVE  /\ [s EXCEPT !.mon = Off] \in Objects
           /\ [s EXCEPT !.t304 = Off] \in Objects
           /\ s.oldMon[0] > 0 => [s EXCEPT !.oldMon[0] = @ - 1] \in Objects
           /\ s.oldT304[0] > 0 => [s EXCEPT !.oldT304[0] = @ - 1] \in Objects
<1>1. ASSUME NEW old \in [Delays -> Nat], old[0] > 0
      PROVE  [old EXCEPT ![0] = @ - 1] \in [Delays -> Nat]
  <2>1. old[0] \in Nat
    BY BoundsType
  <2>2. old[0] - 1 \in Nat
    BY <1>1, <2>1
  <2> QED
    BY <2>2
<1>3. s.oldMon[0] > 0 => [s.oldMon EXCEPT ![0] = @ - 1] \in [Delays -> Nat]
  BY <1>1 DEF Objects
<1>4. s.oldT304[0] > 0 => [s.oldT304 EXCEPT ![0] = @ - 1] \in [Delays -> Nat]
  BY <1>1 DEF Objects
<1>5. [s EXCEPT !.mon = Off] \in Objects /\ [s EXCEPT !.t304 = Off] \in Objects
  BY DEF Objects
<1>6. s.oldMon[0] > 0 => [s EXCEPT !.oldMon[0] = @ - 1] \in Objects
  BY <1>3 DEF Objects
<1>7. s.oldT304[0] > 0 => [s EXCEPT !.oldT304[0] = @ - 1] \in Objects
  BY <1>4 DEF Objects
<1> QED
  BY <1>5, <1>6, <1>7

\* Every call and every event keeps the object well formed.
LEMMA NextTypeOK == TypeOK /\ [Next]_vars => TypeOK'
<1> SUFFICES ASSUME TypeOK, [Next]_vars PROVE TypeOK'
  OBVIOUS
<1>0. cho \in Objects /\ world \in Worlds
  BY DEF TypeOK
<1>1. ASSUME NEW s \in Objects, Call(s) PROVE TypeOK'
  BY <1>0, <1>1 DEF Call, TypeOK
<1>2. ASSUME NEW c \in Cells, AddCandidateCell(c) PROVE TypeOK'
  BY <1>0, <1>1, <1>2, AddCandidateType DEF AddCandidateCell
<1>3. ASSUME NEW c \in Cells, RemoveCandidateCell(c) PROVE TypeOK'
  BY <1>0, <1>1, <1>3, RemoveCandidateType DEF RemoveCandidateCell
<1>4. ASSUME NEW c \in Cells, NEW x \in SinrsFor(cho.config), UpdateMeasurement(c, x)
      PROVE  TypeOK'
  <2>1. x \in Int
    BY <1>0, SinrsType DEF Objects
  <2> QED
    BY <1>0, <1>1, <1>4, <2>1, MeasureType DEF UpdateMeasurement
<1>5. ASSUME NEW c \in Cells, UpdateCandidateSlantRange(c) PROVE TypeOK'
  BY <1>0, <1>1, <1>5, MeasureRangeType DEF UpdateCandidateSlantRange
<1>6. ASSUME NEW c \in Cells, SetServingCell(c) PROVE TypeOK'
  BY <1>0, <1>1, <1>6, SetServingType DEF SetServingCell
<1>7. ASSUME NEW c \in Cells, ExecuteHandover(c) PROVE TypeOK'
  <2>1. Execute(cho) \in Objects
    BY <1>0, ExecuteType
  <2>2. Notify(Execute(cho), c, TRUE) \in Objects
    BY <2>1, NotifyType
  <2> QED
    BY <1>1, <1>7, <2>1, <2>2 DEF ExecuteHandover
<1>8. ASSUME NEW c \in Cells, NEW b \in BOOLEAN, NotifyHandoverComplete(c, b)
      PROVE  TypeOK'
  BY <1>0, <1>1, <1>8, NotifyType DEF NotifyHandoverComplete
<1>9. CASE ClearCandidates
  BY <1>0, <1>1, <1>9, ClearType DEF ClearCandidates
<1>10. CASE StartMonitoring
  BY <1>0, <1>1, <1>10, StartType DEF StartMonitoring
<1>11. CASE StopMonitoring
  BY <1>0, <1>1, <1>11, StopType DEF StopMonitoring
<1>12. CASE EvaluateConditions
  BY <1>0, <1>1, <1>12, EvaluateType DEF EvaluateConditions
<1>13. CASE CancelHandover
  BY <1>0, <1>1, <1>13, CancelType DEF CancelHandover
<1>14. CASE MonitorEvent
  BY <1>0, <1>1, <1>14, FiredType, DoEvaluateType DEF MonitorEvent
<1>15. CASE OldMonitorEvent
  BY <1>0, <1>1, <1>15, FiredType, DoEvaluateType DEF OldMonitorEvent
<1>16. CASE T304Event
  BY <1>0, <1>1, <1>16, FiredType, T304ExpiredType DEF T304Event
<1>17. CASE OldT304Event
  BY <1>0, <1>1, <1>17, FiredType, T304ExpiredType DEF OldT304Event
<1>18. CASE SkyMoves
  <2>1. Skies[cho.config.trigger] \subseteq Geometry
    BY <1>0, SkyForType DEF Objects
  <2> QED
    BY <1>0, <1>18, <2>1 DEF SkyMoves, TypeOK, Worlds
<1>19. CASE Tick
  BY <1>0, <1>1, <1>19, ElapseType DEF Tick
<1>20. CASE UNCHANGED vars
  BY <1>20 DEF vars, TypeOK
<1>21. ASSUME NEW k \in Configs, Configure(k) PROVE TypeOK'
  BY <1>0, <1>1, <1>21, SetConfigType DEF Configure
<1> QED
  BY <1>2, <1>3, <1>4, <1>5, <1>6, <1>7, <1>8, <1>9, <1>10, <1>11, <1>12,
     <1>13, <1>14, <1>15, <1>16, <1>17, <1>18, <1>19, <1>20, <1>21 DEF Next

\* Every call, in any order, and every event leaves a well-formed object.
THEOREM TypeCorrect == Spec => []TypeOK
<1> QED
  BY InitTypeOK, NextTypeOK, PTL DEF Spec

-----------------------------------------------------------------------------
(* An execution is supervised.  TypeOK is the invariant it needs: time     *)
(* moves on only when no event is due, and then t304 is not 0.             *)

\* The object is not executing without a T304.
Supervised(s) == s.state = "EXECUTING" => s.t304 # Off

\* A measurement and a change of serving cell touch neither the state nor T304.
LEMMA StateKept ==
    ASSUME NEW s \in Objects, NEW c \in Cells, NEW x \in Int
    PROVE  \A o \in {Measure(s, c, x), MeasureRange(s, c), SetServing(s, c)} :
              o.state = s.state /\ o.t304 = s.t304
<1>1. Measure(s, c, x).state = s.state /\ Measure(s, c, x).t304 = s.t304
  BY DEF Measure, Objects
<1>2. MeasureRange(s, c).state = s.state /\ MeasureRange(s, c).t304 = s.t304
  BY DEF MeasureRange, Objects
<1>3. SetServing(s, c).state = s.state /\ SetServing(s, c).t304 = s.t304
  BY DEF SetServing, Objects
<1> QED
  BY <1>1, <1>2, <1>3

\* Every step that is in EXECUTING afterwards has T304 armed.
LEMMA NextSupervised ==
    TypeOK /\ ExecutionSupervised /\ [Next]_vars => ExecutionSupervised'
<1> SUFFICES ASSUME TypeOK, Supervised(cho), [Next]_vars PROVE Supervised(cho')
  BY DEF ExecutionSupervised, Supervised
<1>0. cho \in Objects /\ world \in Worlds
  BY DEF TypeOK
<1>1. ASSUME NEW s \in Objects, s.state = cho.state, s.t304 = cho.t304, Call(s)
      PROVE  Supervised(cho')
  BY <1>1 DEF Call, Supervised
<1>3. ASSUME NEW c \in Cells, AddCandidateCell(c) PROVE Supervised(cho')
  BY <1>0, <1>3 DEF AddCandidateCell, AddCandidate, Call, Supervised, Objects
<1>4. ASSUME NEW c \in Cells, RemoveCandidateCell(c) PROVE Supervised(cho')
  BY <1>0, <1>4 DEF RemoveCandidateCell, RemoveCandidate, Call, Supervised, Objects
<1>5. ASSUME NEW c \in Cells, NEW x \in SinrsFor(cho.config), UpdateMeasurement(c, x)
      PROVE  Supervised(cho')
  <2>1. x \in Int
    BY <1>0, SinrsType DEF Objects
  <2> QED
    BY <1>0, <1>1, <1>5, <2>1, MeasureType, StateKept DEF UpdateMeasurement
<1>6. ASSUME NEW c \in Cells, UpdateCandidateSlantRange(c) PROVE Supervised(cho')
  BY <1>0, <1>1, <1>6, MeasureRangeType, StateKept DEF UpdateCandidateSlantRange
<1>7. ASSUME NEW c \in Cells, SetServingCell(c) PROVE Supervised(cho')
  BY <1>0, <1>1, <1>7, SetServingType, StateKept DEF SetServingCell
<1>8. ASSUME NEW c \in Cells, ExecuteHandover(c) PROVE Supervised(cho')
  <2>1. Execute(cho) \in Objects /\ Execute(cho).t304 = cho.config.t304
    BY <1>0, ExecuteType DEF Execute, Objects
  <2>2. cho.config.t304 # Off
    BY <1>0, ConfigType DEF Objects
  <2>3. Notify(Execute(cho), c, TRUE).state = "IDLE"
    BY <2>1 DEF Notify, Completed, Finished, Objects
  <2> QED
    BY <1>8, <2>1, <2>2, <2>3 DEF ExecuteHandover, Call, Supervised
<1>9. ASSUME NEW c \in Cells, NEW b \in BOOLEAN, NotifyHandoverComplete(c, b)
      PROVE  Supervised(cho')
  <2>1. Notify(cho, c, b).state = "IDLE"
    BY <1>0 DEF Notify, Completed, Finished, Objects
  <2> QED
    BY <1>9, <2>1 DEF NotifyHandoverComplete, Call, Supervised
<1>10. CASE ClearCandidates
  BY <1>0, <1>10 DEF ClearCandidates, Clear, Stop, Call, Supervised, Objects
<1>11. CASE StartMonitoring
  <2>1. CASE cho.state \in {"PREPARED", "MONITORING"}
    <3>1. [cho EXCEPT !.state = "MONITORING"] \in Objects
      BY <1>0 DEF Objects, States
    <3>2. Start(cho, world).state = "MONITORING"
      BY <2>1, <3>1 DEF Start, DoEvaluate, Evaluate, Objects
    <3> QED
      BY <1>11, <3>2 DEF StartMonitoring, Call, Supervised
  <2>2. CASE cho.state \notin {"PREPARED", "MONITORING"}
    BY <1>11, <2>2 DEF StartMonitoring, Start, Call, Supervised
  <2> QED
    BY <2>1, <2>2
<1>12. CASE StopMonitoring
  BY <1>0, <1>12 DEF StopMonitoring, Stop, Call, Supervised, Objects
<1>13. CASE EvaluateConditions
  BY <1>0, <1>13 DEF EvaluateConditions, Evaluate, Call, Supervised, Objects
<1>14. CASE CancelHandover
  BY <1>0, <1>14 DEF CancelHandover, Cancel, Stop, Call, Supervised, Objects
<1>15. CASE MonitorEvent
  BY <1>0, <1>15
  DEF MonitorEvent, DoEvaluate, Evaluate, Call, Supervised, Objects
<1>16. CASE OldMonitorEvent
  BY <1>0, <1>16
  DEF OldMonitorEvent, DoEvaluate, Evaluate, Call, Supervised, Objects
<1>17. CASE T304Event
  BY <1>0, <1>17 DEF T304Event, T304Expired, Call, Supervised, Objects
<1>18. CASE OldT304Event
  BY <1>0, <1>18 DEF OldT304Event, T304Expired, Call, Supervised, Objects
<1>19. CASE SkyMoves
  BY <1>19 DEF SkyMoves, Supervised
<1>20. CASE Tick
  <2>1. cho.t304 \in Delays \cup {Off} /\ cho.t304 # 0
    BY <1>0, <1>20 DEF Tick, Due, Objects
  <2>2. cho.t304 # Off => Sooner(cho.t304) # Off
    BY <2>1, BoundsType DEF Sooner, Delays, Off
  <2>3. Elapse(cho).state = cho.state /\ Elapse(cho).t304 = Sooner(cho.t304)
    BY <1>0 DEF Elapse, Objects
  <2> QED
    BY <1>20, <2>2, <2>3 DEF Tick, Call, Supervised
<1>21. CASE UNCHANGED vars
  BY <1>21 DEF vars, Supervised
<1>22. ASSUME NEW k \in Configs, Configure(k) PROVE Supervised(cho')
  BY <1>0, <1>22 DEF Configure, SetConfig, Call, Supervised, Objects
<1> QED
  BY <1>3, <1>4, <1>5, <1>6, <1>7, <1>8, <1>9, <1>10, <1>11, <1>12, <1>13,
     <1>14, <1>15, <1>16, <1>17, <1>18, <1>19, <1>20, <1>21, <1>22 DEF Next

\* No sequence of calls and events takes T304 away from a running execution.
THEOREM Supervision == Spec => []ExecutionSupervised
<1>1. Init => ExecutionSupervised
  BY DEF Init, NewAlgorithm, ExecutionSupervised
<1> QED
  BY <1>1, NextSupervised, TypeCorrect, PTL DEF Spec

-----------------------------------------------------------------------------
(* Induction over the naturals, for one set at a time: the least element   *)
(* of a set of naturals, from the well-foundedness of <.                   *)

Less == {p \in Nat \X Nat : p[1] < p[2]}

\* The order of the naturals is well founded.
LEMMA LessWellFounded == IsWellFoundedOn(Less, Nat)
BY NatLessThanWellFounded DEF OpToRel, Less

\* A set of naturals that is not empty has a least element.
LEMMA LeastOf ==
    ASSUME NEW T \in SUBSET Nat, T # {}
    PROVE  \E n \in T : \A m \in T : n <= m
<1>1. \E n \in T : \A m \in T : ~ (<<m, n>> \in Less)
  <2>1. T \subseteq Nat
    OBVIOUS
  <2> QED
    BY LessWellFounded, WFMin, <2>1, Zenon
<1>2. \A m, n \in Nat : m < n => <<m, n>> \in Less
  <2> SUFFICES ASSUME NEW m \in Nat, NEW n \in Nat, m < n
               PROVE  <<m, n>> \in Less
    OBVIOUS
  <2>1. <<m, n>> \in Nat \X Nat /\ <<m, n>>[1] = m /\ <<m, n>>[2] = n
    OBVIOUS
  <2> QED
    BY <2>1 DEF Less
<1>3. PICK n \in T : \A m \in T : ~ (<<m, n>> \in Less)
  BY <1>1
<1>4. ASSUME NEW m \in T PROVE n <= m
  <2>1. ~ (<<m, n>> \in Less) /\ m \in Nat /\ n \in Nat
    BY <1>3
  <2>2. ~ (m < n)
    BY <1>2, <2>1
  <2> QED
    BY <2>1, <2>2
<1> QED
  BY <1>4

\* A set that holds 0 and, with a natural, its successor, holds every natural.
LEMMA Induct ==
    ASSUME NEW T, 0 \in T, \A n \in Nat : n \in T => n + 1 \in T
    PROVE  Nat \subseteq T
<1> SUFFICES ASSUME ~(Nat \subseteq T) PROVE FALSE
  OBVIOUS
<1> DEFINE B == Nat \ T
<1>1. PICK n \in B : \A m \in B : n <= m
  <2>1. B \in SUBSET Nat /\ B # {}
    OBVIOUS
  <2> QED
    BY <2>1, LeastOf
<1>2. n # 0 /\ n - 1 \in Nat /\ ~ (n <= n - 1)
  BY <1>1
<1>3. n - 1 \in T
  BY <1>1, <1>2
<1> QED
  BY <1>1, <1>2, <1>3

-----------------------------------------------------------------------------
(* SelectBestCandidate: it names a cell, whatever the table.               *)

\* A finite set that is not empty has a member that beats all the others, when
\* of two members one beats the other and beating is transitive: beats[c] are the
\* members c beats.
LEMMA BestExists ==
    ASSUME NEW S, IsFiniteSet(S), S # {}, NEW beats,
           \A c, d \in S : c # d => d \in beats[c] \/ c \in beats[d],
           \A c, d, e \in S : d \in beats[c] /\ e \in beats[d] => e \in beats[c]
    PROVE  \E c \in S : \A d \in S \ {c} : d \in beats[c]
<1> DEFINE Has(U) == \E c \in U : \A d \in U \ {c} : d \in beats[c]
           T == {n \in Nat : \A U \in SUBSET S :
                    U # {} /\ Cardinality(U) = n => Has(U)}
<1>1. 0 \in T
  <2>1. \A U \in SUBSET S : Cardinality(U) = 0 => U = {}
    BY FS_Subset, FS_EmptySet
  <2> QED
    BY <2>1
<1>2. ASSUME NEW n \in Nat, n \in T PROVE n + 1 \in T
  <2> SUFFICES ASSUME NEW U \in SUBSET S, U # {}, Cardinality(U) = n + 1
               PROVE  Has(U)
    OBVIOUS
  <2>1. PICK x : x \in U
    OBVIOUS
  <2>2. IsFiniteSet(U)
    BY FS_Subset
  <2>3. U \ {x} \in SUBSET S /\ Cardinality(U \ {x}) = n
    <3>1. Cardinality(U \ {x}) = Cardinality(U) - 1
      BY <2>1, <2>2, FS_RemoveElement
    <3> QED
      BY <3>1
  <2>4. CASE U \ {x} = {}
    BY <2>1, <2>4
  <2>5. CASE U \ {x} # {}
    <3>1. Has(U \ {x})
      BY <1>2, <2>3, <2>5
    <3>2. PICK c \in U \ {x} : \A d \in (U \ {x}) \ {c} : d \in beats[c]
      BY <3>1
    <3>3. c # x /\ c \in S /\ x \in S
      BY <2>1, <3>2
    <3>4. CASE x \in beats[c]
      BY <3>2, <3>4
    <3>5. CASE x \notin beats[c]
      <4>1. c \in beats[x]
        BY <3>3, <3>5
      <4>2. \A d \in U \ {x} : d \in beats[x]
        <5>1. ASSUME NEW d \in U \ {x}, d # c PROVE d \in beats[x]
          <6>1. d \in beats[c] /\ d \in S
            BY <3>2, <5>1
          <6> QED
            BY <3>3, <4>1, <6>1
        <5> QED
          BY <4>1, <5>1
      <4> QED
        BY <2>1, <4>2
    <3> QED
      BY <3>4, <3>5
  <2> QED
    BY <2>4, <2>5
<1>3. Nat \subseteq T
  <2> HIDE DEF T
  <2> QED
    BY <1>1, <1>2, Induct
<1>4. Cardinality(S) \in Nat
  BY FS_CardinalityType
<1>5. Cardinality(S) \in T
  BY <1>3, <1>4
<1> QED
  BY <1>5

\* Subsets of at most so many members, and what is left of one without a member.
LEMMA SmallSets ==
    ASSUME NEW A, IsFiniteSet(A), NEW n \in Nat
    PROVE  /\ \A U \in SUBSET A : Cardinality(U) <= n => Cardinality(U) <= n + 1
           /\ \A U \in SUBSET A, x \in A : x \in U /\ Cardinality(U) <= n + 1 =>
                 Cardinality(U \ {x}) <= n
           /\ \A U \in SUBSET A : Cardinality(U) <= 0 => U = {}
<1>0. ASSUME NEW U \in SUBSET A PROVE IsFiniteSet(U) /\ Cardinality(U) \in Nat
  BY FS_Subset, FS_CardinalityType
<1>1. ASSUME NEW U \in SUBSET A, Cardinality(U) <= n
      PROVE  Cardinality(U) <= n + 1
  BY <1>0, <1>1
<1>2. ASSUME NEW U \in SUBSET A, NEW x \in U, Cardinality(U) <= n + 1
      PROVE  Cardinality(U \ {x}) <= n
  <2>1. Cardinality(U \ {x}) = Cardinality(U) - 1
    BY <1>0, FS_RemoveElement
  <2> QED
    BY <1>0, <1>2, <2>1
<1>3. ASSUME NEW U \in SUBSET A, Cardinality(U) <= 0 PROVE U = {}
  <2>1. Cardinality(U) = 0
    BY <1>0, <1>3
  <2> QED
    BY <1>0, <2>1, FS_EmptySet
<1> QED
  BY <1>1, <1>2, <1>3

\* A finite set has a size.
LEMMA SizeType ==
    ASSUME NEW A, IsFiniteSet(A)
    PROVE  Cardinality(A) \in Nat /\ Cardinality(A) <= Cardinality(A)
<1>1. Cardinality(A) \in Nat
  BY FS_CardinalityType
<1> QED
  BY <1>1

\* A natural has a natural after it.
LEMMA Successor == \A n \in Nat : n + 1 \in Nat
OBVIOUS

\* last[U] is one of U.
EndsIn(last, A) == \A U \in SUBSET A : U = {} \/ last[U] \in U

\* A walk over the members of A: on the subsets of A, from the empty one on, each
\* value comes from that of the set without its last member.
Walks(f, A, first, last, keep) ==
    \A U \in SUBSET A :
        f[U] = IF U = {} THEN first ELSE keep[<<last[U], f[U \ {last[U]}]>>]

\* The tie-break's walk exists.
LEMMA WalkExists ==
    ASSUME NEW A, IsFiniteSet(A), NEW first \in A,
           NEW last, EndsIn(last, A),
           NEW keep, \A c, d \in A : keep[<<c, d>>] \in {c, d}
    PROVE  \E f \in [SUBSET A -> A] : Walks(f, A, first, last, keep)
<1> DEFINE Upto(n) == {U \in SUBSET A : Cardinality(U) <= n}
           Step(f, U) == IF U = {} THEN first
                         ELSE keep[<<last[U], f[U \ {last[U]}]>>]
<1>1. ASSUME NEW n \in Nat
      PROVE  /\ \A U \in Upto(n) : U \in Upto(n + 1)
             /\ \A U \in Upto(n + 1) :
                   U = {} \/ (U \ {last[U]} \in Upto(n) /\ last[U] \in A)
  BY SmallSets DEF EndsIn
<1>2. \A U \in Upto(0) : U = {}
  BY SmallSets
<1>3. Upto(Cardinality(A)) = SUBSET A /\ Cardinality(A) \in Nat
  BY FS_Subset, FS_CardinalityType
<1>4. \A f, U : U = {} => Step(f, U) = first
  OBVIOUS
<1>5. \A f, U : U # {} => Step(f, U) = keep[<<last[U], f[U \ {last[U]}]>>]
  OBVIOUS
<1> HIDE DEF Upto, Step
<1> DEFINE Fits(f, n) == /\ f \in [Upto(n) -> A]
                         /\ \A U \in Upto(n) : f[U] = Step(f, U)
           T == {n \in Nat : \E f : Fits(f, n)}
<1>6. 0 \in T
  <2> DEFINE f == [U \in Upto(0) |-> first]
  <2>1. Fits(f, 0)
    BY <1>2, <1>4
  <2> QED
    BY <2>1
<1>7. ASSUME NEW n \in Nat, n \in T PROVE n + 1 \in T
  <2>1. PICK f : Fits(f, n)
    BY <1>7
  <2> DEFINE g == [U \in Upto(n + 1) |-> Step(f, U)]
  <2>2. ASSUME NEW U \in Upto(n + 1) PROVE g[U] \in A
    <3>1. CASE U = {}
      <4>1. Step(f, U) = first
        BY <1>4, <3>1, Zenon
      <4> QED
        BY <4>1
    <3>2. CASE U # {}
      <4>1. U \ {last[U]} \in Upto(n) /\ last[U] \in A
        BY <1>1, <3>2
      <4>2. f[U \ {last[U]}] \in A
        BY <2>1, <4>1
      <4>3. keep[<<last[U], f[U \ {last[U]}]>>] \in A
        BY <4>1, <4>2
      <4>4. g[U] = keep[<<last[U], f[U \ {last[U]}]>>]
        BY <1>5, <3>2
      <4> QED
        BY <4>3, <4>4
    <3> QED
      BY <3>1, <3>2
  <2>3. \A U \in Upto(n) : g[U] = f[U]
    BY <1>1, <2>1
  <2>4. ASSUME NEW U \in Upto(n + 1) PROVE g[U] = Step(g, U)
    <3>1. CASE U = {}
      BY <1>4, <3>1
    <3>2. CASE U # {}
      <4>1. U \ {last[U]} \in Upto(n)
        BY <1>1, <3>2
      <4>2. g[U \ {last[U]}] = f[U \ {last[U]}]
        BY <2>3, <4>1
      <4>3. g[U] = keep[<<last[U], f[U \ {last[U]}]>>]
        BY <1>5, <3>2
      <4> HIDE DEF g
      <4>4. Step(g, U) = keep[<<last[U], g[U \ {last[U]}]>>]
        BY <1>5, <3>2, Zenon
      <4> QED
        BY <4>2, <4>3, <4>4, Zenon
    <3> QED
      BY <3>1, <3>2
  <2>5. g \in [Upto(n + 1) -> A]
    BY <2>2
  <2>6. Fits(g, n + 1)
    <3> HIDE DEF g
    <3> QED
      BY <2>4, <2>5
  <2>7. \E h : Fits(h, n + 1)
    BY <2>6, Zenon
  <2> HIDE DEF Fits
  <2> QED
    BY <2>7, Successor, Zenon
<1>8. Nat \subseteq T
  <2> HIDE DEF T
  <2> QED
    BY <1>6, <1>7, Induct
<1>9. PICK f : Fits(f, Cardinality(A))
  <2> HIDE DEF Fits
  <2> QED
    BY <1>3, <1>8
<1>10. f \in [SUBSET A -> A] /\ \A U \in SUBSET A : f[U] = Step(f, U)
  BY <1>3, <1>9
<1> QED
  BY <1>10 DEF Step, Walks

\* No turn of the walk leaves M.
Keeps(f, A, M, first, last) ==
    \A U \in SUBSET A : IF U = {} THEN f[U] = first
                        ELSE f[U \ {last[U]}] \in M => f[U] \in M

\* Then the whole walk does not.
LEMMA WalkStays ==
    ASSUME NEW A, IsFiniteSet(A), NEW M, NEW first \in M, NEW last, EndsIn(last, A),
           NEW f, Keeps(f, A, M, first, last)
    PROVE  f[A] \in M
<1> DEFINE T == {n \in Nat : \A U \in SUBSET A : Cardinality(U) <= n => f[U] \in M}
<1>1. 0 \in T
  <2>1. \A U \in SUBSET A : U = {} => f[U] = first
    BY DEF Keeps
  <2> QED
    BY <2>1, SmallSets
<1>2. ASSUME NEW n \in Nat, n \in T PROVE n + 1 \in T
  <2>1. ASSUME NEW U \in SUBSET A, Cardinality(U) <= n + 1 PROVE f[U] \in M
    <3>1. CASE U = {}
      BY <3>1 DEF Keeps
    <3>2. CASE U # {}
      <4>1. last[U] \in U /\ last[U] \in A /\ U \ {last[U]} \in SUBSET A
        BY <3>2 DEF EndsIn
      <4>2. Cardinality(U \ {last[U]}) <= n
        BY <2>1, <4>1, SmallSets
      <4>3. f[U \ {last[U]}] \in M
        BY <1>2, <4>1, <4>2
      <4> QED
        BY <3>2, <4>3 DEF Keeps
    <3> QED
      BY <3>1, <3>2
  <2> QED
    BY <2>1, Successor
<1>3. Nat \subseteq T
  <2> HIDE DEF T
  <2> QED
    BY <1>1, <1>2, Induct
<1>4. Cardinality(A) \in Nat /\ Cardinality(A) <= Cardinality(A)
  BY SizeType
<1> QED
  BY <1>3, <1>4

\* What a table says of a cell it knows.
LEMMA KnownType ==
    ASSUME NEW t \in Table, NEW c \in Known(t)
    PROVE  /\ c \in Cells /\ c \in Nat /\ c # NoCell
           /\ t[c] \in Candidate
           /\ t[c].sinr \in Int /\ t[c].l1Sinr \in Int /\ t[c].tte \in Nat
           /\ t[c].a3 \in Ages /\ t[c].a4 \in Ages
<1>1. c \in Cells /\ t[c] \in Candidate
  BY DEF Known, Table
<1> QED
  BY <1>1, CellsAssumption DEF Candidate, NoCell

\* The strongest admitted cell, if a cell is admitted.
LEMMA StrongestType ==
    ASSUME NEW k, NEW t \in Table
    PROVE  \/ SelectStrongest(k, t) = NoCell
           \/ /\ SelectStrongest(k, t) \in Known(t)
              /\ t[SelectStrongest(k, t)].admitted
<1> DEFINE S == {c \in Known(t) : t[c].admitted}
           power(c) == IF k.trigger = "LTM_CONDITIONAL" THEN t[c].l1Sinr
                                                        ELSE t[c].sinr
           over(c, d) == \/ power(c) > power(d)
                         \/ power(c) = power(d) /\ c <= d
           beats == [c \in S |-> {d \in S : over(c, d)}]
<1>1. ASSUME NEW c \in S PROVE power(c) \in Int /\ c \in Nat
  BY KnownType
<1>2. IsFiniteSet(S)
  <2>1. S \subseteq Cells
    BY DEF Known
  <2> QED
    BY <2>1, CellsAssumption, FS_Subset
<1>3. ASSUME NEW c \in S, NEW d \in S PROVE over(c, d) \/ over(d, c)
  <2> DEFINE p == power(c)
             q == power(d)
  <2>1. p \in Int /\ q \in Int /\ c \in Nat /\ d \in Nat
    BY <1>1
  <2> HIDE DEF p, q, S
  <2>2. \/ p > q \/ (p = q /\ c <= d)
        \/ q > p \/ (q = p /\ d <= c)
    BY <2>1
  <2> QED
    BY <2>2 DEF p, q
<1>4. ASSUME NEW c \in S, NEW d \in S, NEW e \in S, over(c, d), over(d, e)
      PROVE  over(c, e)
  <2> DEFINE p == power(c)
             q == power(d)
             r == power(e)
  <2>1. /\ p \in Int /\ q \in Int /\ r \in Int
        /\ c \in Nat /\ d \in Nat /\ e \in Nat
    BY <1>1
  <2>2. /\ p > q \/ (p = q /\ c <= d)
        /\ q > r \/ (q = r /\ d <= e)
    BY <1>4
  <2> HIDE DEF p, q, r, S
  <2>3. p > r \/ (p = r /\ c <= e)
    BY <2>1, <2>2
  <2> QED
    BY <2>3 DEF p, r
<1>5. CASE S # {}
  <2> HIDE DEF over, S
  <2>1. \A c, d \in S : c # d => d \in beats[c] \/ c \in beats[d]
    BY <1>3
  <2>2. \A c, d, e \in S : d \in beats[c] /\ e \in beats[d] => e \in beats[c]
    BY <1>4
  <2> HIDE DEF beats
  <2>3. \E c \in S : \A d \in S \ {c} : d \in beats[c]
    BY <1>2, <1>5, <2>1, <2>2, BestExists
  <2>4. \E c \in S : \A d \in S : over(c, d)
    BY <1>3, <2>3 DEF beats
  <2> DEFINE best == CHOOSE c \in S : \A d \in S : over(c, d)
  <2>5. best \in S
    BY <2>4
  <2>6. SelectStrongest(k, t) = best
    <3> USE DEF over
    <3> QED
      BY <1>5 DEF SelectStrongest, S
  <2> HIDE DEF best
  <2>7. SelectStrongest(k, t) \in S
    BY <2>5, <2>6
  <2> QED
    BY <2>7 DEF S
<1>6. CASE S = {}
  BY <1>6 DEF SelectStrongest
<1> QED
  BY <1>5, <1>6

\* A list of candidates has a first and a last, and none lasts longer than the
\* first.
LEMMA EndsType ==
    ASSUME NEW t \in Table, NEW A \in SUBSET Known(t), A # {}
    PROVE  /\ First(t, A) \in A /\ Last(t, A) \in A
           /\ \A c \in A : t[c].tte <= t[First(t, A)].tte
<1>0. \A c \in A : t[c].tte \in Nat /\ c \in Nat
  BY KnownType
<1>1. IsFiniteSet(A)
  <2>1. A \subseteq Cells
    BY DEF Known
  <2> QED
    BY <2>1, CellsAssumption, FS_Subset
<1>2. \A c, d \in A : c # d => Before(t, c, d) \/ Before(t, d, c)
  BY <1>0 DEF Before
<1>3. \A c, d, e \in A : Before(t, c, d) /\ Before(t, d, e) => Before(t, c, e)
  BY <1>0 DEF Before
<1>4. First(t, A) \in A /\ \A d \in A \ {First(t, A)} : Before(t, First(t, A), d)
  <2> DEFINE beats == [c \in A |-> {d \in A : Before(t, c, d)}]
  <2>1. \A c, d \in A : c # d => d \in beats[c] \/ c \in beats[d]
    BY <1>2
  <2>2. \A c, d, e \in A : d \in beats[c] /\ e \in beats[d] => e \in beats[c]
    BY <1>3
  <2> HIDE DEF beats
  <2>3. \E c \in A : \A d \in A \ {c} : d \in beats[c]
    BY <1>1, <2>1, <2>2, BestExists
  <2>4. \E c \in A : \A d \in A \ {c} : Before(t, c, d)
    BY <2>3 DEF beats
  <2> QED
    BY <2>4 DEF First
<1>5. Last(t, A) \in A
  <2> DEFINE beats == [c \in A |-> {d \in A : Before(t, d, c)}]
  <2>1. \A c, d \in A : c # d => d \in beats[c] \/ c \in beats[d]
    BY <1>2
  <2>2. \A c, d, e \in A : d \in beats[c] /\ e \in beats[d] => e \in beats[c]
    BY <1>3
  <2> HIDE DEF beats
  <2>3. \E c \in A : \A d \in A \ {c} : d \in beats[c]
    BY <1>1, <2>1, <2>2, BestExists
  <2>4. \E c \in A : \A d \in A \ {c} : Before(t, d, c)
    BY <2>3 DEF beats
  <2> QED
    BY <2>4 DEF Last
<1>6. ASSUME NEW c \in A PROVE t[c].tte <= t[First(t, A)].tte
  BY <1>0, <1>4 DEF Before
<1> QED
  BY <1>4, <1>5, <1>6

\* The tie-break ends in a set M that its walk enters at the head of the list and
\* never leaves by taking a stronger cell.
LEMMA TieBreakStays ==
    ASSUME NEW k, NEW t \in Table, NEW A \in SUBSET Known(t), A # {},
           NEW M \in SUBSET A, First(t, A) \in M,
           \A c \in A, d \in M : /\ t[d].tte - t[c].tte <= k.tteEpsilon
                                /\ t[c].sinr > t[d].sinr
                                => c \in M
    PROVE  TieBreak(k, t, A) \in M
<1> DEFINE better(c, best) == /\ t[best].tte - t[c].tte <= k.tteEpsilon
                              /\ t[c].sinr > t[best].sinr
           first == First(t, A)
           last == [U \in SUBSET A |-> Last(t, U)]
           keep == [p \in A \X A |-> IF better(p[1], p[2]) THEN p[1] ELSE p[2]]
           Walk(f) == Walks(f, A, first, last, keep)
           Value(f, U) == IF U = {} THEN First(t, A)
                          ELSE IF better(Last(t, U), f[U \ {Last(t, U)}])
                               THEN Last(t, U) ELSE f[U \ {Last(t, U)}]
           Code(f) == f = [U \in SUBSET A |-> Value(f, U)]
<1>1. first \in A
  BY EndsType
<1>2. EndsIn(last, A)
  BY EndsType DEF EndsIn
<1>3. \A c, d \in A : keep[<<c, d>>] = IF better(c, d) THEN c ELSE d
  OBVIOUS
<1>4. IsFiniteSet(A)
  <2>1. A \subseteq Cells
    BY DEF Known
  <2> QED
    BY <2>1, CellsAssumption, FS_Subset
<1>5. \A c, d \in A : keep[<<c, d>>] \in {c, d}
  BY <1>3
<1>6. \E f \in [SUBSET A -> A] : Walk(f)
  <2> HIDE DEF first, last, keep
  <2> QED
    BY <1>1, <1>2, <1>4, <1>5, WalkExists
<1>7. ASSUME NEW U \in SUBSET A, NEW f \in [SUBSET A -> A]
      PROVE  Value(f, U) = IF U = {} THEN first
                           ELSE keep[<<last[U], f[U \ {last[U]}]>>]
  <2>1. CASE U = {}
    BY <2>1
  <2>2. CASE U # {}
    <3>1. last[U] = Last(t, U) /\ last[U] \in A
      BY <1>2, <2>2 DEF EndsIn
    <3>2. U \ {last[U]} \in SUBSET A
      OBVIOUS
    <3>3. f[U \ {last[U]}] \in A
      BY <3>2
    <3>4. keep[<<last[U], f[U \ {last[U]}]>>]
             = IF better(last[U], f[U \ {last[U]}]) THEN last[U]
               ELSE f[U \ {last[U]}]
      BY <1>3, <3>1, <3>3
    <3> HIDE DEF better, keep, first, last
    <3> QED
      BY <2>2, <3>1, <3>4, Zenon
  <2> QED
    BY <2>1, <2>2
<1>8. \E f : Code(f)
  <2>1. PICK f \in [SUBSET A -> A] : Walk(f)
    BY <1>6
  <2>2. \A U \in SUBSET A : f[U] = Value(f, U)
    <3> HIDE DEF Value, keep, first, last
    <3> QED
      BY <1>7, <2>1, Zenon DEF Walks
  <2> HIDE DEF Value
  <2>3. Code(f)
    BY <2>2
  <2> HIDE DEF Code
  <2> QED
    BY <2>3
<1> DEFINE g == CHOOSE iter : Code(iter)
<1>9. TieBreak(k, t, A) = g[A]
  BY DEF TieBreak, MapThenFoldSet
<1>10. Code(g)
  <2> HIDE DEF Code
  <2> QED
    BY <1>8
<1>11. ASSUME NEW U \in SUBSET A PROVE g[U] = Value(g, U)
  <2> HIDE DEF g, Value
  <2> QED
    BY <1>10
<1> HIDE DEF g
<1>12. Keeps(g, A, M, first, last)
  <2>1. ASSUME NEW U \in SUBSET A
        PROVE  IF U = {} THEN g[U] = first
               ELSE g[U \ {last[U]}] \in M => g[U] \in M
    <3>1. last[U] = Last(t, U)
      OBVIOUS
    <3>2. U # {} => last[U] \in A
      BY <1>2 DEF EndsIn
    <3>3. \A c \in A, d \in M : better(c, d) => c \in M
      OBVIOUS
    <3> HIDE DEF better, last
    <3> QED
      BY <1>11, <3>1, <3>2, <3>3, Zenon
  <2> QED
    BY <2>1, Zenon DEF Keeps
<1>13. g[A] \in M
  <2> HIDE DEF last
  <2> QED
    BY <1>2, <1>4, <1>12, WalkStays
<1> QED
  BY <1>9, <1>13

\* So it ends on a member of the list, and on one that lasts as long as the head
\* when it gives nothing away.
LEMMA TieBreakType ==
    ASSUME NEW k, NEW t \in Table, NEW A \in SUBSET Known(t), A # {}
    PROVE  /\ TieBreak(k, t, A) \in A
           /\ k.tteEpsilon = 0 => t[TieBreak(k, t, A)].tte = t[First(t, A)].tte
<1>1. /\ First(t, A) \in A
      /\ \A c \in A : t[c].tte \in Nat /\ t[c].tte <= t[First(t, A)].tte
  BY EndsType, KnownType
<1>2. TieBreak(k, t, A) \in A
  BY <1>1, TieBreakStays
<1>3. ASSUME k.tteEpsilon = 0 PROVE t[TieBreak(k, t, A)].tte = t[First(t, A)].tte
  <2> DEFINE M == {c \in A : t[c].tte = t[First(t, A)].tte}
  <2>1. M \in SUBSET A /\ First(t, A) \in M
    BY <1>1
  <2>2. ASSUME NEW c \in A, NEW d \in M, t[d].tte - t[c].tte <= k.tteEpsilon
        PROVE  c \in M
    BY <1>1, <1>3, <2>2
  <2> HIDE DEF M
  <2>3. TieBreak(k, t, A) \in M
    BY <2>1, <2>2, TieBreakStays
  <2> QED
    BY <2>3 DEF M
<1> QED
  BY <1>2, <1>3

\* SelectBestCandidate names a cell of the table, or none; and what it names by
\* the strength of the signal is admitted.
LEMMA SelectBestType ==
    ASSUME NEW k, NEW t \in Table, NEW sv, NEW w
    PROVE  /\ SelectBest(k, t, sv, w) \in Known(t) \cup {NoCell}
           /\ k.trigger # "TTE_AWARE" /\ SelectBest(k, t, sv, w) # NoCell =>
                 t[SelectBest(k, t, sv, w)].admitted
<1>1. CASE k.trigger = "TTE_AWARE"
  <2> DEFINE A == Admissible(k, t)
  <2>1. A \in SUBSET Known(t)
    BY DEF Admissible
  <2>2. A # {} => TieBreak(k, t, A) \in A
    <3> HIDE DEF A
    <3> QED
      BY <2>1, TieBreakType
  <2>3. SelectByTte(k, t, sv, w) \in {NoCell, TieBreak(k, t, A)}
        /\ (A = {} => SelectByTte(k, t, sv, w) = NoCell)
    BY DEF SelectByTte
  <2> HIDE DEF A
  <2> QED
    BY <1>1, <2>1, <2>2, <2>3 DEF SelectBest
<1>2. CASE k.trigger # "TTE_AWARE"
  BY <1>2, StrongestType DEF SelectBest
<1> QED
  BY <1>1, <1>2

-----------------------------------------------------------------------------
(* The closed loop: what its steps keep of the object.                     *)

\* A stamp in the table is no older than the condition as the radio's observer
\* knows it, where the configuration still looks.
Stamped(age, held, ttt) == age = NotMet \/ age <= held \/ held >= ttt

\* The object s when c is its serving cell, on all three accounts, and h is its
\* history.  Every other cell has a record, of its own satellite; and no stamp
\* claims more than was reported.
Settled(s, c, h) ==
    /\ s \in Objects
    /\ s.serving = c /\ s.servCell = c /\ s.serv.sat = c
    /\ s.have \/ c = ZeroSat
    /\ Known(s.cands) \cup {c} = Cells
    /\ \A d \in Known(s.cands) : s.cands[d].sat = d
    /\ c \in Known(s.cands) => /\ s.cands[c].a3 = NotMet
                               /\ s.cands[c].a4 = NotMet
    /\ s.config.trigger = "EVENT_A3" => \A d \in Known(s.cands) :
          Stamped(s.cands[d].a3, h.held[d], s.config.a3Ttt)
    /\ s.config.trigger = "DISTANCE_D2" => \A d \in Known(s.cands) :
          Stamped(s.cands[d].a4, h.good[d], s.config.a3Ttt)

\* The inductive invariant of the loop.
StackInv == /\ StackTypeOK
            /\ cho.serving \in Cells /\ Settled(cho, cho.serving, hist)
            /\ ServingIsRadioCell

\* A decision tick gets a report of every cell.
LEMMA ReportsType ==
    ASSUME StackInv
    PROVE  [Cells -> SinrsFor(cho.config)] \subseteq [Cells -> Int]
<1>1. cho.config \in Configs
  BY DEF StackInv, StackTypeOK, TypeOK, Objects
<1> QED
  BY <1>1, SinrsType

\* Settled reads nothing of the events, of the state and of the dwell.
LEMMA SettledFrame ==
    ASSUME NEW s, NEW c, NEW h, Settled(s, c, h), NEW o \in Objects,
           o.config = s.config, o.cands = s.cands, o.serving = s.serving,
           o.have = s.have, o.servCell = s.servCell, o.serv = s.serv
    PROVE  Settled(o, c, h)
BY DEF Settled

\* And nothing of the history but the two conditions.
LEMMA SettledHistory ==
    ASSUME NEW s, NEW c, NEW h, Settled(s, c, h), NEW g,
           g.held = h.held, g.good = h.good
    PROVE  Settled(s, c, g)
BY DEF Settled

\* ExecuteHandover, the end of a handover that fails, and T304, are such steps.
LEMMA SettledSteps ==
    ASSUME NEW s, NEW c, NEW h, Settled(s, c, h)
    PROVE  /\ Settled(Execute(s), c, h)
           /\ Settled(Finished(s), c, h)
           /\ s.t304 = 0 => Settled(T304Expired([s EXCEPT !.t304 = Off]), c, h)
           /\ s.oldT304[0] > 0 =>
                 Settled(T304Expired([s EXCEPT !.oldT304[0] = @ - 1]), c, h)
<1>0. s \in Objects
  BY DEF Settled
<1>1. Settled(Execute(s), c, h)
  <2>1. Execute(s) \in Objects
    BY <1>0, ExecuteType
  <2> QED
    BY <1>0, <2>1, SettledFrame DEF Execute, Objects
<1>2. Settled(Finished(s), c, h)
  <2>1. Finished(s) \in Objects
    BY <1>0 DEF Finished, Objects, States
  <2> QED
    BY <1>0, <2>1, SettledFrame DEF Finished, Objects
<1>3. ASSUME s.t304 = 0
      PROVE  Settled(T304Expired([s EXCEPT !.t304 = Off]), c, h)
  <2>1. T304Expired([s EXCEPT !.t304 = Off]) \in Objects
    BY <1>0, FiredType, T304ExpiredType
  <2> QED
    BY <1>0, <2>1, SettledFrame DEF T304Expired, Objects
<1>4. ASSUME s.oldT304[0] > 0
      PROVE  Settled(T304Expired([s EXCEPT !.oldT304[0] = @ - 1]), c, h)
  <2>1. T304Expired([s EXCEPT !.oldT304[0] = @ - 1]) \in Objects
    BY <1>0, <1>4, FiredType, T304ExpiredType
  <2> QED
    BY <1>0, <2>1, SettledFrame DEF T304Expired, Objects
<1> QED
  BY <1>1, <1>2, <1>3, <1>4

\* The scenario as it starts: the initial cell is in the table too.
LEMMA ConnectedSettled ==
    ASSUME NEW k \in Configs
    PROVE  /\ Settled(Connected(k), InitialCell, NewHistory)
           /\ NewHistory \in Histories
           /\ Connected(k).config = k
<1> DEFINE a == NewAlgorithm(k)
           o == SetServing(a, InitialCell)
           t == [c \in Cells |-> NewCandidate(c)]
<1>0. InitialCell \in Cells /\ InitialCell # NoCell /\ ZeroSat = InitialCell
  BY RealStackAssumption, CellsAssumption DEF NoCell
<1>1. a \in Objects
  BY NewAlgorithmType
<1>2. o \in Objects
  BY <1>0, <1>1, SetServingType
<1>3. /\ o.serving = InitialCell /\ o.servCell = InitialCell
      /\ o.serv = NewCandidate(ZeroSat) /\ o.config = k
  BY <1>0 DEF SetServing, NewAlgorithm
<1>4. \A c \in Cells : NewCandidate(c) \in Candidate
  BY NewCandidateType
<1>5. t \in Table /\ Known(t) = Cells
  BY <1>4, AbsentAssumption DEF Table, Known
<1>6. \A c \in Cells : t[c].sat = c /\ t[c].a3 = NotMet /\ t[c].a4 = NotMet
  BY DEF NewCandidate
<1>7. Connected(k) = [o EXCEPT !.cands = t, !.state = "PREPARED"]
  BY DEF Connected
<1> HIDE DEF o, t
<1>8. /\ Connected(k) \in Objects
      /\ Connected(k).cands = t /\ Connected(k).serving = o.serving
      /\ Connected(k).servCell = o.servCell /\ Connected(k).serv = o.serv
      /\ Connected(k).config = o.config
  BY <1>2, <1>5, <1>7 DEF Objects, States
<1>9. o.serv.sat = InitialCell
  BY <1>0, <1>3 DEF NewCandidate
<1>10. Settled(Connected(k), InitialCell, NewHistory)
  BY <1>0, <1>3, <1>5, <1>6, <1>8, <1>9 DEF Settled, Stamped
<1>11. NewHistory \in Histories
  BY BoundsType DEF NewHistory, Histories, Ages, NotMet
<1> QED
  BY <1>3, <1>8, <1>10, <1>11

\* Whatever the trigger, an evaluation leaves the geometry a record names, and the
\* stamp of a trigger is the age of its own condition.
LEMMA EvaluatedRecord ==
    ASSUME NEW s \in Objects, NEW r \in Candidate, NEW w \in Worlds,
           s.config.trigger = "EVENT_A3" => ServingState(s) # Absent
    PROVE  LET e == EvaluateCandidate(s, r, w)
               k == s.config
               above == r.sinr > ServingState(s).sinr + k.a3Offset
           IN  /\ e.sat = r.sat
               /\ k.trigger = "EVENT_A3" =>
                     /\ e.a3 = Held(above, r.a3)
                     /\ e.admitted => e.a3 >= k.a3Ttt /\ above
               /\ k.trigger = "DISTANCE_D2" =>
                     /\ e.a4 = Held(r.sinr >= k.quality, r.a4)
                     /\ e.admitted /\ k.combineWithA4 =>
                           e.a4 >= k.a3Ttt /\ r.sinr >= k.quality
<1> DEFINE k == s.config
           sv == ServingState(s)
           g == Sky(w, r)
           e == EvaluateCandidate(s, r, w)
           above == r.sinr > sv.sinr + k.a3Offset
           good == r.sinr >= k.quality
<1>1. CASE k.trigger = "LTM_CONDITIONAL"
  <2>1. e = EvaluateLtmConditional(k, r, s.servSinr, g)
    BY <1>1 DEF EvaluateCandidate
  <2>2. EvaluateLtmConditional(k, r, s.servSinr, g).sat = r.sat
    BY DEF EvaluateLtmConditional, Candidate
  <2> QED
    BY <1>1, <2>1, <2>2
<1>2. CASE k.trigger = "TIME_BASED"
  <2>1. e \in {[r EXCEPT !.admitted = FALSE],
               EvaluateBeamDwell(k, r, s.have, s.serv, s.dwell)}
    BY <1>2 DEF EvaluateCandidate
  <2>2. EvaluateBeamDwell(k, r, s.have, s.serv, s.dwell).sat = r.sat
    BY DEF EvaluateBeamDwell, Candidate
  <2>3. [r EXCEPT !.admitted = FALSE].sat = r.sat
    BY DEF Candidate
  <2> QED
    BY <1>2, <2>1, <2>2, <2>3
<1>3. CASE k.trigger \in {"TIME_T1", "ELEVATION", "DISTANCE_D2"}
  <2>1. e = EvaluateStandardNtnTrigger(k, r, sv, g)
    BY <1>3 DEF EvaluateCandidate
  <2>2. /\ EvaluateStandardNtnTrigger(k, r, sv, g).sat = r.sat
        /\ EvaluateStandardNtnTrigger(k, r, sv, g).a4 = Held(good, r.a4)
    BY DEF EvaluateStandardNtnTrigger, Candidate
  <2>3. EvaluateStandardNtnTrigger(k, r, sv, g).admitted =>
           good /\ (k.combineWithA4 => Held(good, r.a4) >= k.a3Ttt)
    BY DEF EvaluateStandardNtnTrigger, Candidate
  <2> QED
    BY <1>3, <2>1, <2>2, <2>3
<1>4. CASE k.trigger = "EVENT_A3"
  <2>1. e = EvaluateEventA3(k, r, sv)
    BY <1>4 DEF EvaluateCandidate
  <2>2. sv # Absent
    BY <1>4
  <2>3. /\ EvaluateEventA3(k, r, sv).sat = r.sat
        /\ EvaluateEventA3(k, r, sv).a3 = Held(above, r.a3)
        /\ EvaluateEventA3(k, r, sv).admitted = (above /\ Held(above, r.a3) >= k.a3Ttt)
    BY <2>2 DEF EvaluateEventA3, Candidate
  <2> QED
    BY <1>4, <2>1, <2>3
<1>5. CASE k.trigger \notin {"LTM_CONDITIONAL", "TIME_BASED", "TIME_T1",
                             "ELEVATION", "DISTANCE_D2", "EVENT_A3"}
  <2>1. e = EvaluateLocation(k, r, g)
    BY <1>5 DEF EvaluateCandidate
  <2>2. EvaluateLocation(k, r, g).sat = r.sat
    BY DEF EvaluateLocation, Candidate
  <2> QED
    BY <1>5, <2>1, <2>2
<1> QED
  BY <1>1, <1>2, <1>3, <1>4, <1>5

\* The age of a condition in the table and in the history grow together.
LEMMA StampedHeld ==
    ASSUME NEW met, NEW a \in Ages, NEW h \in Ages, NEW ttt \in Nat,
           Stamped(a, h, ttt)
    PROVE  Stamped(Held(met, a), Since(met, h), ttt)
BY BoundsType DEF Stamped, Held, Since, Ages, NotMet

\* And age together.
LEMMA StampedLater ==
    ASSUME NEW a \in Ages, NEW h \in Ages, NEW ttt \in Nat, Stamped(a, h, ttt)
    PROVE  Stamped(Later(a, MaxAge), Later(h, ttt), ttt)
BY BoundsType DEF Stamped, Later, Ages, NotMet

\* The fields an evaluation leaves alone.
LEMMA EvaluateFields ==
    ASSUME NEW s \in Objects, NEW w
    PROVE  LET o == Evaluate(s, w)
           IN  /\ o.config = s.config /\ o.serving = s.serving
               /\ o.have = s.have /\ o.servCell = s.servCell
               /\ o.serv = s.serv
               /\ \A c \in Cells : o.cands[c] =
                     IF s.cands[c] = Absent THEN Absent
                     ELSE IF c = s.serving
                          THEN [s.cands[c] EXCEPT !.admitted = FALSE]
                     ELSE EvaluateCandidate(s, s.cands[c], w)
BY DEF Evaluate, Objects

\* A tick's measurements: each record is the same but for what was measured.
LEMMA MeasureAllType ==
    ASSUME NEW s \in Objects, s.serving \in Cells, NEW m \in [Cells -> Int]
    PROVE  LET o == MeasureAll(s, m)
           IN  /\ o \in Objects
               /\ o.config = s.config /\ o.serving = s.serving
               /\ o.have /\ o.servCell = s.serving
               /\ o.serv.sinr = m[s.serving] /\ o.serv.sat = s.serv.sat
               /\ \A c \in Cells :
                     IF s.cands[c] = Absent THEN o.cands[c] = Absent
                     ELSE /\ o.cands[c] \in Candidate
                          /\ o.cands[c].sinr = m[c]
                          /\ o.cands[c].sat = s.cands[c].sat
                          /\ o.cands[c].a3 = s.cands[c].a3
                          /\ o.cands[c].a4 = s.cands[c].a4
<1> DEFINE o == MeasureAll(s, m)
           t == [c \in Cells |-> Sampled(s.cands[c], m[c])]
           v == [s.serv EXCEPT !.sinr = m[s.serving], !.slant = TRUE]
<1>1. ASSUME NEW c \in Cells, s.cands[c] # Absent
      PROVE  /\ t[c] \in Candidate
             /\ t[c].sinr = m[c] /\ t[c].sat = s.cands[c].sat
             /\ t[c].a3 = s.cands[c].a3 /\ t[c].a4 = s.cands[c].a4
  <2>1. s.cands[c] \in Candidate /\ m[c] \in Int
    BY <1>1, TableType
  <2>2. t[c] = [s.cands[c] EXCEPT !.sinr = m[c], !.l1Sinr = m[c], !.slant = TRUE]
    BY <1>1 DEF Sampled
  <2> HIDE DEF t
  <2> QED
    BY <2>1, <2>2 DEF Candidate
<1>2. \A c \in Cells : s.cands[c] = Absent => t[c] = Absent
  BY DEF Sampled
<1>3. t \in Table
  <2>1. \A c \in Cells : t[c] \in Candidate \cup {Absent}
    BY <1>1, <1>2
  <2> QED
    BY <2>1 DEF Table
<1>4. v \in Candidate /\ v.sinr = m[s.serving] /\ v.sat = s.serv.sat
  BY DEF Candidate, Objects
<1>5. o = [s EXCEPT !.cands = t, !.servSinr = m[s.serving], !.serv = v,
                    !.servCell = s.serving, !.have = TRUE]
  BY DEF MeasureAll, Objects
<1> HIDE DEF t, v, o
<1>6. /\ o \in Objects /\ o.cands = t /\ o.serv = v
      /\ o.config = s.config /\ o.serving = s.serving
      /\ o.have /\ o.servCell = s.serving
  BY <1>3, <1>4, <1>5 DEF Objects
<1> QED
  BY <1>1, <1>2, <1>4, <1>6 DEF o

\* What the observer of the radio notes of one tick.
LEMMA ObservedType ==
    ASSUME NEW h \in Histories, cho \in Objects, cho.serving \in Cells,
           NEW m \in [Cells -> Int]
    PROVE  LET k == cho.config
               v == cho.serving
               o == Observed(h, m)
           IN  /\ o \in Histories /\ o.mine = h.mine
               /\ \A c \in Cells :
                     /\ c # v => o.held[c] =
                           Since(m[c] > m[v] + k.a3Offset, h.held[c])
                     /\ o.good[c] = Since(m[c] >= k.quality, h.good[c])
<1> DEFINE k == cho.config
           v == cho.serving
           held == [c \in Cells |->
                      Since(c # v /\ m[c] > m[v] + k.a3Offset, h.held[c])]
           good == [c \in Cells |-> Since(m[c] >= k.quality, h.good[c])]
           more(n) == IF n = k.ltmReports THEN n ELSE n + 1
           reports == [c \in Cells |->
                         IF c # v /\ m[c] >= m[v] + k.ltmHyst
                         THEN more(h.reports[c]) ELSE 0]
<1>1. \A met, a : a \in Ages => Since(met, a) \in Ages
  BY BoundsType DEF Since, Ages, NotMet
<1>2. held \in [Cells -> Ages] /\ good \in [Cells -> Ages]
  BY <1>1 DEF Histories
<1>3. reports \in [Cells -> Nat]
  <2>1. \A c \in Cells : h.reports[c] \in Nat
    BY DEF Histories
  <2>2. \A n \in Nat : more(n) \in Nat
    OBVIOUS
  <2> HIDE DEF more
  <2> QED
    BY <2>1, <2>2
<1>4. Observed(h, m) = [h EXCEPT !.held = held, !.good = good, !.reports = reports]
  BY DEF Observed, Histories
<1>5. \A c \in Cells :
         /\ c # v => held[c] =
               Since(m[c] > m[v] + k.a3Offset, h.held[c])
         /\ good[c] = Since(m[c] >= k.quality, h.good[c])
  OBVIOUS
<1> HIDE DEF held, good, reports, k, v
<1>6. /\ Observed(h, m) \in Histories
      /\ Observed(h, m).held = held /\ Observed(h, m).good = good
      /\ Observed(h, m).mine = h.mine
  BY <1>2, <1>3, <1>4 DEF Histories
<1> QED
  BY <1>5, <1>6 DEF k, v

\* A tick's measurements and evaluation leave the loop settled, and what they admit
\* has been reported above the threshold for as long as the configuration asks.
LEMMA SeenSettled ==
    ASSUME StackInv, NEW m \in [Cells -> Int]
    PROVE  LET seen == Evaluate(MeasureAll(cho, m), world)
               h == Observed(hist, m)
               k == cho.config
               v == cho.serving
           IN  /\ Settled(seen, v, h)
               /\ h \in Histories /\ h.mine = hist.mine
               /\ seen.config = k
               /\ \A c \in Known(seen.cands) :
                     seen.cands[c].admitted /\ c # v =>
                        /\ k.trigger = "EVENT_A3" => h.held[c] >= k.a3Ttt
                        /\ k.trigger = "DISTANCE_D2" /\ k.combineWithA4 =>
                              h.good[c] >= k.a3Ttt
<1> DEFINE s == MeasureAll(cho, m)
           seen == Evaluate(s, world)
           h == Observed(hist, m)
           k == cho.config
           old == cho.cands
           v == cho.serving
<1>0. /\ cho \in Objects /\ world \in Worlds /\ v \in Cells
      /\ hist \in Histories /\ Settled(cho, v, hist)
  BY DEF StackInv, StackTypeOK, TypeOK
<1>1. m \in [Cells -> Int]
  OBVIOUS
<1>2. cho.serving = v
  OBVIOUS
<1>3. /\ s \in Objects /\ s.config = k /\ s.serving = v
      /\ s.have /\ s.servCell = v
      /\ s.serv.sinr = m[v] /\ s.serv.sat = cho.serv.sat
      /\ \A c \in Cells :
            IF old[c] = Absent THEN s.cands[c] = Absent
            ELSE /\ s.cands[c] \in Candidate
                 /\ s.cands[c].sinr = m[c]
                 /\ s.cands[c].sat = old[c].sat
                 /\ s.cands[c].a3 = old[c].a3
                 /\ s.cands[c].a4 = old[c].a4
  BY <1>0, <1>1, <1>2, MeasureAllType
<1>4. /\ h \in Histories /\ h.mine = hist.mine
      /\ \A c \in Cells :
            /\ c # v => h.held[c] =
                  Since(m[c] > m[v] + k.a3Offset, hist.held[c])
            /\ h.good[c] = Since(m[c] >= k.quality, hist.good[c])
  BY <1>0, <1>1, ObservedType
<1> HIDE DEF s, h, v
<1>5. ServingState(s) = s.serv /\ s.serv # Absent
  BY <1>3, AbsentAssumption DEF ServingState, Objects
<1>6. /\ seen \in Objects
      /\ seen.config = k /\ seen.serving = v
      /\ seen.have /\ seen.servCell = v /\ seen.serv = s.serv
  BY <1>0, <1>3, EvaluateType, EvaluateFields
<1>7. \A c \in Cells : seen.cands[c] =
         IF s.cands[c] = Absent THEN Absent
         ELSE IF c = v THEN [s.cands[c] EXCEPT !.admitted = FALSE]
         ELSE EvaluateCandidate(s, s.cands[c], world)
  BY <1>0, <1>3, EvaluateFields
<1> HIDE DEF seen
<1>8. Known(seen.cands) = Known(old)
  <2>1. ASSUME NEW c \in Cells, old[c] = Absent PROVE seen.cands[c] = Absent
    BY <1>3, <1>7, <2>1
  <2>2. ASSUME NEW c \in Cells, old[c] # Absent PROVE seen.cands[c] # Absent
    <3>1. s.cands[c] \in Candidate /\ s.cands[c] # Absent
      BY <1>3, <2>2, AbsentAssumption
    <3>2. [s.cands[c] EXCEPT !.admitted = FALSE] \in Candidate
      BY <3>1 DEF Candidate
    <3>3. EvaluateCandidate(s, s.cands[c], world) \in Candidate
      BY <1>0, <1>3, <3>1, EvaluateCandidateType
    <3> QED
      BY <1>7, <3>1, <3>2, <3>3, AbsentAssumption
  <2> QED
    BY <2>1, <2>2 DEF Known
<1>9. v \in Known(old) =>
         /\ seen.cands[v].sat = v
         /\ seen.cands[v].a3 = NotMet /\ seen.cands[v].a4 = NotMet
  <2> SUFFICES ASSUME v \in Known(old)
               PROVE  /\ seen.cands[v].sat = v
                      /\ seen.cands[v].a3 = NotMet
                      /\ seen.cands[v].a4 = NotMet
    OBVIOUS
  <2>1. /\ old[v] # Absent /\ old[v].sat = v
        /\ old[v].a3 = NotMet /\ old[v].a4 = NotMet
    BY <1>0 DEF Settled, Known
  <2>2. /\ s.cands[v] \in Candidate /\ s.cands[v] # Absent
        /\ s.cands[v].sat = v
        /\ s.cands[v].a3 = NotMet /\ s.cands[v].a4 = NotMet
    BY <1>0, <1>3, <2>1, AbsentAssumption
  <2>3. seen.cands[v] = [s.cands[v] EXCEPT !.admitted = FALSE]
    BY <1>0, <1>7, <2>2
  <2> QED
    BY <2>2, <2>3 DEF Candidate
<1>10. ASSUME NEW c \in Known(old), c # v
       PROVE  LET above == m[c] > m[v] + k.a3Offset
                  good == m[c] >= k.quality
                  e == seen.cands[c]
              IN  /\ e.sat = c
                  /\ k.trigger = "EVENT_A3" =>
                        /\ e.a3 = Held(above, old[c].a3)
                        /\ e.admitted => e.a3 >= k.a3Ttt
                  /\ k.trigger = "DISTANCE_D2" =>
                        /\ e.a4 = Held(good, old[c].a4)
                        /\ e.admitted /\ k.combineWithA4 => e.a4 >= k.a3Ttt
  <2>1. c \in Cells /\ old[c] # Absent /\ old[c].sat = c
    BY <1>0 DEF Settled, Known
  <2>2. /\ s.cands[c] \in Candidate /\ s.cands[c] # Absent
        /\ s.cands[c].sinr = m[c] /\ s.cands[c].sat = c
        /\ s.cands[c].a3 = old[c].a3 /\ s.cands[c].a4 = old[c].a4
    BY <1>3, <2>1, AbsentAssumption
  <2>3. seen.cands[c] = EvaluateCandidate(s, s.cands[c], world)
    BY <1>7, <1>10, <2>1, <2>2
  <2> DEFINE r == s.cands[c]
             e == EvaluateCandidate(s, r, world)
             kk == s.config
             above == r.sinr > ServingState(s).sinr + kk.a3Offset
  <2>4. /\ e.sat = r.sat
        /\ kk.trigger = "EVENT_A3" =>
              /\ e.a3 = Held(above, r.a3)
              /\ e.admitted => e.a3 >= kk.a3Ttt /\ above
        /\ kk.trigger = "DISTANCE_D2" =>
              /\ e.a4 = Held(r.sinr >= kk.quality, r.a4)
              /\ e.admitted /\ kk.combineWithA4 =>
                    e.a4 >= kk.a3Ttt /\ r.sinr >= kk.quality
    BY <1>0, <1>3, <1>5, <2>2, EvaluatedRecord
  <2> QED
    BY <1>3, <1>5, <2>2, <2>3, <2>4
<1>11. /\ k.a3Ttt \in Nat
       /\ \A c \in Known(old) : /\ c \in Cells
                                /\ old[c].a3 \in Ages /\ old[c].a4 \in Ages
       /\ \A c \in Cells : hist.held[c] \in Ages /\ hist.good[c] \in Ages
  <2>1. k \in Configs /\ old \in Table
    BY <1>0 DEF Objects
  <2> QED
    BY <1>0, <2>1, ConfigType, KnownType DEF Histories
<1>12. ASSUME k.trigger = "EVENT_A3", NEW c \in Known(old)
       PROVE  /\ Stamped(seen.cands[c].a3, h.held[c], k.a3Ttt)
              /\ seen.cands[c].admitted /\ c # v => h.held[c] >= k.a3Ttt
  <2>1. CASE c = v
    BY <1>9, <2>1 DEF Stamped
  <2>2. CASE c # v
    <3> DEFINE above == m[c] > m[v] + k.a3Offset
    <3>1. Stamped(old[c].a3, hist.held[c], k.a3Ttt)
      BY <1>0, <1>12 DEF Settled
    <3>2. Stamped(Held(above, old[c].a3), Since(above, hist.held[c]), k.a3Ttt)
      BY <1>11, <3>1, StampedHeld
    <3>3. seen.cands[c].a3 = Held(above, old[c].a3)
      BY <1>10, <1>12, <2>2
    <3>4. h.held[c] = Since(above, hist.held[c])
      BY <1>4, <1>11, <2>2
    <3>5. Stamped(seen.cands[c].a3, h.held[c], k.a3Ttt)
      BY <3>2, <3>3, <3>4, Zenon
    <3>6. seen.cands[c].admitted => seen.cands[c].a3 >= k.a3Ttt
      BY <1>10, <1>12, <2>2
    <3>7. seen.cands[c].a3 \in Ages /\ h.held[c] \in Ages
      <4>1. seen.cands[c].a3 \in Ages
        BY <1>11, <3>3, HeldType
      <4> QED
        BY <1>4, <1>11, <4>1 DEF Histories
    <3> HIDE DEF above
    <3>8. seen.cands[c].admitted => h.held[c] >= k.a3Ttt
      BY <1>11, <3>5, <3>6, <3>7 DEF Stamped, Ages, NotMet
    <3> QED
      BY <3>5, <3>8
  <2> QED
    BY <2>1, <2>2
<1>13. ASSUME k.trigger = "DISTANCE_D2", NEW c \in Known(old)
       PROVE  /\ Stamped(seen.cands[c].a4, h.good[c], k.a3Ttt)
              /\ seen.cands[c].admitted /\ c # v /\ k.combineWithA4 =>
                    h.good[c] >= k.a3Ttt
  <2>1. CASE c = v
    BY <1>9, <2>1 DEF Stamped
  <2>2. CASE c # v
    <3> DEFINE good == m[c] >= k.quality
    <3>1. Stamped(old[c].a4, hist.good[c], k.a3Ttt)
      BY <1>0, <1>13 DEF Settled
    <3>2. Stamped(Held(good, old[c].a4), Since(good, hist.good[c]), k.a3Ttt)
      BY <1>11, <3>1, StampedHeld
    <3>3. seen.cands[c].a4 = Held(good, old[c].a4)
      BY <1>10, <1>13, <2>2
    <3>4. h.good[c] = Since(good, hist.good[c])
      BY <1>4, <1>11
    <3>5. Stamped(seen.cands[c].a4, h.good[c], k.a3Ttt)
      BY <3>2, <3>3, <3>4, Zenon
    <3>6. seen.cands[c].admitted /\ k.combineWithA4 => seen.cands[c].a4 >= k.a3Ttt
      BY <1>10, <1>13, <2>2
    <3>7. seen.cands[c].a4 \in Ages /\ h.good[c] \in Ages
      <4>1. seen.cands[c].a4 \in Ages
        BY <1>11, <3>3, HeldType
      <4> QED
        BY <1>4, <1>11, <4>1 DEF Histories
    <3> HIDE DEF good
    <3>8. seen.cands[c].admitted /\ k.combineWithA4 => h.good[c] >= k.a3Ttt
      BY <1>11, <3>5, <3>6, <3>7 DEF Stamped, Ages, NotMet
    <3> QED
      BY <3>5, <3>8
  <2> QED
    BY <2>1, <2>2
<1>14. \A c \in Known(old) : seen.cands[c].sat = c
  BY <1>9, <1>10
<1>15. Settled(seen, v, h)
  <2>1. s.serv.sat = v /\ Known(old) \cup {v} = Cells
    BY <1>0, <1>3 DEF Settled
  <2> HIDE DEF k, old
  <2> QED
    BY <1>6, <1>8, <1>9, <1>12, <1>13, <1>14, <2>1 DEF Settled
<1> QED
  BY <1>4, <1>6, <1>8, <1>12, <1>13, <1>15 DEF seen, s, h, v

\* The table after a handover from b to c: c has left it, b is in it as a neighbour
\* with no stamp, and nothing else has changed.
Swapped(t, old, b, c) ==
    /\ t[c] = Absent
    /\ t[b] # Absent
    /\ t[b].sat = b /\ t[b].a3 = NotMet /\ t[b].a4 = NotMet
    /\ \A d \in Cells \ {b, c} : t[d] = old[d]

\* The re-arming does that, whether b is put back or was there already.
LEMMA RearmedTable ==
    ASSUME NEW s, NEW b \in Cells, NEW c \in Cells, NEW h, c # b,
           Settled(s, b, h),
           NEW r \in Candidate, r.sat = b,
           NEW t, t = Rearm(s.config, [s.cands EXCEPT ![c] = Absent], b, c, r)
    PROVE  Swapped(t, s.cands, b, c)
<1> DEFINE u == [s.cands EXCEPT ![c] = Absent]
<1>0. s \in Objects /\ s.cands \in Table /\ s.config \in Configs /\ b # NoCell
  BY CellsAssumption DEF Settled, Objects, NoCell
<1>1. /\ u \in Table /\ u[c] = Absent
      /\ \A d \in Cells \ {c} : u[d] = s.cands[d]
  BY <1>0 DEF Table
<1>2. Cardinality(Known(u)) < s.config.maxCandidates
  <2>1. Known(u) \subseteq Cells \ {c}
    BY <1>1 DEF Known
  <2>2. /\ IsFiniteSet(Cells \ {c})
        /\ Cardinality(Cells \ {c}) = Cardinality(Cells) - 1
        /\ Cardinality(Cells) \in Nat
    BY CellsAssumption, FS_RemoveElement, FS_CardinalityType
  <2>3. Cardinality(Known(u)) <= Cardinality(Cells \ {c})
        /\ Cardinality(Known(u)) \in Nat
    BY <2>1, <2>2, FS_Subset, FS_CardinalityType
  <2>4. Cardinality(Cells) <= s.config.maxCandidates
        /\ s.config.maxCandidates \in Nat
    BY <1>0, RealStackAssumption, ConfigType
  <2> HIDE DEF u
  <2> QED
    BY <2>2, <2>3, <2>4
<1>3. CASE u[b] = Absent
  <2>1. t = [u EXCEPT ![b] = Rearmed(r)]
    BY <1>0, <1>2, <1>3 DEF Rearm
  <2>2. /\ Rearmed(r) \in Candidate /\ Rearmed(r).sat = b
        /\ Rearmed(r).a3 = NotMet /\ Rearmed(r).a4 = NotMet
    <3>1. NotMet \in Ages
      BY BoundsType DEF Ages, NotMet
    <3> QED
      BY <3>1 DEF Rearmed, Candidate
  <2> HIDE DEF u
  <2>3. /\ t[b] = Rearmed(r)
        /\ \A d \in Cells \ {b} : t[d] = u[d]
    BY <1>1, <2>1 DEF Table
  <2> QED
    BY <1>1, <2>2, <2>3, AbsentAssumption DEF u, Swapped
<1>4. CASE u[b] # Absent
  <2>1. t = u
    BY <1>4 DEF Rearm
  <2>2. s.cands[b] # Absent
    BY <1>1, <1>4
  <2>3. s.cands[b].sat = b /\ s.cands[b].a3 = NotMet /\ s.cands[b].a4 = NotMet
    BY <2>2 DEF Settled, Known
  <2> HIDE DEF u
  <2> QED
    BY <1>1, <1>4, <2>1, <2>3 DEF u, Swapped
<1> QED
  BY <1>3, <1>4

\* What the history keeps when the algorithm is told of an arrival.
LEMMA ArrivedType ==
    ASSUME NEW h \in Histories, NEW c \in Cells,
           NEW own \in BOOLEAN, NEW agreed \in BOOLEAN
    PROVE  LET g == Arrived(h, c, own, agreed)
           IN  /\ g \in Histories /\ g.good = h.good /\ g.mine = own
               /\ \A d \in Cells \ {c} : g.held[d] = h.held[d]
<1> DEFINE g == Arrived(h, c, own, agreed)
<1>1. NotMet \in Ages
  BY BoundsType DEF Ages, NotMet
<1>2. /\ h.held \in [Cells -> Ages] /\ h.reports \in [Cells -> Nat]
      /\ h.good \in [Cells -> Ages] /\ h.attached \in Nat
  BY DEF Histories
<1>3. /\ [h.held EXCEPT ![c] = NotMet] \in [Cells -> Ages]
      /\ [h.reports EXCEPT ![c] = 0] \in [Cells -> Nat]
      /\ \A d \in Cells \ {c} : [h.held EXCEPT ![c] = NotMet][d] = h.held[d]
  BY <1>1, <1>2
<1>4. g = [h EXCEPT !.held = [h.held EXCEPT ![c] = NotMet],
                    !.reports = [h.reports EXCEPT ![c] = 0],
                    !.mine = own, !.inStep = agreed]
  BY DEF Arrived, Histories
<1> QED
  BY <1>2, <1>3, <1>4 DEF Histories

\* NotifyHandoverComplete, with success, for another cell than the serving one.
LEMMA ArrivedSettled ==
    ASSUME NEW s, NEW b \in Cells, NEW c \in Cells, NEW h \in Histories, c # b,
           Settled(s, b, h), NEW own \in BOOLEAN, NEW agreed \in BOOLEAN
    PROVE  Settled(Completed(s, c), c, Arrived(h, c, own, agreed))
<1> DEFINE r == IF s.have THEN s.serv ELSE NewCandidate(ZeroSat)
           t == Rearm(s.config, [s.cands EXCEPT ![c] = Absent], b, c, r)
           o == Completed(s, c)
           g == Arrived(h, c, own, agreed)
<1>0. s \in Objects /\ s.serving = b
  BY DEF Settled
<1>1. r \in Candidate /\ r.sat = b
  <2>1. s.serv \in Candidate /\ s.serv.sat = b /\ (s.have \/ b = ZeroSat)
    BY DEF Settled, Objects
  <2> QED
    BY <2>1, ZeroType DEF NewCandidate
<1>2. /\ t[c] = Absent
      /\ t[b] # Absent
      /\ t[b].sat = b /\ t[b].a3 = NotMet /\ t[b].a4 = NotMet
      /\ \A d \in Cells \ {b, c} : t[d] = s.cands[d]
  <2>1. t = Rearm(s.config, [s.cands EXCEPT ![c] = Absent], b, c, r)
    OBVIOUS
  <2> HIDE DEF r, t
  <2>2. Swapped(t, s.cands, b, c)
    BY <1>1, <2>1, RearmedTable
  <2> QED
    BY <2>2 DEF Swapped
<1>3. s.cands[c] # Absent /\ s.cands[c].sat = c
  BY DEF Settled, Known
<1>4. o \in Objects
  BY <1>0, CompletedType
<1>5. /\ o.serving = c /\ o.cands = t /\ o.config = s.config
      /\ o.serv = s.cands[c] /\ o.servCell = c /\ o.have
  BY <1>0, <1>3 DEF Completed, Finished, Objects
<1>6. g.good = h.good /\ \A d \in Cells \ {c} : g.held[d] = h.held[d]
  BY ArrivedType
<1> HIDE DEF t, o, g
<1>7. Known(o.cands) \cup {c} = Cells
  <2>1. ASSUME NEW d \in Cells \ {b, c} PROVE s.cands[d] # Absent
    BY DEF Settled, Known
  <2> QED
    BY <1>2, <1>5, <2>1 DEF Known
<1>8. ASSUME NEW d \in Known(o.cands)
      PROVE  /\ d \in Cells \ {c}
             /\ \/ d = b
                \/ d # b /\ d \in Known(s.cands) /\ o.cands[d] = s.cands[d]
  BY <1>2, <1>5 DEF Known
<1>9. \A d \in Known(o.cands) : o.cands[d].sat = d
  BY <1>2, <1>5, <1>8 DEF Settled
<1>10. o.config.trigger = "EVENT_A3" => \A d \in Known(o.cands) :
          Stamped(o.cands[d].a3, g.held[d], o.config.a3Ttt)
  <2> SUFFICES ASSUME s.config.trigger = "EVENT_A3", NEW d \in Known(o.cands)
               PROVE  Stamped(o.cands[d].a3, g.held[d], s.config.a3Ttt)
    BY <1>5
  <2>1. CASE d = b
    BY <1>2, <1>5, <2>1 DEF Stamped
  <2>2. CASE d # b
    <3>1. Stamped(s.cands[d].a3, h.held[d], s.config.a3Ttt)
      BY <1>8, <2>2 DEF Settled
    <3> QED
      BY <1>6, <1>8, <2>2, <3>1
  <2> QED
    BY <2>1, <2>2
<1>11. o.config.trigger = "DISTANCE_D2" => \A d \in Known(o.cands) :
          Stamped(o.cands[d].a4, g.good[d], o.config.a3Ttt)
  <2> SUFFICES ASSUME s.config.trigger = "DISTANCE_D2", NEW d \in Known(o.cands)
               PROVE  Stamped(o.cands[d].a4, g.good[d], s.config.a3Ttt)
    BY <1>5
  <2>1. CASE d = b
    BY <1>2, <1>5, <2>1 DEF Stamped
  <2>2. CASE d # b
    <3>1. Stamped(s.cands[d].a4, h.good[d], s.config.a3Ttt)
      BY <1>8, <2>2 DEF Settled
    <3> QED
      BY <1>6, <1>8, <2>2, <3>1
  <2> QED
    BY <2>1, <2>2
<1>12. c \notin Known(o.cands)
  BY <1>8
<1>13. Settled(o, c, g)
  BY <1>3, <1>4, <1>5, <1>7, <1>9, <1>10, <1>11, <1>12 DEF Settled
<1> QED
  BY <1>13 DEF o, g

\* The same, for the cell that is the serving one already: it leaves the table, if the
\* scenario put it there.
LEMMA ArrivedAgain ==
    ASSUME NEW s, NEW c \in Cells, NEW h \in Histories, Settled(s, c, h),
           NEW own \in BOOLEAN, NEW agreed \in BOOLEAN
    PROVE  Settled(Completed(s, c), c, Arrived(h, c, own, agreed))
<1> DEFINE t == [s.cands EXCEPT ![c] = Absent]
           o == Completed(s, c)
           g == Arrived(h, c, own, agreed)
<1>0. s \in Objects /\ s.serving = c /\ s.cands \in Table
  BY DEF Settled, Objects
<1>1. o \in Objects
  BY <1>0, CompletedType
<1>2. /\ o.serving = c /\ o.cands = t /\ o.config = s.config
      /\ IF s.cands[c] = Absent
         THEN o.serv = s.serv /\ o.servCell = s.servCell /\ o.have = s.have
         ELSE o.serv = s.cands[c] /\ o.servCell = c /\ o.have
  BY <1>0 DEF Completed, Finished, Objects, Rearm
<1>3. /\ t[c] = Absent /\ \A d \in Cells \ {c} : t[d] = s.cands[d]
  BY <1>0 DEF Table
<1>4. g.good = h.good /\ \A d \in Cells \ {c} : g.held[d] = h.held[d]
  BY ArrivedType
<1>5. /\ o.servCell = c /\ o.serv.sat = c /\ (o.have \/ c = ZeroSat)
  BY <1>2 DEF Settled, Known
<1> HIDE DEF t, o, g
<1>6. Known(o.cands) = Known(s.cands) \ {c}
  BY <1>2, <1>3 DEF Known
<1>7. Known(o.cands) \cup {c} = Cells
  BY <1>6 DEF Settled, Known
<1>8. ASSUME NEW d \in Known(o.cands)
      PROVE  d \in Cells \ {c} /\ d \in Known(s.cands) /\ o.cands[d] = s.cands[d]
  BY <1>2, <1>3, <1>6 DEF Known
<1>9. \A d \in Known(o.cands) : o.cands[d].sat = d
  BY <1>8 DEF Settled
<1>10. o.config.trigger = "EVENT_A3" => \A d \in Known(o.cands) :
          Stamped(o.cands[d].a3, g.held[d], o.config.a3Ttt)
  <2> SUFFICES ASSUME s.config.trigger = "EVENT_A3", NEW d \in Known(o.cands)
               PROVE  Stamped(o.cands[d].a3, g.held[d], s.config.a3Ttt)
    BY <1>2
  <2>1. Stamped(s.cands[d].a3, h.held[d], s.config.a3Ttt)
    BY <1>8 DEF Settled
  <2> QED
    BY <1>4, <1>8, <2>1
<1>11. o.config.trigger = "DISTANCE_D2" => \A d \in Known(o.cands) :
          Stamped(o.cands[d].a4, g.good[d], o.config.a3Ttt)
  <2> SUFFICES ASSUME s.config.trigger = "DISTANCE_D2", NEW d \in Known(o.cands)
               PROVE  Stamped(o.cands[d].a4, g.good[d], s.config.a3Ttt)
    BY <1>2
  <2>1. Stamped(s.cands[d].a4, h.good[d], s.config.a3Ttt)
    BY <1>8 DEF Settled
  <2> QED
    BY <1>4, <1>8, <2>1
<1>12. c \notin Known(o.cands)
  BY <1>8
<1>13. Settled(o, c, g)
  BY <1>1, <1>2, <1>5, <1>7, <1>9, <1>10, <1>11, <1>12 DEF Settled
<1> QED
  BY <1>13 DEF o, g

\* A second: the table's stamps and the observer's conditions age together.
LEMMA OlderSettled ==
    ASSUME StackInv, ~Due(cho)
    PROVE  /\ Settled(Elapse(cho), cho.serving, Older(hist))
           /\ Older(hist) \in Histories /\ Older(hist).mine = hist.mine
<1> DEFINE o == Elapse(cho)
           h == Older(hist)
           k == cho.config
           v == cho.serving
<1>0. /\ cho \in Objects /\ hist \in Histories /\ Settled(cho, v, hist)
      /\ k \in Configs
  BY DEF StackInv, StackTypeOK, TypeOK, Objects
<1>1. /\ k.a3Ttt \in Nat /\ k.dwell \in Nat /\ k.a3Ttt <= MaxAge
  BY <1>0, ConfigType, ConfigAssumption
<1>2. o \in Objects
  BY <1>0, ElapseType
<1>3. /\ o.config = k /\ o.serving = cho.serving /\ o.have = cho.have
      /\ o.servCell = cho.servCell /\ o.serv = cho.serv
      /\ o.cands = [c \in Cells |-> Aged(cho.cands[c])]
  BY <1>0 DEF Elapse, Objects
<1>4. ASSUME NEW c \in Cells
      PROVE  IF cho.cands[c] = Absent THEN o.cands[c] = Absent
             ELSE /\ o.cands[c] # Absent
                  /\ o.cands[c].sat = cho.cands[c].sat
                  /\ o.cands[c].a3 = Later(cho.cands[c].a3, MaxAge)
                  /\ o.cands[c].a4 = Later(cho.cands[c].a4, MaxAge)
  <2>1. CASE cho.cands[c] = Absent
    BY <1>3, <2>1 DEF Aged
  <2>2. CASE cho.cands[c] # Absent
    <3>1. cho.cands[c] \in Candidate
      BY <1>0, <2>2, TableType
    <3>2. o.cands[c] = [cho.cands[c] EXCEPT !.a3 = Later(@, MaxAge),
                                            !.a4 = Later(@, MaxAge)]
      BY <1>3, <2>2 DEF Aged
    <3>3. o.cands[c] \in Candidate
      <4>1. /\ Later(cho.cands[c].a3, MaxAge) \in Ages
            /\ Later(cho.cands[c].a4, MaxAge) \in Ages
        BY <3>1, LaterType, BoundsType DEF Candidate, Ages
      <4> QED
        BY <3>1, <3>2, <4>1 DEF Candidate
    <3> QED
      BY <2>2, <3>1, <3>2, <3>3, AbsentAssumption DEF Candidate
  <2> QED
    BY <2>1, <2>2
<1>5. /\ h.held = [c \in Cells |-> Later(hist.held[c], k.a3Ttt)]
      /\ h.good = [c \in Cells |-> Later(hist.good[c], k.a3Ttt)]
      /\ h = [hist EXCEPT !.attached = Later(@, k.dwell), !.held = h.held,
                          !.good = h.good]
  BY <1>0 DEF Older, Histories
<1>6. \A a \in Ages : Later(a, k.a3Ttt) \in Ages
  BY <1>1, BoundsType DEF Later, Ages, NotMet
<1>7. h \in Histories /\ h.mine = hist.mine
  <2>1. Later(hist.attached, k.dwell) \in Nat
    BY <1>0, <1>1 DEF Later, Histories, NotMet
  <2>2. h.held \in [Cells -> Ages] /\ h.good \in [Cells -> Ages]
    BY <1>0, <1>5, <1>6 DEF Histories
  <2> HIDE DEF h
  <2> QED
    BY <1>0, <1>5, <2>1, <2>2 DEF Histories
<1> HIDE DEF o, h, v
<1>8. Known(o.cands) = Known(cho.cands)
  BY <1>4 DEF Known
<1>9. ASSUME NEW c \in Known(cho.cands)
      PROVE  /\ c \in Cells
             /\ cho.cands[c].a3 \in Ages /\ cho.cands[c].a4 \in Ages
             /\ hist.held[c] \in Ages /\ hist.good[c] \in Ages
             /\ o.cands[c].sat = c
             /\ o.cands[c].a3 = Later(cho.cands[c].a3, MaxAge)
             /\ o.cands[c].a4 = Later(cho.cands[c].a4, MaxAge)
             /\ h.held[c] = Later(hist.held[c], k.a3Ttt)
             /\ h.good[c] = Later(hist.good[c], k.a3Ttt)
  <2>1. c \in Cells /\ cho.cands[c] # Absent /\ cho.cands[c].sat = c
    BY <1>0 DEF Settled, Known
  <2>2. cho.cands \in Table
    BY <1>0 DEF Objects
  <2> QED
    BY <1>0, <1>4, <1>5, <2>1, <2>2, KnownType DEF Histories
<1>10. v \in Known(cho.cands) =>
          o.cands[v].a3 = NotMet /\ o.cands[v].a4 = NotMet
  BY <1>0, <1>9 DEF Settled, Later
<1>11. k.trigger = "EVENT_A3" => \A c \in Known(cho.cands) :
          Stamped(o.cands[c].a3, h.held[c], k.a3Ttt)
  <2> SUFFICES ASSUME k.trigger = "EVENT_A3", NEW c \in Known(cho.cands)
               PROVE  Stamped(o.cands[c].a3, h.held[c], k.a3Ttt)
    OBVIOUS
  <2>1. Stamped(cho.cands[c].a3, hist.held[c], k.a3Ttt)
    BY <1>0 DEF Settled
  <2>2. Stamped(Later(cho.cands[c].a3, MaxAge), Later(hist.held[c], k.a3Ttt),
                k.a3Ttt)
    BY <1>1, <1>9, <2>1, StampedLater
  <2> QED
    BY <1>9, <2>2, Zenon
<1>12. k.trigger = "DISTANCE_D2" => \A c \in Known(cho.cands) :
          Stamped(o.cands[c].a4, h.good[c], k.a3Ttt)
  <2> SUFFICES ASSUME k.trigger = "DISTANCE_D2", NEW c \in Known(cho.cands)
               PROVE  Stamped(o.cands[c].a4, h.good[c], k.a3Ttt)
    OBVIOUS
  <2>1. Stamped(cho.cands[c].a4, hist.good[c], k.a3Ttt)
    BY <1>0 DEF Settled
  <2>2. Stamped(Later(cho.cands[c].a4, MaxAge), Later(hist.good[c], k.a3Ttt),
                k.a3Ttt)
    BY <1>1, <1>9, <2>1, StampedLater
  <2> QED
    BY <1>9, <2>2, Zenon
<1>13. Settled(o, v, h)
  BY <1>0, <1>2, <1>3, <1>8, <1>9, <1>10, <1>11, <1>12 DEF Settled
<1> QED
  BY <1>7, <1>13 DEF o, h, v

-----------------------------------------------------------------------------
(* The invariant of the loop, one lemma per step that changes what it says.*)

\* What the invariant is made of.
LEMMA StackParts ==
    StackInv <=> /\ cho \in Objects /\ world \in Worlds
                 /\ lastChosen \in Cells
                 /\ {ueCell, inFlight, request} \subseteq Cells \cup {NoCell}
                 /\ {running, tickDue} \subseteq BOOLEAN
                 /\ hist \in Histories
                 /\ cho.serving \in Cells /\ Settled(cho, cho.serving, hist)
                 /\ ServingIsRadioCell
BY DEF StackInv, StackTypeOK, TypeOK

\* A decision tick: the measurements, the evaluation, the choice, and its execution.
LEMMA DecideKeeps ==
    ASSUME StackInv, NEW m \in [Cells -> Int], ChoTick(m)
    PROVE  StackInv'
<1> DEFINE seen == Evaluate(MeasureAll(cho, m), world)
           chosen == SelectBestCandidate(seen, world)
           h == Observed(hist, m)
           v == cho.serving
<1>1. Settled(seen, v, h) /\ h \in Histories /\ h.mine = hist.mine
  BY SeenSettled
<1>2. /\ hist' \in {h, OutOfStep(h)} /\ world' = world /\ tickDue' = FALSE
      /\ ueCell' = ueCell /\ inFlight' = inFlight /\ running' = running
      /\ \/ cho' = seen /\ lastChosen' = lastChosen /\ request' = request
         \/ /\ chosen # NoCell /\ lastChosen' = chosen
            /\ \/ cho' = Execute(seen) /\ request' = chosen
               \/ cho' = Notify(Execute(seen), chosen, FALSE) /\ request' = request
  BY Zenon DEF ChoTick
<1> HIDE DEF seen, h
<1>3. chosen \in Cells \cup {NoCell}
  <2>1. seen.cands \in Table
    BY <1>1 DEF Settled, Objects
  <2>2. chosen \in Known(seen.cands) \cup {NoCell}
    BY <2>1, SelectBestType DEF SelectBestCandidate
  <2> QED
    BY <2>2 DEF Known
<1> HIDE DEF chosen, v
<1>4. /\ Settled(Execute(seen), v, h)
      /\ Settled(Notify(Execute(seen), chosen, FALSE), v, h)
  <2>1. Settled(Execute(seen), v, h)
    BY <1>1, SettledSteps
  <2>2. Settled(Finished(Execute(seen)), v, h)
    BY <2>1, SettledSteps
  <2>3. Notify(Execute(seen), chosen, FALSE) = Finished(Execute(seen))
    BY DEF Notify
  <2> QED
    BY <2>1, <2>2, <2>3
<1>5. Settled(cho', v, h)
  BY <1>1, <1>2, <1>4
<1>6. cho' \in Objects /\ cho'.serving = v
  BY <1>5 DEF Settled
<1>7. /\ hist' \in Histories /\ hist'.mine = hist.mine
      /\ hist'.held = h.held /\ hist'.good = h.good
  BY <1>1, <1>2 DEF OutOfStep, Histories
<1>8. Settled(cho', cho'.serving, hist')
  BY <1>5, <1>6, <1>7, SettledHistory
<1>9. v \in Cells /\ v = cho.serving
  BY StackParts DEF v
<1>10. ServingIsRadioCell'
  BY <1>2, <1>6, <1>7, <1>9, StackParts DEF ServingIsRadioCell, Settles
<1>11. lastChosen' \in Cells /\ request' \in Cells \cup {NoCell}
  BY <1>2, <1>3, StackParts
<1> QED
  BY <1>2, <1>6, <1>7, <1>8, <1>9, <1>10, <1>11, StackParts
  DEF StackInv, StackTypeOK, TypeOK

\* A step that changes neither what Settled reads nor whose completion was last: the
\* cell of UE 0 is to stay, unless it leaves it.
LEMMA QuietKeeps ==
    ASSUME StackInv, Settled(cho', cho.serving, hist),
           hist' \in {hist, OutOfStep(hist), [hist EXCEPT !.attached = 0]},
           world' = world, lastChosen' = lastChosen,
           {ueCell', inFlight', request'} \subseteq Cells \cup {NoCell},
           {running', tickDue'} \subseteq BOOLEAN,
           Settles' => Settles /\ ueCell' = ueCell
    PROVE  StackInv'
<1>1. /\ hist' \in Histories /\ hist'.mine = hist.mine
      /\ hist'.held = hist.held /\ hist'.good = hist.good
  <2>1. hist \in Histories
    BY StackParts
  <2>2. ASSUME NEW g \in {OutOfStep(hist), [hist EXCEPT !.attached = 0]}
        PROVE  /\ g \in Histories /\ g.mine = hist.mine
               /\ g.held = hist.held /\ g.good = hist.good
    <3>1. CASE g = OutOfStep(hist)
      BY <2>1, <3>1 DEF OutOfStep, Histories
    <3>2. CASE g = [hist EXCEPT !.attached = 0]
      BY <2>1, <3>2 DEF Histories
    <3> QED
      BY <3>1, <3>2
  <2>3. CASE hist' = hist
    BY <2>1, <2>3
  <2> QED
    BY <2>2, <2>3, Zenon
<1>2. cho' \in Objects /\ cho'.serving = cho.serving
  BY DEF Settled
<1>3. Settled(cho', cho'.serving, hist')
  BY <1>1, <1>2, SettledHistory
<1>4. ServingIsRadioCell'
  BY <1>1, <1>2, StackParts DEF ServingIsRadioCell
<1> QED
  BY <1>1, <1>2, <1>3, <1>4, StackParts DEF StackInv, StackTypeOK, TypeOK

\* A handover ends on c, UE 0's own or another UE's, and the algorithm is told.
LEMMA ArrivalKeeps ==
    ASSUME StackInv, NEW c \in Cells, NEW own \in BOOLEAN, NEW agreed \in BOOLEAN,
           own => c = ueCell,
           cho' = Notify(cho, c, TRUE), hist' = Arrived(hist, c, own, agreed),
           inFlight' \in {inFlight, NoCell}, ueCell' = ueCell, request' = request,
           running' = running, tickDue' = tickDue,
           world' = world, lastChosen' = lastChosen
    PROVE  StackInv'
<1>1. hist' \in Histories /\ hist'.mine = own
  <2>1. hist \in Histories
    BY StackParts
  <2> QED
    BY <2>1, ArrivedType
<1>2. Settled(Completed(cho, c), c, hist')
  BY StackParts, ArrivedSettled, ArrivedAgain
<1>3. Settled(cho', c, hist')
  BY <1>2 DEF Notify
<1>4. cho' \in Objects /\ cho'.serving = c
  BY <1>3 DEF Settled
<1>5. ServingIsRadioCell'
  BY <1>1, <1>4 DEF ServingIsRadioCell
<1> QED
  BY <1>1, <1>3, <1>4, <1>5, StackParts DEF StackInv, StackTypeOK, TypeOK

\* A second passes, and the sky moves.
LEMMA SecondKeeps ==
    ASSUME StackInv, Second
    PROVE  StackInv'
<1>1. /\ Settled(Elapse(cho), cho.serving, Older(hist))
      /\ Older(hist) \in Histories /\ Older(hist).mine = hist.mine
  BY OlderSettled DEF Second
<1>2. /\ cho' = Elapse(cho) /\ hist' = Older(hist) /\ tickDue' = TRUE
      /\ lastChosen' = lastChosen /\ ueCell' = ueCell /\ inFlight' = inFlight
      /\ request' = request /\ running' = running
  BY DEF Second, radioVars
<1>3. cho' \in Objects /\ cho'.serving = cho.serving
  BY <1>1, <1>2 DEF Settled
<1>4. Settled(cho', cho'.serving, hist')
  BY <1>1, <1>2, <1>3
<1>5. world' \in Worlds
  <2>1. cho.config \in Configs
    BY StackParts DEF Objects
  <2> QED
    BY <2>1, SkyForType DEF Second
<1>6. ServingIsRadioCell'
  BY <1>1, <1>2, <1>3, StackParts DEF ServingIsRadioCell, Settles
<1> QED
  BY <1>1, <1>2, <1>3, <1>4, <1>5, <1>6, StackParts
  DEF StackInv, StackTypeOK, TypeOK

\* Every step of the loop keeps it settled.
LEMMA NextStack == StackInv /\ [StackNext]_stackVars => StackInv'
<1> SUFFICES ASSUME StackInv, [StackNext]_stackVars PROVE StackInv'
  OBVIOUS
<1>0. /\ Settled(cho, cho.serving, hist)
      /\ {ueCell, inFlight, request} \subseteq Cells \cup {NoCell}
      /\ {running, tickDue} \subseteq BOOLEAN
  BY StackParts
<1>1. CASE Decide
  BY <1>1, DecideKeeps, ReportsType DEF Decide
<1>2. CASE ChoTickNoSample
  BY <1>0, <1>2, QuietKeeps DEF ChoTickNoSample, radioVars, Settles
<1>3. CASE RequestRuns
  <2>1. Settles' => Settles
    BY <1>3 DEF RequestRuns, Idle, Settles
  <2> QED
    BY <1>0, <1>3, <2>1, QuietKeeps DEF RequestRuns
<1>4. ASSUME NEW c \in Cells, RadioHandover(c) PROVE StackInv'
  <2>1. Settles' => Settles
    BY <1>4 DEF RadioHandover, Idle, Settles
  <2> QED
    BY <1>0, <1>4, <2>1, QuietKeeps DEF RadioHandover
<1>5. CASE HandoverMoves
  <2>1. ~Settles'
    BY <1>5 DEF HandoverMoves, Settles
  <2> QED
    BY <1>0, <1>5, <2>1, QuietKeeps DEF HandoverMoves
<1>6. CASE HandoverEndOk
  <2>1. ueCell \in Cells
    BY <1>0, <1>6 DEF HandoverEndOk
  <2>2. (ueCell = lastChosen) \in BOOLEAN
    OBVIOUS
  <2> QED
    BY <1>6, <2>1, <2>2, ArrivalKeeps DEF HandoverEndOk
<1>7. CASE PreparationFails
  <2>1. Settles' => Settles
    BY <1>7 DEF PreparationFails, Settles
  <2> QED
    BY <1>0, <1>7, <2>1, QuietKeeps DEF PreparationFails
<1>8. CASE HandoverLost
  <2>1. ~Settles'
    BY <1>8 DEF HandoverLost, Settles
  <2> QED
    BY <1>0, <1>8, <2>1, QuietKeeps DEF HandoverLost
<1>9. ASSUME NEW c \in Cells, OtherUeEnds(c) PROVE StackInv'
  BY <1>9, ArrivalKeeps DEF OtherUeEnds, radioVars
<1>10. CASE T304Fires
  <2>1. Settled(cho', cho.serving, hist)
    BY <1>0, <1>10, SettledSteps DEF T304Fires, T304Event, Call
  <2> QED
    BY <1>0, <1>10, <2>1, QuietKeeps
    DEF T304Fires, T304Event, Call, OnlyCho, radioVars, Settles
<1>11. CASE OldT304Fires
  <2>1. Settled(cho', cho.serving, hist)
    BY <1>0, <1>11, SettledSteps DEF OldT304Fires, OldT304Event, Call
  <2> QED
    BY <1>0, <1>11, <2>1, QuietKeeps
    DEF OldT304Fires, OldT304Event, Call, OnlyCho, radioVars, Settles
<1>12. CASE Second
  BY <1>12, SecondKeeps
<1>13. CASE UNCHANGED stackVars
  BY <1>0, <1>13, QuietKeeps DEF stackVars, radioVars, Settles
<1> QED
  BY <1>1, <1>2, <1>3, <1>4, <1>5, <1>6, <1>7, <1>8, <1>9, <1>10, <1>11, <1>12,
     <1>13 DEF StackNext

\* The scenario starts settled.
LEMMA InitStack == StackInit => StackInv
<1> SUFFICES ASSUME StackInit PROVE StackInv
  OBVIOUS
<1>1. PICK k \in Configs : cho = Connected(k) /\ world \in SkyFor(k)
  BY DEF StackInit
<1>2. Settled(cho, InitialCell, NewHistory) /\ NewHistory \in Histories
  BY <1>1, ConnectedSettled
<1>3. cho \in Objects
  BY <1>2 DEF Settled
<1>4. world \in Worlds
  BY <1>1, SkyForType
<1>5. InitialCell \in Cells
  BY RealStackAssumption
<1>6. cho.serving = InitialCell
  BY <1>2 DEF Settled
<1>7. ServingIsRadioCell
  BY <1>6 DEF ServingIsRadioCell, StackInit
<1> QED
  BY <1>2, <1>3, <1>4, <1>5, <1>6, <1>7, StackParts DEF StackInit

\* The invariant of the loop.
LEMMA StackInvariant == StackSpec => []StackInv
<1> QED
  BY InitStack, NextStack, PTL DEF StackSpec

\* Every variable of the loop keeps its type: what is chosen, served from or on its
\* way is a cell, the tie-break's walk always ends on one, and no age exceeds its cap.
THEOREM StackTypeCorrect == StackSpec => []StackTypeOK
<1>1. StackInv => StackTypeOK
  BY DEF StackInv
<1> QED
  BY <1>1, StackInvariant, PTL

\* The cell the algorithm takes for the serving one is the cell of UE 0 whenever UE 0
\* is attached and not joining a target, through handovers decided, refused, failed,
\* late or made by the radio, unless the last completion reported was another UE's.
THEOREM ServingIsTracked == StackSpec => []ServingIsRadioCell
<1>1. StackInv => ServingIsRadioCell
  BY DEF StackInv
<1> QED
  BY <1>1, StackInvariant, PTL

\* Every cell stays the serving cell or a candidate.
THEOREM TableNeverDrains == StackSpec => []NeighboursKept
<1>1. StackInv => NeighboursKept
  BY DEF StackInv, Settled, NeighboursKept
<1> QED
  BY <1>1, StackInvariant, PTL

\* Every record names its own satellite.
THEOREM GeometryFollows == StackSpec => []GeometryOwn
<1>1. StackInv => GeometryOwn
  BY DEF StackInv, Settled, GeometryOwn
<1> QED
  BY <1>1, StackInvariant, PTL

\* A decision under A3, or under D2 with A4, is for a cell that every report of the
\* last a3TimeToTrigger had above the threshold.
DecidedInTime ==
    /\ Decides("EVENT_A3") => hist'.held[lastChosen'] >= cho.config.a3Ttt
    /\ Decides("DISTANCE_D2") /\ cho.config.combineWithA4 =>
          hist'.good[lastChosen'] >= cho.config.a3Ttt

\* Every decision is one.
LEMMA DecisionsInTime ==
    StackInv /\ [StackNext]_stackVars => [DecidedInTime]_stackVars
<1> SUFFICES ASSUME StackInv, StackNext, lastChosen' # lastChosen
             PROVE  DecidedInTime
  BY DEF DecidedInTime, Decides
<1>1. PICK m \in [Cells -> Int] : ChoTick(m)
  BY ReportsType DEF StackNext, Decide, ChoTickNoSample, RequestRuns, RadioHandover,
         HandoverMoves, HandoverEndOk, PreparationFails, HandoverLost, OtherUeEnds,
         T304Fires, OldT304Fires, OnlyCho, Second
<1> DEFINE seen == Evaluate(MeasureAll(cho, m), world)
           chosen == SelectBestCandidate(seen, world)
           h == Observed(hist, m)
           k == cho.config
<1>2. /\ Settled(seen, cho.serving, h) /\ seen.config = k
      /\ \A c \in Known(seen.cands) :
            seen.cands[c].admitted /\ c # cho.serving =>
               /\ k.trigger = "EVENT_A3" => h.held[c] >= k.a3Ttt
               /\ k.trigger = "DISTANCE_D2" /\ k.combineWithA4 =>
                     h.good[c] >= k.a3Ttt
  BY SeenSettled
<1>3. /\ hist' \in {h, OutOfStep(h)} /\ lastChosen' = chosen
      /\ chosen # NoCell /\ chosen # seen.serving
  BY <1>1, Zenon DEF ChoTick
<1> HIDE DEF seen, h
<1>4. seen.serving = cho.serving /\ seen.cands \in Table
  BY <1>2 DEF Settled, Objects
<1>5. /\ chosen \in Known(seen.cands)
      /\ k.trigger # "TTE_AWARE" => seen.cands[chosen].admitted
  BY <1>2, <1>3, <1>4, SelectBestType DEF SelectBestCandidate
<1> HIDE DEF chosen
<1>6. k.trigger \in {"EVENT_A3", "DISTANCE_D2"} => seen.cands[chosen].admitted
  BY <1>5
<1>7. hist'.held = h.held /\ hist'.good = h.good
  <2>1. h \in Histories
    BY SeenSettled DEF h
  <2> QED
    BY <1>3, <2>1 DEF OutOfStep, Histories
<1> QED
  BY <1>2, <1>3, <1>4, <1>5, <1>6, <1>7 DEF DecidedInTime, Decides

\* The time to trigger is honoured, whatever the configuration.
THEOREM TimeToTrigger == StackSpec => TttHonoured
<1>1. StackInv /\ [StackNext]_stackVars => [DecidedInTime]_stackVars
  BY DecisionsInTime
<1>2. StackSpec => [][DecidedInTime]_stackVars
  BY <1>1, StackInvariant, PTL DEF StackSpec
<1> QED
  BY <1>2 DEF TttHonoured, DecidedInTime

-----------------------------------------------------------------------------
(* What a decision on the time to exit is for.                             *)

\* What is admitted is not the serving cell, and its time to exit was computed in
\* this tick, from its own satellite.  So is the one of the serving cell.
LEMMA SeenExits ==
    ASSUME StackInv, NEW m \in [Cells -> Int], cho.config.trigger = "TTE_AWARE"
    PROVE  LET seen == Evaluate(MeasureAll(cho, m), world)
               sv == ServingState(seen)
               v == cho.serving
           IN  /\ sv # Absent /\ Sky(world, sv) = world[v]
               /\ \A c \in Known(seen.cands) : seen.cands[c].admitted =>
                     c # v /\ seen.cands[c].tte = world[c].exit
<1> DEFINE s == MeasureAll(cho, m)
           v == cho.serving
           seen == Evaluate(s, world)
           sv == ServingState(seen)
<1>1. /\ cho \in Objects /\ world \in Worlds /\ v \in Cells
      /\ Settled(cho, v, hist)
  BY DEF StackInv, StackTypeOK, TypeOK
<1>2. m \in [Cells -> Int]
  OBVIOUS
<1>3. /\ s \in Objects /\ s.config = cho.config /\ s.serving = v /\ s.have
      /\ \A c \in Cells : IF cho.cands[c] = Absent THEN s.cands[c] = Absent
                          ELSE s.cands[c] \in Candidate /\ s.cands[c].sat = cho.cands[c].sat
  BY <1>1, <1>2, MeasureAllType
<1>4. Settled(seen, v, Observed(hist, m))
  BY SeenSettled
<1> HIDE DEF s, v
<1>0. seen.have = s.have
  BY <1>3, EvaluateFields
<1>5. \A c \in Cells : seen.cands[c] =
         IF s.cands[c] = Absent THEN Absent
         ELSE IF c = v THEN [s.cands[c] EXCEPT !.admitted = FALSE]
         ELSE EvaluateCandidate(s, s.cands[c], world)
  BY <1>1, <1>3, EvaluateFields
<1> HIDE DEF seen
<1>6. sv = seen.serv /\ sv # Absent /\ sv.sat = v
  <2>1. /\ seen \in Objects /\ seen.serving = v /\ seen.servCell = v
        /\ seen.serv.sat = v
    BY <1>4 DEF Settled
  <2>2. seen.serv # Absent
    BY <2>1, AbsentAssumption DEF Objects
  <2> QED
    BY <1>0, <1>3, <2>1, <2>2 DEF ServingState
<1>7. ASSUME NEW c \in Known(seen.cands), seen.cands[c].admitted
      PROVE  c # v /\ seen.cands[c].tte = world[c].exit
  <2>1. c \in Cells /\ seen.cands[c] # Absent
    BY DEF Known
  <2>2. s.cands[c] \in Candidate /\ s.cands[c].sat = c
    <3>1. s.cands[c] # Absent
      BY <1>5, <2>1
    <3>2. cho.cands[c] # Absent
      BY <1>3, <2>1, <3>1
    <3> QED
      BY <1>1, <1>3, <2>1, <3>2 DEF Settled, Known
  <2> DEFINE r == s.cands[c]
             e == EvaluateLocation(s.config, r, Sky(world, r))
  <2>3. c # v
    <3>1. ~[r EXCEPT !.admitted = FALSE].admitted
      BY <2>2 DEF Candidate
    <3> QED
      BY <1>5, <1>7, <2>1, <3>1
  <2>4. seen.cands[c] = EvaluateCandidate(s, r, world)
    BY <1>5, <2>1, <2>3
  <2>5. EvaluateCandidate(s, r, world) = e
    BY <1>3 DEF EvaluateCandidate
  <2>6. Sky(world, r) = world[c]
    BY <2>1, <2>2 DEF Sky
  <2>7. s.config.trigger # "LOCATION_D1"
    BY <1>3
  <2>8. e.admitted => e.tte = Sky(world, r).exit
    BY <2>2, <2>7 DEF EvaluateLocation, Candidate
  <2> QED
    BY <1>7, <2>3, <2>4, <2>5, <2>6, <2>8
<1> QED
  BY <1>1, <1>6, <1>7 DEF seen, s, v, Sky

\* A decision on the time to exit is for a cell that outlasts the serving one.
DecidedToOutlast ==
    Decides("TTE_AWARE") /\ cho.config.requireBetter /\ cho.config.tteEpsilon = 0
        => Outlasts(lastChosen', cho.serving)

\* Every decision is one.
LEMMA DecisionsOutlast ==
    StackInv /\ [StackNext]_stackVars => [DecidedToOutlast]_stackVars
<1> SUFFICES ASSUME StackInv, StackNext, lastChosen' # lastChosen,
                    cho.config.trigger = "TTE_AWARE", cho.config.requireBetter,
                    cho.config.tteEpsilon = 0
             PROVE  Outlasts(lastChosen', cho.serving)
  BY DEF DecidedToOutlast, Decides
<1>1. PICK m \in [Cells -> Int] : ChoTick(m)
  BY ReportsType DEF StackNext, Decide, ChoTickNoSample, RequestRuns, RadioHandover,
         HandoverMoves, HandoverEndOk, PreparationFails, HandoverLost, OtherUeEnds,
         T304Fires, OldT304Fires, OnlyCho, Second
<1> DEFINE seen == Evaluate(MeasureAll(cho, m), world)
           sv == ServingState(seen)
           k == cho.config
           v == cho.serving
           t == seen.cands
           A == Admissible(k, t)
           best == First(t, A)
           chosen == TieBreak(k, t, A)
<1>2. seen.config = k /\ t \in Table
  BY SeenSettled DEF Settled, Objects
<1>3. /\ sv # Absent /\ Sky(world, sv) = world[v]
      /\ \A c \in Known(t) : t[c].admitted => t[c].tte = world[c].exit
  BY SeenExits
<1>4. /\ lastChosen' = SelectBestCandidate(seen, world) /\ lastChosen' # NoCell
  BY <1>1, Zenon DEF ChoTick
<1> HIDE DEF seen, sv
<1>5. SelectBestCandidate(seen, world) = SelectByTte(k, t, sv, world)
  BY <1>2 DEF SelectBestCandidate, SelectBest, sv
<1>6. /\ A # {} /\ lastChosen' = chosen
      /\ ~Staying(k, world[v].exit, t[best].tte)
  BY <1>3, <1>4, <1>5 DEF SelectByTte
<1>7. A \in SUBSET Known(t) /\ \A c \in A : t[c].admitted
  BY DEF Admissible
<1>8. chosen \in A /\ t[chosen].tte = t[best].tte
  <2> HIDE DEF A
  <2> QED
    BY <1>2, <1>6, <1>7, TieBreakType
<1>9. world[chosen].exit = t[best].tte /\ chosen \in Cells
  BY <1>3, <1>7, <1>8 DEF Known
<1>10. /\ k \in Configs /\ k.estimator /\ k.horizon \in Nat
       /\ world[v].exit \in Nat /\ world[chosen].exit \in Nat
  <2>1. cho \in Objects /\ world \in Worlds /\ v \in Cells
    BY DEF StackInv, StackTypeOK, TypeOK
  <2>2. k \in Configs
    BY <2>1 DEF Objects
  <2>3. k.estimator /\ k.horizon \in Nat
    BY <2>2, ConfigAssumption DEF ChoConfig
  <2>4. \A c \in Cells : world[c].exit \in Nat
    BY <2>1 DEF Worlds, Geometry
  <2> QED
    BY <1>9, <2>1, <2>2, <2>3, <2>4
<1> HIDE DEF chosen, best, v
<1>11. \/ world[chosen].exit > world[v].exit
       \/ world[chosen].exit >= k.horizon /\ world[v].exit >= k.horizon
  BY <1>6, <1>9, <1>10 DEF Staying
<1> QED
  BY <1>6, <1>11 DEF v, Outlasts

\* With epsilon 0, A19 holds of every decision, whatever the cells, the radio and the
\* other UEs: the cell chosen outlasts the one taken for the serving cell.
THEOREM HandoversOutlast == StackSpec => OutlastsServing
<1>1. StackSpec => [][DecidedToOutlast]_stackVars
  BY DecisionsOutlast, StackInvariant, PTL DEF StackSpec
<1> QED
  BY <1>1 DEF OutlastsServing, DecidedToOutlast
=============================================================================
