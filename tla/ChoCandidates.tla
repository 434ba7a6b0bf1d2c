--------------------------- MODULE ChoCandidates ---------------------------
(***************************************************************************)
(* The candidate table of the conditional-handover (CHO) algorithm, and    *)
(* the two pure computations made from it: the evaluation of one           *)
(* candidate by the configured trigger, and the choice of the best one.    *)
(*                                                                         *)
(* What the code measures in dB and seconds is kept only as far as the     *)
(* thresholds tell it apart.  A SINR is a small integer; the geometric     *)
(* condition of a trigger (distance, elevation, timing advance, beam       *)
(* pointing) is one Boolean of the world, and the time-to-exit the         *)
(* estimator would return one natural number.  A "met since" time stamp is *)
(* kept as the time elapsed since, capped where no comparison can see the  *)
(* difference.                                                             *)
(*                                                                         *)
(* Definitions whose name starts with Slip are not the code: each is the   *)
(* next definition with one plausible mistake, for the mutation of the     *)
(* runs.                                                                   *)
(***************************************************************************)
EXTENDS Integers, FiniteSets, Folds

CONSTANTS
    Cells,      \* cell ids (uint16_t, never 0)
    Absent,     \* "no entry for this cell in m_candidates"
    ZeroSat,    \* the cell of satellite 0, beam 0, or NoCell
    Configs,    \* the values of ChoConfig considered, see ConfigAssumption
    MaxAge,     \* bound: no configuration looks at an older condition
    MaxDwell,   \* bound: no configuration waits for a longer dwell
    LtmCap,     \* where the count of L1 reports saturates, 250 in the code
    MaxDelay    \* bound: no configuration schedules anything further ahead

NoCell == 0        \* INVALID_CELL_ID
NotMet == -1       \* a3MetSince or a4MetSince negative
DefaultSinr == -100

\* TIME_T1 runs on the clock (t1ThresholdEpoch set); ELEVATION also stands for
\* TIMING_ADVANCE, the other trigger made of the two slant ranges.
\* TRAJECTORY_PREDICTIVE and THZ_BEAM_QUALITY are not modelled.
Triggers == {"TIME_BASED", "EVENT_A3", "LTM_CONDITIONAL", "TIME_T1",
             "ELEVATION", "DISTANCE_D2", "LOCATION_D1", "TTE_AWARE"}

ChoConfig == [trigger : Triggers, quality : Int, maxCandidates : Nat,
              monitorPeriod : Nat \ {0}, t304 : Nat \ {0},
              a3Offset : Int, a3Ttt : Nat, combineWithA4 : BOOLEAN,
              dwell : Nat, dwellHyst : Int, ltmReports : Nat, ltmHyst : Int,
              tteMin : Nat, tteEpsilon : Nat, requireBetter : BOOLEAN,
              horizon : Nat, estimator : BOOLEAN]

ASSUME CellsAssumption == /\ Cells \subseteq Nat \ {0}
                          /\ IsFiniteSet(Cells)
                          /\ ZeroSat \in Cells \cup {NoCell}

\* A smaller LtmCap than the code's changes nothing while it is at least
\* ltmReports.  EvaluateConditions aborts the run when TTE_AWARE has no estimator.
ASSUME ConfigAssumption ==
    /\ Configs \subseteq ChoConfig
    /\ MaxAge \in Nat /\ MaxDwell \in Nat /\ LtmCap \in Nat /\ MaxDelay \in Nat
    /\ \A k \in Configs :
          /\ k.a3Ttt <= MaxAge /\ k.dwell <= MaxDwell /\ k.ltmReports <= LtmCap
          /\ k.monitorPeriod <= MaxDelay /\ k.t304 <= MaxDelay
          /\ k.trigger = "TTE_AWARE" => k.estimator

\* What the orbit predictor and the estimator answer for the satellite of a cell:
\* whether the trigger's geometric condition holds, and the time to exit.
Geometry == [geo : BOOLEAN, exit : Nat]
Worlds == [Cells -> Geometry]

Ages == NotMet .. MaxAge

\* sat is the cell whose satellite and beam the record names; l1Sinr is
\* l1Filtered_dB with ltmL1FilterK = 1 and no L1 period: the last report.
Candidate == [sat : Cells \cup {NoCell}, sinr : Int, l1Sinr : Int,
              slant : BOOLEAN, admitted : BOOLEAN, d1Met : BOOLEAN, tte : Nat,
              a3 : Ages, a4 : Ages, l1 : 0 .. LtmCap]

ASSUME AbsentAssumption == Absent \notin Candidate

Table == [Cells -> Candidate \cup {Absent}]

\* A candidate just added.  A default-constructed CandidateInfo names satellite 0,
\* beam 0: it is NewCandidate(ZeroSat).
NewCandidate(sat) ==
    [sat |-> sat, sinr |-> DefaultSinr, l1Sinr |-> DefaultSinr,
     slant |-> FALSE, admitted |-> FALSE, d1Met |-> FALSE, tte |-> 0,
     a3 |-> NotMet, a4 |-> NotMet, l1 |-> 0]

\* The answer for the satellite a record names.
Sky(w, r) == IF r.sat \in Cells THEN w[r.sat] ELSE [geo |-> FALSE, exit |-> 0]

Known(t) == {c \in Cells : t[c] # Absent}

\* The age of a condition after one more evaluation.
Held(met, age) == IF ~met THEN NotMet ELSE IF age = NotMet THEN 0 ELSE age

-----------------------------------------------------------------------------
(* The evaluators: one candidate record r under a configuration k, the     *)
(* serving record sv (Absent when ServingState() is null), and w, what is  *)
(* seen of the candidate's satellite.                                      *)

EvaluateBeamDwell(k, r, have, sv, dwell) ==
    [r EXCEPT !.admitted = /\ dwell >= k.dwell
                           /\ r.sinr >= k.quality
                           /\ have => r.sinr > sv.sinr + k.dwellHyst]

EvaluateEventA3(k, r, sv) ==
    LET entering == IF sv = Absent THEN FALSE
                                   ELSE r.sinr > sv.sinr + k.a3Offset
        age == Held(entering, r.a3)
    IN  [r EXCEPT !.tte = 0, !.a3 = age,
                  !.admitted = entering /\ age >= k.a3Ttt]

EvaluateStandardNtnTrigger(k, r, sv, w) ==
    LET quality == r.sinr >= k.quality
        age == Held(quality, r.a4)
    IN  [r EXCEPT !.tte = 0, !.a4 = age,
                  !.admitted = /\ quality
                               /\ k.combineWithA4 => age >= k.a3Ttt
                               /\ k.trigger # "TIME_T1" => sv # Absent
                               /\ k.trigger = "ELEVATION" =>
                                      r.slant /\ sv.slant
                               /\ w.geo]

EvaluateLtmConditional(k, r, servingSinr, w) ==
    LET above == r.l1Sinr >= servingSinr + k.ltmHyst
        l1 == IF ~above THEN 0
              ELSE IF r.l1 < LtmCap THEN r.l1 + 1 ELSE LtmCap
        tte == IF k.estimator THEN w.exit ELSE r.tte
    IN  [r EXCEPT !.tte = tte, !.l1 = l1,
                  !.admitted = /\ l1 >= k.ltmReports
                               /\ \/ ~k.estimator
                                  \/ tte = 0
                                  \/ tte >= k.tteMin
                               /\ r.sinr >= k.quality]

\* LOCATION_D1 and TTE_AWARE share the location step.
EvaluateLocation(k, r, w) ==
    LET usable == w.geo /\ r.sinr >= k.quality
        d1 == k.trigger = "LOCATION_D1"
    IN  [r EXCEPT !.d1Met = w.geo,
                  !.tte = IF ~usable THEN @ ELSE IF d1 THEN 0 ELSE w.exit,
                  !.admitted = usable /\ (d1 \/ w.exit >= k.tteMin)]

-----------------------------------------------------------------------------
(* SelectBestCandidate.                                                    *)

\* Every trigger with an admit set of its own: the strongest admitted cell, the
\* first in map order (increasing cell id) among equals.
SelectStrongest(k, t) ==
    LET S == {c \in Known(t) : t[c].admitted}
        power(c) == IF k.trigger = "LTM_CONDITIONAL" THEN t[c].l1Sinr
                                                     ELSE t[c].sinr
    IN  IF S = {} THEN NoCell
        ELSE CHOOSE c \in S : \A d \in S : \/ power(c) > power(d)
                                           \/ power(c) = power(d) /\ c <= d

Admissible(k, t) ==
    {c \in Known(t) : /\ t[c].admitted /\ t[c].d1Met
                      /\ t[c].sinr >= k.quality
                      /\ t[c].tte >= k.tteMin}

\* The order std::sort leaves so short a list in: longest time to exit first, map
\* order among equals.
Before(t, c, d) == t[c].tte > t[d].tte \/ (t[c].tte = t[d].tte /\ c < d)

First(t, S) == CHOOSE c \in S : \A d \in S \ {c} : Before(t, c, d)

\* A19: stay when the serving cell lasts at least as long as the best
\* candidate, unless neither end is visible within the prediction horizon.
SlipStaying(k, servingTte, bestTte) == FALSE
Staying(k, servingTte, bestTte) ==
    /\ k.requireBetter /\ k.estimator
    /\ servingTte >= bestTte
    /\ servingTte < k.horizon \/ bestTte < k.horizon

Last(t, S) == CHOOSE c \in S : \A d \in S \ {c} : Before(t, d, c)

\* The tie-break is one walk down the list with a running best.
TieBreak(k, t, A) ==
    LET better(c, best) == /\ t[best].tte - t[c].tte <= k.tteEpsilon
                           /\ t[c].sinr > t[best].sinr
    IN  MapThenFoldSet(LAMBDA c, best : IF better(c, best) THEN c ELSE best,
                       First(t, A), LAMBDA c : c, LAMBDA S : Last(t, S), A)

SelectByTte(k, t, sv, w) ==
    LET A == Admissible(k, t)
    IN  IF A = {} THEN NoCell
        ELSE IF sv = Absent THEN TieBreak(k, t, A)
        ELSE IF Staying(k, Sky(w, sv).exit, t[First(t, A)].tte) THEN NoCell
        ELSE TieBreak(k, t, A)

SelectBest(k, t, sv, w) ==
    IF k.trigger = "TTE_AWARE" THEN SelectByTte(k, t, sv, w)
                               ELSE SelectStrongest(k, t)
=============================================================================
