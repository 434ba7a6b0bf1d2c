--------------------------- MODULE MCChoRealStack ---------------------------
(***************************************************************************)
(* The closed CHO loop for TLC.  Times are in seconds, T304 is the default *)
(* 2 s or less, and SINR values are the few that an offset or a threshold   *)
(* tells apart.                                                                  *)
(***************************************************************************)
EXTENDS ChoRealStack

TwoCells == {1, 2}
ThreeCells == {1, 2, 3}

\* No trigger-specific condition; every delay that is not used is 0.
Base ==
    [trigger |-> "TTE_AWARE", quality |-> 0, maxCandidates |-> 4,
     monitorPeriod |-> 1, t304 |-> 2, a3Offset |-> 0, a3Ttt |-> 0,
     combineWithA4 |-> FALSE, dwell |-> 0, dwellHyst |-> 0,
     ltmReports |-> 0, ltmHyst |-> 0,
     tteMin |-> 1, tteEpsilon |-> 1, requireBetter |-> TRUE,
     horizon |-> 3, estimator |-> TRUE]

A3 == [Base EXCEPT !.trigger = "EVENT_A3", !.a3Ttt = 2]
D2 == [Base EXCEPT !.trigger = "DISTANCE_D2", !.a3Ttt = 1, !.combineWithA4 = TRUE,
                   !.quality = 1, !.t304 = 1]
ExactTte == [Base EXCEPT !.tteEpsilon = 0]
Dwell == [Base EXCEPT !.trigger = "TIME_BASED", !.dwell = 3]
Ltm == [Base EXCEPT !.trigger = "LTM_CONDITIONAL", !.estimator = FALSE,
                    !.ltmReports = 2, !.ltmHyst = 1]

SafetyConfigs == {A3, D2, ExactTte}
TteConfigs == {Base}
DwellConfigs == {Dwell}
LtmConfigs == {Ltm}

\* The time to exit matters to TTE_AWARE alone; where a cell can be below tteMin it
\* may be no candidate at all.  The SINR matters to the others: to TTE_AWARE it
\* only breaks ties, which here go to the first cell.
MCSkies == [t \in Triggers |->
    [geo : {TRUE}, exit : IF t = "TTE_AWARE" THEN {2, 3} ELSE {0}]]
LiveSkies == [t \in Triggers |-> [geo : {TRUE}, exit : {0, 3}]]

OneSinr == [t \in Triggers |-> {0}]
MCSinrs == [t \in Triggers |-> IF t = "TTE_AWARE" THEN {0} ELSE {0, 1}]
=============================================================================
