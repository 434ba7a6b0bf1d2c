------------------------------ MODULE MCNtnCho ------------------------------
(***************************************************************************)
(* The algorithm object alone, small enough for TLC: one cell, and two     *)
(* configurations so that T304 may change under a pending timer.           *)
(***************************************************************************)
EXTENDS NtnChoAlgorithm

MCCells == {1}

Location ==
    [trigger |-> "LOCATION_D1", quality |-> 0, maxCandidates |-> 1,
     monitorPeriod |-> 1, t304 |-> 2, a3Offset |-> 0, a3Ttt |-> 0,
     combineWithA4 |-> FALSE, dwell |-> 0, dwellHyst |-> 0,
     ltmReports |-> 2, ltmHyst |-> 0,
     tteMin |-> 1, tteEpsilon |-> 1, requireBetter |-> TRUE,
     horizon |-> 3, estimator |-> TRUE]

MCConfigs == {Location, [Location EXCEPT !.t304 = 1]}

MCSinrs == [t \in Triggers |-> {0}]
MCSkies == [t \in Triggers |-> [geo : BOOLEAN, exit : {1}]]
=============================================================================
