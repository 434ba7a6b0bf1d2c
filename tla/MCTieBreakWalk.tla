--------------------------- MODULE MCTieBreakWalk ---------------------------
(***************************************************************************)
(* Every sorted list of up to four candidates (maxCandidates).              *)
(***************************************************************************)
EXTENDS TieBreakWalk

MCTtes == 0 .. 4
MCSinrs == 0 .. 2
=============================================================================
