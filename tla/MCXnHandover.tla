---------------------------- MODULE MCXnHandover ----------------------------
(***************************************************************************)
(* Three satellites, one UE id: two handovers of the same UE to different  *)
(* targets overlap, a retry follows a loss, and a cancel reaches a gNB     *)
(* that has a handover of its own under the same id.                       *)
(***************************************************************************)
EXTENDS XnHandover

CONSTANTS g1, g2, g3, ue
ThreeGnbs == {g1, g2, g3}
OneUe == {ue}
TwoStates == {1, 2}
=============================================================================
