---------------------------- MODULE MCNearRtRic -----------------------------
(***************************************************************************)
(* Two xApps of different priority and a node.  Their actions meet in      *)
(* every way: the same handover, the same UE across gNBs, one family on    *)
(* the gNB; one is cell-wide, one names a gNB without an E2 node.          *)
(***************************************************************************)
EXTENDS NearRtRic, TLC

CONSTANTS ho, dc
MCXapp == {ho, dc}
MCPriority == ho :> 1 @@ dc :> 2
MCNode == {1}
Act(type, gnb, ue, confidence) ==
    [type |-> type, gnb |-> gnb, ue |-> ue, part |-> 0,
     confidence |-> confidence]
MCAction == ho :> {Act("HANDOVER_TRIGGER", 1, 1, 1), Act("DC_SETUP", 3, 1, 2)}
    @@ dc :> {Act("HANDOVER_TRIGGER", 1, 1, 2), Act("DC_TEARDOWN", 1, 0, 1),
                Act("ENERGY_PROFILE_UPDATE", 0, 0, 1)}
MCCaps == {0, 1}
=============================================================================
