----------------------------- MODULE RcActions ------------------------------
(***************************************************************************)
(* RC actions and the resources they contend for                           *)
(* (oran-ntn-conflict-manager.cc).  The manager files an action under      *)
(* three keys: its resource, its family on the gNB and its UE.  The keys   *)
(* are strings that cannot be mixed up; two actions meet when they share   *)
(* one of them.                                                            *)
(***************************************************************************)
EXTENDS Naturals

FamilyOf(type) ==
    CASE type \in {"SLICE_PRB_ALLOCATION", "PRB_RESERVATION"} -> "PRB"
      [] type \in {"BEAM_SWITCH", "BEAM_HOP_SCHEDULE", "BEAM_SHUTDOWN",
                   "INTERFERENCE_NULLING"} -> "BEAM"
      [] type \in {"TX_POWER_CONTROL", "ENERGY_PROFILE_UPDATE",
                   "COMPUTE_THROTTLE", "THZ_POWER_BACKOFF"} -> "POWER"
      [] type \in {"HANDOVER_TRIGGER", "HANDOVER_CANCEL", "DC_SETUP",
                   "DC_TEARDOWN", "BEARER_SPLIT"} -> "HANDOVER"
      [] type \in {"TIMING_ADVANCE_UPDATE", "DOPPLER_COMP_UPDATE"} -> "TIMING"
      [] type \in {"MCS_OVERRIDE", "MODCOD_OVERRIDE",
                   "CCA_THRESHOLD_ADJUST"} -> "MCS"
      [] type \in {"THZ_FREQ_SELECT", "THZ_BEAM_CODEBOOK", "THZ_RIS_CONFIG",
                   "THZ_WAVEFORM_SELECT", "THZ_ISAC_MODE",
                   "THZ_WINDOW_HOP"} -> "THZ"
      [] type \in {"ISL_ROUTE_UPDATE", "REGEN_MODE_SWITCH",
                   "FL_MODEL_PUSH"} -> "AI_ML"

\* Types that name one resource; every other type is a resource of its own.
Resource(type) ==
    CASE type \in {"HANDOVER_TRIGGER", "HANDOVER_CANCEL"} -> "handover"
      [] type \in {"BEAM_SWITCH", "BEAM_HOP_SCHEDULE"} -> "beam"
      [] type \in {"DC_SETUP", "DC_TEARDOWN", "BEARER_SPLIT"} -> "dc"
      [] type \in {"THZ_FREQ_SELECT", "THZ_WINDOW_HOP"} -> "thz-freq"
      [] type \in {"THZ_WAVEFORM_SELECT", "THZ_ISAC_MODE"} -> "thz-isac"
      [] OTHER -> type

\* What else is in the key: the UE alone, the gNB alone, or the gNB with a UE
\* or a part of it (a beam or a slice).
UeAlone == {"handover", "dc"}
UeOfGnb == {"TIMING_ADVANCE_UPDATE", "MCS_OVERRIDE"}
PartOfGnb == {"beam", "SLICE_PRB_ALLOCATION", "TX_POWER_CONTROL",
              "MODCOD_OVERRIDE", "BEAM_SHUTDOWN", "INTERFERENCE_NULLING",
              "PRB_RESERVATION", "THZ_BEAM_CODEBOOK", "THZ_POWER_BACKOFF"}

GetResourceKey(a) ==
    LET r == Resource(a.type) IN
    [resource |-> r,
     gnb  |-> IF r \in UeAlone THEN 0 ELSE a.gnb,
     ue   |-> IF r \in UeAlone \cup UeOfGnb THEN a.ue ELSE 0,
     part |-> IF r \in PartOfGnb THEN a.part ELSE 0]

SameFamily(a, b) == FamilyOf(a.type) = FamilyOf(b.type) /\ a.gnb = b.gnb

\* Fault: only the exact key is looked up.
SlipRelated(a, b) == GetResourceKey(a) = GetResourceKey(b)

\* UE 0 stands for the whole cell and is no index.
SameUe(a, b) == a.ue # 0 /\ a.ue = b.ue

Related(a, b) == \/ GetResourceKey(a) = GetResourceKey(b)
                 \/ SameFamily(a, b)
                 \/ SameUe(a, b)

\* The WG3 taxonomy.
ClassifyConflict(a, b) ==
    IF a.type = b.type /\ a.gnb = b.gnb /\ a.ue = b.ue /\ a.part = b.part
    THEN "DIRECT"
    ELSE IF SameFamily(a, b) THEN "INDIRECT"
    ELSE IF SameUe(a, b) THEN "IMPLICIT"
    ELSE "UNKNOWN"
=============================================================================
