--------------------------- MODULE MCE2Interface ----------------------------
(***************************************************************************)
(* One node, in every configuration (alignment, periodic reports); two     *)
(* xApps, one periodic that batches and one event-driven that does not.    *)
(***************************************************************************)
EXTENDS E2Interface

CONSTANTS x1, x2, ue
MCXapp == {x1, x2}
MCUe == {ue}
MCNode == {1}
MCRequired == x1 :> [event |-> FALSE, batch |-> TRUE]
              @@ x2 :> [event |-> TRUE, batch |-> FALSE]
=============================================================================
