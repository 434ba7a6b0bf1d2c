---------------------------- MODULE MCAiChannel ----------------------------
(***************************************************************************)
(* Structs of two fields with two values each; the agent swaps the fields  *)
(* and flips one, so that an action tells its observation.                 *)
(***************************************************************************)
EXTENDS AiChannel

MCFields == {1, 2}
MCValues == {0, 1}
MCPolicy == [o \in Struct |-> [f \in Fields |-> IF f = 1 THEN o[2] ELSE 1 - o[1]]]
=============================================================================
