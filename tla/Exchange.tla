------------------------------ MODULE Exchange ------------------------------
(***************************************************************************)
(* What the simulator may rely on: it asks for an action with an           *)
(* observation, and the call returns the agent's action for that           *)
(* observation.  When it has nothing more to ask it says so, once.         *)
(***************************************************************************)
CONSTANTS Observation, Policy

VARIABLES phase, question, action

xvars == <<phase, question, action>>

XInit == /\ phase = "idle"
         /\ question \in Observation
         /\ action = Policy[question]

Ask == /\ phase = "idle"
       /\ phase' = "asked"
       /\ question' \in Observation
       /\ UNCHANGED action

Answer == /\ phase = "asked"
          /\ phase' = "answered"
          /\ UNCHANGED <<question, action>>

Return == /\ phase = "answered"
          /\ phase' = "idle"
          /\ action' = Policy[question]
          /\ UNCHANGED question

Finish == /\ phase = "idle"
          /\ phase' = "over"
          /\ UNCHANGED <<question, action>>

XNext == Ask \/ Answer \/ Return \/ Finish

XSpec == XInit /\ [][XNext]_xvars
=============================================================================
