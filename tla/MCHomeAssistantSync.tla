------------------------- MODULE MCHomeAssistantSync -------------------------
(* Instances of HomeAssistantSync for TLC. *)
EXTENDS HomeAssistantSync, TLC

\* For safety only.
Symmetry == Permutations(Entities)
=============================================================================
