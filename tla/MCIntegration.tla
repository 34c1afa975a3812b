---------------------------- MODULE MCIntegration ----------------------------
(* Two versions: the newer one has dropped a skill file and an agent.       *)
EXTENDS Integration

CONSTANTS v1, v2, skill, moved, agent, entry, lib

MCShips == [v \in Versions |-> IF v = v1 THEN Plain ELSE Plain \ {moved, agent}]
=============================================================================
