--------------------------- MODULE MCRiotRefusals ---------------------------
(* RiotRefusals for TLC, with the constants, the clock and the fairness of MCRiotSystem. *)
EXTENDS RiotRefusals, MCRiotSystem

MCRefusalsNext == MCNext /\ RecordRefusals

MCRefusalsSpec == RefusalsInit /\ [][MCRefusalsNext]_refusalsVars /\ MCFairness
=============================================================================
