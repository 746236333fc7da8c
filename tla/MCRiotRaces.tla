----------------------------- MODULE MCRiotRaces ----------------------------
(* RiotRaces for TLC, with the constants of MCRiotSystem. *)
EXTENDS RiotRaces, MCRiotSystem

\* With the clock and the fairness of MCRiotSystem.
MCRacesNext == MCNext /\ RecordRaces

MCRacesSpec == RacesInit /\ [][MCRacesNext]_racesVars /\ MCFairness

MCRacesSymmetry == Permutations(Threads) \cup Permutations(Methods)
=============================================================================
