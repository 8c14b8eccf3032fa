----------------------- MODULE MCMissionOrchestration -----------------------
EXTENDS MissionOrchestration, TLC
CONSTANTS first, second, r1, r2

\* The second mission, where there is one, depends on the first.
Chain == [m \in Missions |-> IF m = second THEN {first} ELSE {}]

Symmetry == Permutations(Requests)
=============================================================================
