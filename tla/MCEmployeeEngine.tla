-------------------------- MODULE MCEmployeeEngine --------------------------
(* Instances of EmployeeEngine for TLC.                                     *)
EXTENDS EmployeeEngine, TLC

CONSTANTS r1, r2

\* A plain failure, one that looks temporary and is not, and a missing input.
SomeErrors == {{}, {"PERMANENT", "EXECUTION", "TRANSIENT"}, {"MISSING_INPUT", "TRANSIENT"}}

\* Two requests that swap their operations behave the same.
Unordered ==
    \/ kind[r1] = kind[r2] \/ kind[r1] = "route" \/ kind[r2] = "approval"
    \/ kind[r1] = "worker" /\ kind[r2] = "resume"

MCInit == Init /\ Unordered

MCSpec == MCInit /\ [][Next]_vars /\ Fairness
=============================================================================
