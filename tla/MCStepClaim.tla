---------------------------- MODULE MCStepClaim -----------------------------
\* Workers are interchangeable: no two of them differ in what they do.
EXTENDS StepClaim, TLC

Symmetry == Permutations(Workers)
=============================================================================
