SPECIFICATION Spec
CONSTANTS
    w1 = w1
    w2 = w2
    Workers = {w1, w2}
    PlanLength = 2
    RetryLimit = 1
    MaxAttempts = 2
    Faults = {"crash", "db"}
SYMMETRY Symmetry
INVARIANTS
    OneLiveAttempt
    AttemptsAreOwned
    FinishMeansFinished
    ExecutionTellsTheTruth
PROPERTIES
    SupersededIsFrozen
    CompletedIsFinal
    ImplementsStepLog
