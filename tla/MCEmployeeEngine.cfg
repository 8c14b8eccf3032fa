SPECIFICATION MCSpec
CONSTANTS
    r1 = r1
    r2 = r2
    Requests = {r1, r2}
    MaxStepRetries = 1
    Errors <- SomeErrors
    Faults = {"crash", "db"}
INVARIANTS
    CompletedMeansDone
    OnlyRetryablesAreRetried
PROPERTIES
    NewKeys
    EveryRunEnds
CHECK_DEADLOCK FALSE
