SPECIFICATION Spec
CONSTANTS
    r1 = r1
    r2 = r2
    Requests = {r1, r2}
    MaxStepRetries = 1
    Errors <- SomeErrors
    Faults = {}
INVARIANT OneCallPerKey
CHECK_DEADLOCK FALSE
