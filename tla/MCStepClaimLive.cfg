SPECIFICATION FairSpec
CONSTANTS
    w1 = w1
    w2 = w2
    Workers = {w1, w2}
    PlanLength = 1
    RetryLimit = 1
    MaxAttempts = 3
    Faults = {"crash", "rpc"}
INVARIANTS
    AttemptsAreOwned
PROPERTIES
    OutcomesAreFinal
    NamedClaimsAreRecovered
