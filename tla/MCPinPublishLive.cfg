CONSTANTS
    Keys = {k1, k2}
    Requests = {r1, r2}
    Faults = {"crash"}
SPECIFICATION FairSpec
PROPERTIES
    ClaimsAreSettled
    NoRetryAfterDoubt
    ImplementsOncePerKey
