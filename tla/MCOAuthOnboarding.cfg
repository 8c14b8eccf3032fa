SPECIFICATION MCSpec
CONSTANTS
    Starts = {s1, s2}
    Callbacks = {k1, k2}
    Hands = {h1}
    Approvals = {a1}
    WorkerKey = "worker"
    Kinds = {"route", "approval", "plain", "runtime"}
    Faults = {"crash", "db", "net"}
    Busy = 3
SYMMETRY Symmetry
INVARIANTS
    ExchangedOnce
    ConsumedMeansConnected
    OneWorkflowPerApproval
    ClaimsAreSettled
PROPERTIES
    FailedIsNotConnected
    ImplementsOncePerKey
CHECK_DEADLOCK FALSE
