SPECIFICATION FairSpec
CONSTANTS
    first = first
    second = second
    r1 = r1
    r2 = r2
    Missions = {first, second}
    Dependencies <- Chain
    Requests = {r1, r2}
    MaxAttempts = 1
    Changes = {"resume", "outcome", "select"}
    Faults = {"lapse"}
INVARIANT DependenciesFirst
PROPERTIES
    ReleaseIsOwn
    ActiveMissionsSettle
