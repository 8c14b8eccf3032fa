SPECIFICATION FairSpec
CONSTANTS
    first = first
    second = second
    r1 = r1
    r2 = r2
    Missions = {first, second}
    Dependencies <- Chain
    Requests = {r1}
    MaxAttempts = 2
    Changes = {"select"}
    Faults = {"lapse"}
PROPERTY BlockedUntilReady
CHECK_DEADLOCK FALSE
