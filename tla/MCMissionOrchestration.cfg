SPECIFICATION Spec
CONSTANTS
    first = first
    second = second
    r1 = r1
    r2 = r2
    Missions = {first}
    Dependencies <- Chain
    Requests = {r1, r2}
    MaxAttempts = 2
    Changes = {"pause", "resume", "schedule", "cancel", "outcome", "select"}
    Faults = {"crash", "db"}
SYMMETRY Symmetry
INVARIANTS
    OneRunner
