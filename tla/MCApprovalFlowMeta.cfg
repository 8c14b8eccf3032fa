CONSTANTS
    Keys = {m1}
    Requests = {r1}
    Faults = {}
    MetaApprovals = {m1}
    Drafts = {}
    MaxMessages = 2
SPECIFICATION FlowSpec
INVARIANTS
    DuplicateApproveSendsNothing
CHECK_DEADLOCK FALSE
