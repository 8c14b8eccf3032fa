CONSTANTS
    Keys = {p1, m1}
    Requests = {r1, r2}
    Faults = {"crash", "db", "decode"}
    MetaApprovals = {m1}
    Drafts = {d1}
    MaxMessages = 2
SYMMETRY Symmetry
SPECIFICATION FlowSpec
INVARIANTS
    OnlyApprovedPublishes
    AtMostOnePin
    RowTellsTheTruth
    SendIsSafe
    SuccessIsReal
PROPERTIES
    DecisionsAreFinal
    LapsedStaysQuiet
    LedgerAsSpecified
