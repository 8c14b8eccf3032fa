SPECIFICATION FairSpec
CONSTANTS
    m1 = m1
    m2 = m2
    Messages = {m1, m2}
    Batches <- OneBatch
    Deliveries = {d1, d2}
    Hands = {h1}
    Quantified = {m1}
    MaxFaults = 1
    Faults = {"crash", "db"}
INVARIANTS
    OneLeadPerMessage
    AcknowledgedIsDurable
    AcknowledgedIsQualified
    QuoteIsBacked
PROPERTY EveryMessageBecomesALead
