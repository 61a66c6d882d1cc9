\* A workflow_job delivery of a run that is over.
SPECIFICATION FairSpec
CONSTANTS
    NumRuns = 1
    PageSize = 1
    MaxAttempts = 1
    Jobs = {j1}
    h1 = h1
    h2 = h2
    p1 = p1
    p2 = p2
    Handlers = {h1}
    Pollers = {p1}
    Writers = {h1, p1}
    MaxDeliveries = 1
    MaxFaults = 0
    Conditional = TRUE
    NoETag = NoETag
PROPERTIES
    StubFilledIn
CHECK_DEADLOCK FALSE
