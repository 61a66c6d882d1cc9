\* A workflow_run delivery is received, the workflow_job one is lost.
SPECIFICATION Spec
CONSTANTS
    NumRuns = 1
    PageSize = 1
    MaxAttempts = 1
    Jobs = {j1}
    h1 = h1
    h2 = h2
    p1 = p1
    p2 = p2
    Handlers = {h1}
    Pollers = {p1}
    Writers = {h1, p1}
    MaxDeliveries = 1
    MaxFaults = 0
    Conditional = TRUE
    NoETag = NoETag
INVARIANTS
    SkipIsSafe
CHECK_DEADLOCK FALSE
