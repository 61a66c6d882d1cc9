\* Two webhook handlers and a poll over one run: deliveries that race and a call that
\* fails or a restart, or a re-run with one delivery, late or not.
SPECIFICATION Bounded
CONSTANTS
    NumRuns = 1
    PageSize = 1
    MaxAttempts = 2
    Jobs = {j1}
    h1 = h1
    h2 = h2
    p1 = p1
    p2 = p2
    Handlers = {h1, h2}
    Pollers = {p1}
    Writers = {h1, h2, p1}
    MaxDeliveries = 2
    MaxFaults = 1
    Conditional = TRUE
    NoETag = NoETag
SYMMETRY HandlerSymmetry
INVARIANTS
    TypeOK
    RowCoherent
    AckedIsStored
    ETagVouches
    NoFabricatedCompletion
    RunAndJobsAgree
    NotModifiedIsSound
PROPERTIES
    MetadataNeverLost
    ReopenedOnlyForCause
    MirrorsForge
CHECK_DEADLOCK FALSE
