\* Two pipelines with one step, which is in two jobs; three runs between them, each started
\* and ended at any of three times, or two at any of four, or one at any of five; starts in
\* another zone than the server's while there are at most two; a mark, a timeout, a
\* cancellation, a re-run or jobs in which the step's results differ while there is one; a
\* window of three runs, which a trend divides into two buckets, or of one, three or four
\* units of time.
SPECIFICATION Spec
CONSTANTS
    Pipelines = {p1, p2}
    Steps = {s1}
    Jobs = {j1, j2}
    JobSteps <- EveryJobsSteps
    Offsets = {0, 1}
    ServerOffset = 1
    MaxRuns = 3
    MaxTime = 5
    Extent = 6
    WindowRuns = 3
    Spans = {1, 3, 4}
    BucketSize = 2
    QuarantineTime = 1
    MaxMarks = 2
    MarkedRuns = 1
    RareRuns = 1
    ZonedRuns = 2
SYMMETRY Symmetry
INVARIANTS
    TypeOK
    RecoveryTimeIsPerOutage
    PercentileIsNearestRank
    FlakyViewsAgree
    FailureViewsAgree
    InsightWindowsMeet
    RunListPages
    PipelineListPages
    TrendAccountsForWindow
PROPERTIES
    QuarantineMutesOnlyFlakiness
CHECK_DEADLOCK FALSE
