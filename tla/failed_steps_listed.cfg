\* One run of one step.
SPECIFICATION Spec
CONSTANTS
    Pipelines = {p1, p2}
    Steps = {s1}
    Jobs = {j1}
    JobSteps <- EveryJobsSteps
    Offsets = {0}
    ServerOffset = 0
    MaxRuns = 1
    MaxTime = 2
    Extent = 3
    WindowRuns = 2
    Spans = {1, 2}
    BucketSize = 2
    QuarantineTime = 1
    MaxMarks = 0
    MarkedRuns = 2
    RareRuns = 1
    ZonedRuns = 0
SYMMETRY Symmetry
INVARIANTS
    FailedStepsAreListed
CHECK_DEADLOCK FALSE
