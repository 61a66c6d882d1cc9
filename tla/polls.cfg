SPECIFICATION FairSpec
CONSTANTS
    j1 = j1
    p1 = p1
    p2 = p2
    NoETag = NoETag
PROPERTIES
    EveryListedRunRecorded
    PollsConverge
    JobsConverge
CHECK_DEADLOCK FALSE
