\* A new installation, one request at a time, one failure.
SPECIFICATION Spec
CONSTANTS
    Slots = {1}
    MaxRequests = 3
    MaxFaults = 1
    Enrolled = {0}
INVARIANTS
    AccountHasPasskey
CHECK_DEADLOCK FALSE
