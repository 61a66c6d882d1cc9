\* A new installation; two registrations at once, no failure.
SPECIFICATION Spec
CONSTANTS
    Slots = {1, 2}
    MaxRequests = 4
    MaxFaults = 0
    Enrolled = {0}
INVARIANTS
    OneAccount
CHECK_DEADLOCK FALSE
