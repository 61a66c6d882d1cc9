\* An account with two passkeys: one signs in while the other revokes it; no failure.
SPECIFICATION Spec
CONSTANTS
    Slots = {1, 2}
    MaxRequests = 5
    MaxFaults = 0
    Enrolled = {2}
INVARIANTS
    RevokedStaysRevoked
CHECK_DEADLOCK FALSE
