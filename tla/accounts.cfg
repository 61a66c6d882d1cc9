\* A new installation, or an account with two passkeys; two requests at once.
SPECIFICATION FairSpec
CONSTANTS
    Slots = {1, 2}
    MaxRequests = 5
    MaxFaults = 1
    Enrolled = {0, 2}
INVARIANTS
    TypeOK
    SignedInHasPasskey
PROPERTIES
    KeepsAPasskey
    KeepsKeyring
    EveryRequestAnswered
CHECK_DEADLOCK FALSE
