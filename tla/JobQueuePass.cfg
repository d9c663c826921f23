SPECIFICATION FairSpec
CONSTANTS
    j1 = j1
    j2 = j2
    alice = alice
    bob = bob
    Jobs = {j1, j2}
    Users = {alice, bob}
    Mentioned <- TwoAndOne
    Malformed = {j2}
    Workers = {1, 2}
    MaxRetries = 1
    Prefetch = 1
    MaxFaults = 2
    SafeBackoff = TRUE
CHECK_DEADLOCK FALSE
INVARIANTS
    OneCopy
    NotLost
    ServedIsNotified
    RetriesBounded
PROPERTIES
    ImplementsLedger
    EveryJobSettles
