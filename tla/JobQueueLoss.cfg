SPECIFICATION Spec
CONSTANTS
    j1 = j1
    j2 = j2
    alice = alice
    bob = bob
    Jobs = {j1, j2}
    Users = {alice, bob}
    Mentioned <- TwoAndOne
    Malformed = {j2}
    Workers = {1, 2}
    MaxRetries = 2
    Prefetch = 2
    MaxFaults = 2
    SafeBackoff = FALSE
CHECK_DEADLOCK FALSE
INVARIANT NotLost
