SPECIFICATION PresenceSpec
CONSTANTS
    Parts = {"lock", "room"}
    s1 = s1
    s2 = s2
    s3 = s3
    u1 = u1
    u2 = u2
    u3 = u3
    NoUser = NoUser
    Sessions = {s1, s2, s3}
    Users = {u1, u2, u3}
    Owner <- Distinct
    SocketSessions = {s1, s2}
    LockTTL = 2
    Prompt = TRUE
    Conns = {1, 2}
    PresenceTTL = 3
    IndexTTL = 12
    MaxFaults = 2
    Timely = TRUE
    SafeJoin = TRUE
    None = None
CHECK_DEADLOCK FALSE
INVARIANTS
    LeaseBacked
    ViewersAreHeard
    HubCoherent
    SteadyViewerListed
    LeftIsGone
PROPERTIES
    NoStealing
    ImplementsLease
    AbandonedLockFrees
    IndexDies
