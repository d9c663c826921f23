SPECIFICATION PresenceSpec
CONSTANTS
    Parts = {"lock"}
    s1 = s1
    s2 = s2
    s3 = s3
    u1 = u1
    u2 = u2
    u3 = u3
    NoUser = NoUser
    Sessions = {s1, s2}
    Users = {u1, u2}
    Owner <- DistinctPair
    SocketSessions = {s1}
    LockTTL = 2
    Prompt = FALSE
    Conns = {1, 2}
    PresenceTTL = 3
    IndexTTL = 12
    MaxFaults = 2
    Timely = TRUE
    SafeJoin = TRUE
    None = None
PROPERTY NoStealing
