SPECIFICATION Spec
CONSTANTS
    Parts = {"session", "settings", "inbox", "home", "board", "panel", "prefs", "shell"}
    Accounts = {ana, ben}
    Nobody = Nobody
    MaxCalls = 2
    MaxCrashes = 1
    Android = TRUE
    Schemes = {"bare", "http", "https", "ws", "wss"}
    Hosts = {"none", "lan", "localhost", "127.0.0.1", "10.0.2.2"}
    DefaultApi <- Localhost
    Typed <- TypedAddresses
    MaxChanges = 3
    Notes = {n1, n2}
    Slots = {s1, s2}
    NoAnswer = NoAnswer
    MaxTaps = 2
    MaxFails = 1
    Workspaces = {w1, w2}
    Titles = {t1, t2}
    NoWorkspace = NoWorkspace
    MaxHomeActs = 3
    Lanes = {a, b, c}
    FirstLanes <- OneRow
    Screens = {390, 1280}
    Origins = {64, 220}
    Offsets = {0, 150}
    NoLane = NoLane
    Pending = Pending
    Refused = Refused
    MaxActs = 2
    Windows <- TwoWindows
    MaxWidth = 560
    Moves <- SomeMoves
    Decks = {d1, d2}
    Unsaved = Unsaved
    Unheard = Unheard
    MaxChoices = 3
    MaxDepth = 4
INVARIANTS
    SessionCoherent
    RestartRestores
    RestartKeepsServer
    SpinnersHaveCause
    DropLandsUnderPointer
    PanelInView
    PreferencesKept
    NoDeadSearch
PROPERTIES
    ReorderKeepsLanes
    BootFinishes
    InboxSettles
CHECK_DEADLOCK FALSE
