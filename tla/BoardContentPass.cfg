SPECIFICATION BusySpec
CONSTANTS
    todo = todo
    done = done
    extra = extra
    Cards = {c1}
    Lanes = {todo, done, extra}
    FirstLanes <- TwoLanes
    Requests = {r1, r2, r3}
    Ops = {"create", "update", "delete", "addLane", "reorder", "rename", "deleteLane"}
    LaneEditsSerial = TRUE
    CardWritesSerial = FALSE
    MaxFaults = 0
    Keep = Keep
    Unborn = Unborn
    Deleted = Deleted
SYMMETRY Symmetry
CHECK_DEADLOCK FALSE
INVARIANTS
    LanesWellFormed
    OnlyStraysAreOrphaned
    AssignedIsMentioned
PROPERTIES
    LanesOnlyByRequest
    DeletedStaysDeleted
    FieldsChangeByPatch
