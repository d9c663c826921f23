SPECIFICATION SyncSpec
CONSTANTS
    todo = todo
    done = done
    Cards = {c1}
    Lanes = {todo, done}
    FirstLanes <- TwoLanes
    Requests = {r1, r2}
    Mine = {r1}
    Ops = {"create", "update", "delete"}
    LaneEditsSerial = TRUE
    CardWritesSerial = TRUE
    MaxFaults = 1
    MaxBus = 1
    Keep = Keep
    Unborn = Unborn
    Deleted = Deleted
    None = None
    Asked = Asked
    Drag = Drag
    Dialog = Dialog
CHECK_DEADLOCK FALSE
INVARIANTS
    AssignedIsMentioned
    InStep
