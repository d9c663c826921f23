SPECIFICATION BusySpec
CONSTANTS
    todo = todo
    done = done
    extra = extra
    Cards = {c1}
    Lanes = {todo, done}
    FirstLanes <- TwoLanes
    Requests = {r1, r2}
    Ops = {"create", "deleteLane"}
    LaneEditsSerial = TRUE
    CardWritesSerial = TRUE
    MaxFaults = 0
    Keep = Keep
    Unborn = Unborn
    Deleted = Deleted
CHECK_DEADLOCK FALSE
INVARIANT NoOrphans
