SPECIFICATION Spec
CONSTANTS
    Editors = {"fields"}
    MaxEdits = 2
    MaxOpens = 3
    NoPatch = NoPatch
    Unanswered = Unanswered
    Estimates <- SomeEstimates
    Typings <- SomeTypings
    Days = {0, 31}
    Zones <- WestOfUTC
    Null = Null
    Garbage = Garbage
    MaxSaves = 2
    MaxTypings = 3
    Nothing = Nothing
INVARIANT PickedDayIsShown
CHECK_DEADLOCK FALSE
