SPECIFICATION Spec
CONSTANTS
    Editors = {"screen"}
    MaxEdits = 2
    MaxOpens = 3
    NoPatch = NoPatch
    Unanswered = Unanswered
    Estimates <- SomeEstimates
    Typings <- SomeTypings
    Days = {0, 31}
    Zones <- SomeZones
    Null = Null
    Garbage = Garbage
    MaxSaves = 2
    MaxTypings = 3
    Nothing = Nothing
PROPERTY SwitchCarriesWords
CHECK_DEADLOCK FALSE
