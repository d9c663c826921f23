SPECIFICATION Spec
CONSTANTS
    Editors = {"screen", "dialog", "fields", "body"}
    MaxEdits = 2
    MaxOpens = 3
    NoPatch = NoPatch
    Unanswered = Unanswered
    Estimates <- SomeEstimates
    Typings <- SomeTypings
    Days = {0, 31}
    Zones <- SomeZones
    Null = Null
    Garbage = Garbage
    MaxSaves = 2
    MaxTypings = 3
    Nothing = Nothing
CHECK_DEADLOCK FALSE
INVARIANTS
    TypeOK
    EveryEditAccounted
    LockedOutNeverWrites
    BlurKeepsEstimate
    LastPatchIsWhole
PROPERTIES
    BadgeSettles
