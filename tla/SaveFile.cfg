\* Two editors of one file, any step of whose saves may fail, be killed or lose power.
SPECIFICATION Spec
CONSTANTS
    Editors = {one, two}
    Ways = {"careful", "plain"}
    TempAttempts = 2
    MayLosePower = TRUE
    MaxSaves = 2
    MaxSquats = 2
INVARIANTS
    SavedWhole
    SavedIsDurable
    NothingSpoiled
CHECK_DEADLOCK FALSE
