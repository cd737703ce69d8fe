\* Two buffers of one file.
SPECIFICATION Spec
CONSTANTS
    Paths = {f}
    MaxText = 2
    MaxLoads = 2
    MaxSessions = 1
    MaxQueue = 1
INVARIANT
    CannotDesync
CHECK_DEADLOCK FALSE
