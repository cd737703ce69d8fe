\* Three texts, a reopening, a crash.
SPECIFICATION FairSpec
CONSTANTS
    Paths = {f}
    MaxText = 3
    MaxLoads = 2
    MaxSessions = 2
    MaxQueue = 1
INVARIANTS
    DocsSound
    ProtocolKept
    DiagnosticsPlaced
PROPERTY
    EventuallyHeld
CHECK_DEADLOCK FALSE
