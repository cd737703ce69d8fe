\* One server that crashes, breaks its input and talks nonsense, and a user who
\* asks to restart once.
SPECIFICATION FairSpec
CONSTANTS
    Slots = {rust}
    MaxRestarts = 1
    CrashWindow = 0
    MaxErrors = 1
    Answers = {"ready", "refused"}
    Frames = {"bad"}
    MaxProcs = 3
    MaxPipe = 1
    MaxAsked = 1
    MaxTime = 1
INVARIANT
    ServersSound
PROPERTIES
    RestartsWhatWorked
    EventuallyNoticed
CHECK_DEADLOCK FALSE
