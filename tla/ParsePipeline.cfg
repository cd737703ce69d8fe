\* Three files in two panes, edited, reloaded and replaced; files that parse.
SPECIFICATION FairSpec
CONSTANTS
    a = a
    b = b
    c = c
    Tabs = {a, b, c}
    MaxPanes = 2
    PaneOf <- MCPaneOf
    First <- MCFirst
    Unparsable = {}
    MaxRevision = 1
    MaxBuffer = 1
    MaxFile = 2
    MaxRequests = 4
    MayDie = TRUE
INVARIANTS
    ParseSound
    TreeIsOfItsFile
PROPERTY
    EventuallyColoured
CHECK_DEADLOCK FALSE
