\* Three texts that can recur, a history of two steps, edits of up to two carets.
SPECIFICATION Spec
CONSTANTS
    Texts = {a, b, c}
    MaxUndoSteps = 2
    MaxCarets = 2
    MaxRevision = 5
INVARIANTS
    TypeOK
    CleanIsSaved
    StateNamesText
    HistoryBounded
PROPERTY
    ImplementsTimeline
CHECK_DEADLOCK FALSE
