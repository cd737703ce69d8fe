\* Two small texts, three carets, three steps.
SPECIFICATION Spec
CONSTANTS
    OpenTexts <- MCOpenTexts
    Inserts <- MCInserts
    TabWidth = 2
    Page = 2
    MaxCarets = 3
    MaxSize = 7
    MaxSteps = 3
    MaxLineLen = 3
    MaxDepths = 3
INVARIANTS
    SelectionsSound
    EditsLand
    CutPasteRestores
    OccurrencesAllReached
    QueriesAgree
CHECK_DEADLOCK FALSE
