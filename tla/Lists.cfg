\* Queries of two characters and three questions to the thread; a line of two for a server.
SPECIFICATION ListsSpec
CONSTANTS
    Letters = {"a", ">"}
    MaxQuery = 2
    MaxGeneration = 3
    MaxRows = 2
    Window = 1
    MayDie = TRUE
    MaxLine = 2
INVARIANTS
    ListsFit
    AnswersAreRead
PROPERTIES
    AnswerIsOfScreen
    AcceptsWhatIsShown
    ListsSettle
CHECK_DEADLOCK FALSE
