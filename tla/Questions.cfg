\* Two servers that do not crash, or one that does and keys that leave the editor.
SPECIFICATION FairSpec
CONSTANTS
    a = a
    b = b
    srv = srv
    srw = srw
    Docs = {a, b}
    Servers = {srv, srw}
    Carets = {1, 2}
    Setups <- MCSetups
    MaxRetries = 1
    MaxText = 1
INVARIANTS
    QuestionsSound
    AnswersUntilCrash
    OfferFitsText
PROPERTY
    EventuallyOffered
CHECK_DEADLOCK FALSE
