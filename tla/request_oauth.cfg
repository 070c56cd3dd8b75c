SPECIFICATION ReqSpec
CONSTANTS
    Tasks = {t1, t2, t3}
    NoTask = NoTask
    Rotating = TRUE
    Saves = TRUE
    Readable = TRUE
    Lifetimes = {1, 3}
    TokenLifetime = 3
    Margin = 1
    MaxTime = 1
    MaxTokens = 3
    MaxRevokes = 1
SYMMETRY Symmetry
INVARIANTS ReqTypeOK RetryCarriesANewerToken AcceptedAtMostOnce
PROPERTY UsesProvider
CHECK_DEADLOCK FALSE
