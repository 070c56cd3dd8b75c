SPECIFICATION ReqFairSpec
CONSTANTS
    Tasks = {t1, t2, t3}
    NoTask = NoTask
    Rotating = TRUE
    Saves = TRUE
    Readable = TRUE
    Lifetimes = {3}
    TokenLifetime = 3
    Margin = 1
    MaxTime = 0
    MaxTokens = 2
    MaxRevokes = 1
PROPERTIES EveryRequestEnds EveryCallEnds
CHECK_DEADLOCK FALSE
