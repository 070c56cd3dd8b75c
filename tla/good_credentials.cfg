SPECIFICATION ReqSpec
CONSTANTS
    Tasks = {t1, t2}
    NoTask = NoTask
    Rotating = TRUE
    Saves = TRUE
    Readable = TRUE
    Lifetimes = {3}
    TokenLifetime = 3
    Margin = 1
    MaxTime = 2
    MaxTokens = 3
    MaxRevokes = 1
INVARIANT OnlyBadCredentialsAreRejected
CHECK_DEADLOCK FALSE
