SPECIFICATION Spec
CONSTANTS
    Tasks = {t1, t2, t3}
    NoTask = NoTask
    Rotating = TRUE
    Saves = TRUE
    Readable = TRUE
    Lifetimes = {1, 2}
    TokenLifetime = 3
    Margin = 1
    MaxTime = 1
    MaxTokens = 4
SYMMETRY Symmetry
INVARIANTS TypeOK RenewalsAreShared SavedBeforeUse ReplayOnlyAfterLoss RestartCanRefresh
PROPERTY NeverBackToAnOlderToken
CHECK_DEADLOCK FALSE
