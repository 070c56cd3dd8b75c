SPECIFICATION FairSpec
CONSTANTS
    Commands = {c1}
    Valves = {v1, v2}
    Modes = {"HOME", "SHUTOFF"}
    Rates = {"low"}
    OtherRate = "other"
    Confirm = {TRUE, FALSE}
    ChunkSize = 1
    Attempts = 2
    Share = 2
    Poll = 1
    RequestTime = 1
    MaxStart = 0
    MaxTime = 9
    MaxTrips = 1
INVARIANTS WriteTypeOK ConfirmedIsCached ConfirmedMeansObserved ErrorOnlyAtTheDeadline RetriesShareTheTimeout
CHECK_DEADLOCK FALSE
PROPERTY EveryCommandEnds
