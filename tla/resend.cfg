SPECIFICATION ResendSpec
CONSTANTS
    Commands = {c1}
    Valves = {v1}
    Modes = {"HOME"}
    Rates = {}
    OtherRate = "other"
    Confirm = {TRUE}
    ChunkSize = 1
    Attempts = 3
    Share = 1
    Poll = 1
    RequestTime = 1
    MaxStart = 0
    MaxTime = 8
    MaxTrips = 1
PROPERTY ResendChangesNothing
CHECK_DEADLOCK FALSE
