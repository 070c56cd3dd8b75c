SPECIFICATION Spec
CONSTANTS
    Commands = {c1, c2}
    Valves = {v1}
    Modes = {"AWAY", "SHUTOFF"}
    Rates = {}
    OtherRate = "other"
    Confirm = {TRUE}
    ChunkSize = 1
    Attempts = 2
    Share = 1
    Poll = 1
    RequestTime = 1
    MaxStart = 1
    MaxTime = 8
    MaxTrips = 1
SYMMETRY Symmetry
INVARIANT ConfirmedMeansObserved
CHECK_DEADLOCK FALSE
