SPECIFICATION Spec
CONSTANTS
    Tasks = {t1, t2}
    Valves = {v1, v2}
    Lookups <- Singles
    PageSize = 1
    ChunkSize = 1
    Interval = 1
    MaxTime = 1
    MaxCalls = 3
    MaxChanges = 2
SYMMETRY Symmetry
INVARIANTS CacheTypeOK ListingMissesOnlyDepartures ReturnsTheAccount ReadsGoForward
PROPERTY KeepsWhatWasTrue
CHECK_DEADLOCK FALSE
