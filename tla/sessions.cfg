SPECIFICATION Spec
CONSTANTS
    Tasks = {t1, t2, t3}
    Closers = {k1, k2}
    None = None
    MaxSessions = 4
INVARIANTS SessionTypeOK LeaksOnlyWhileClosing OnlyACloseBreaksARequest
CHECK_DEADLOCK FALSE
