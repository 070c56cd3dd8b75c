SPECIFICATION Spec
CONSTANTS
    Consumers = {c1, c2}
    Urls = {u1, u2}
    NoUrl = NoUrl
    Lists <- ShortLists
    MaxCalls = 3
SYMMETRY Symmetry
INVARIANTS CallbackTypeOK LossNeedsAnOutdatedWrite OneRowPerUrl
CHECK_DEADLOCK FALSE
