SPECIFICATION Spec
CONSTANTS
    Templates <- Registered
    Events <- Happenings
    Variables <- Filled
    Spaced <- WithSpaces
    Escaped <- WithEscapes
    Recognized <- Reasons
    RelayKeys <- Added
    Secret = "ours"
    Secrets = {"ours", "other"}
    Skews <- Skew
    Tolerance = 1
    MaxTime = 1
    MaxSends = 1
    MaxHops = 2
INVARIANTS HeardIsWhatWasSent GenuineIsHeard EventIsWhatHappened
CHECK_DEADLOCK FALSE
