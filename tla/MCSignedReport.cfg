\* A report with its details, from the caller to the validator.
CONSTANTS
    Creators = {c1}
    Reporters = {p1}
    ReportDetails = {"details"}
    ChannelRows = 2
    HttpAttempts = 2
    MaxExpiries = 1
    MaxBreaks = 1
    NoKey = NoKey
    Null = Null
INIT SignedInit
NEXT SignedNext
CHECK_DEADLOCK FALSE
INVARIANT ReportedCheatIsRecorded
