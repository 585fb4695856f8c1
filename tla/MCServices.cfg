\* Each part with the bounds its hazards need.
CONSTANTS
    Downloads = {d1, d2, d3}
    Pool = {p1, p2}
    MaxAttempts = 2
    Receipts = {r1}
    BadReceipts = {}
    LastPage = 3
    CatchUpPages = 3
    TornMoves = TRUE
    BucketSize = 1
    MaxFaults = 1
    Servers = {v1, v2}
    Classes = {A, B}
    Dockers = {1, 2, 3, 4}
    Absent = Absent
    MaxReconfigurations = 1
    MaxRaises = 1
    Streams = {TRUE, FALSE}
    Leeway = 1
    DownloadLimit = 1
    StreamingLimit = 1
    ExecutionLimit = 2
    UploadLimit = 1
    StartupLimit = 1
    Latency = 1
    Uploads = {u1, u2}
    MaxRetries = 2
    MaxRuns = 2
    Timed = {TRUE, FALSE}
    RunTimeout = 3
    MayStream = {TRUE, FALSE}
    StreamLimit = 2
    EpochOffset = 1000
    MaxTicks = 6
    Creators = {c1}
    Reporters = {p1}
    ReportDetails = {"details"}
    ChannelRows = 2
    HttpAttempts = 2
    MaxExpiries = 1
    MaxBreaks = 2
    NoKey = NoKey
    Null = Null
    SendTasks = {k1, k2}
    ReconnectTries = 2
    MaxSockets = 4
    Visits = {x1, x2}
    MaxTurns = 2
    SpecData = {s1}
    Forwarder = f1
    OtherValidators = {o1}
    MaxReports = 2
    Bac = bac
    StakeHolders = {v1, v2}
    VALIDATORS_LIMIT = 2
    MIN_VALIDATOR_STAKE = 1
    MaxStake = 1
    Fetchers = {w1, w2}
    MaxStakeChanges = 1
    FetchAttempts = 2
    MaxItems = 2
INIT ServicesInit
NEXT ServicesNext
CHECK_DEADLOCK FALSE
INVARIANTS
    NoDownloadIgnored
    NoReceiptIsPassedOver
    
    
    
    
    ConnectionIsTheClients
    
    
    FetchesAreSound
