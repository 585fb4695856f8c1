\* Each part with the bounds its hazards need.
CONSTANTS
    Series = {s1, s2}
    Workloads = {1, 2}
    Answerers = {a1, a2}
    MaxSeries = 2
    TargetReady = 2
    PerWorkload = 1
    Setters = {w1, w2}
    Netuid = 12
    SetterHeads <- MCSetterHeads
    CommitReveal = TRUE
    CommitOffset = 361
    CommitEndBuffer = 15
    SetAttempts = 2
    Hotkeys = {h1, h2, h3}
    Uids = {0, 1}
    Evms = {e1}
    Offered = {1}
    CheatedJobs = {j1}
    Events = {ev1}
    Senders = {s1, s2}
    MaxMoves = 3
    MaxSlashRuns = 2
    MaxPolls = 1
    MaxCopies = 2
    BlockExpiry = 2
    LeewayLower = 1
    LeewayUpper = 0
    MaxRunBlocks = 1
    CheckedFrom = 5
    CheckedTo = 7
    MaxSpendings = 2
    Never = Never
    DanceHotkeys = {h1, h2, h3}
    Coldkeys = {c1}
    Ghost = Ghost
    Silent = Silent
    ScoreUnit = 6
    BonusPercent = 10
    SharePercent = 80
    BurnPercent = 40
    PartitionPercent = 50
    Requests = {r1, r2, r3}
    RouteMiners = {m1}
    StartTtl = 1
    AcceptTtl = 2
    ExcuseLeeway = 1
    Announced = {1, 2}
    InitialAllowance = 2
    MaxTime = 3
    MaxAnnouncements = 1
    MaxReceipts = 2
    Threads = {t1, t2}
    CacheAhead = 1
    LiteLookback = 0
    Archive = FALSE
    MaxHead = 2
    MaxSlips = 1
INIT ValidatorInit
NEXT ValidatorNext
CHECK_DEADLOCK FALSE
INVARIANTS
    
    WeightsAreForTheirCycle
    UpkeepIsSound
    SpendingIsJudgedRight
    ScoresAreSharedRight
    
    CacheThreadsAreSound
