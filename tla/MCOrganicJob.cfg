\* A streaming job with an impatient user over a link that breaks twice; both
\* scans, with a window of two live blocks and two archive blocks.
CONSTANTS
    Streaming = TRUE
    Reachable = TRUE
    Patient = FALSE
    MaxDrops = 2
    MaxFailures = 1
    Scanners = {"live", "archive"}
    BLOCK_LOOKBACK = 1
    ARCHIVE_START_OFFSET = 2
    ARCHIVE_MAX_LOOKBACK = 3
    HeadLag = 1
    StartBlock = 4
    MaxBlock = 6
    MaxScanFailures = 1
SPECIFICATION MCSpec
CHECK_DEADLOCK FALSE
INVARIANTS
    PaymentIsEarned
    ReportedStagesReached
    EndingJobIsPending
    GrantsFollowBlocks
PROPERTIES
    MCBookingSettled
    MCLiveWindowFilled
