\* The live and the archive scan meet at neighbouring blocks.
CONSTANTS
    Scanners = {"live", "archive"}
    BLOCK_LOOKBACK = 1
    ARCHIVE_START_OFFSET = 2
    ARCHIVE_MAX_LOOKBACK = 3
    HeadLag = 0
    StartBlock = 4
    MaxBlock = 6
    MaxScanFailures = 0
SPECIFICATION ScanSpec
INVARIANT NoHoles
