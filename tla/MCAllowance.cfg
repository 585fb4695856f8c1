\* Bookings with eviction and rescans; manifests with drops, a changing cap and
\* two overlapping syncs.
CONSTANTS
    Miners = {m1, m2}
    Metagraphs = {{m1, m2}, {m1}, {m2}}
    Syncs = {s1, s2}
    Reports = {0, 1, 2}
    Caps = {1, 2}
    Requests = {1, 2}
    MAX_JOB_RUN_TIME = 2
    BLOCK_EXPIRY = 1
    BLOCK_EVICTION_THRESHOLD = 3
    SCAN_REACH = 2
    ROUTING_LAG = 1
    MAX_JOB_BLOCKS = 1
    RESERVATION_MARGIN = 1
    StartBlock = 1
    MaxBlock = 5
    MaxManifestBlock = 3
    MaxBooking = 2
SYMMETRY Symmetry
SPECIFICATION MCSpec
CHECK_DEADLOCK FALSE
INVARIANTS
    TypeOK
    NoBlockPaysTwice
    RunningJobKeepsBooking
    RoutesMatchLedger
    ReservationsAreRight
PROPERTIES
    SpentStaysSpent
    ImplementsLedger
