\* A caller that never undoes its reservation.
CONSTANTS
    Miners = {m1}
    Metagraphs = {{m1}}
    Syncs = {s1}
    Reports = {1}
    Caps = {2}
    Requests = {1, 2}
    MAX_JOB_RUN_TIME = 2
    BLOCK_EXPIRY = 1
    BLOCK_EVICTION_THRESHOLD = 3
    SCAN_REACH = 2
    ROUTING_LAG = 1
    MAX_JOB_BLOCKS = 1
    RESERVATION_MARGIN = 1
    StartBlock = 1
    MaxBlock = 5
    MaxBooking = 1
SPECIFICATION Spec
INVARIANT ReservationsExpire
