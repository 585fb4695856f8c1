\* A start that takes longer than ten seconds.
CONSTANTS
    Tokens = {t1, t2}
    Counts = {2}
    Prompts = {FALSE}
    NoToken = NoToken
SPECIFICATION PoolSpec
CHECK_DEADLOCK FALSE
PROPERTY ReservationIsAnswered
