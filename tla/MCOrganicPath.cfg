SPECIFICATION PathSpec
CONSTANTS
  MaxRelayJobs = 2
  MaxConns = 2
  MaxAttempts = 2
  MaxFaults = 1
  Tokens = {t1, t2}
  Counts = {1, 2}
  Prompts = {TRUE, FALSE}
  NoToken = NoToken
CHECK_DEADLOCK FALSE
INVARIANTS
    
    OneRunAtATime
    PoolIsSound
PROPERTIES
    UserGetsAnAnswer
    PromptReservationIsAnswered
