SPECIFICATION Spec
CONSTANTS
    Streaming = FALSE
    Reachable = TRUE
    Patient = FALSE
    MaxDrops = 0
    MaxFailures = 0
PROPERTY EndStatesAreFinal
CHECK_DEADLOCK FALSE
