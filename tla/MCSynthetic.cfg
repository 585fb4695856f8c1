SPECIFICATION SyntheticSpec
CONSTANTS
  Workers = {w1, w2}
  Batches = {b1, b2}
  MaxHead = 8
  Oversleep = 2
  Advance = 2
  Miners = {1, 2}
  LlmMiners = {2}
  StreamingMiners = {2}
  Reports = {2}
  MaxExecutors = 2
  MaxBatchJobs = 2
  PeakCounts <- MCPeak
  MaxPrompts = 1
  MaxExcuses = 1
CHECK_DEADLOCK FALSE
INVARIANTS
    BatchStartsOnce
    OutcomesAreBacked
PROPERTIES
    BatchNeverEarly
    
    
