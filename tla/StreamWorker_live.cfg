SPECIFICATION FairSpec
CONSTANTS
  Job = {j1}
  Worker = {w1, w2}
  MaxRetries = 1
  BatchSize = 2
  MaxLen = 9
  MaxFaults = 2
PROPERTY QueueDrains
CHECK_DEADLOCK FALSE
