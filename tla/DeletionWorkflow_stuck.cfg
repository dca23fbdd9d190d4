SPECIFICATION FairSpec
CONSTANTS
  Request = {r1}
  Process = {p1}
  MaxRetries = 3
  Deadline = 1
  MinIdle = 2
  Lease = 3
  Crashes = TRUE
  SlowHandlers = FALSE
  MaxQueued = 2
  MaxFaults = 1
  NoEntry = NoEntry
PROPERTY EveryRequestEnds
