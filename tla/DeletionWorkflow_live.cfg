SPECIFICATION FairSpec
CONSTANTS
  Request = {r1, r2}
  Process = {p1}
  MaxRetries = 1
  Deadline = 1
  MinIdle = 1
  Lease = 1
  Crashes = TRUE
  SlowHandlers = TRUE
  MaxQueued = 1
  MaxFaults = 2
  NoEntry = NoEntry
INVARIANTS TypeOK CompletedMeansErased FailedOnlyWhenExhausted
PROPERTIES NeverBeforeDeadline OneExecutorPerLease PendingIsTransient
