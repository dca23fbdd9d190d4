SPECIFICATION FairSpec
CONSTANTS
  Event = {e1}
  Executor = {x1, x2}
  DaysPerMonth = 2
  Retention = 1
  LookAhead = 2
  Kept = 1
  Ahead = 1
  JobAge = 1
  MaxDay = 6
  MaxFaults = 1
INVARIANTS TypeOK EarlyRowsCounted MonthsAheadExist
PROPERTIES NeverDropsYoung OldRowsGo
