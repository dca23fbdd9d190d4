SPECIFICATION Spec
CONSTANTS
  Click = {c1}
  MaxClicks = 2
  MaxRetries = 1
  BatchSize = 2
  MaxFaults = 4
INVARIANT CountMatchesRows
