SPECIFICATION Spec
CONSTANTS
  Click = {c1, c2}
  MaxClicks = 2
  MaxRetries = 1
  BatchSize = 1
  MaxFaults = 0
SYMMETRY Symmetry
INVARIANT RecentRedirectsVisible
