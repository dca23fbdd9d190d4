SPECIFICATION Spec
CONSTANTS
  Job = {j1, j2}
  Worker = {w1}
  MaxRetries = 1
  BatchSize = 2
  MaxLen = 3
  MaxFaults = 2
SYMMETRY Symmetry
INVARIANTS TypeOK NothingDropped DeadOnlyWhenExhausted
PROPERTY ImplementsJobQueue
CHECK_DEADLOCK FALSE
