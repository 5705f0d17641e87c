SPECIFICATION Spec
CONSTANTS
  DblMax <- MCDblMax
  MaxRetained = 4
  FirstCap = 1
  DownThreshold = 2
  Rc = 3
  PoolStarts = {TRUE, FALSE}
  Counts <- MCCounts
  Deadlines = {TRUE, FALSE}
  Rtts = {7}
  MaxCycles = 2
INVARIANTS
  ExitCodeTruthful
