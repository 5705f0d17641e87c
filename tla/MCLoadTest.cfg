SPECIFICATION Spec
CONSTANTS
  Concurrency = 3
  MaxConcurrency = 2
  Silents = {TRUE, FALSE}
  Rtts = {5, 9}
  DblMax <- MCDblMax
  MaxAttempts = 2
INVARIANTS
  SlotsOwned
  ResultSound
PROPERTIES
  ImplementsExperiment
