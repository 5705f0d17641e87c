SPECIFICATION SweepSpec
CONSTANTS
  Requests = {0, 1, 2, 5, 300}
  Durations = {1000, 60000}
  MaxConcurrency = 6
  MinPhase = 500
  Outcomes <- MCOutcomes
INVARIANTS
  RampSound
  VerdictSound
