SPECIFICATION TraceSpec
CONSTANTS
  DestAt = 2
  MaxHops = 2
  Queries = 2
  Timeout = 2
  V6 = {TRUE, FALSE}
  Unreachables = {TRUE}
  MaxForeign = 1
INVARIANTS
  RepliesOnTheirLine
  HopsComplete
  TimeBounded
