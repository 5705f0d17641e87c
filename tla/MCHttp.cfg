SPECIFICATION Spec
CONSTANTS
  AddrCount = 2
  Timeout = 2
  Https = {TRUE, FALSE}
  Counts <- MCCounts
  MaxCycles = 2
  MaxReads = 3
  MaxTicks = 9
INVARIANTS
  SocketsClosed
  TimeSpent
  SuccessesReceived
PROPERTIES
  PlainEnds
