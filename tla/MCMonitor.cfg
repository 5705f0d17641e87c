SPECIFICATION Spec
CONSTANTS
  DblMax <- MCDblMax
  MaxRetained = 5
  FirstCap = 2
  DownThreshold = 3
  Rtts = {10, 15, 39}
  MaxObs = 7
INVARIANTS
  OutagesMatchHistory
  AlertsTellOutages
  LatencyTracked
  PercentilesSound
