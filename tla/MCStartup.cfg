SPECIFICATION MainSpec
CONSTANTS
  Number <- MCNumber
  Truth <- MCTruth
  Dashed = {"--bogus", "--config"}
  MaxHosts = 2
  MaxSpecs = 2
  PortMod = 4
  MaxPorts = 3
  MaxProtos = 2
  InitCap = 1
  MaxAddrs = 3
  Answers <- MCAnswers
  Inputs <- MCInputs
  PortList <- MCPortList
  ProtoList <- MCProtoList
  SpecOf <- MCSpecOf
  LinesOf <- MCLinesOf
  Literal <- MCLiteral
  Names <- MCNames
  Origin <- MCOrigin
  Holder <- MCHolder
  Strays <- MCStrays
INVARIANTS
  MatrixComplete
  HostsAgree
  SettingsSound
  ColourSound
  ModeSound
  AnnotationsMatch
  CleanExit
CHECK_DEADLOCK FALSE
