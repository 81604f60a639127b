SPECIFICATION NpSpec
CONSTANTS
  Lines <- NumberLines
  MaxLines = 3
  MaxStages = 3
  MaxFd = 12
  MaxPipes = 6
  Inherited = {4}
  Cap = 2
CONSTRAINT NotStale
CHECK_DEADLOCK FALSE
INVARIANTS
  NpTypeOK
  Connected
  Served
  NoLeak
PROPERTIES
  LinesEnd
  ConnectionEnds
