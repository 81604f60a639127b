SPECIFICATION Spec
CONSTANTS
  Lines <- StaleLines
  MaxLines = 3
  MaxStages = 3
  MaxFd = 12
  MaxPipes = 6
  Inherited = {}
  Cap = 2
CHECK_DEADLOCK FALSE
INVARIANTS
  Connected
