SPECIFICATION FairSpec
CONSTANTS
  p1 = p1
  p2 = p2
  p3 = p3
  n1 = n1
  n2 = n2
  Procs <- Three
  Names <- Nicks
  N = 2
  MaxArg = 2
  Ops <- AllOps
  Serial = TRUE
  Faults <- NoFaults
  NoProc = NoProc
  NoName = NoName
  Anon = Anon
INVARIANTS
  NoOverrun
  TableIsExact
  PipesReady
PROPERTIES
  CommandsEnd
  RoomSpec
