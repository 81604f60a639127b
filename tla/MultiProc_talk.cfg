SPECIFICATION Spec
CONSTANTS
  p1 = p1
  p2 = p2
  p3 = p3
  n1 = n1
  n2 = n2
  Procs <- Three
  Names <- Nicks
  N = 2
  MaxArg = 3
  Ops <- TalkOps
  Serial = FALSE
  Faults <- AllFaults
  NoProc = NoProc
  NoName = NoName
  Anon = Anon
SYMMETRY Symm
CHECK_DEADLOCK FALSE
INVARIANTS
  TypeOK
  BufferIntact
  UniqueNames
  OneUserPerId
  Accounted
