SPECIFICATION Spec
CONSTANTS
  p1 = p1
  p2 = p2
  p3 = p3
  n1 = n1
  n2 = n2
  Procs <- Two
  Names <- Nicks
  N = 2
  MaxArg = 3
  Ops <- PipeOps
  Serial = FALSE
  Faults <- Restarting
  NoProc = NoProc
  NoName = NoName
  Anon = Anon
SYMMETRY ProcSymm
CHECK_DEADLOCK FALSE
INVARIANTS
  Mutex
  PipesHaveEnds
