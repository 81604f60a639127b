SPECIFICATION Spec
CONSTANTS
  n1 = n1
  n2 = n2
  f1 = f1
  f2 = f2
  f3 = f3
  q1 = q1
  q2 = q2
  q3 = q3
  N = 3
  Fds <- ThreeFds
  NoFd = NoFd
  Procs <- One
  NoProc = NoProc
  MaxPipes = 3
  MaxLost = 0
  Names <- Nicks
  NoName = NoName
  Anon = Anon
  Cmds <- RoomCmds
CONSTRAINT InTurn
SYMMETRY Symmetry
CHECK_DEADLOCK FALSE
INVARIANTS
  TablesAgree
  PipesOfOnline
PROPERTIES
  RoomSpec
