SPECIFICATION Spec
CONSTANTS
  n1 = n1
  n2 = n2
  f1 = f1
  f2 = f2
  f3 = f3
  q1 = q1
  q2 = q2
  q3 = q3
  N = 2
  Fds <- TwoFds
  NoFd = NoFd
  Procs <- Two
  NoProc = NoProc
  MaxPipes = 2
  MaxLost = 1
  Names <- Nicks
  NoName = NoName
  Anon = Anon
  Cmds <- ServeCmds
INVARIANTS
  TypeOK
  PipesAlone
  OnlineListed
CHECK_DEADLOCK FALSE
PROPERTIES
  CommandsAnswered
