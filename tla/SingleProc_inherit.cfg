SPECIFICATION Spec
CONSTANTS
  n1 = n1
  n2 = n2
  f1 = f1
  f2 = f2
  f3 = f3
  q1 = q1
  q2 = q2
  q3 = q3
  N = 2
  Fds <- TwoFds
  NoFd = NoFd
  Procs <- Three
  NoProc = NoProc
  MaxPipes = 4
  MaxLost = 0
  Names <- Nicks
  NoName = NoName
  Anon = Anon
  Cmds <- NextCmds
CHECK_DEADLOCK FALSE
PROPERTIES
  CommandsAnswered
