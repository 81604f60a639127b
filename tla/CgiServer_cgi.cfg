SPECIFICATION Spec
CONSTANTS
  b1 = b1
  b2 = b2
  s0 = s0
  s1 = s1
  Pages = {b1, b2}
  Slots = {s0, s1}
  Programs <- Files
  Requests <- Asks
  Room = 4
  FileLines <- Lines
  Outputs <- Answers
  Proxied = FALSE
  MaxLength = 4
CHECK_DEADLOCK FALSE
INVARIANTS
  SocketAlive
PROPERTIES
  AllSent
  Answered
