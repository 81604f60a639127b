SPECIFICATION Spec
CONSTANTS
  b1 = b1
  b2 = b2
  s0 = s0
  s1 = s1
  Browsers = {b1, b2}
  Pages = {b1, b2}
  Slots = {s0, s1}
  Files <- Programs
  Queries <- AllQueries
  Empty = {}
  Requests <- Asks
  Server = Server
  FileLines <- Lines
  Outputs <- Answers
  Proxied = TRUE
  MaxLength = 4
CHECK_DEADLOCK FALSE
INVARIANTS
  TypeOK
  OwnServers
  PageComplete
PROPERTIES
  OneAtATime
  AllSent
  PageEnds
