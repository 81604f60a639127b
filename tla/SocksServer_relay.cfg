SPECIFICATION Spec
CONSTANTS
  Requests <- Asks
  Addrs <- TwoAddrs
  RuleFiles <- Files
  Resets = {"web", "dst"}
  MaxLength = 2
  Cap = 3
  MaxSent <- Amounts
CHECK_DEADLOCK FALSE
INVARIANTS
  TypeOK
  InOrder
  EndIsTrue
  RelayPermitted
PROPERTIES
  Delivered
  SessionEnds
