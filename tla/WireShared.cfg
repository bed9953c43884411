SPECIFICATION WiresSpec
CONSTANTS
  c1 = c1
  c2 = c2
  NewLine = NewLine
  Clients = {c1, c2}
  Requests <- OneSave
  MaxRequests = 1
  MidCuts = TRUE
  Stream = {}
  Faults = {}
CHECK_DEADLOCK FALSE
INVARIANTS PartialContinues
