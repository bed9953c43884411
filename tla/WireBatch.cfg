SPECIFICATION WiresSpec
CONSTANTS
  c1 = c1
  c2 = c2
  NewLine = NewLine
  Clients = {c1}
  Requests <- Answered
  MaxRequests = 3
  MidCuts = TRUE
  Stream = {}
  Faults = {}
CHECK_DEADLOCK FALSE
INVARIANTS TypeOK PartialContinues ResultsBelong
PROPERTIES ImplementsCalls AllAnswered TwoImplement TwoAnswered
