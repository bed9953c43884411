\* A find with a callback and an operator, as in the README.
SPECIFICATION Spec
CONSTANTS
  Callers = {c1, c2}
  SqlProps = {"p"}
  Inds = {"i"}
  Shapes = {{"p"}, {"i"}}
  Slots = {s1, s2}
  MaxKey = 2
  Vals = {v1, v2}
  Nothing = Nothing
  All = All
  Other = Other
  Operator = Operator
  Parallel = 1
  Processes = {p1, p2}
  Keys = {k1}
  MaxLog = 2
  MaxLeft = 1
  MaxJoined = 2
  MaxRows = 2
CHECK_DEADLOCK FALSE
INVARIANT OperatorsDeliver
