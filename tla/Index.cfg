\* Two processes that know the indexes and write no record at once; and, in a
\* second instance, one process that makes them.
SPECIFICATION IndexSpec
CONSTANTS
  p1 = p1
  p2 = p2
  v1 = v1
  v2 = v2
  Absent = Absent
  Missing = Missing
  Procs = {p1, p2}
  Props = {1, 2}
  Values = {v1}
  MaxId = 2
  Ops = {"open", "add", "save", "remove", "find"}
  Faults = {"update"}
  Forged = {}
  Queries <- TwoQueries
  IndexDefs <- NoIndexDef
  InitSys = {1, 2}
  Exclusive = TRUE
INVARIANTS IndexComplete OwnerIndexed
PROPERTY FindSeesStable
