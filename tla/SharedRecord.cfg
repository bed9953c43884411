\* Two processes that write one record, with the same indexes.
SPECIFICATION HSpec
CONSTANTS
  p1 = p1
  p2 = p2
  v1 = v1
  v2 = v2
  Absent = Absent
  Missing = Missing
  Procs = {p1, p2}
  Props = {1}
  Values = {v1}
  MaxId = 2
  Ops = {"open", "add", "save", "remove"}
  Faults = {}
  Forged = {}
  Queries <- NoQuery
  IndexDefs <- NoIndexDef
  InitSys = {1}
  Exclusive = FALSE
INVARIANT IndexComplete
