\* Everything but lost index entries: processes that end, that write one
\* record at a time or all at once, and that make an index too late.
SPECIFICATION HSpec
CONSTANTS
  p1 = p1
  p2 = p2
  v1 = v1
  v2 = v2
  Absent = Absent
  Missing = Missing
  Procs = {p1, p2}
  Props = {1}
  Values = {v1}
  MaxId = 2
  Ops = {"open", "add", "save", "remove", "removeAll", "ensureIndex", "reIndex"}
  Faults = {"crash"}
  Forged = {}
  Queries <- NoQuery
  IndexDefs <- OneIndexDef
  InitSys = {}
  Exclusive = FALSE
PROPERTY ReIndexRepairs
