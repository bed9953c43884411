\* Two processes add, save and remove; processes end, records fail to be
\* written and index entries are lost.
SPECIFICATION HSpec
CONSTANTS
  p1 = p1
  p2 = p2
  v1 = v1
  v2 = v2
  Absent = Absent
  Missing = Missing
  Procs = {p1, p2}
  Props = {1}
  Values = {v1}
  MaxId = 3
  Ops = {"open", "add", "save", "remove"}
  Faults = {"crash", "update", "index"}
  Forged = {}
  Queries <- NoQuery
  IndexDefs <- OneIndexDef
  InitSys = {1}
  Exclusive = FALSE
INVARIANTS TypeOK FreshIds OwnKeys
PROPERTY StoresRecords
