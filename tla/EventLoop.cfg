SPECIFICATION Spec
CONSTANTS
  Work = {w1, w2}
  Ticks = {t1, t2}
  Threads = 2
  MaxPoll = 1
  Handles = {h1, h2}
  Reqs = {r1}
  Kinds = {"pipe", "tty", "timer"}
  Persistent = {TRUE}
  NoHandle = NoHandle
  Queries = {q1, q2}
  Errors = {"ENOTFOUND", "EBADNAME"}
  MaxTries = 2
  NoQuery = NoQuery
  Samples = 4
  Looked = 2
  Fast = 1
  Wait = 3
  MaxGarbage = 2
  MaxEvents = 3
CHECK_DEADLOCK FALSE
INVARIANTS TypesOK TicksRunInOrder OwnAnswerOnce
PROPERTIES EverythingEnds AnswersWork
