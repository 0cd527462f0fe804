CONSTANTS
  ThreadsA = {a1, a2}
  ThreadsB = {}
  Ops = {"request", "close"}
  Deadline = {a1, a2}
  Cap = 2
SPECIFICATION Spec
PROPERTIES CloseReturns
CHECK_DEADLOCK FALSE
