CONSTANTS
  ThreadsA = {a1, a2}
  ThreadsB = {b1}
  Ops = {"send", "pull", "pulltarget", "dispose", "request", "target", "call", "export", "close"}
  Deadline = {a1}
  Cap = 2
SPECIFICATION Spec
INVARIANTS AbortIsLast
PROPERTIES EndsOnce CloseReturnsUnlessWedged
CHECK_DEADLOCK FALSE
