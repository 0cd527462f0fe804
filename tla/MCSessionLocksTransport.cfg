CONSTANTS
  ThreadsA = {a1, a2}
  ThreadsB = {b1}
  Ops = {"send", "close"}
  Deadline = {a1, a2}
  Cap = 2
SPECIFICATION Spec
INVARIANTS CloseClosesTransport
CHECK_DEADLOCK FALSE
