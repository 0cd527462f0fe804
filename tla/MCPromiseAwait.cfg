CONSTANTS
  Promises = {p}
  Awaiters = {a1, a2}
  Settlers = {s1}
  Outcomes = {v1}
  Pending = Pending
  Failed = Failed
  Impatient = {}
SPECIFICATION Spec
PROPERTIES AwaitReturns
CHECK_DEADLOCK FALSE
