CONSTANTS
  Resource = {r1}
  Earlier = {}
  Calls = {c1, c2}
  Workers = {w1}
  Periodic = p
  MaxResources = 1
  QueueSize = 1
SPECIFICATION Spec
PROPERTIES StopCleansUp
CHECK_DEADLOCK FALSE
