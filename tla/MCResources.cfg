CONSTANTS
  Resource = {r1, r2}
  Earlier = {r1}
  Calls = {c1, c2, c3}
  Workers = {w1}
  Periodic = p
  MaxResources = 1
  QueueSize = 1
SPECIFICATION Spec
INVARIANTS CleanedOnce NeverUnreachable
PROPERTIES ReleaseCleansUp StopSweeps
CHECK_DEADLOCK FALSE
