CONSTANTS
  p1 = p1
  p2 = p2
  p3 = p3
  e1 = e1
  Providers = {p1, p2, p3}
  Endpoints = {e1}
  Getters = {g1, g2}
  Transports = {t1, t2, t3}
  MaxFailoverAttempts = 2
  NoTransport = NoTransport
  Priority <- MCPriority
  Suitable <- MCSuitable
  Watched = {w1}
  Loops = {l1, l2}
  HealthyThreshold = 2
  UnhealthyThreshold = 2
  MaxChecks = 4
  Base = 2
  FrameSize = 2
  MaxMessageSize = 4
  ChannelSize = 2
  MaxSends = 2
  Payloads <- MCPayloads
  o1 = o1
  o2 = o2
  o3 = o3
  r1 = r1
  r2 = r2
  Operations = {o1, o2, o3}
  ResultIDs = {r1, r2}
  NoID = NoID
  MaxPipelineDepth = 2
  c1 = c1
  c2 = c2
  k1 = k1
  k2 = k2
  KeysOf <- MCKeysOf
  Keys = {k1, k2}
  Callers = {c1, c2}
  Buckets = {b1, b2, b3}
  Limits <- MCLimits
  Default <- MCDefault
  CleanupInterval = 1
  MaxBuckets = 1
  Amounts = {1}
  MaxAge = 2
  NoBucket = NoBucket
  d1 = d1
  d2 = d2
  q1 = q1
  q2 = q2
  QKeysOf <- MCQKeysOf
  QKeys = {q1, q2}
  QCallers = {d1, d2}
  Quotas = {u1, u2, u3}
  QLimits <- MCQLimits
  QDefault <- MCQDefault
  QCleanupInterval = 0
  MaxQuotas = 1
  QAmounts = {1}
  NoQuota = NoQuota
  Caps = {x1, x2}
  SecSessions = {n1}
  Issuers = {i1}
  Revokers = {j1}
  Checks = {v1}
  MaxPerSubject = 2
  MaxListed = 3
  NoCap = NoCap
SPECIFICATION MCSpec
INVARIANTS OpenIsHeld VerdictFollowsHistory FramesIntact DependenciesFirst CancelStops Covered TwoWindowsAtMost CheckIsRight
PROPERTY WaitServed
CHECK_DEADLOCK FALSE
