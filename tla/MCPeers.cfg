CONSTANTS
  Promises = {p1, p2}
  Awaiters = {a1, a2}
  Settlers = {t1, t2}
  Outcomes = {v1, v2}
  ExportIDs = {x1, x2}
  Pending = Pending
  Failed = Failed
  Impatient = {a1}
  Subs = {s1, s2}
  Events = {e1, e2}
  Buffer = 2
  MaxData = 3
  Handlers = {h1}
  None = None
  Creators = {c1, c2}
  Services = {n}
  Invocations = {i1, i2}
  NoCreator = NoCreator
  Closers = {k1, k2}
  Chunks = 3
  Pieces = 2
  ChanCap = 4
  AutoFlush = {FALSE, TRUE}
  ChunkSize = 2
  MaxWrites = 4
  Methods = {y1, y2, y3}
  Recorders = {f1}
  Readers = {z1, z2}
  MaxMethods = 2
  MaxCalls = 3
SPECIFICATION MCSpec
INVARIANTS NotForgotten TableLive BufferedIsDropped CallbackKept ReadsInOrder ChannelClosedOnce SentThenBuffered SummaryIsOneMoment
PROPERTIES IsFuture TakenWakesWaiters GoroutineEnds InvocationSettles ReaderReleased RecordReturnsUnlessCaught
CHECK_DEADLOCK FALSE
