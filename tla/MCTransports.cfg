CONSTANTS
  Messages = {m1, m2, m3}
  Answered = {m1, m2}
  BatchSize = 2
  MaxRetries = 1
  OutboundSize = 2
  InboundSize = 1
  Parts <- MCParts
  Senders = {s1, s2}
  SendSize = 1
  ReceiveSize = 1
  MaxReconnectAttempts = 2
  MaxRead = 2
  left = left
  right = right
  n1 = n1
  n2 = n2
  n3 = n3
  n4 = n4
  Ends = {left, right}
  PairSends = {n1, n2, n3, n4}
  EndOf <- MCEndOf
  PairSendSize = 1
  PairReceiveSize = 1
SPECIFICATION MCSpec
INVARIANTS EachInOneBatch ForwardedOnce OneConnection PairInOrder
PROPERTIES EveryMessagePosted LockIsHad PairCloseReturns
CHECK_DEADLOCK FALSE
