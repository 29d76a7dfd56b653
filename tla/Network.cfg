CONSTANTS
  Callers = {c1}
  Workers = {w1, w2}
  ByteLimit = 1
  MessageLimit = 3
SPECIFICATION Spec
INVARIANTS QueueIsSent IoKeepsSession
PROPERTY SessionEnds
CHECK_DEADLOCK FALSE
