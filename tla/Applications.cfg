CONSTANTS
  Dummies = {d1}
  Values = {x, y}
  OverSends = {0, 1, 3}
  Tick = Tick
  Ended = Ended
  TickLimit = 2
  Frames = {f1, f2, f3}
  Main = Main
  NoParent = NoParent
  ForkLimit = 2
  Waker = waker
  Monitors = {m1}
  Slots = {1, 2}
  Sleepers = {s1, s2}
  Workers = {k1, k2, k3}
  Times = {0, 1, 2}
  Infinite = Infinite
  Close = Close
  Idle = Idle
  Waking = Waking
  Gone = Gone
SPECIFICATION ApplicationsSpec
INVARIANTS EchoIsRight FramesEndOnce LoopsEndFirst SleepersAreKept
PROPERTIES RoundEnds ShutdownEnds SleepersWake
CHECK_DEADLOCK FALSE
