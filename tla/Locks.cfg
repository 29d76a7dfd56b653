CONSTANTS
  Threads = {t1, t2, t3, t4, t5}
  Words = {w1, w2}
  Readers = {r1, r2}
  WriteLimit = 3
  Coroutines = {1, 2, 3}
  MutexCount = 2
  Requests <- TwoMutexes
  RoundLimit = 1
SPECIFICATION LocksSpec
INVARIANTS GuardedIsWhole GrantsAreRight
PROPERTIES ThreadsGetThrough SuspendedEnters
CHECK_DEADLOCK FALSE
