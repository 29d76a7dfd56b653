CONSTANTS
  Capacity = 2
  Threads = {t1, t2, t3}
  TagLimit = 3
  BucketSize = 2
  Chunks = 2
  LocalThreads = {l1, l2}
  NoNode = NoNode
SPECIFICATION PoolsSpec
SYMMETRY Symmetry
INVARIANTS ChainIsFree OneOwner NoStalePop NodesAreKept
