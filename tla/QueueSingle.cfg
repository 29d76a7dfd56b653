CONSTANTS
  Queues = {q1, q2}
  Nodes = {n1, n2, n3, n4}
  Values = {a, b}
  Threads = {t1, t2}
  Consumer = t1
  MultiPop = FALSE
  None = None
  EmplaceLimit = 2
  Raw = Raw
  ReserveCounts = {5}
  CapacityLimit = 7
SPECIFICATION QueuesSpec
SYMMETRY Symmetry
INVARIANTS OneOwner CallsActOnTheirQueue
PROPERTIES EmptyIsRight CircleImplementsFifo
