CONSTANTS
  Queues = {q1}
  Nodes = {n1, n2, n3}
  Values = {a, b}
  Threads = {t1, t2}
  Consumer = t1
  MultiPop = TRUE
  None = None
  EmplaceLimit = 3
SPECIFICATION Spec
INVARIANTS WordsAreTheQueue PopIsFirst
PROPERTY CallsEnd
