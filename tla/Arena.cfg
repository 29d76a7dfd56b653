CONSTANTS
  Slots = {0, 1}
  Threads = {t1, t2, t3}
  KeyLimit = 2
SPECIFICATION Spec
SYMMETRY Symmetry
INVARIANTS CountIsExact UseIsSafe NoLeak
PROPERTY ImplementsTable
