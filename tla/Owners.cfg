CONSTANTS
  Threads = {t1, t2, t3}
  PointerLimit = 5
  Sockets = {s1, s2, s3}
  Others = {o1, o2}
  Numbers = {1, 2, 3}
  Invalid = Invalid
  Absent = Absent
  ShareVars = {p1, p2}
  WeakVars = {w1, w2}
  References = {r1, r2}
  Nobody = Nobody
  NoPointer = NoPointer
  HookShares = {p1, p2}
  HookWeaks = {w1, w2}
  Hooks = {h1, h2}
  Nil = Nil
  NoHook = NoHook
  CarryLimit = 1
  RaiseLimit = 2
  Arrays = {a1, a2}
  FreeLists = {q1, q2}
  HeapMemory = {b1, b2, b3}
  Items = {x, y}
  ArraySizes = {1, 2}
  NoMemory = NoMemory
  Gone = Gone
  Messages = {m1, m2}
  ByteBuffers = {b1, b2, b3}
  BufferSize = 2
  Sizes = {1, 2}
  Data = {x, y}
  NoBytes = NoBytes
  NoMessage = NoMessage
  Fixed = {f1}
  Growing = {g1, g2}
  BufferBytes = 2
  HeapBlocks = {b1, b2}
  Octets = {x, y}
  Garbage = Garbage
  NoBlock = NoBlock
  NoBuffer = NoBuffer
SPECIFICATION OwnersSpec
INVARIANTS PointersAreSafe NoLeak OwnersAreExact
CHECK_DEADLOCK FALSE
