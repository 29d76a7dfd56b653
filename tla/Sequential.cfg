CONSTANTS
  Nodes = {n1, n2, n3, n4}
  Sentinel = Sentinel
  k1 = k1
  k2 = k2
  k3 = k3
  Keys = {k1, k2, k3}
  Hash <- KeysHash
  FirstCount = 2
  Growth = 2
  SmallCount = 4
  RehashCounts = {1, 5}
  Strings = {t1, t2}
  Chars = {a}
  Nul = Nul
  Unknown = Unknown
  Small = 2
  SizeLimit = 4
  TextSizes = {2, 3}
  Vectors = {v1, v2}
  Elements = {a, b}
  RawCell = RawCell
  LengthLimit = 3
  ReserveCounts = {0, 2, 3}
  Priorities = {1, 2, 3, 4}
  HeapLimit = 7
  WordBits = 3
  SetSize = 4
  Letters = {"a", "b"}
  Split = ","
  EndChar = ";"
  Comment = "#"
  Lists = {l1, l2}
  Temporary = Temporary
  ListNodes = {c1, c2, c3}
  Heads = {d1, d2, d3}
  ListItems = {x, y}
  NoList = NoList
SYMMETRY Symmetry
SPECIFICATION SequentialSpec
INVARIANTS ContainersKeepContents CommandsAreRight
PROPERTY TableImplementsElements
