CONSTANTS
  Values = {a, b}
  Raw = Raw
  ReserveCounts = {5}
  CapacityLimit = 7
SPECIFICATION FixedSpec
INVARIANT AssertionSaysFull
