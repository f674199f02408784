CONSTANTS
  Sharers = {p1, p2, p3}
  None = none
  BigStride = 3
  Priorities = {2, 4}
SPECIFICATION StrideFairSpec
INVARIANTS
  HeapExact
  LeastFirst
PROPERTIES
  PolicySpec
  NoStarvation
