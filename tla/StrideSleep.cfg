CONSTANTS
  Sharers = {p1, p2, p3}
  None = none
  BigStride = 3
  Priorities = {0, 2, 4}
SPECIFICATION StrideSpec
INVARIANT PicksMinimum
