CONSTANTS
  Line <- MCLine
  Avoid = {0, 2, 4}
  Threshold = {0, 2, 5}
  FLT_MAX = 1000
SPECIFICATION Spec
INVARIANTS
  HeapSound
  LineKept
  NothingSmallLeft
PROPERTY EliminatesLeast
CHECK_DEADLOCK FALSE
