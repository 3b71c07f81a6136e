SPECIFICATION Spec
CONSTANTS
  Table <- Columns
  Null = Null
  EMPTY = EMPTY
  NaN = NaN
  None = None
  FltMax = 9
  MaxRows = 3
INVARIANTS
  RowsFound
  IndexIsSelective
PROPERTY SummariesEnd
