SPECIFICATION Spec
CONSTANTS
  Table <- ColumnWithEmpty
  Null = Null
  EMPTY = EMPTY
  NaN = NaN
  None = None
  FltMax = 9
  MaxRows = 3
INVARIANT RowsFound
