CONSTANTS
  Tile <- MCTile
  Call <- MCCall
  Large = 999
  MaxTiles = 3
SPECIFICATION Spec
INVARIANT SumIsSum
CHECK_DEADLOCK FALSE
