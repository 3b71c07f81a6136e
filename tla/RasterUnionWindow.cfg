CONSTANTS
  Tile <- MCTile
  Call <- MCCall
  Large = 999
  MaxTiles = 3
SPECIFICATION WindowSpec
INVARIANT ExtentIsWhole
CHECK_DEADLOCK FALSE
