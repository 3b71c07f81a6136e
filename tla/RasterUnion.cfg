CONSTANTS
  Tile <- MCTile
  Call <- MCCall
  Large = 999
  MaxTiles = 4
SPECIFICATION Spec
INVARIANTS
  ExtentIsWhole
  ValueIsDefined
CHECK_DEADLOCK FALSE
