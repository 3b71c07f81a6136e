CONSTANTS
  PixType <- MCPixType
  Height = 2
  MaxGeoms = 2
  Number <- MCNumber
  Null = Null
SPECIFICATION Spec
INVARIANTS
  FlagIsTrue
  WritesReadBack
  PathsAgree
  TilesReadAsTheBand
PROPERTY OthersReadAsBefore
