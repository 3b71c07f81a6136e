SPECIFICATION DrawAndCleanup
CONSTANTS
  MaxNode = 3
  MaxEdge = 3
  MaxFace = 2
  point = point
  line = line
  area = area
  any = any
  TopoGeom = {point, line, area}
  FeatureType <- Layered
INVARIANTS
  MendedTablesFollowDrawing
  CleanupKeepsExtents
  NothingUnusedLeft
PROPERTY CleanupReturns
CHECK_DEADLOCK FALSE
