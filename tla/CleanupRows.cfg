SPECIFICATION DrawAndCleanup
CONSTANTS
  MaxNode = 2
  MaxEdge = 3
  MaxFace = 2
  point = point
  line = line
  area = area
  any = any
  TopoGeom = {any}
  FeatureType <- Layered
INVARIANT CleanupKeepsExtents
CHECK_DEADLOCK FALSE
