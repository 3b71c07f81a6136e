SPECIFICATION BoundedSpec
CONSTANTS
  MaxNode = 3
  MaxEdge = 3
  MaxFace = 0
  MaxRows = 2
  tg1 = tg1
  tg2 = tg2
  TopoGeom = {tg1}
  FeatureType <- Lineal
CONSTRAINT Small
INVARIANT RelationRefersToPrimitives
CHECK_DEADLOCK FALSE
