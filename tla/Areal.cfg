SPECIFICATION BoundedSpec
CONSTANTS
  MaxNode = 2
  MaxEdge = 3
  MaxFace = 3
  MaxRows = 3
  tg1 = tg1
  tg2 = tg2
  TopoGeom = {tg1, tg2}
  FeatureType <- Areal
CONSTRAINT Small
INVARIANTS
  RelationRefersToPrimitives
PROPERTY EditsCarryTopoGeoms
SYMMETRY Interchangeable
CHECK_DEADLOCK FALSE
