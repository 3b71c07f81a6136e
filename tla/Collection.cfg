SPECIFICATION BoundedGuardedSpec
CONSTANTS
  MaxNode = 3
  MaxEdge = 3
  MaxFace = 1
  MaxRows = 2
  tg1 = tg1
  tg2 = tg2
  TopoGeom = {tg1}
  FeatureType <- Collection
CONSTRAINT Small
INVARIANTS
  RelationRefersToPrimitives
  ExtentsPreserved
PROPERTY EditsCarryTopoGeoms
CHECK_DEADLOCK FALSE
