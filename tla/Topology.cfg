SPECIFICATION BoundedSpec
CONSTANTS
  MaxNode = 3
  MaxEdge = 4
  MaxFace = 3
  TopoGeom = {}
  FeatureType <- NoFeatures
INVARIANTS
  TypeOK
  LinksFollowDrawing
  NodesFollowDrawing
  FacesFollowDrawing
  IsolatedNodesBare
  RingsClose
  ForeignKeysHold
  FacesSound
  LegalEdgesAccepted
CHECK_DEADLOCK FALSE
