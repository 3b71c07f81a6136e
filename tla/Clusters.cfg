SPECIFICATION MCSpec
CONSTANTS
  N = 5
  MinPoints = {1, 2, 3, 4, 6}
INVARIANTS
  PartitionCounted
  ClustersAreDensityConnected
  IdsCountTheSets
PROPERTIES
  ClustersOnlyGrow
CHECK_DEADLOCK FALSE
