\* Are clean blocks stored as they were last written?
CONSTANTS
  BlockCount = 1
  DataCells <- OneCell
  MaxDataCells = 1
  ClusterCount = 1
  ClusterStart <- NoCluster
  ClusterLen <- NoCluster
  GenMod = 2
  Value = {z, v1}
  Zero = z
  Erased = erased
  Torn = torn
  QueueSize = 2
  BlockDescriptor <- MCDescriptor
  MaxCalls = 2
  MaxStops = 0
SPECIFICATION MCSpec
INVARIANTS
  CleanMeansStored
\* The budget runs out and the caller may then stay silent.
CHECK_DEADLOCK FALSE
