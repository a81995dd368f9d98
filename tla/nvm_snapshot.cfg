\* Two requests of two blocks: is the data of a write a snapshot?
CONSTANTS
  BlockCount = 2
  DataCells <- OneCell
  MaxDataCells = 1
  ClusterCount = 1
  ClusterStart <- NoCluster
  ClusterLen <- NoCluster
  GenMod = 2
  Value = {z, v1, v2}
  Zero = z
  Erased = erased
  Torn = torn
  QueueSize = 2
  BlockDescriptor <- MCDescriptor
  MaxCalls = 2
  MaxStops = 0
SPECIFICATION MCSpec
PROPERTIES
  SnapshotStored
\* The budget runs out and the caller may then stay silent.
CHECK_DEADLOCK FALSE
