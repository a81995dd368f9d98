\* A RAM buffer written to while a write of its block is at work.
CONSTANTS
  BlockCount = 1
  DataCells <- OneCell
  MaxDataCells = 1
  ClusterCount = 1
  ClusterStart <- NoCluster
  ClusterLen <- NoCluster
  GenMod = 2
  Value = {z, v1, v2}
  Zero = z
  Erased = erased
  Torn = torn
  QueueSize = 2
  BlockDescriptor <- MCDescriptor
  MaxCalls = 3
  MaxStops = 0
SPECIFICATION MCSpec
PROPERTIES
  ClearsOnlySaved
\* The budget runs out and the caller may then stay silent.
CHECK_DEADLOCK FALSE
