\* A RAM buffer written to while WriteAll is at work on a nearly full cluster.
CONSTANTS
  BlockCount = 2
  DataCells <- MCDataCells
  MaxDataCells = 2
  ClusterCount = 2
  ClusterStart <- MCClusterStart
  ClusterLen <- MCClusterLen
  GenMod = 256
  Value = {z, v1}
  Zero = z
  Erased = erased
  Torn = torn
  FlashSize = 14
  SectorSize = 7
  Buffer <- MCBuffer
  BufLen = 3
  WordMod = 65536
  QueueSize = 2
  BlockDescriptor <- MCDescriptor
  Media <- WornMedium
  MaxCalls = 3
  MaxStops = 0
  Careful = FALSE
SPECIFICATION MCSpec
INVARIANTS
  WithinOneCluster
\* The budgets run out and the caller may then stay silent.
CHECK_DEADLOCK FALSE
