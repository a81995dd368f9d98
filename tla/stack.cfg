\* The whole stack, a caller who leaves the buffers in use alone.
CONSTANTS
  BlockCount = 2
  DataCells <- MCDataCells
  MaxDataCells = 2
  ClusterCount = 2
  ClusterStart <- MCClusterStart
  ClusterLen <- MCClusterLen
  GenMod = 256
  Value = {z, v1}
  Zero = z
  Erased = erased
  Torn = torn
  FlashSize = 14
  SectorSize = 7
  Buffer <- MCBuffer
  BufLen = 3
  WordMod = 65536
  QueueSize = 2
  BlockDescriptor <- MCDescriptor
  Media <- AnyMedium
  MaxCalls = 3
  MaxStops = 1
  Careful = TRUE
SPECIFICATION MCSpec
INVARIANTS
  WithinOneCluster
  StackServesCurrent
PROPERTIES
  ImplementsNvmOnStore
  ReadsWhatWasWritten
\* The budgets run out and the caller may then stay silent.
CHECK_DEADLOCK FALSE
