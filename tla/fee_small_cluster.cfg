\* The clusters cannot hold a record of each block.
CONSTANTS
  BlockCount = 2
  DataCells <- MCDataCells
  MaxDataCells = 2
  ClusterCount = 2
  ClusterStart <- SmallClusterStart
  ClusterLen <- SmallClusterLen
  GenMod = 256
  Value = {z, v1}
  Zero = z
  Erased = erased
  Torn = torn
  FlashSize = 10
  SectorSize = 5
  Buffer <- MCBuffer
  BufLen = 3
  WordMod = 65536
  MaxJobs = 2
  MaxCancels = 0
  MaxResets = 0
  MaxLosses = 0
  MaxFaults = 0
SPECIFICATION MCSpec
INVARIANTS
  CapacityFailureReported
\* The budgets run out and the caller may then stay silent.
CHECK_DEADLOCK FALSE
