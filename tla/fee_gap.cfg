\* A flash job of a write fails, a later write succeeds.
CONSTANTS
  BlockCount = 2
  DataCells <- MCDataCells
  MaxDataCells = 2
  ClusterCount = 2
  ClusterStart <- MCClusterStart
  ClusterLen <- MCClusterLen
  GenMod = 256
  Value = {z, v1}
  Zero = z
  Erased = erased
  Torn = torn
  FlashSize = 14
  SectorSize = 7
  Buffer <- MCBuffer
  BufLen = 3
  WordMod = 65536
  MaxJobs = 3
  MaxCancels = 0
  MaxResets = 0
  MaxLosses = 0
  MaxFaults = 1
SPECIFICATION MCSpec
INVARIANTS
  OkMeansDurable
\* The budgets run out and the caller may then stay silent.
CHECK_DEADLOCK FALSE
