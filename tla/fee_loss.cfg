\* Jobs and losses of power in the middle of a flash job.
CONSTANTS
  BlockCount = 2
  DataCells <- MCDataCells
  MaxDataCells = 2
  ClusterCount = 2
  ClusterStart <- MCClusterStart
  ClusterLen <- MCClusterLen
  GenMod = 256
  Value = {z, v1}
  Zero = z
  Erased = erased
  Torn = torn
  FlashSize = 14
  SectorSize = 7
  Buffer <- MCBuffer
  BufLen = 3
  WordMod = 65536
  MaxJobs = 3
  MaxCancels = 0
  MaxResets = 0
  MaxLosses = 2
  MaxFaults = 0
SPECIFICATION MCSpec
INVARIANTS
  GenerationsDistinct
  LogInv
PROPERTIES
  UntouchedBlocksSurvive
  LossLeavesOldOrNew
\* The budgets run out and the caller may then stay silent.
CHECK_DEADLOCK FALSE
