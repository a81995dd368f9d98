\* Every job ends, with cancellations, losses of power and failing flash jobs.
CONSTANTS
  BlockCount = 2
  DataCells <- MCDataCells
  MaxDataCells = 2
  ClusterCount = 2
  ClusterStart <- MCClusterStart
  ClusterLen <- MCClusterLen
  GenMod = 256
  Value = {z}
  Zero = z
  Erased = erased
  Torn = torn
  FlashSize = 14
  SectorSize = 7
  Buffer <- MCBuffer
  BufLen = 3
  WordMod = 65536
  MaxJobs = 2
  MaxCancels = 1
  MaxResets = 0
  MaxLosses = 1
  MaxFaults = 1
SPECIFICATION MCLiveSpec
PROPERTIES
  JobTerminates
\* The budgets run out and the caller may then stay silent.
CHECK_DEADLOCK FALSE
