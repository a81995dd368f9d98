\* Jobs, cancellations and a reset at any point; what the driver was given still runs.
CONSTANTS
  BlockCount = 2
  DataCells <- MCDataCells
  MaxDataCells = 2
  ClusterCount = 2
  ClusterStart <- MCClusterStart
  ClusterLen <- MCClusterLen
  GenMod = 256
  Value = {z, v1}
  Zero = z
  Erased = erased
  Torn = torn
  FlashSize = 14
  SectorSize = 7
  Buffer <- MCBuffer
  BufLen = 3
  WordMod = 65536
  MaxJobs = 3
  MaxCancels = 2
  MaxResets = 1
  MaxLosses = 0
  MaxFaults = 0
SPECIFICATION MCSpec
INVARIANTS
  TypeOK
  OpInBounds
  DriverBusyOnlyForWaiter
  DirectoryFaithful
  OneProgramPerErase
  GenerationsDistinct
  WithinOneCluster
PROPERTIES
  ImplementsStore
  WriteSourceStable
  NoSpuriousFailure
\* The budgets run out and the caller may then stay silent.
CHECK_DEADLOCK FALSE
