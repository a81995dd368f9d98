\* Requests, cancellations, initializations and deinitializations at any point.
CONSTANTS
  BlockCount = 3
  DataCells <- LastEmpty
  MaxDataCells = 1
  ClusterCount = 1
  ClusterStart <- NoCluster
  ClusterLen <- NoCluster
  GenMod = 2
  Value = {z, v1}
  Zero = z
  Erased = erased
  Torn = torn
  QueueSize = 2
  BlockDescriptor <- MCDescriptor
  MaxCalls = 3
  MaxStops = 1
SPECIFICATION MCLiveSpec
INVARIANTS
  NvmTypeOK
  PendingIffWaiting
  FeeServesCurrent
PROPERTIES
  BulkReadLoads
  BulkWriteSaves
  ImplementsRequestQueue
  EveryRequestAnswered
\* The budgets run out and the caller may then stay silent.
CHECK_DEADLOCK FALSE
