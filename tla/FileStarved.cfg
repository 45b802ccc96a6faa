SPECIFICATION FairSpec
CONSTANTS
  Ids = {1}
  TransferTimeout = 2
  CleanupInterval = 2
  MaxQueue = 2
  Workloads <- OneFile
  MaxSetups = 1
PROPERTY TimedOutEnds
CHECK_DEADLOCK FALSE
