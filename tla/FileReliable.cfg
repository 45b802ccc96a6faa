SPECIFICATION FairSpec
CONSTANTS
  Ids = {1, 2}
  TransferTimeout = 1
  CleanupInterval = 1
  MaxQueue = 2
  Workloads <- AllWorkloads
  MaxSetups = 3
INVARIANTS TypeOK WholeFile OneVerdict WithinDeclared SuccessIsComplete InStep
PROPERTIES VerdictReached AbandonedEnds
CHECK_DEADLOCK FALSE
