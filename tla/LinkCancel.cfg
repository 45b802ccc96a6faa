SPECIFICATION CancelSpec
CONSTANTS
  M = 8
  InitialSeq = 6
  MaxRetries = 1
  MaxSends = 2
  MaxSend = 1
  OverflowPanics = TRUE
  Challenges = {}
  DevInit = 6
  Convs <- AckLast
  MaxData = 2
  Window = 2
  MaxFlight = 2
  MaxStray = 0
  MaxFaults = 0
INVARIANT AckedIsKept
CHECK_DEADLOCK FALSE
