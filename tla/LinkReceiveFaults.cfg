SPECIFICATION FairFaultySpec
CONSTANTS
  M = 8
  InitialSeq = 7
  MaxRetries = 1
  MaxSends = 2
  MaxSend = 0
  OverflowPanics = TRUE
  Challenges = {}
  DevInit = 6
  Convs <- DataConvs
  MaxData = 4
  Window = 2
  MaxFlight = 3
  MaxStray = 0
  MaxFaults = 2
INVARIANTS InOrder AckedIsKept
PROPERTIES AllReturned
CHECK_DEADLOCK FALSE
