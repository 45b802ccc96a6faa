SPECIFICATION FaultySpec
CONSTANTS
  M = 8
  InitialSeq = 6
  MaxRetries = 1
  MaxSends = 2
  MaxSend = 3
  OverflowPanics = TRUE
  Challenges = {1}
  DevInit = 6
  Convs <- AckLast
  MaxData = 1
  Window = 1
  MaxFlight = 2
  MaxStray = 0
  MaxFaults = 2
INVARIANTS DeviceInOrder
PROPERTIES SendOkMeansReceived
CHECK_DEADLOCK FALSE
