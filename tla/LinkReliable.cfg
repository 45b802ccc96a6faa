SPECIFICATION FairSpec
CONSTANTS
  M = 8
  InitialSeq = 6
  MaxRetries = 2
  MaxSends = 2
  MaxSend = 2
  OverflowPanics = TRUE
  Challenges = {2}
  DevInit = 6
  Convs <- AckConvs
  MaxData = 3
  Window = 3
  MaxFlight = 3
  MaxStray = 1
  MaxFaults = 0
INVARIANTS TypeOK NoProtocolError Inv
CHECK_DEADLOCK FALSE
PROPERTIES NegotiationEnds AllReturned FromDeviceIsChannel FromAccessoryIsChannel
