SPECIFICATION FairSpec
CONSTANTS
  MaxLength = 16
  Chunk = 3
  Scripts <- AllScripts
  DamageValues = {0, 6, 9, 12, 40, 90, 238, 255}
INVARIANTS TypeOK SplitsDoNotMatter BufferBounded
PROPERTIES ReadsWhatWasSent BackInStep
CHECK_DEADLOCK FALSE
