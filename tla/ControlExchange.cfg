SPECIFICATION Spec
CONSTANTS
  ChallengeSize = 2
  Scenarios <- AllScenarios
  Sessions = {0, 3}
  Secrets <- DeviceChallenges
  Changes <- DeviceChanges
  Tails <- DeviceTails
  Junk <- NoMessages
INVARIANTS TypeOK LearnsConfig HeardIsTold ShownIsCurrent
CHECK_DEADLOCK FALSE
