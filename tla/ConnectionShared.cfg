SPECIFICATION Spec
CONSTANTS
  Sids = {0}
  Challenges = {1}
  EnableNowPlaying = FALSE
  EnableHid = FALSE
  SharedLinks = {TRUE}
  Budgets <- Phases
  MaxQueue = 2
INVARIANT DataOfOneSession
CHECK_DEADLOCK FALSE
