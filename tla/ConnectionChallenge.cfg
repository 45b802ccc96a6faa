SPECIFICATION Spec
CONSTANTS
  Sids = {0}
  Challenges = {1, 2, 3}
  EnableNowPlaying = FALSE
  EnableHid = FALSE
  SharedLinks = {FALSE}
  Budgets <- Phases
  MaxQueue = 2
INVARIANT LastChallengeAnswered
CHECK_DEADLOCK FALSE
