SPECIFICATION FairSpec
CONSTANTS
  Sids = {0, 2}
  Challenges = {1, 2, 3}
  EnableNowPlaying = TRUE
  EnableHid = TRUE
  SharedLinks = {TRUE, FALSE}
  Budgets <- Phases
  MaxQueue = 2
INVARIANTS TypeOK EventOrder EaRequestedWhenBoth EaInOrder SessionsAreOpened OutgoingTransferId ReportsWhileStarted CleanGoodbye ResponsesFit
PROPERTIES StopEnds CommandsTaken
CHECK_DEADLOCK FALSE
