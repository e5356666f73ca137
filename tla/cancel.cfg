SPECIFICATION FairSpec
CONSTANTS
  Ids = {0, 2, 4}
  Streams = {s1, s2}
  Bodies <- ResetBodies
  Replies <- OkReplies
  MatchAlias = TRUE
  CommandSink = TRUE
  ErrCap = 1
  Faults = {"cancel", "noSetup", "uni", "output", "orphan"}
PROPERTY CancelStopsUnlessDeaf
CHECK_DEADLOCK FALSE
