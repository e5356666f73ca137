SPECIFICATION FairSpec
CONSTANTS
  Ids = {0, 2, 4}
  Streams = {s1, s2, s3}
  Bodies <- OneBodies
  Replies <- OkReplies
  MatchAlias = TRUE
  CommandSink = FALSE
  ErrCap = 1
  Faults = {"cancel", "noSetup", "bidi", "output"}
PROPERTY CancelStopsUnlessDeaf
CHECK_DEADLOCK FALSE
