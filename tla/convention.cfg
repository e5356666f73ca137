SPECIFICATION FairSpec
CONSTANTS
  Ids = {0, 2, 4}
  Streams = {s1, s2, s3}
  Bodies <- CleanBodies
  Replies <- OkReplies
  MatchAlias = TRUE
  CommandSink = TRUE
  ErrCap = 1
  Faults = {"noSetup", "child"}
INVARIANT BoundToOwnTrack NoMediaLost MediaInv
PROPERTY MediaPlayed
CHECK_DEADLOCK FALSE
