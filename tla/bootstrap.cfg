SPECIFICATION FairSpec
CONSTANTS
  Ids = {0, 2, 4}
  Streams = {s1, s2}
  Bodies <- ResetBodies
  Replies <- FewReplies
  MatchAlias = TRUE
  CommandSink = FALSE
  ErrCap = 1
  Faults = {"timeout", "loss", "noSetup"}
PROPERTY BootstrapEnds ErrorsReported LossStops
CHECK_DEADLOCK FALSE
