SPECIFICATION Spec
CONSTANTS
  Ids = {0, 2, 4}
  Streams = {s1, s2, s3, s4}
  Bodies <- PairBodies
  Replies <- OkReplies
  MatchAlias = FALSE
  CommandSink = FALSE
  ErrCap = 2
  Faults = {"timeout", "noSetup"}
SYMMETRY StreamSymmetry
INVARIANT RunInv BytesAccounted
PROPERTY PlaybackSpec LoopBindsRight
CHECK_DEADLOCK FALSE
