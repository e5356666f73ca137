SPECIFICATION Spec
CONSTANTS
  Ids = {0, 2, 4}
  Streams = {s1, s2, s3}
  Bodies <- OneBodies
  Replies <- OkReplies
  MatchAlias = FALSE
  CommandSink = FALSE
  ErrCap = 2
  Faults = {"timeout", "noSetup"}
SYMMETRY StreamSymmetry
INVARIANT NeverMisbound
CHECK_DEADLOCK FALSE
