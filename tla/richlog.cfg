SPECIFICATION RichSpec
CONSTANTS
  Ids = {0, 2, 4}
  Streams = {s1, s2, s3}
  Bodies <- RichBodies
  Replies <- AnswerReplies
  MatchAlias = FALSE
  CommandSink = FALSE
  ErrCap = 1
  Kept = {"INIT SEGMENT WRITTEN", "SUBGROUP_HEADER", "SUBSCRIBE_OK", "REQUEST_ERROR", "SETUP"}
  Faults = {"noSetup"}
SYMMETRY StreamSymmetry
INVARIANT RecorderInv PageInv InitAboveMedia TablesMatchOutput AnswersRecorded
CHECK_DEADLOCK FALSE
