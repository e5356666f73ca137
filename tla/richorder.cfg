SPECIFICATION RichSpec
CONSTANTS
  Ids = {0, 2, 4}
  Streams = {s1}
  Bodies <- OneBodies
  Replies <- AnswerReplies
  MatchAlias = TRUE
  CommandSink = FALSE
  ErrCap = 1
  Kept = {"SUBSCRIBE", "SUBSCRIBE_OK", "REQUEST_ERROR"}
  Faults = {"noSetup", "timeout"}
INVARIANT AnswersBelowRequests
CHECK_DEADLOCK FALSE
