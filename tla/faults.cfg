SPECIFICATION Spec
CONSTANTS
  Ids = {0, 2, 4}
  Streams = {s1, s2}
  Bodies <- FaultyBodies
  Replies <- OddReplies
  MatchAlias = TRUE
  CommandSink = FALSE
  ErrCap = 1
  Faults = {"timeout", "cancel", "noSetup"}
SYMMETRY StreamSymmetry
INVARIANT SessionInv ExitZeroOnlyIfCancelled
PROPERTY FailsForCause
