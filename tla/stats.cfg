SPECIFICATION Spec
CONSTANTS
  Streams = {s1, s2, s3}
  Contents <- SomeContents
  MaxTime = 2
SYMMETRY StreamSymmetry
INVARIANT StatsInv SummaryCoherent LatencyIsOfFirst
PROPERTY LatencyStays
CHECK_DEADLOCK FALSE
