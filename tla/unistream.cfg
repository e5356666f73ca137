SPECIFICATION Spec
CONSTANTS
  MaxID = 3
  MaxMake = 2
  Contents <- AllContents
INVARIANT StreamInv InStep SummaryAgrees
PROPERTY ViewSpec
CHECK_DEADLOCK FALSE
