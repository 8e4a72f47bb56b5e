SPECIFICATION FairSpec
CONSTANTS
  Chain <- MCChain
  Old <- MCOld
  MaxCrashes = 3
INVARIANTS
  ClosedIsStored
  MidsInOrder
PROPERTIES
  Kept
  Completes
CHECK_DEADLOCK FALSE
