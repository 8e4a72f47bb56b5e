SPECIFICATION Spec
CONSTANTS
  Chain <- MCChain
  Old <- MCOld
  MaxCrashes = 3
INVARIANT ChainsConverted
CHECK_DEADLOCK FALSE
