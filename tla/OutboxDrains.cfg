CONSTANTS
  MaxRows = 3
  Policy = 1
  BatchLimit = 2
  Stale = 1
  MaxAttempts = 2
  Horizon = 2
SPECIFICATION FairSpec
INVARIANTS
  InvocationsBounded
  StatusIsTruthful
  OvertakenWasClaimed
PROPERTIES
  SettledIsFinal
  EveryRowSettles
