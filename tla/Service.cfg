SPECIFICATION FairSpec
CONSTANTS
  r1 = r1
  r2 = r2
  r3 = r3
  q1 = q1
  sweeper = sweeper
  pruner = pruner
  Rpcs <- MCRpcs
  Rests <- MCRests
  Loops <- MCLoops
  Limit = 2
  LastVersion = 2
  MaxStarts = 2
INVARIANTS
  MigrationsExactlyOnce
  PermitsConserved
  ClosedWhenQuiet
PROPERTY ShutdownCompletes
CHECK_DEADLOCK FALSE
