CONSTANTS
  r1 = r1
  r2 = r2
  r3 = r3
  n1 = n1
  n2 = n2
  Runs = {r1, r2, r3}
  Names = {n1, n2}
  NamesOf <- MCNamesOf
  MaxPrunes = 2
  CandidateLimit = 2
  Retention = 1
  Horizon = 1
SPECIFICATION FairSpec
INVARIANT RunFitsBudget
PROPERTIES
  KeepsReports
  EveryFileGoes
