CONSTANTS
  Runs = {r1, r2}
  Stages = {s1}
  Contents = {c1}
  NoContent = NoContent
  Timeout = 1
  MaxCandidates = 1
  MaxInFlight = 1
  Horizon = 0
  MaxStepBacks = 0
SPECIFICATION FairSpec
PROPERTY EveryRunEnds
