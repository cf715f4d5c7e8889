CONSTANTS
  Writers = {w1, w2}
  MaxRecords = 4
  BatchSize = 2
  Retention = 2
  MaxLag = 2
  Horizon = 2
SPECIFICATION FairSpec
INVARIANT DeletedIsArchived
PROPERTIES
  DeletesOldestExpired
  EveryRecordExpires
