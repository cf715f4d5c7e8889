CONSTANTS
  Tasks = {t1, t2, t3}
  Cancellable = {"waiting", "begin", "write", "commit", "rollback",
                 "xcommit", "xrollback"}
  Faulty = {"BEGIN", "WRITE", "COMMIT", "ROLLBACK"}
SPECIFICATION FairSpec
INVARIANT Isolated
PROPERTIES
  ImplementsStore
  EveryTaskEnds
CHECK_DEADLOCK FALSE
