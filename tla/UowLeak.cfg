CONSTANTS
  Tasks = {t1, t2}
  Cancellable = {"begin"}
  Faulty = {}
SYMMETRY Symmetry
SPECIFICATION Spec
INVARIANT LockSpansUnitOfWork
CHECK_DEADLOCK FALSE
