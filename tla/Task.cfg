SPECIFICATION Spec
CONSTANTS
  Tasks = {t1, t2, t3}
  Tokens = {k}
  None = None
  SchedulerFails = TRUE
SYMMETRY Symmetry
INVARIANTS NoContinuationLost OneFinisher
PROPERTY ImplementsFuture
CHECK_DEADLOCK FALSE
