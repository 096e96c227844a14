SPECIFICATION FairSpec
CONSTANTS
  Tasks = {t1, t2}
  Tokens = {k}
  None = None
  SchedulerFails = FALSE
PROPERTY EventuallySignaled
CHECK_DEADLOCK FALSE
