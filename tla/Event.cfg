SPECIFICATION CombSpec
CONSTANTS
  Threads = {t1, t2, t3}
  Tasks = {x1, x2}
  None = None
  Mixed = FALSE
INVARIANTS
  WinnerDecides
  TasksAgree
  NoneForgotten
  OutcomeFollows
PROPERTIES
  AllUsesEventWell
  CombinedCompletes
CHECK_DEADLOCK FALSE
