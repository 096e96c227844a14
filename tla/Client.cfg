SPECIFICATION FairSpec
CONSTANTS
  Requests = {r1, r2}
  Cancelable = {r1}
  Conns = {c1, c2, c3}
  NoConn = NoConn
  MaxEndpoints = 2
INVARIANTS NoSharing PoolSorted Serialized FinishedOnce
PROPERTIES Completes
CHECK_DEADLOCK FALSE
