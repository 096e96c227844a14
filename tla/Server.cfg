SPECIFICATION FairSpec
CONSTANTS
  Listeners = {l1, l2}
  NoListener = NoListener
  Conns = {c1}
  MaxRequests = 2
INVARIANTS RefsCountUsers CloseIsBarrier OpenIsServed
PROPERTY CloseReturns
CHECK_DEADLOCK FALSE
