SPECIFICATION FairSpec
CONSTANTS
  Threads = {t1, t2, t3}
  Regs = {r1, r2}
  NoReg = NoReg
INVARIANTS RefBalance NoUseAfterFree CancelReachesAll
PROPERTIES DeregisterIsBarrier CallsReturn
CHECK_DEADLOCK FALSE
