SPECIFICATION Spec
CONSTANTS
  Threads = {t1, t2}
  Regs = {r1, r2}
  NoReg = NoReg
INVARIANT RefcountNotNegative
CHECK_DEADLOCK FALSE
