SPECIFICATION Spec
CONSTANTS
  Page = 4
  Sizes = {0, 1, 5, 9}
  Counts = {1, 2, 3, 5}
  MaxPos = 11
  Word = 64
  Garbage = Garbage
CHECK_DEADLOCK FALSE
INVARIANT
  ReadsFile
