SPECIFICATION StreamSpec
CONSTANTS
  Page = 4
  Sizes = {0, 1, 2, 3, 5, 9}
  Counts = {1, 2, 3, 5}
  MaxPos = 11
  Word = 64
  Garbage = Garbage
  Writes = {w1, w2}
  Flushes = {f1}
  Hole = Hole
  MaxSeek = 1
CHECK_DEADLOCK FALSE
INVARIANTS
  BufferHoldsFile
  FlushIsBarrier
  RecordOutlivesWrites
  WritesKept
  ReadBack
PROPERTIES
  WrongOnlyPast
  FlushAnswered
