SPECIFICATION Spec
CONSTANTS
  Sizes = {1, 3}
  AllocSize = 2
  MaxWritten = 5
  MaxBlocks = 3
  MaxRequests = 2
INVARIANTS Contents AnswersInOrder NoFalseEof NoReaderStuck
CHECK_DEADLOCK FALSE
