SPECIFICATION FairSpec
CONSTANTS
  Sends = {s1, s2, s3}
  Receives = {r1, r2}
  MaxMessages = 2
INVARIANTS SendsInOrder ClientThere ReceivesMatch
PROPERTIES SendsAnswered CloseReturns
CHECK_DEADLOCK FALSE
