CONSTANTS
  Size = 3
  MaxRecs = 2
  MaxPuts = 4
  MaxLate = 2
SPECIFICATION FairSpec
INVARIANTS Fifo
PROPERTIES Drains SlipsOnlyMidMessage
CHECK_DEADLOCK FALSE
