CONSTANTS
  Readers = {r1}
  Words = {w1, w2}
  Copies = 3
  Laps = 2
  StartIdx = 4
  WeakStores = TRUE
  MaxWrites = 5
  MaxInits = 1
SPECIFICATION FairSpec
INVARIANTS NoTearing OneLapTear NothingOlder
PROPERTIES Implements Delivered
CHECK_DEADLOCK FALSE
