CONSTANTS
  DataPkts = 2
  FecPkts = 1
  Capacity = 1
  MinBytes = 1
  SkipReload = 4
  SeqMod = 11
  Calls = {1}
  Injections = {0}
  SlowAfter = 8192
  Cards = 1
  MaxRefused = 0
  MaxBytes = 10
  RestartGap = 1
  None = None
  Junk = Junk
  Adapters = {a1}
  Lossy = TRUE
  MaxRestarts = 1
SPECIFICATION FairSpec
INVARIANTS RestartSpoilsOneBlock
PROPERTIES FollowsSender
CHECK_DEADLOCK FALSE
