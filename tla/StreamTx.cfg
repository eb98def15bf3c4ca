CONSTANTS
  DataPkts = 3
  FecPkts = 4
  Capacity = 3
  MinBytes = 2
  SkipReload = 4
  SeqMod = 65536
  Calls = {1, 2, 4}
  Injections = {5000, 9000000}
  SlowAfter = 8192
  Cards = 2
  MaxRefused = 2
  MaxBytes = 14
SPECIFICATION Spec
INVARIANTS NoByteLost DecodableFromEachCard
CHECK_DEADLOCK FALSE
