CONSTANTS
  DataPkts = 2
  FecPkts = 2
  Capacity = 1
  MinBytes = 1
  SkipReload = 4
  SeqMod = 65536
  Calls = {1}
  Injections = {0, 9000000}
  SlowAfter = 8192
  Cards = 1
  MaxRefused = 0
  MaxBytes = 6
  RestartGap = 1
  None = None
  Junk = Junk
  Adapters = {a1, a2}
  Lossy = TRUE
  MaxRestarts = 0
SPECIFICATION Spec
INVARIANTS CountersAgree
PROPERTIES Implements AnyEnoughPacketsDo
SYMMETRY Symm
CHECK_DEADLOCK FALSE
