CONSTANTS
  Drives = {1}
  Cards = {c1, c2}
  TxPort = 1
  RxPort = 1
  SeqMod = 65536
  Lossy = TRUE
  MaxPhantoms = 1
  MaxPackets = 2
  MaxGroundRestarts = 1
  MaxAirRestarts = 1
SPECIFICATION FairSpec
INVARIANTS OnlyOnOrders
PROPERTIES LastCommandArrives
