CONSTANTS
  Drives = {1}
  Cards = {c1, c2}
  TxPort = 1
  RxPort = 30
  SeqMod = 65536
  Lossy = FALSE
  MaxPhantoms = 0
  MaxPackets = 1
  MaxGroundRestarts = 0
  MaxAirRestarts = 0
SPECIFICATION FairSpec
PROPERTIES LastCommandArrives
