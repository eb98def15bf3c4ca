CONSTANTS
  Drives = {1, 2, 3}
  Kinds <- KindsOf
  Length = 3
  ReadSize = 9
  LineSize = 4
  PipeSize = 3
  ChunkSize = 2
  Messages = 3
  MaxVideo = 6
  MaxResult = 5
  MaxConns = 3
  Slots = 2
  MaxDeaf = 0
  MaxSent = 2
  Cards = {c1, c2}
  BufSize = 4
  SeqMod = 65536
  Skew = 2
  Lossy = TRUE
  SendFails = TRUE
  MaxPackets = 4
  MaxRc = 2
  MaxPhantoms = 1
  MaxRestarts = 1
  NumCards = 2
  Services = {"motion", "camera"}
  Programs = {"air", "ground"}
  Parts = 1
  Kernels = {"joined", "apart"}
  Residues = {"other", "done", "ack"}
  MaxRefused = 2
  MaxSlips = 2
  MaxRuns = 2
SPECIFICATION Spec
PROPERTIES DataAfterSilenceRead
CHECK_DEADLOCK FALSE
