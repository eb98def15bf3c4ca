CONSTANTS
  NumCards = 2
  Services = {"motion", "camera"}
  Programs = {"air", "ground"}
  Parts = 1
  Kernels = {"joined", "apart"}
  Residues = {"other", "done", "ack"}
  MaxRefused = 2
  MaxSlips = 2
SPECIFICATION Spec
PROPERTIES EveryServiceGetsList
CHECK_DEADLOCK FALSE
