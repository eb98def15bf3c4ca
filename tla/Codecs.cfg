CONSTANTS
  Headers <- MCHeaders
  Frames <- MCFrames
  Ticks <- MCTicks
  DataPkts = 8
  FecPkts = 4
  MaxWords = 3
  PhaseGrid = 125
SPECIFICATION Spec
INVARIANTS AnyPacketsDo FieldsWherePut PayloadFound WalksSteadily
CHECK_DEADLOCK FALSE
