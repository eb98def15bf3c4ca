CONSTANTS
  Services = {1, 2}
  Deadline = 5
  MainLag = 2
  Slice = 1
  Blocking = {2}
  ForkFails = TRUE
  Steps = {1}
  MaxBack = 1
  MaxTime = 11
SPECIFICATION Spec
INVARIANTS NoFalseAlarm OrphansLeave
CHECK_DEADLOCK FALSE
