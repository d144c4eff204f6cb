SPECIFICATION Spec
CONSTANTS
  MsgLimit = 3
  Invalid <- MCInvalid
  ChanCap = 1
  BatchSize = 2
  LeaveLimit = 0
  DoubtLimit = 0
  RestartLimit = 0
INVARIANTS
  ShutdownInsertsRemaining
CHECK_DEADLOCK FALSE
