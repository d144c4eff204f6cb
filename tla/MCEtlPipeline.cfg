SPECIFICATION Spec
CONSTANTS
  MsgLimit = 3
  Invalid <- MCInvalid
  ChanCap = 1
  BatchSize = 2
  LeaveLimit = 1
  DoubtLimit = 1
  RestartLimit = 1
INVARIANTS
  ExactlyOnceInOrder
  CommittedWasHandedOn
PROPERTIES
  BufferedIsStored
  InterruptEnds
CHECK_DEADLOCK FALSE
