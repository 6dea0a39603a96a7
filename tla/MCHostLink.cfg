SPECIFICATION FairSpec
CONSTANTS
  BufSize = 2
  PipeCap = 2
  SockCap = 1
  Requests <- AllRequests
  MaxLen = 1
  LongLen = 2
  MaxAhead = 0
  MaxUnits = 2
  MaxStray = 1
CHECK_DEADLOCK FALSE
INVARIANT TypeOK
PROPERTY StopDrains
INVARIANT RunningMeansTransferring
INVARIANT InStep
PROPERTY CloseEnds
