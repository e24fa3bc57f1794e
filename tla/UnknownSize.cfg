SPECIFICATION Spec
CONSTANTS
  Schemes = {"http", "ftp"}
  RemoteSize = 4
  BufSize = 2
  MaxTryAttempts = 3
  MaxStops = 1
  MaxFileLen = 8
INVARIANT AttemptInv
PROPERTY PthreadEnds
CHECK_DEADLOCK FALSE
