SPECIFICATION Spec
CONSTANTS
  MinFileSize = 2
  Schemes = {"http"}
  FileSize = 3
  nblks = 2
  BufSize = 2
  MaxTryAttempts = 2
  ServerReply = "range"
  MaxCreateFails = 0
  MaxStops = 1
CONSTRAINT BeforeTear
INVARIANT DownloadInv
PROPERTIES CheckpointsAdvance ImplementsDelivery
CHECK_DEADLOCK FALSE
