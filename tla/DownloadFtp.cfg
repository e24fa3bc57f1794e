SPECIFICATION Spec
CONSTANTS
  MinFileSize = 2
  Schemes = {"ftp"}
  FileSize = 2
  nblks = 2
  BufSize = 2
  MaxTryAttempts = 2
  ServerReply = "range"
  MaxCreateFails = 1
  MaxStops = 0
INVARIANT DownloadInv
PROPERTY DownloadEnds
CHECK_DEADLOCK FALSE
