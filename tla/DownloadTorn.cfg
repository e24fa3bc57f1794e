SPECIFICATION Spec
CONSTANTS
  MinFileSize = 2
  Schemes = {"ftp"}
  FileSize = 3
  nblks = 2
  BufSize = 2
  MaxTryAttempts = 1
  ServerReply = "range"
  MaxCreateFails = 0
  MaxStops = 1
INVARIANT ReportedSuccessIsTrue
CHECK_DEADLOCK FALSE
