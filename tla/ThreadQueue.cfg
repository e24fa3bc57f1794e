SPECIFICATION Spec
CONSTANTS
  MinFileSize = 3
  MaxThreads = 6
  MaxFileSize = 20
INVARIANTS BlocksTileTheFile BlocksAreTheirClosedForm
CHECK_DEADLOCK FALSE
