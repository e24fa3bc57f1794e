SPECIFICATION Spec
CONSTANTS
  MaxTaskNum = 2
  MaxRunning = 1
  MaxCreated = 3
  Namesakes = {2}
INVARIANTS TasksInv StoppedTasksKeepTheirLog MessageAlwaysFound
PROPERTIES CommandsTakeEffect CompletedTaskRetires
CHECK_DEADLOCK FALSE
