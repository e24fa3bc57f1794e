SPECIFICATION Spec
CONSTANTS
    MaxEdits = 1
    MaxDeaths = 1
    MAX_CONFIG_LINE_LENGTH = 1024
    Urls <- MCUrls
    Schemes = {"http", "ftp"}
    Users = {"", "u"}
    MaxMirrors = 2
    MaxMessages = 4
    MAX_TASK_NUM = 2
    MaxThreads = 2
    Files <- MCFiles
    per_size = 2
    MaxChunk = 2
    MaxTurns = 1
    MinFileSize = 1
    Pids = {1, 2, 3}
    MaxStarts = 3
INVARIANTS SettingsSurvive AcceptedTaskIsWhole BoxesAgree LedInv OneInstanceRuns
CHECK_DEADLOCK FALSE
