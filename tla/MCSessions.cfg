SPECIFICATION SessionsSpec
CONSTANTS
    MaxAttempts = 2
    RemoteSize = 25
    Scannable = {3}
    Positions = {7}
    Webs <- MCWebs
    RedirectLimit = 2
    HTTP_BUF_SIZE = 2
INVARIANTS FtpSessionInv HttpSessionInv
PROPERTY CallsReturn
CHECK_DEADLOCK FALSE
