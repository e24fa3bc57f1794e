SPECIFICATION NetSpec
CONSTANTS
    MaxBytes = 4
    MaxLen = 3
    Room = 2
    Clients = {"ftp", "http"}
    Names = {1, 2, 7}
    Handles = {1, 2}
    MIN_SPARE_SOCKETS = 1
    MAX_SPARE_SOCKETS = 1
    Counts = {0, 1, 3}
    MaxClients = 3
INVARIANTS SocketInv FtpSocks5Inv SocketsAreInOnePlace
PROPERTIES TimedCallsReturn ImplementsByteStream ConnectionsAreReleased
CHECK_DEADLOCK FALSE
