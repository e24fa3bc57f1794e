SPECIFICATION StreamsSpec
CONSTANTS
    HeaderLen = 3
    PacketLen = 3
    Packets = 3
    IndexLen = 1
    Starts = {0, 2, 7}
    MMS_BUF_SIZE = 4
    MaxExtras = 1
    Streams <- MCStreamSet
    Duration = 9
    AvgBitRate = 12000
    ThreadCnt = 3
    RTSP_BUF_SIZE = 7
    MAXRETRYCONN = 1
    MAX_TRY_ATTEMPTS = 2
    PacketLens = {0, 2, 3}
    Sizes = {1, 3}
    ASF_MAX_NUM_STREAMS = 4
    Lengths = {1, 4}
    MaxChunks = 3
INVARIANTS MmsStores RtspJoins
PROPERTY StreamsEnd
CHECK_DEADLOCK FALSE
