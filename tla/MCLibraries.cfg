SPECIFICATION LibrarySpec
CONSTANTS
    Size = 7
    MaxNodes = 4
    MaxMerged = 6
    Data = {1, 2}
    Grain = 4
    Round = 2
    IndexSize = 5
    ItemSize = 2
    Packages = 8
    MaxPieces = 12
    MAX_CONFIG_LINE_LENGTH = 7
INVARIANTS PacketsSurvive BestStreams HeadersAreReadable TreesAreWhole UrisReadBack ConfigReadsBack
PROPERTY ImplementsForest
VIEW View
CHECK_DEADLOCK FALSE
