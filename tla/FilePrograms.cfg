CONSTANTS
    INODES_NUMBER = 6
    NUM_DIRECT_BLOCKS = 2
    NUM_INDIRECT_BLOCKS = 3
    DATA_NUMBER = 6
    CELLS = 2
    Names = {a, b, c}
    Orders <- MCOrders
    Offsets = {3, 4}
    Counts = {3}
    MaxWrites = 2
    MaxUnlinks = 1
    PathArgs <- MCPathArgs
    CpArgs <- MCCpArgs
    MaxFd = 3
    MaxCalls = 4
    Specials = {0, 2}
    Inputs <- MCInputs
    BlockSizes = {2, 3}
    DdCounts <- MCCounts
    DdOffsets = {0, 1}
    Rooms = {3, 99}
    MaxSignals = 2
    Words <- MCWords
    MaxNodes = 3
    MaxTargets = 2
SPECIFICATION FSpec
INVARIANTS BlocksRight ReadBack FdsRight FileToolsRight
SYMMETRY NameSymmetry
CHECK_DEADLOCK FALSE
