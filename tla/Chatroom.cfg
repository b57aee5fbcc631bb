CONSTANTS
    Conns = {c1, c2, c3}
    MAX_CLIENTS = 2
    Talkers = {c1, c2}
    MaxMsgs = 1
    NoConn = NoConn
    SizeUnits = 2
    TextUnits = 2
    MaxTyped = 2
    MaxFrames = 2
    MaxSigint = 1
SPECIFICATION RoomSpec
INVARIANTS CountMatches Delivery ClientRight
PROPERTY PartiesLeave
CHECK_DEADLOCK FALSE
