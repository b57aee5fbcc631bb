CONSTANTS
    Conns = {c1, c2}
    Verbs = {"GET", "PUT", "DELETE", "LIST", "OTHER"}
    Files = {f}
    NoName = NoName
    MaxSize = 2
    NoConn = NoConn
SPECIFICATION FairSpec
INVARIANT FilesSound
PROPERTY Served
CHECK_DEADLOCK FALSE
