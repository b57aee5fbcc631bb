CONSTANTS
    Threads = {t1, t2, t3, t4}
    Rounds = 3
    SemThreads = {p1, p2, p3, w1, w2, w3}
    Posters = {p1, p2, p3}
    Calls = 2
    InitVal = 1
    MaxVal = 2
    DrmThreads = {u1, u2, u3}
    Drms = {d1, d2}
    None = None
    QuoteLen = 2
    Elems = {1, 2, 3}
    MaxList = 4
    MaxThreads = 4
    TSThreads = {"m", "a", "b"}
    MainThread = "m"
    INIT_ARRAY_SIZE = 2
    TSCalls = 1
SPECIFICATION SSpec
INVARIANTS Synchronised GraphMatches ThreadResults
PROPERTY ThreadsReturn
CHECK_DEADLOCK FALSE
