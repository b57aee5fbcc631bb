CONSTANTS
    Threads = {p1, p2, p3, c1, c2}
    Producers = {p1, p2, p3}
    Pushes = 2
    Pulls = 2
    Data = {a, b}
    Node = {n1, n2}
    NULL = NULL
    MaxSize = 2
SPECIFICATION WSpec
INVARIANTS ListShape NoLostWakeup NoLeak
PROPERTIES FifoSpec AllReturn
