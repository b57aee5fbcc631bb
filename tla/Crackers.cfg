CONSTANTS
    THREAD_COUNT = 3
    Letters = 2
    MaxDots = 2
    NTasks = 2
    Workers1 = {w1, w2}
    MaxLen = 3
    NTasks1 = 2
    AnyPrefix = FALSE
    NLetters = 3
    PASSWORD_LEN = 4
    MinIter = 1
    MaxIter = 81
    MaxInt = 130
SPECIFICATION CSpec
INVARIANTS SearchExhaustive ReportsRight
PROPERTY EveryoneEnds
CHECK_DEADLOCK FALSE
