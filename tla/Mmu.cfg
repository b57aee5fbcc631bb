CONSTANTS
    Pids = {0, 1}
    NUM_PHYSICAL_PAGES = 6
    NUM_ENTRIES = 3
    MAX_NODES = 2
    Pages = {0, 1, 3}
    Values = {1}
    MaxAdds = 3
    NULL = NULL
    RESERVED = RESERVED
SPECIFICATION Spec
INVARIANTS PageHolds FramesRight
CHECK_DEADLOCK FALSE
