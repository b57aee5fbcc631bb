CONSTANTS
    HeapSize = 11
    MaxRequest = 2
    SPLIT_TRESHOLD = 1
    Ptrs = {p1, p2, p3}
    MaxSize = 2
    MaxCalls = 5
    MaxForeign = 1
    MaxOpen = 3
    INITIAL_CAPACITY = 2
    GROWTH_FACTOR = 2
    Values = {"x", "y"}
    Default = ""
    MaxElems = 3
    Alphabet = {"a", "b"}
    MaxStr = 4
    MaxArg = 2
    MaxInput = 5
SPECIFICATION ASpec
INVARIANTS HeapSound ReportRight VectorRight StringsRight
CHECK_DEADLOCK FALSE
