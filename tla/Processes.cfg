CONSTANTS
    Foci = {"shell", "shell child", "mapreduce", "runners"}
    MaxForks = 2
    MaxLines = 2
    MaxInts = 1
    Words = {"cmd", "f"}
    MaxWords = 5
    Texts <- MCTexts
    PortionTexts <- MCPortionTexts
    NMappers = 2
    PipeCap = 1
    RedCap = 1
    StdioBuf = 7
    Names = {"A", "B"}
    Inherited <- MCInherited
    EnvArgs <- MCEnvArgs
    MaxArgs = 3
SPECIFICATION PrSpec
INVARIANTS ChildrenKept ReducedRight CommandsRight
PROPERTIES ZombiesReaped ProgramsEnd
CHECK_DEADLOCK FALSE
