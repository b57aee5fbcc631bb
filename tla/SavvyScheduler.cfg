CONSTANTS
    NJobs = 3
    Main = Main
    None = None
    Schemes = {"FCFS", "PRI", "PPRI", "PSRTF", "RR", "SJF"}
    MaxRunning = 2
    MaxOther = 1
    MaxLong = 1
    MaxPriority = 2
    MaxIdle = 1
    MAX_JOBS = 4
    MaxAlarms = 4
    MaxWork = 1
SPECIFICATION SSSpec
INVARIANTS QueueRight ContextsRight
PROPERTY AllFinish
CHECK_DEADLOCK FALSE
