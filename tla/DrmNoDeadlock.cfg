CONSTANTS
    Threads = {t1, t2}
    Drms = {d1, d2}
    None = None
SPECIFICATION Spec
INVARIANT NoDeadlock
CHECK_DEADLOCK FALSE
