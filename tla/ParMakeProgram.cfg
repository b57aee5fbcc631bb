CONSTANTS
    Makers = {t1, t2}
    NRules = 3
    Nobody = Nobody
    N = 3
    MaxGoals = 3
    MaxLines = 3
SPECIFICATION OSpec
INVARIANTS BuildSafe OrderRight ParserRight
PROPERTY AllWorkersExit
