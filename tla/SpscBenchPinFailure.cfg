SPECIFICATION FairBenchSpec
CONSTANTS
    CAPACITY = 2
    WORD = 4
    Builds = {FALSE}
    DROP_PANICS = FALSE
    MAX_PUSH = 2
    ClientLocs = {"done"}
    N = 2
    WARMUP = 1
    RATE = 3
    TARGET_SECS = 2
    WARMUP_DIVISOR = 4
    MIN_N = 1
    MAX_N = 2
    TSC_HZ = 8
    ONE = 8
    U64_MAX = 15
    PIN_MAY_FAIL = TRUE
PROPERTY PinFailurePanics
CHECK_DEADLOCK FALSE
