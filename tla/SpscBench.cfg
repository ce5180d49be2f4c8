SPECIFICATION FairBenchSpec
CONSTANTS
    CAPACITY = 2
    WORD = 4
    Builds = {FALSE}
    DROP_PANICS = FALSE
    MAX_PUSH = 6
    ClientLocs = {"done"}
    N = 5
    WARMUP = 1
    RATE = 3
    TARGET_SECS = 2
    WARMUP_DIVISOR = 4
    MIN_N = 1
    MAX_N = 6
    TSC_HZ = 8
    ONE = 8
    U64_MAX = 15
    PIN_MAY_FAIL = TRUE
INVARIANT AllItemsSampled ScheduleDrift BackpressureIsReal
PROPERTY BenchTerminates
CHECK_DEADLOCK FALSE
